--------------------------- MODULE MCObjectStore ---------------------------
(* A small object store: a file in a folder, one in its sub-folder, and the *)
(* marker that other clients write for a folder.                           *)
EXTENDS ObjectStore

MCKey == {<<"d", "y">>, <<"d", "e", "z">>, <<"d", "">>}

Symmetry == Permutations(Job) \cup Permutations(Content)
=============================================================================
