-------------------------- MODULE MCWorkspaceTransfer -------------------------
(***************************************************************************)
(* Instances of WorkspaceTransfer for TLC.                                 *)
(***************************************************************************)
EXTENDS WorkspaceTransfer, TLC

CONSTANTS a, dev, qa, postgres

MCWorkspaceNames == {<<a>>, <<a, 2>>}

\* Two profiles; a profile twice, and an active profile that is not there.
MCUserFiles ==
  UNION {{[name |-> <<a>>, profile |-> n, of |-> 0,
           profiles |-> {<<n, {<<postgres, 1>>}>>} \cup (rest \X {{}})],
          [name |-> <<a>>, profile |-> n, of |-> 0,
           profiles |-> rest \X SUBSET InstanceId]} :
         <<n, rest>> \in {<<n, ProfileNames \ {n}>> : n \in ProfileNames}}

Symmetry == Permutations(ProfileNames)
=============================================================================
