--------------------------------- MODULE MCUi ---------------------------------
(***************************************************************************)
(* Instances of Ui for TLC.                                                *)
(***************************************************************************)
EXTENDS Ui, TLC

CONSTANTS k1, k2, d, all, some, none, r1, r2, p1, p2, s1, s2, s3, j1, j2, build1

MCLevel == (k1 :> Root) @@ (k2 :> d) @@ (d :> Root)
MCMatches == (all :> <<r1, r2>>) @@ (some :> <<r2>>) @@ (none :> <<>>)
MCSnapshotsOf == (p1 :> {s1, s3}) @@ (p2 :> {s2})
MCBuildsOf == (j1 :> {build1}) @@ (j2 :> {})
MCBody == <<"a">>
=============================================================================
