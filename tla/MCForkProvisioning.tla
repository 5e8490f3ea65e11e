------------------------- MODULE MCForkProvisioning -------------------------
(***************************************************************************)
(* Two workspaces that fork MinIO with different credentials: both publish *)
(* the console's port besides the one that is chosen, and choosing that    *)
(* one is a clash.                                                         *)
(***************************************************************************)
EXTENDS ForkProvisioning

CONSTANTS fork1, fork2, minio, alice, bob

MCBox(f) == minio
MCCred(f) == IF f = fork1 THEN alice ELSE bob
MCExtra(f) == {<<3, "console">>}
=============================================================================
