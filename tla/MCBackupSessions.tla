--------------------------- MODULE MCBackupSessions ---------------------------
(***************************************************************************)
(* Instances of BackupSessions for TLC.                                    *)
(***************************************************************************)
EXTENDS BackupSessions, TLC

CONSTANTS postgres, postgres2, redis

\* Two postgres instances and a service without backups.
MCTypeName == [s \in Services |-> IF s = postgres2 THEN postgres ELSE s]

SessionSymmetry == Permutations(Session)
=============================================================================
