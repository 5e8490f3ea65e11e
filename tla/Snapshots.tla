------------------------------ MODULE Snapshots ------------------------------
(***************************************************************************)
(* The snapshot folders that backups leave on disk, as                     *)
(* internal/service/backup.go lays them out:                               *)
(*                                                                         *)
(*     .easy-infra/backups/<profile>/<service>/<stamp>                     *)
(*                                                                         *)
(* A folder holds one artifact (postgres.sql, or minio's manifest and      *)
(* objects).  What the sessions need to tell apart is whether the artifact *)
(* is whole, so a folder is "absent", "partial" or "complete".             *)
(*                                                                         *)
(* Neither the workspace nor anything else about the run is in the path,   *)
(* and the stamp is a wall-clock time with a resolution of one second: the *)
(* clock below is that second, and several runs may start within it.       *)
(***************************************************************************)
EXTENDS Integers

CONSTANTS
  Profiles,   \* profile names
  Services,   \* service instance ids ("postgres", "postgres-2", ...)
  TypeName,   \* the type name of each instance ("postgres" for both of those)
  MaxStamp    \* bound: the number of clock seconds an instance explores

ASSUME MaxStampAssumption == MaxStamp \in Nat \ {0}

VARIABLES
  folder,     \* the backups directory
  now         \* the current second of the wall clock

snapshotVars == <<folder, now>>

Names == Services \cup {TypeName[s] : s \in Services}

Stamps == 1 .. MaxStamp

Folder == [profile : Profiles, service : Names, stamp : Stamps]

Content == {"absent", "partial", "complete"}

SnapshotsTypeOK ==
  /\ folder \in [Folder -> Content]
  /\ now \in Stamps

SnapshotsInit ==
  /\ folder = [d \in Folder |-> "absent"]
  /\ now = 1

-----------------------------------------------------------------------------
(***************************************************************************)
(* Paths.                                                                  *)
(***************************************************************************)

SnapshotDir(profile, svc, id) ==
  [profile |-> profile, service |-> svc, stamp |-> id]

NewSnapshotDir(profile, svc) == SnapshotDir(profile, svc, now)

(***************************************************************************)
(* Every directory below <profile>/<service> is listed, whatever it holds. *)
(***************************************************************************)
ListSnapshots(profile, svc) ==
  {d \in Folder : /\ d.profile = profile
                  /\ d.service = svc
                  /\ folder[d] # "absent"}

(***************************************************************************)
(* The newest folder, as a set that is empty when there is none.           *)
(***************************************************************************)
LatestSnapshot(profile, svc) ==
  {d \in ListSnapshots(profile, svc) :
     \A e \in ListSnapshots(profile, svc) : e.stamp <= d.stamp}

-----------------------------------------------------------------------------
(***************************************************************************)
(* Effects on the disk.                                                    *)
(***************************************************************************)

(***************************************************************************)
(* os.MkdirAll and os.Create: an artifact that was there is truncated.     *)
(***************************************************************************)
CreateArtifact(d) == folder' = [folder EXCEPT ![d] = "partial"]

(***************************************************************************)
(* The last write of an artifact.  If the folder was removed meanwhile,    *)
(* the write goes to an unlinked file and nothing reappears.  If another   *)
(* run is writing the same file, either content may be what remains.       *)
(***************************************************************************)
CompleteArtifact(d, shared) ==
  \E c \in IF shared THEN {"partial", "complete"} ELSE {"complete"} :
    folder' = [folder EXCEPT ![d] = IF @ = "absent" THEN @ ELSE c]

RemoveAll(d) == folder' = [folder EXCEPT ![d] = "absent"]

(***************************************************************************)
(* A second passes.                                                        *)
(***************************************************************************)
Tick ==
  /\ now < MaxStamp
  /\ now' = now + 1
  /\ UNCHANGED folder
=============================================================================
