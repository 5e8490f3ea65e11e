---------------------------- MODULE BackupSessions ----------------------------
(***************************************************************************)
(* Backup, apply and fork sessions: the HTTP handlers of                   *)
(* internal/server/backup.go and fork.go, the backupManager and the        *)
(* goroutine it starts per session, the SQLite session store of            *)
(* internal/backup/store.go and the snapshot folders (module Snapshots).   *)
(*                                                                         *)
(* A session is a row in the database and, while it runs, a goroutine.     *)
(* The goroutine runs the service's Backup, Provision or Apply, then takes *)
(* itself out of the manager's cancel map, cleans up, and only then writes *)
(* the terminal status: each of these is a step of its own here, since the *)
(* process can stop, a user can cancel or delete, and other sessions can   *)
(* run between any two of them.                                            *)
(*                                                                         *)
(* One SQL statement is one step (the store has a single connection).      *)
(* Start holds the manager's mutex over its lookup and its insert, so it   *)
(* is one step.  Log lines other than the first of a session are in module *)
(* SessionPolling; containers and the "local" profile are not modelled     *)
(* here: provisioning is a step that succeeds or fails.                    *)
(***************************************************************************)
EXTENDS Snapshots

CONSTANTS
  Session,       \* random 128-bit ids: each is given out once
  Workspaces,
  LocalProfile,  \* the profile forks are recorded under
  Supported,     \* services with Backup, Apply and Provision (postgres, minio);
                 \* the others answer ErrNotImplemented
  Request,       \* DELETE requests that may be in flight at once
  None,          \* no plan yet; no session
  Kinds,         \* bound: the kinds of session that users ask for
  StoreMayFail   \* whether the environment loses store writes (disk full, busy)

ASSUME KindsAssumption == Kinds \subseteq {"backup", "apply", "fork"}
ASSUME ServicesAssumption == Supported \subseteq Services
ASSUME LocalAssumption == LocalProfile \in Profiles
ASSUME StoreMayFailAssumption == StoreMayFail \in BOOLEAN

VARIABLES
  db,        \* the server process and its lazily opened store
  row,       \* backup_sessions: the columns that change
  plan,      \* the columns that do not, and what the run closure captured
  pc,        \* where the session's goroutine is
  err,       \* what run returned
  cancels,   \* the keys of backupManager.cancels
  ctxDone,   \* sessions whose context was cancelled
  logged,    \* sessions that have lines in backup_logs
  del,       \* the DELETE handlers in flight
  cut,       \* sessions whose DELETE stopped half-way (crash, store failure)
  restored   \* what an apply or fork read from disk

sessionVars == <<db, row, plan, pc, err, cancels, ctxDone, logged, del, cut, restored>>
vars == <<folder, now, sessionVars>>

-----------------------------------------------------------------------------
(***************************************************************************)
(* Types.                                                                  *)
(***************************************************************************)

Ended == {"success", "unsupported", "error", "cancelled"}

Status == Ended \cup {"running"}

\* "none" is the absence of the row; snapshot 0 is the empty string.
Row == [status : Status \cup {"none"}, snapshot : 0 .. MaxStamp]

Plan == [ws : Workspaces, service : Services, profile : Profiles,
         kind : {"backup", "apply", "fork"},
         snapshot : 0 .. MaxStamp,  \* recorded on success
         source : Profiles,         \* the profile snapshots are read from
         fresh : BOOLEAN]           \* the run writes a snapshot of its own

Working == {"queued", "backup", "dumping", "provision", "apply", "restoring"}

Live == Working \cup {"returned", "unregistered", "cleaned"}

PC == {"unborn", "done", "killed"} \cup Live

DeleteStep == {"idle", "row", "logs", "folder"}

Del == [step : DeleteStep, id : Session \cup {None}, snapshot : 0 .. MaxStamp]

Idle == [step |-> "idle", id |-> None, snapshot |-> 0]

TypeOK ==
  /\ SnapshotsTypeOK
  /\ db \in {"unopened", "open", "failed"}
  /\ row \in [Session -> Row]
  /\ plan \in [Session -> Plan \cup {None}]
  /\ pc \in [Session -> PC]
  /\ err \in [Session -> {"nil", "notimpl", "canceled", "error"}]
  /\ cancels \in SUBSET Session
  /\ ctxDone \in SUBSET Session
  /\ logged \in SUBSET Session
  /\ del \in [Request -> Del]
  /\ cut \in SUBSET Session
  /\ restored \in [Session -> Content \cup {"nothing"}]
  /\ \A s \in Session : pc[s] # "unborn" => plan[s] \in Plan
  /\ \A r \in Request : del[r].step # "idle" => del[r].id \in Session

Init ==
  /\ SnapshotsInit
  /\ db = "unopened"
  /\ row = [s \in Session |-> [status |-> "none", snapshot |-> 0]]
  /\ plan = [s \in Session |-> None]
  /\ pc = [s \in Session |-> "unborn"]
  /\ err = [s \in Session |-> "nil"]
  /\ cancels = {}
  /\ ctxDone = {}
  /\ logged = {}
  /\ del = [r \in Request |-> Idle]
  /\ cut = {}
  /\ restored = [s \in Session |-> "nothing"]

-----------------------------------------------------------------------------
(***************************************************************************)
(* The process and its store.                                              *)
(***************************************************************************)

(***************************************************************************)
(* The process stops, at any point, and is started again: goroutines, the  *)
(* cancel map and requests are lost, the database and the disk are not.    *)
(* The new process has not opened the store yet.                           *)
(***************************************************************************)
Restart ==
  /\ db # "unopened"
  /\ db' = "unopened"
  /\ pc' = [s \in Session |-> IF pc[s] \in Live THEN "killed" ELSE pc[s]]
  /\ cancels' = {}
  /\ cut' = cut \cup {s \in Session : \E r \in Request : del[r].step \in {"logs", "folder"}
                                                        /\ del[r].id = s}
  /\ del' = [r \in Request |-> Idle]
  /\ UNCHANGED <<folder, now, row, plan, err, ctxDone, logged, restored>>

ReconcileEveryRow(r) == [status |-> "error", snapshot |-> r.snapshot]

ReconcileNothing(r) == r

(***************************************************************************)
(* migrate: UPDATE ... SET status = 'error' WHERE status = 'running'.  The *)
(* snapshot column is left alone, and so are the folders on disk.          *)
(***************************************************************************)
Reconcile(r) ==
  IF r.status = "running" THEN [status |-> "error", snapshot |-> r.snapshot] ELSE r

(***************************************************************************)
(* The first handler that needs the store opens it.  sync.Once memoizes    *)
(* the outcome: after a failure every handler fails until the next start.  *)
(***************************************************************************)
OpenStore ==
  /\ db = "unopened"
  /\ db' = "open"
  /\ row' = [s \in Session |-> Reconcile(row[s])]
  /\ UNCHANGED <<folder, now, plan, pc, err, cancels, ctxDone, logged, del, cut, restored>>

OpenFails ==
  /\ db = "unopened"
  /\ StoreMayFail
  /\ db' = "failed"
  /\ UNCHANGED <<folder, now, row, plan, pc, err, cancels, ctxDone, logged, del, cut, restored>>

-----------------------------------------------------------------------------
(***************************************************************************)
(* Starting sessions.                                                      *)
(***************************************************************************)

SameKey(p, q) ==
  /\ p.ws = q.ws
  /\ p.service = q.service
  /\ p.profile = q.profile
  /\ p.kind = q.kind

NoneRunning(p) == TRUE

\* ~RunningForService; a request that finds one re-attaches and changes nothing.
NotRunning(p) ==
  \A s \in Session : row[s].status = "running" => ~SameKey(plan[s], p)

(***************************************************************************)
(* backupManager.Start, under its mutex.                                   *)
(***************************************************************************)
Start(s, p) ==
  /\ db = "open"
  /\ pc[s] = "unborn"
  /\ p.kind \in Kinds
  /\ NotRunning(p)
  /\ row' = [row EXCEPT ![s] = [status |-> "running", snapshot |-> 0]]
  /\ plan' = [plan EXCEPT ![s] = p]
  /\ pc' = [pc EXCEPT ![s] = "queued"]
  /\ cancels' = cancels \cup {s}
  /\ UNCHANGED <<folder, now, db, err, ctxDone, logged, del, cut, restored>>

StartBackup(s) ==
  \E w \in Workspaces, v \in Services, p \in Profiles :
    Start(s, [ws |-> w, service |-> v, profile |-> p, kind |-> "backup",
              snapshot |-> now, source |-> p, fresh |-> TRUE])

\* Snapshot 0 asks for the latest; any other was offered by ListSnapshots.
StartApply(s) ==
  \E w \in Workspaces, v \in Services, p \in Profiles, src \in Profiles :
    \E n \in {0} \cup {d.stamp : d \in ListSnapshots(src, v)} :
      Start(s, [ws |-> w, service |-> v, profile |-> p, kind |-> "apply",
                snapshot |-> n, source |-> src, fresh |-> FALSE])

(***************************************************************************)
(* handleStartFork: from a snapshot of the source profile, from a backup   *)
(* taken first (its folder reserved now), or, for a service that cannot be *)
(* provisioned, a session that only reports so.                            *)
(***************************************************************************)
StartFork(s) ==
  \E w \in Workspaces, v \in Services, src \in Profiles :
    LET Fork(n, new) == [ws |-> w, service |-> v, profile |-> LocalProfile, kind |-> "fork",
                         snapshot |-> n, source |-> src, fresh |-> new]
    IN  \/ v \notin Supported /\ Start(s, Fork(0, FALSE))
        \/ v \in Supported /\ Start(s, Fork(now, TRUE))
        \/ /\ v \in Supported
           /\ \E d \in ListSnapshots(src, v) : Start(s, Fork(d.stamp, FALSE))

\* handleCancelBackup: a no-op unless the id is in the map.
Cancel(s) ==
  /\ db = "open"
  /\ s \in cancels
  /\ ctxDone' = ctxDone \cup {s}
  /\ UNCHANGED <<folder, now, db, row, plan, pc, err, cancels, logged, del, cut, restored>>

-----------------------------------------------------------------------------
(***************************************************************************)
(* The run closures.                                                       *)
(***************************************************************************)

\* The folder a backup, or a fork that backs up first, writes.
NewDir(s) == SnapshotDir(plan[s].source, plan[s].service, plan[s].snapshot)

(***************************************************************************)
(* The folder Apply restores, a set that is empty when there is none.  It  *)
(* is looked up under the service's type name, not its instance id.        *)
(***************************************************************************)
SourceDirs(s) ==
  LET type == TypeName[plan[s].service]
  IN  IF plan[s].snapshot = 0
      THEN LatestSnapshot(plan[s].source, type)
      ELSE {d \in ListSnapshots(plan[s].source, type) : d.stamp = plan[s].snapshot}

Goto(s, from, to) ==
  /\ pc[s] = from
  /\ pc' = [pc EXCEPT ![s] = to]

\* run returned: w.flush() follows with no step of another actor in between.
Return(s, e) ==
  /\ pc' = [pc EXCEPT ![s] = "returned"]
  /\ err' = [err EXCEPT ![s] = e]

ForkNeverBacksUp(p) ==
  IF p.kind = "fork" THEN "provision" ELSE IF p.fresh THEN "backup" ELSE "apply"

FirstPhase(p) ==
  IF p.fresh THEN "backup" ELSE IF p.kind = "fork" THEN "provision" ELSE "apply"

\* The first log line (an error of AppendLog is discarded); an unsupported service
\* returns at once.
Begin(s) ==
  /\ pc[s] = "queued"
  /\ \/ logged' = logged \cup {s}
     \/ StoreMayFail /\ UNCHANGED logged
  /\ \/ /\ plan[s].service \in Supported
        /\ pc' = [pc EXCEPT ![s] = FirstPhase(plan[s])]
        /\ UNCHANGED err
     \/ /\ plan[s].service \notin Supported
        /\ Return(s, "notimpl")
  /\ UNCHANGED <<folder, now, db, row, plan, cancels, ctxDone, del, cut, restored>>

\* Backup connects first, which fails under a cancelled context.
BackupOpen(s) ==
  /\ Goto(s, "backup", "dumping")
  /\ s \notin ctxDone
  /\ CreateArtifact(NewDir(s))
  /\ UNCHANGED <<now, db, row, plan, err, cancels, ctxDone, logged, del, cut, restored>>

\* A cancellation after the last read goes unnoticed.
BackupDone(s) ==
  /\ pc[s] = "dumping"
  /\ CompleteArtifact(NewDir(s), \E t \in Session \ {s} : pc[t] = "dumping" /\ NewDir(t) = NewDir(s))
  /\ \/ plan[s].kind = "backup" /\ Return(s, "nil")
     \/ plan[s].kind = "fork" /\ Goto(s, "dumping", "provision") /\ UNCHANGED err
  /\ UNCHANGED <<now, db, row, plan, cancels, ctxDone, logged, del, cut, restored>>

ProvisionDone(s) ==
  /\ Goto(s, "provision", "apply")
  /\ UNCHANGED <<folder, now, db, row, plan, err, cancels, ctxDone, logged, del, cut, restored>>

\* The artifact is opened; without one there is nothing to restore, and no error.
ApplyOpen(s) ==
  /\ pc[s] = "apply"
  /\ \/ \E d \in SourceDirs(s) :
          /\ s \notin ctxDone
          /\ Goto(s, "apply", "restoring")
          /\ restored' = [restored EXCEPT ![s] = folder[d]]
          /\ UNCHANGED err
     \/ /\ SourceDirs(s) = {}
        /\ Return(s, "nil")
        /\ UNCHANGED restored
  /\ UNCHANGED <<folder, now, db, row, plan, cancels, ctxDone, logged, del, cut>>

ApplyDone(s) ==
  /\ pc[s] = "restoring"
  /\ Return(s, "nil")
  /\ UNCHANGED <<folder, now, db, row, plan, cancels, ctxDone, logged, del, cut, restored>>

(***************************************************************************)
(* A call of the run fails.  With the context cancelled the error is       *)
(* context.Canceled, or any other when the call does not wrap it (a docker *)
(* command killed by its context); the run may also finish all the same.   *)
(***************************************************************************)
RunFails(s) ==
  /\ pc[s] \in Working \ {"queued"}
  /\ \E e \in {"error"} \cup (IF s \in ctxDone THEN {"canceled"} ELSE {}) : Return(s, e)
  /\ UNCHANGED <<folder, now, db, row, plan, cancels, ctxDone, logged, del, cut, restored>>

Work(s) ==
  \/ BackupOpen(s) \/ BackupDone(s) \/ ProvisionDone(s)
  \/ ApplyOpen(s) \/ ApplyDone(s) \/ RunFails(s)

-----------------------------------------------------------------------------
(***************************************************************************)
(* After the run.                                                          *)
(***************************************************************************)

Unregister(s) ==
  /\ Goto(s, "returned", "unregistered")
  /\ cancels' = cancels \ {s}
  /\ UNCHANGED <<folder, now, db, row, plan, err, ctxDone, logged, del, cut, restored>>

CleansUpAlways(s) == plan[s].fresh

\* cleanup is not nil, and the outcome is a failure or a cancellation.
CleansUp(s) == plan[s].fresh /\ err[s] \in {"canceled", "error"}

Cleanup(s) ==
  /\ Goto(s, "unregistered", "cleaned")
  /\ CleansUp(s)
  /\ RemoveAll(NewDir(s))
  /\ UNCHANGED <<now, db, row, plan, err, cancels, ctxDone, logged, del, cut, restored>>

ReadyInAnyOrder(s) == pc[s] \in {"unregistered", "cleaned"}

ReadyToFinish(s) ==
  \/ pc[s] = "cleaned"
  \/ pc[s] = "unregistered" /\ ~CleansUp(s)

Outcome(s) ==
  CASE err[s] = "nil"      -> [status |-> "success", snapshot |-> plan[s].snapshot]
    [] err[s] = "notimpl"  -> [status |-> "unsupported", snapshot |-> 0]
    [] err[s] = "canceled" -> [status |-> "cancelled", snapshot |-> 0]
    [] err[s] = "error"    -> [status |-> "error", snapshot |-> 0]

\* UPDATE ... WHERE id = ?: it never brings a deleted row back.
Finish(s) ==
  /\ ReadyToFinish(s)
  /\ row' = [row EXCEPT ![s] = IF @.status = "none" THEN @ ELSE Outcome(s)]
  /\ pc' = [pc EXCEPT ![s] = "done"]
  /\ UNCHANGED <<folder, now, db, plan, err, cancels, ctxDone, logged, del, cut, restored>>

\* The error of Finish is discarded: the row stays as it is.
FinishIsLost(s) ==
  /\ StoreMayFail
  /\ ReadyToFinish(s)
  /\ pc' = [pc EXCEPT ![s] = "done"]
  /\ UNCHANGED <<folder, now, db, row, plan, err, cancels, ctxDone, logged, del, cut, restored>>

-----------------------------------------------------------------------------
(***************************************************************************)
(* handleDeleteBackup: read the row, delete the row, delete its log lines, *)
(* remove the snapshot folder.                                             *)
(***************************************************************************)

MayDeleteAny(s) == row[s].status # "none"

\* A running session is refused with 409, an unknown one with 404.
MayDelete(s) == row[s].status \in Ended

DeleteGet(r, s) ==
  /\ db = "open"
  /\ del[r].step = "idle"
  /\ MayDelete(s)
  /\ del' = [del EXCEPT ![r] = [step |-> "row", id |-> s, snapshot |-> row[s].snapshot]]
  /\ UNCHANGED <<folder, now, db, row, plan, pc, err, cancels, ctxDone, logged, cut, restored>>

DeleteRow(r) ==
  /\ del[r].step = "row"
  /\ \/ /\ row[del[r].id].status # "none"
        /\ row' = [row EXCEPT ![del[r].id] = [status |-> "none", snapshot |-> 0]]
        /\ del' = [del EXCEPT ![r].step = "logs"]
     \/ /\ row[del[r].id].status = "none"  \* another request was faster
        /\ del' = [del EXCEPT ![r] = Idle]
        /\ UNCHANGED row
  /\ UNCHANGED <<folder, now, db, plan, pc, err, cancels, ctxDone, logged, cut, restored>>

SkipFolder(n) == "idle"

AfterLogs(n) == IF n = 0 THEN "idle" ELSE "folder"

DeleteLogs(r) ==
  /\ del[r].step = "logs"
  /\ logged' = logged \ {del[r].id}
  /\ LET next == AfterLogs(del[r].snapshot)
     IN  del' = [del EXCEPT ![r] = IF next = "idle" THEN Idle ELSE [@ EXCEPT !.step = next]]
  /\ UNCHANGED <<folder, now, db, row, plan, pc, err, cancels, ctxDone, cut, restored>>

\* The folder that the row itself names.
RowDir(s, n) == SnapshotDir(plan[s].profile, plan[s].service, n)

DeleteFolder(r) ==
  /\ del[r].step = "folder"
  /\ RemoveAll(RowDir(del[r].id, del[r].snapshot))
  /\ del' = [del EXCEPT ![r] = Idle]
  /\ UNCHANGED <<now, db, row, plan, pc, err, cancels, ctxDone, logged, cut, restored>>

\* A statement fails: 500, and the steps after it are not taken.
DeleteFails(r) ==
  /\ StoreMayFail
  /\ del[r].step \in {"row", "logs"}
  /\ cut' = IF del[r].step = "logs" THEN cut \cup {del[r].id} ELSE cut
  /\ del' = [del EXCEPT ![r] = Idle]
  /\ UNCHANGED <<folder, now, db, row, plan, pc, err, cancels, ctxDone, logged, restored>>

-----------------------------------------------------------------------------
Process == Restart \/ OpenStore \/ OpenFails

User(s) ==
  StartBackup(s) \/ StartApply(s) \/ StartFork(s) \/ Cancel(s)

Goroutine(s) ==
  Begin(s) \/ Work(s) \/ Unregister(s) \/ Cleanup(s) \/ Finish(s) \/ FinishIsLost(s)

Deletion(r) ==
  \/ \E s \in Session : DeleteGet(r, s)
  \/ DeleteRow(r) \/ DeleteLogs(r) \/ DeleteFolder(r) \/ DeleteFails(r)

Next ==
  \/ Process
  \/ \E s \in Session : User(s) \/ Goroutine(s)
  \/ \E r \in Request : Deletion(r)
  \/ Tick /\ UNCHANGED sessionVars

Spec == Init /\ [][Next]_vars

(***************************************************************************)
(* The goroutine is scheduled, a call whose context is cancelled returns,  *)
(* and after a restart some request needs the store (the UI lists the      *)
(* sessions).  Nothing makes a call return whose context is not cancelled, *)
(* and nothing makes the user act.                                         *)
(***************************************************************************)
Fairness ==
  /\ WF_vars(OpenStore \/ OpenFails)
  /\ \A s \in Session :
       /\ WF_vars(s \in ctxDone /\ (Begin(s) \/ Work(s)))
       /\ WF_vars(Unregister(s) \/ Cleanup(s) \/ Finish(s) \/ FinishIsLost(s))

LiveSpec == Spec /\ Fairness

-----------------------------------------------------------------------------
(***************************************************************************)
(* Safety.                                                                 *)
(***************************************************************************)

Running(s) == row[s].status = "running"

\* At most one session of a workspace, service, profile and kind is running:
\* a second Start re-attaches to the first (RunningForService, under the mutex).
OneRunningPerKey ==
  \A s, t \in Session :
    Running(s) /\ Running(t) /\ SameKey(plan[s], plan[t]) => s = t

\* While a session's goroutine lives its row says "running": the status is the
\* goroutine's last act, and no DELETE takes the row away before it.
LiveIsRunning ==
  \A s \in Session : pc[s] \in Live => Running(s)

\* With the store open, and no write lost, every "running" row has a goroutine:
\* no session is left running for ever, blocking its key.
RunningIsLive ==
  db = "open" /\ ~StoreMayFail => \A s \in Session : Running(s) => pc[s] \in Live

\* The session writes a snapshot folder of its own.
Produces(s) ==
  pc[s] # "unborn" /\ plan[s].fresh /\ plan[s].service \in Supported

\* No other session was given the same folder to write (the same second).
SoleProducer(s) ==
  \A t \in Session \ {s} : Produces(t) => NewDir(t) # NewDir(s)

\* Nor does the row of another session name it.
SoleOwner(s) ==
  /\ SoleProducer(s)
  /\ \A t \in Session \ {s} :
       pc[t] # "unborn" => RowDir(t, plan[t].snapshot) # NewDir(s)

\* Once a client can see that a session was cancelled or failed, the folder it
\* was writing is gone, unless the process stopped under it.
FailedLeavesNoSnapshot ==
  \A s \in Session :
    /\ Produces(s) /\ SoleProducer(s)
    /\ row[s].status \in {"cancelled", "error"}
    /\ pc[s] # "killed" /\ err[s] # "nil"
    => folder[NewDir(s)] = "absent"

\* A backup (or a fork's own backup) that is reported as a success is whole on
\* disk, as long as no other session shares the folder.
SuccessKeepsSnapshot ==
  \A s \in Session :
    Produces(s) /\ SoleOwner(s) /\ row[s].status = "success"
    => folder[NewDir(s)] = "complete"

Deleted(s) ==
  /\ pc[s] = "done" /\ row[s].status = "none" /\ s \notin cut
  /\ \A r \in Request : del[r].id # s

\* After DELETE, whichever of several requests did it, neither log lines nor
\* a backup's folder remain, unless the process stopped half-way.
DeleteLeavesNothing ==
  ~StoreMayFail =>
    \A s \in Session : Deleted(s) =>
      /\ s \notin logged
      /\ plan[s].kind = "backup" /\ Produces(s) /\ SoleProducer(s)
           => folder[NewDir(s)] = "absent"

\* A fork that takes its own backup and succeeds has restored that backup, whole,
\* as long as no other session shares the folder and the instance bears its
\* type's name.
ForkRestoresItsBackup ==
  \A s \in Session :
    /\ Produces(s) /\ SoleOwner(s) /\ plan[s].kind = "fork"
    /\ plan[s].service = TypeName[plan[s].service]
    /\ row[s].status = "success"
    => restored[s] = "complete"

\* An outcome is final: neither a restart, a late goroutine nor anything else
\* rewrites the row of an ended session; it can only be deleted.
OutcomeIsFinal ==
  [][\A s \in Session : row[s].status \in Ended =>
       row'[s] = row[s] \/ row'[s].status = "none"]_vars

-----------------------------------------------------------------------------
(***************************************************************************)
(* What clients of the API rely on (module SessionLifecycle).              *)
(***************************************************************************)

KeyOf(p) == [ws |-> p.ws, service |-> p.service, profile |-> p.profile, kind |-> p.kind]

stateBar ==
  [s \in Session |->
     IF pc[s] = "unborn" THEN "unborn"
     ELSE IF row[s].status = "none" THEN "deleted" ELSE row[s].status]

keyBar == [s \in Session |-> IF pc[s] = "unborn" THEN None ELSE KeyOf(plan[s])]

Lifecycle == INSTANCE SessionLifecycle WITH
  Keys <- [ws : Workspaces, service : Services, profile : Profiles,
           kind : {"backup", "apply", "fork"}],
  NoKey <- None, state <- stateBar, key <- keyBar

\* The handlers, goroutines and store implement the life of a session that
\* clients see, restarts, cancellations and lost writes included.
ImplementsLifecycle == Lifecycle!AbstractSpec

-----------------------------------------------------------------------------
(***************************************************************************)
(* Liveness (under LiveSpec).                                              *)
(***************************************************************************)

\* A session whose run has returned, was cancelled or was interrupted by a crash
\* does not stay "running", unless the store cannot be opened or loses the write of
\* its end, which stands until the server is started again.
FinishWasLost(s) == StoreMayFail /\ pc[s] = "done"

Settles ==
  \A s \in Session :
    (Running(s) /\ (pc[s] \notin Working \/ s \in ctxDone))
      ~> (~Running(s) \/ db = "failed" \/ FinishWasLost(s))

-----------------------------------------------------------------------------
(***************************************************************************)
(* What comments in the code say and the code does not do.                 *)
(***************************************************************************)

\* backup.go, handleDeleteBackup: a DELETE removes a session and "the snapshot
\* folder it produced", so the snapshot of a listed backup that no other session
\* writes stays on disk.
ListedBackupIsOnDisk ==
  \A s \in Session :
    Produces(s) /\ SoleProducer(s) /\ plan[s].kind = "backup" /\ row[s].status = "success"
    => folder[NewDir(s)] = "complete"

\* fork.go, handleStartFork: a fork "restores the chosen snapshot into" the local
\* container, whichever instance of its type the service is.
ForkRestoresChosen ==
  \A s \in Session :
    Produces(s) /\ SoleOwner(s) /\ plan[s].kind = "fork" /\ row[s].status = "success"
    => restored[s] = "complete"
=============================================================================
