------------------------- MODULE BackupSessionsProofs -------------------------
(***************************************************************************)
(* Proofs about BackupSessions, for every number of sessions, requests,    *)
(* workspaces, profiles and services, with and without lost writes.        *)
(***************************************************************************)
EXTENDS BackupSessions, TLAPS

(***************************************************************************)
(* Whichever handler starts a session, the plan it captures is well typed. *)
(***************************************************************************)
LEMMA StartsAPlan ==
  ASSUME TypeOK, NEW s \in Session,
         StartBackup(s) \/ StartApply(s) \/ StartFork(s)
  PROVE  \E p \in Plan : Start(s, p)
<1>0. /\ now \in 0 .. MaxStamp /\ 0 \in 0 .. MaxStamp
      /\ \A d \in Folder : d.stamp \in 0 .. MaxStamp
  BY MaxStampAssumption DEF TypeOK, SnapshotsTypeOK, Stamps, Folder
<1>1. CASE StartBackup(s)
  BY <1>0, <1>1 DEF StartBackup, Plan
<1>2. CASE StartApply(s)
  <2>1. PICK w \in Workspaces, v \in Services, p \in Profiles, src \in Profiles :
          \E n \in {0} \cup {d.stamp : d \in ListSnapshots(src, v)} :
            Start(s, [ws |-> w, service |-> v, profile |-> p, kind |-> "apply",
                      snapshot |-> n, source |-> src, fresh |-> FALSE])
    BY <1>2 DEF StartApply
  <2>2. PICK n \in {0} \cup {d.stamp : d \in ListSnapshots(src, v)} :
            Start(s, [ws |-> w, service |-> v, profile |-> p, kind |-> "apply",
                      snapshot |-> n, source |-> src, fresh |-> FALSE])
    BY <2>1
  <2>3. n \in 0 .. MaxStamp
    BY <1>0 DEF ListSnapshots
  <2>. QED  BY <2>2, <2>3 DEF Plan
<1>3. CASE StartFork(s)
  <2>1. PICK w \in Workspaces, v \in Services, src \in Profiles :
          \E n \in 0 .. MaxStamp, new \in BOOLEAN :
            Start(s, [ws |-> w, service |-> v, profile |-> LocalProfile, kind |-> "fork",
                      snapshot |-> n, source |-> src, fresh |-> new])
    BY <1>0, <1>3 DEF StartFork, ListSnapshots
  <2>. QED  BY <2>1, LocalAssumption DEF Plan
<1>. QED  BY <1>1, <1>2, <1>3

-----------------------------------------------------------------------------
(***************************************************************************)
(* Type correctness.                                                       *)
(***************************************************************************)

\* The type invariant holds initially and is kept by every handler, goroutine
\* and process step.
LEMMA InitTypeOK == Init => TypeOK
  BY MaxStampAssumption
  DEF Init, TypeOK, SnapshotsInit, SnapshotsTypeOK, Stamps, Content, Row, PC, DeleteStep, Del, Idle

LEMMA CompleteArtifactType ==
  ASSUME folder \in [Folder -> Content], NEW d, NEW shared \in BOOLEAN,
         CompleteArtifact(d, shared)
  PROVE  folder' \in [Folder -> Content]
<1>1. PICK c \in Content :
        folder' = [folder EXCEPT ![d] = IF @ = "absent" THEN @ ELSE c]
  BY DEF CompleteArtifact, Content
<1>. QED  BY <1>1 DEF Content

LEMMA GoroutineTypeOK ==
  ASSUME TypeOK, NEW s \in Session, Goroutine(s)
  PROVE  TypeOK'
<1>. USE DEF TypeOK, SnapshotsTypeOK, PC, Live, Working
<1>1. CASE Begin(s)
  BY <1>1 DEF Begin, Return, FirstPhase
<1>2. CASE BackupOpen(s)
  BY <1>2 DEF BackupOpen, Goto, CreateArtifact, Content
<1>3. CASE BackupDone(s)
  <2>1. folder' \in [Folder -> Content]
    BY <1>3, CompleteArtifactType DEF BackupDone
  <2>2. pc' \in [Session -> PC] /\ err' \in [Session -> {"nil", "notimpl", "canceled", "error"}]
    BY <1>3 DEF BackupDone, Goto, Return
  <2>3. \A t \in Session : pc'[t] # "unborn" => plan[t] \in Plan
    BY <1>3 DEF BackupDone, Goto, Return
  <2>. QED  BY <1>3, <2>1, <2>2, <2>3 DEF BackupDone
<1>4. CASE ProvisionDone(s)
  BY <1>4 DEF ProvisionDone, Goto
<1>5. CASE ApplyOpen(s)
  <2>1. \A d \in SourceDirs(s) : folder[d] \in Content
    BY DEF SourceDirs, LatestSnapshot, ListSnapshots
  <2>. QED  BY <1>5, <2>1 DEF ApplyOpen, Goto, Return
<1>6. CASE ApplyDone(s)
  BY <1>6 DEF ApplyDone, Return
<1>7. CASE RunFails(s)
  BY <1>7 DEF RunFails, Return
<1>8. CASE Unregister(s)
  BY <1>8 DEF Unregister, Goto
<1>9. CASE Cleanup(s)
  BY <1>9 DEF Cleanup, Goto, RemoveAll, Content
<1>10. CASE Finish(s)
  <2>1. plan[s] \in Plan
    BY <1>10 DEF Finish, ReadyToFinish
  <2>2. plan[s].snapshot \in 0 .. MaxStamp /\ 0 \in 0 .. MaxStamp
    BY <2>1, MaxStampAssumption DEF Plan
  <2>3. err[s] \in {"nil", "notimpl", "canceled", "error"}
    OBVIOUS
  <2>4. Outcome(s) \in Row
    <3>1. CASE err[s] = "nil"
      BY <2>2, <3>1 DEF Outcome, Row, Status, Ended
    <3>2. CASE err[s] = "notimpl"
      BY <2>2, <3>2 DEF Outcome, Row, Status, Ended
    <3>3. CASE err[s] = "canceled"
      BY <2>2, <3>3 DEF Outcome, Row, Status, Ended
    <3>4. CASE err[s] = "error"
      BY <2>2, <3>4 DEF Outcome, Row, Status, Ended
    <3>. QED  BY <2>3, <3>1, <3>2, <3>3, <3>4
  <2>. QED  BY <1>10, <2>1, <2>4 DEF Finish
<1>11. CASE FinishIsLost(s)
  BY <1>11 DEF FinishIsLost, ReadyToFinish
<1>. QED
  BY <1>1, <1>2, <1>3, <1>4, <1>5, <1>6, <1>7, <1>8, <1>9, <1>10, <1>11 DEF Goroutine, Work

LEMMA DelTypes ==
  /\ Idle \in Del
  /\ \A e \in Del, t \in DeleteStep : [e EXCEPT !.step = t] \in Del
  /\ \A e \in Del : e.snapshot \in 0 .. MaxStamp /\ e.step \in DeleteStep
  BY MaxStampAssumption DEF Idle, Del, DeleteStep

LEMMA DeletionTypeOK ==
  ASSUME TypeOK, NEW r \in Request, Deletion(r)
  PROVE  TypeOK'
<1>. USE DEF TypeOK, SnapshotsTypeOK
<1>0. del[r] \in Del
  OBVIOUS
<1>1. ASSUME NEW s \in Session, DeleteGet(r, s)
      PROVE  TypeOK'
  BY <1>1 DEF DeleteGet, Row, Del, DeleteStep
<1>2. CASE DeleteRow(r)
  <2>1. [status |-> "none", snapshot |-> 0] \in Row
    BY MaxStampAssumption DEF Row
  <2>2. row' \in [Session -> Row]
    BY <1>2, <2>1 DEF DeleteRow
  <2>3. del' = [del EXCEPT ![r] = Idle] \/ del' = [del EXCEPT ![r].step = "logs"]
    BY <1>2 DEF DeleteRow
  <2>4. del' \in [Request -> Del]
    BY <1>0, <2>3, DelTypes DEF DeleteStep
  <2>5. \A q \in Request : del'[q].step # "idle" => del'[q].id \in Session
    BY <1>0, <1>2, <2>3 DEF DeleteRow, Idle, Del
  <2>. QED  BY <1>2, <2>2, <2>4, <2>5 DEF DeleteRow
<1>3. CASE DeleteLogs(r)
  <2>1. AfterLogs(del[r].snapshot) \in {"idle", "folder"}
    BY DEF AfterLogs
  <2>2. del' = [del EXCEPT ![r] = Idle] \/ del' = [del EXCEPT ![r].step = "folder"]
    BY <1>3, <2>1 DEF DeleteLogs
  <2>3. del' \in [Request -> Del]
    BY <1>0, <2>2, DelTypes DEF DeleteStep
  <2>4. \A q \in Request : del'[q].step # "idle" => del'[q].id \in Session
    BY <1>0, <1>3, <2>2 DEF DeleteLogs, Idle, Del
  <2>. QED  BY <1>3, <2>3, <2>4 DEF DeleteLogs
<1>4. CASE DeleteFolder(r)
  <2>1. folder' \in [Folder -> Content]
    BY <1>4 DEF DeleteFolder, RemoveAll, Content
  <2>. QED  BY <1>4, <2>1, DelTypes DEF DeleteFolder, Idle
<1>5. CASE DeleteFails(r)
  BY <1>5, DelTypes DEF DeleteFails, Idle
<1>. QED
  BY <1>1, <1>2, <1>3, <1>4, <1>5 DEF Deletion

LEMMA NextTypeOK == TypeOK /\ [Next]_vars => TypeOK'
<1>. SUFFICES ASSUME TypeOK, [Next]_vars
              PROVE  TypeOK'
  OBVIOUS
<1>1. CASE Restart
  BY <1>1, MaxStampAssumption
  DEF Restart, TypeOK, SnapshotsTypeOK, PC, Live, Working, Idle, Del, DeleteStep
<1>2. CASE OpenStore
  BY <1>2 DEF OpenStore, Reconcile, TypeOK, SnapshotsTypeOK, Row, Status, Ended
<1>3. CASE OpenFails
  BY <1>3 DEF OpenFails, TypeOK, SnapshotsTypeOK
<1>4. ASSUME NEW s \in Session, NEW p \in Plan, Start(s, p)
      PROVE  TypeOK'
  BY <1>4, MaxStampAssumption
  DEF Start, TypeOK, SnapshotsTypeOK, Row, Status, PC, Live, Working
<1>5. ASSUME NEW s \in Session, Cancel(s)
      PROVE  TypeOK'
  BY <1>5 DEF Cancel, TypeOK, SnapshotsTypeOK
<1>6. CASE Tick /\ UNCHANGED sessionVars
  BY <1>6, MaxStampAssumption
  DEF Tick, sessionVars, TypeOK, SnapshotsTypeOK, Stamps
<1>7. CASE UNCHANGED vars
  BY <1>7 DEF vars, sessionVars, TypeOK, SnapshotsTypeOK
<1>. QED
  BY <1>1, <1>2, <1>3, <1>4, <1>5, <1>6, <1>7, StartsAPlan, GoroutineTypeOK, DeletionTypeOK
  DEF Next, Process, User

THEOREM TypeCorrect == Spec => []TypeOK
<1>. QED  BY InitTypeOK, NextTypeOK, PTL DEF Spec

-----------------------------------------------------------------------------
(***************************************************************************)
(* The inductive invariant.  OneRunningPerKey and RunningIsLive are not    *)
(* inductive alone: that a row which says "running" belongs to a goroutine *)
(* (and the converse) rests on what a restart leaves behind, on ids being  *)
(* used once, and on a DELETE in flight being about a goroutine that has   *)
(* ended.                                                                  *)
(***************************************************************************)

\* Goroutines exist only in a process that has opened the store.
GoroutinesNeedStore == db # "open" => \A s \in Session : pc[s] \notin Live

UnbornHasNoRow == \A s \in Session : pc[s] = "unborn" => row[s].status = "none"

\* Between its 409 check and its last step, a DELETE is about an ended session.
DeletesEnded ==
  \A r \in Request : del[r].step # "idle" =>
    pc[del[r].id] \in {"done", "killed"} /\ ~Running(del[r].id)

IInv ==
  /\ TypeOK
  /\ GoroutinesNeedStore
  /\ UnbornHasNoRow
  /\ DeletesEnded
  /\ LiveIsRunning
  /\ RunningIsLive
  /\ OneRunningPerKey

(***************************************************************************)
(* What a step of a goroutine does to the session table: nothing, until    *)
(* its last step, which writes the outcome or loses it.                    *)
(***************************************************************************)
LEMMA GoroutineStep ==
  ASSUME TypeOK, NEW s \in Session, Goroutine(s)
  PROVE  /\ pc[s] \in Live
         /\ \E q \in Live \cup {"done"} : pc' = [pc EXCEPT ![s] = q]
         /\ UNCHANGED <<db, plan, del>>
         /\ \/ row' = row /\ pc'[s] \in Live
            \/ Finish(s) /\ pc'[s] = "done"
            \/ StoreMayFail /\ row' = row /\ pc'[s] = "done"
<1>. USE DEF TypeOK, PC, Live, Working
<1>1. CASE Begin(s)
  BY <1>1 DEF Begin, Return, FirstPhase
<1>2. CASE BackupOpen(s)
  BY <1>2 DEF BackupOpen, Goto
<1>3. CASE BackupDone(s)
  BY <1>3 DEF BackupDone, Goto, Return
<1>4. CASE ProvisionDone(s)
  BY <1>4 DEF ProvisionDone, Goto
<1>5. CASE ApplyOpen(s)
  BY <1>5 DEF ApplyOpen, Goto, Return
<1>6. CASE ApplyDone(s)
  BY <1>6 DEF ApplyDone, Return
<1>7. CASE RunFails(s)
  BY <1>7 DEF RunFails, Return
<1>8. CASE Unregister(s)
  BY <1>8 DEF Unregister, Goto
<1>9. CASE Cleanup(s)
  BY <1>9 DEF Cleanup, Goto
<1>10. CASE Finish(s)
  BY <1>10 DEF Finish, ReadyToFinish
<1>11. CASE FinishIsLost(s)
  BY <1>11 DEF FinishIsLost, ReadyToFinish
<1>. QED
  BY <1>1, <1>2, <1>3, <1>4, <1>5, <1>6, <1>7, <1>8, <1>9, <1>10, <1>11 DEF Goroutine, Work

\* The terminal statuses are four, and "running" is none of them.
LEMMA OutcomeEnds ==
  ASSUME TypeOK, NEW s \in Session
  PROVE  Outcome(s).status \in Ended
<1>1. err[s] \in {"nil", "notimpl", "canceled", "error"}
  BY DEF TypeOK
<1>. QED  BY <1>1 DEF Outcome, Ended

\* Only DeleteRow touches the session table; it removes the row of an ended session.
LEMMA DeletionStep ==
  ASSUME TypeOK, DeletesEnded, NEW r \in Request, Deletion(r)
  PROVE  /\ UNCHANGED <<db, plan, pc>>
         /\ \/ row' = row
            \/ \E s \in Session :
                 /\ pc[s] \in {"done", "killed"}
                 /\ row[s].status \in Ended
                 /\ row' = [row EXCEPT ![s] = [status |-> "none", snapshot |-> 0]]
<1>1. CASE DeleteRow(r) /\ row' # row
  <2>1. del[r].id \in Session /\ pc[del[r].id] \in {"done", "killed"}
        /\ row[del[r].id].status \notin {"none", "running"}
        /\ row' = [row EXCEPT ![del[r].id] = [status |-> "none", snapshot |-> 0]]
    BY <1>1 DEF DeleteRow, DeletesEnded, TypeOK, Running
  <2>2. row[del[r].id].status \in Ended
    BY <2>1 DEF TypeOK, Row, Status
  <2>. QED  BY <1>1, <2>1, <2>2 DEF DeleteRow
<1>. QED
  BY <1>1 DEF Deletion, DeleteGet, DeleteRow, DeleteLogs, DeleteFolder, DeleteFails

\* A DELETE in flight keeps the session it was given; only DeleteGet gives it one.
LEMMA DelUnlessGet ==
  ASSUME TypeOK, NEW r \in Request, Deletion(r), NEW q \in Request, del'[q].step # "idle"
  PROVE  \/ del[q].step # "idle" /\ del'[q].id = del[q].id
         \/ \E s \in Session : DeleteGet(r, s) /\ q = r
<1>. USE DEF TypeOK, Del
<1>0. del[q] \in Del /\ del[r] \in Del
  OBVIOUS
<1>1. ASSUME NEW s \in Session, DeleteGet(r, s)
      PROVE  (del[q].step # "idle" /\ del'[q].id = del[q].id) \/ q = r
  BY <1>1 DEF DeleteGet
<1>2. CASE DeleteRow(r)
  <2>1. \/ del' = [del EXCEPT ![r] = Idle]
        \/ del[r].step = "row" /\ del' = [del EXCEPT ![r].step = "logs"]
    BY <1>2 DEF DeleteRow
  <2>. QED  BY <1>0, <2>1 DEF Idle
<1>3. CASE DeleteLogs(r)
  <2>1. AfterLogs(del[r].snapshot) \in {"idle", "folder"}
    BY DEF AfterLogs
  <2>2. \/ del' = [del EXCEPT ![r] = Idle]
        \/ del[r].step = "logs" /\ del' = [del EXCEPT ![r].step = "folder"]
    BY <1>3, <2>1 DEF DeleteLogs
  <2>. QED  BY <1>0, <2>2 DEF Idle
<1>4. CASE DeleteFolder(r) \/ DeleteFails(r)
  BY <1>4 DEF DeleteFolder, DeleteFails, Idle
<1>. QED  BY <1>1, <1>2, <1>3, <1>4 DEF Deletion

LEMMA InitIInv == Init => IInv
<1>. SUFFICES ASSUME Init PROVE IInv
  OBVIOUS
<1>1. TypeOK
  BY InitTypeOK
<1>2. \A s \in Session : pc[s] = "unborn" /\ row[s].status = "none"
  BY DEF Init
<1>3. \A r \in Request : del[r].step = "idle"
  BY DEF Init, Idle
<1>. QED
  BY <1>1, <1>2, <1>3
  DEF IInv, GoroutinesNeedStore, UnbornHasNoRow, DeletesEnded, LiveIsRunning,
      RunningIsLive, OneRunningPerKey, Running, Live, Working

\* Start is the only step that makes a row "running", and it checks the key first.
LEMMA StartKeepsIInv ==
  ASSUME IInv, NEW s \in Session, NEW p \in Plan, Start(s, p), TypeOK'
  PROVE  IInv'
<1>. USE DEF IInv
<1>1. /\ db = "open" /\ db' = db /\ del' = del
      /\ pc[s] = "unborn" /\ row[s].status = "none"
      /\ pc' = [pc EXCEPT ![s] = "queued"]
      /\ plan' = [plan EXCEPT ![s] = p]
      /\ row' = [row EXCEPT ![s] = [status |-> "running", snapshot |-> 0]]
      /\ NotRunning(p)
  BY DEF Start, UnbornHasNoRow
<1>2. GoroutinesNeedStore' /\ UnbornHasNoRow'
  BY <1>1 DEF GoroutinesNeedStore, UnbornHasNoRow, TypeOK
<1>3. DeletesEnded'
  BY <1>1 DEF DeletesEnded, TypeOK, Running
<1>4. LiveIsRunning' /\ RunningIsLive'
  BY <1>1 DEF LiveIsRunning, RunningIsLive, Running, TypeOK, Live, Working
<1>5. OneRunningPerKey'
  <2>. SUFFICES ASSUME NEW t \in Session, NEW u \in Session,
                       Running(t)', Running(u)', SameKey(plan'[t], plan'[u])
                PROVE  t = u
    BY DEF OneRunningPerKey
  <2>1. CASE t # s /\ u # s
    BY <1>1, <2>1 DEF OneRunningPerKey, Running, TypeOK
  <2>2. CASE t = s /\ u # s
    BY <1>1, <2>2 DEF NotRunning, Running, SameKey, TypeOK
  <2>3. CASE t # s /\ u = s
    BY <1>1, <2>3 DEF NotRunning, Running, SameKey, TypeOK
  <2>. QED  BY <2>1, <2>2, <2>3
<1>. QED  BY <1>2, <1>3, <1>4, <1>5

LEMMA GoroutineKeepsIInv ==
  ASSUME IInv, NEW s \in Session, Goroutine(s), TypeOK'
  PROVE  IInv'
<1>. USE DEF IInv
<1>1. PICK q \in Live \cup {"done"} : pc' = [pc EXCEPT ![s] = q]
  BY GoroutineStep
<1>2. pc[s] \in Live /\ row[s].status = "running" /\ UNCHANGED <<db, plan, del>>
  BY GoroutineStep DEF LiveIsRunning, Running
<1>3. pc'[s] = q
  BY <1>1 DEF TypeOK
<1>4. \/ row' = row /\ q \in Live
      \/ q = "done" /\ row' = [row EXCEPT ![s] = Outcome(s)]
      \/ q = "done" /\ row' = row /\ StoreMayFail
  BY <1>2, <1>3, GoroutineStep DEF Finish
<1>5. /\ \A t \in Session \ {s} : row'[t] = row[t] /\ pc'[t] = pc[t]
      /\ row'[s].status \in Ended \cup {"running"}
  BY <1>1, <1>2, <1>4, OutcomeEnds DEF TypeOK
<1>6. "unborn" \notin Live /\ "done" \notin Live /\ "killed" \notin Live
  BY DEF Live, Working
<1>7. GoroutinesNeedStore' /\ UnbornHasNoRow'
  BY <1>1, <1>2, <1>3, <1>5, <1>6 DEF GoroutinesNeedStore, UnbornHasNoRow
<1>8. DeletesEnded'
  <2>. SUFFICES ASSUME NEW r \in Request, del[r].step # "idle"
                PROVE  pc'[del[r].id] \in {"done", "killed"} /\ ~Running(del[r].id)'
    BY <1>2 DEF DeletesEnded
  <2>1. del[r].id \in Session \ {s} /\ pc[del[r].id] \in {"done", "killed"}
        /\ ~Running(del[r].id)
    BY <1>2, <1>6 DEF DeletesEnded, TypeOK
  <2>. QED  BY <2>1, <1>2, <1>5 DEF Running
<1>9. LiveIsRunning'
  BY <1>2, <1>3, <1>4, <1>5, <1>6 DEF LiveIsRunning, Running
<1>10. RunningIsLive'
  <2>. SUFFICES ASSUME db' = "open", ~StoreMayFail, NEW t \in Session,
                       row'[t].status = "running"
                PROVE  pc'[t] \in Live
    BY DEF RunningIsLive, Running
  <2>1. CASE t = s
    <3>1. q \notin Live => row'[s].status \in Ended
      BY <1>4, OutcomeEnds DEF TypeOK
    <3>. QED  BY <2>1, <3>1, <1>3 DEF Ended
  <2>2. CASE t # s
    BY <2>2, <1>2, <1>5 DEF RunningIsLive, Running
  <2>. QED  BY <2>1, <2>2
<1>11. OneRunningPerKey'
  BY <1>2, <1>5 DEF OneRunningPerKey, Running
<1>. QED  BY <1>7, <1>8, <1>9, <1>10, <1>11

LEMMA DeletionKeepsIInv ==
  ASSUME IInv, NEW r \in Request, Deletion(r), TypeOK'
  PROVE  IInv'
<1>. USE DEF IInv
<1>1. UNCHANGED <<db, plan, pc>>
  BY DeletionStep
<1>2. \A s \in Session :
        /\ row'[s] = row[s] \/ (pc[s] \in {"done", "killed"} /\ row'[s].status = "none")
        /\ row'[s].status = "running" => row[s].status = "running"
  BY DeletionStep DEF TypeOK
<1>3. "unborn" \notin Live /\ "done" \notin Live /\ "killed" \notin Live
  BY DEF Live, Working
<1>4. GoroutinesNeedStore' /\ UnbornHasNoRow'
  BY <1>1, <1>2 DEF GoroutinesNeedStore, UnbornHasNoRow
<1>5. LiveIsRunning' /\ RunningIsLive' /\ OneRunningPerKey'
  BY <1>1, <1>2, <1>3 DEF LiveIsRunning, RunningIsLive, OneRunningPerKey, Running
<1>6. DeletesEnded'
  <2>. SUFFICES ASSUME NEW q \in Request, del'[q].step # "idle"
                PROVE  /\ pc[del'[q].id] \in {"done", "killed"}
                       /\ row'[del'[q].id].status # "running"
    BY <1>1 DEF DeletesEnded, Running
  <2>1. del'[q].id \in Session
    BY DEF TypeOK
  <2>2. CASE del[q].step # "idle" /\ del'[q].id = del[q].id
    BY <1>2, <2>1, <2>2 DEF DeletesEnded, Running
  <2>3. ASSUME NEW s \in Session, DeleteGet(r, s), q = r
        PROVE  /\ pc[del'[q].id] \in {"done", "killed"}
               /\ row'[del'[q].id].status # "running"
    <3>1. del'[q].id = s /\ row[s].status \in Ended /\ row' = row
      BY <2>3 DEF DeleteGet, MayDelete, TypeOK
    <3>2. pc[s] \notin Live /\ pc[s] # "unborn"
      BY <3>1 DEF LiveIsRunning, UnbornHasNoRow, Running, Ended
    <3>. QED  BY <3>1, <3>2 DEF TypeOK, PC, Ended
  <2>4. \/ del[q].step # "idle" /\ del'[q].id = del[q].id
        \/ \E s \in Session : DeleteGet(r, s) /\ q = r
    BY DelUnlessGet
  <2>. QED  BY <2>2, <2>3, <2>4
<1>. QED  BY <1>4, <1>5, <1>6

\* The process: a restart leaves no goroutine and no request, and opening the
\* store leaves no row "running".
LEMMA ProcessKeepsIInv ==
  ASSUME IInv, Process, TypeOK'
  PROVE  IInv'
<1>. USE DEF IInv
<1>0. "unborn" \notin Live /\ "done" \notin Live /\ "killed" \notin Live
  BY DEF Live, Working
<1>1. CASE Restart
  <2>1. /\ \A s \in Session : pc'[s] \notin Live
        /\ \A s \in Session : pc'[s] = "unborn" => pc[s] = "unborn"
        /\ row' = row /\ plan' = plan /\ db' = "unopened"
        /\ \A r \in Request : del'[r].step = "idle"
    BY <1>0, <1>1 DEF Restart, TypeOK, Idle
  <2>. QED
    BY <2>1 DEF GoroutinesNeedStore, UnbornHasNoRow, DeletesEnded, LiveIsRunning,
                RunningIsLive, OneRunningPerKey, Running
<1>2. CASE OpenStore
  <2>1. /\ \A s \in Session : pc[s] \notin Live
        /\ pc' = pc /\ plan' = plan /\ del' = del
    BY <1>2 DEF OpenStore, GoroutinesNeedStore
  <2>2. \A s \in Session : /\ row'[s].status # "running"
                           /\ row[s].status = "none" => row'[s].status = "none"
    BY <1>2 DEF OpenStore, Reconcile
  <2>3. DeletesEnded'
    BY <2>1, <2>2 DEF DeletesEnded, Running, TypeOK
  <2>. QED
    BY <2>1, <2>2, <2>3 DEF GoroutinesNeedStore, UnbornHasNoRow, LiveIsRunning,
                            RunningIsLive, OneRunningPerKey, Running
<1>3. CASE OpenFails
  BY <1>3 DEF OpenFails, GoroutinesNeedStore, UnbornHasNoRow, DeletesEnded, LiveIsRunning,
              RunningIsLive, OneRunningPerKey, Running
<1>. QED  BY <1>1, <1>2, <1>3 DEF Process

LEMMA NextIInv == IInv /\ [Next]_vars => IInv'
<1>. SUFFICES ASSUME IInv, [Next]_vars
              PROVE  IInv'
  OBVIOUS
<1>1. TypeOK /\ TypeOK'
  BY NextTypeOK DEF IInv
<1>2. CASE Process
  BY <1>1, <1>2, ProcessKeepsIInv
<1>3. ASSUME NEW s \in Session, StartBackup(s) \/ StartApply(s) \/ StartFork(s)
      PROVE  IInv'
  BY <1>1, <1>3, StartsAPlan, StartKeepsIInv
<1>4. CASE \/ \E s \in Session : Cancel(s)
           \/ Tick /\ UNCHANGED sessionVars
           \/ UNCHANGED vars
  <2>1. UNCHANGED <<db, row, plan, pc, del>>
    BY <1>4 DEF Cancel, vars, sessionVars
  <2>. QED
    BY <1>1, <2>1 DEF IInv, GoroutinesNeedStore, UnbornHasNoRow, DeletesEnded, LiveIsRunning,
                      RunningIsLive, OneRunningPerKey, Running
<1>5. ASSUME NEW s \in Session, Goroutine(s)
      PROVE  IInv'
  BY <1>1, <1>5, GoroutineKeepsIInv
<1>6. ASSUME NEW r \in Request, Deletion(r)
      PROVE  IInv'
  BY <1>1, <1>6, DeletionKeepsIInv
<1>. QED  BY <1>2, <1>3, <1>4, <1>5, <1>6 DEF Next, User

\* The inductive invariant holds in every behaviour.
THEOREM Invariant == Spec => []IInv
<1>. QED  BY InitIInv, NextIInv, PTL DEF Spec

\* However handlers, goroutines, restarts and deletions interleave, no two
\* sessions of one workspace, service, profile and kind are "running".
THEOREM RunningIsUnique == Spec => []OneRunningPerKey
<1>1. IInv => OneRunningPerKey
  BY DEF IInv
<1>. QED  BY <1>1, Invariant, PTL

\* The row of a session says "running" as long as its goroutine lives.
THEOREM LiveRowsRun == Spec => []LiveIsRunning
<1>1. IInv => LiveIsRunning
  BY DEF IInv
<1>. QED  BY <1>1, Invariant, PTL

\* Unless store writes are lost, no row is left "running" without its goroutine.
THEOREM RunningRowsLive == Spec => []RunningIsLive
<1>1. IInv => RunningIsLive
  BY DEF IInv
<1>. QED  BY <1>1, Invariant, PTL

-----------------------------------------------------------------------------
(***************************************************************************)
(* That a session's outcome is final, and that BackupSessions implements   *)
(* SessionLifecycle: every step of a handler, a goroutine or the process   *)
(* is a step of the life that clients see, or leaves it alone.             *)
(***************************************************************************)

(***************************************************************************)
(* The steps of BackupSessions, as far as the life of sessions goes.       *)
(***************************************************************************)
SameLife == /\ UNCHANGED <<row, plan>>
            /\ \A s \in Session : pc'[s] = "unborn" <=> pc[s] = "unborn"

Starts(s) == \E p \in Plan : Start(s, p)

Ends(s) ==
  /\ pc[s] # "unborn" /\ row[s].status = "running"
  /\ row'[s].status \in Ended
  /\ \A t \in Session \ {s} : row'[t] = row[t]
  /\ plan' = plan
  /\ \A t \in Session : pc'[t] = "unborn" <=> pc[t] = "unborn"

Deletes(s) ==
  /\ pc[s] # "unborn" /\ row[s].status \in Ended
  /\ row'[s].status = "none"
  /\ \A t \in Session \ {s} : row'[t] = row[t]
  /\ UNCHANGED <<plan, pc>>

LEMMA LifeSteps ==
  ASSUME IInv, [Next]_vars
  PROVE  \/ SameLife
         \/ OpenStore
         \/ \E s \in Session : Starts(s) \/ Ends(s) \/ Deletes(s)
<1>. USE DEF IInv
<1>0. "unborn" \notin Live
  BY DEF Live, Working
<1>1. CASE Restart
  BY <1>0, <1>1 DEF Restart, SameLife, TypeOK
<1>2. CASE OpenFails \/ (Tick /\ UNCHANGED sessionVars) \/ UNCHANGED vars
  BY <1>2 DEF OpenFails, sessionVars, vars, SameLife
<1>3. ASSUME NEW s \in Session, StartBackup(s) \/ StartApply(s) \/ StartFork(s)
      PROVE  Starts(s)
  BY <1>3, StartsAPlan DEF Starts
<1>4. ASSUME NEW s \in Session, Cancel(s)
      PROVE  SameLife
  BY <1>4 DEF Cancel, SameLife
<1>5. ASSUME NEW s \in Session, Goroutine(s)
      PROVE  SameLife \/ Ends(s)
  <2>1. PICK q \in Live \cup {"done"} : pc' = [pc EXCEPT ![s] = q]
    BY <1>5, GoroutineStep
  <2>2. pc[s] # "unborn" /\ row[s].status = "running" /\ plan' = plan
    BY <1>0, <1>5, GoroutineStep DEF LiveIsRunning, Running
  <2>3. \A t \in Session : pc'[t] = "unborn" <=> pc[t] = "unborn"
    BY <1>0, <2>1, <2>2 DEF TypeOK
  <2>4. row' = row \/ row' = [row EXCEPT ![s] = Outcome(s)]
    BY <1>5, <2>2, GoroutineStep DEF Finish
  <2>5. CASE row' = row
    BY <2>2, <2>3, <2>5 DEF SameLife
  <2>6. CASE row' = [row EXCEPT ![s] = Outcome(s)]
    BY <2>2, <2>3, <2>6, OutcomeEnds DEF Ends, TypeOK
  <2>. QED  BY <2>4, <2>5, <2>6
<1>6. ASSUME NEW r \in Request, Deletion(r)
      PROVE  SameLife \/ \E s \in Session : Deletes(s)
  BY <1>6, DeletionStep DEF SameLife, Deletes, TypeOK
<1>. QED  BY <1>1, <1>2, <1>3, <1>4, <1>5, <1>6 DEF Next, Process, User

-----------------------------------------------------------------------------
(***************************************************************************)
(* Outcomes.                                                               *)
(***************************************************************************)

\* An ended session keeps its row until it is deleted: no restart, cancellation
\* or late goroutine rewrites an outcome.
THEOREM OutcomesAreFinal == Spec => OutcomeIsFinal
<1>1. ASSUME IInv, [Next]_vars, NEW s \in Session, row[s].status \in Ended
      PROVE  row'[s] = row[s] \/ row'[s].status = "none"
  <2>1. row[s].status # "running" /\ row[s].status # "none"
    BY <1>1 DEF Ended
  <2>2. CASE SameLife
    BY <2>2 DEF SameLife
  <2>3. CASE OpenStore
    BY <2>1, <2>3 DEF OpenStore, Reconcile
  <2>4. ASSUME NEW t \in Session, Starts(t)
        PROVE  row'[s] = row[s]
    BY <1>1, <2>1, <2>4 DEF Starts, Start, IInv, UnbornHasNoRow, TypeOK
  <2>5. ASSUME NEW t \in Session, Ends(t) \/ Deletes(t)
        PROVE  row'[s] = row[s] \/ row'[s].status = "none"
    BY <2>1, <2>5 DEF Ends, Deletes
  <2>. QED  BY <1>1, <2>2, <2>3, <2>4, <2>5, LifeSteps
<1>2. IInv /\ [Next]_vars =>
        [\A s \in Session : row[s].status \in Ended =>
           row'[s] = row[s] \/ row'[s].status = "none"]_vars
  BY <1>1
<1>. QED  BY <1>2, Invariant, PTL DEF Spec, OutcomeIsFinal

-----------------------------------------------------------------------------
(***************************************************************************)
(* Refinement.                                                             *)
(***************************************************************************)

LEMMA InitLifecycle == Init => Lifecycle!AbstractInit
  BY DEF Init, Lifecycle!AbstractInit, stateBar, keyBar

\* What a session's life is, for a plan and a row.
LEMMA LifeOf ==
  ASSUME NEW s \in Session
  PROVE  /\ stateBar[s] = IF pc[s] = "unborn" THEN "unborn"
                          ELSE IF row[s].status = "none" THEN "deleted" ELSE row[s].status
         /\ keyBar[s] = IF pc[s] = "unborn" THEN None ELSE KeyOf(plan[s])
  BY DEF stateBar, keyBar

LEMMA StepLifecycle ==
  ASSUME IInv, [Next]_vars
  PROVE  [Lifecycle!AbstractNext]_(Lifecycle!abstractVars)
<1>. USE DEF IInv
<1>1. CASE SameLife
  <2>1. stateBar' = stateBar /\ keyBar' = keyBar
    BY <1>1 DEF SameLife, stateBar, keyBar
  <2>. QED  BY <2>1 DEF Lifecycle!abstractVars
<1>2. CASE OpenStore
  <2>1. keyBar' = keyBar
    BY <1>2 DEF OpenStore, keyBar
  <2>2. stateBar' = [s \in Session |->
                       IF stateBar[s] = "running" THEN "error" ELSE stateBar[s]]
    BY <1>2 DEF OpenStore, Reconcile, stateBar, UnbornHasNoRow
  <2>. QED  BY <2>1, <2>2 DEF Lifecycle!AbstractNext, Lifecycle!Interrupt
<1>3. ASSUME NEW s \in Session, NEW p \in Plan, Start(s, p)
      PROVE  Lifecycle!AbstractNext
  <2>1. /\ pc[s] = "unborn"
        /\ pc' = [pc EXCEPT ![s] = "queued"]
        /\ plan' = [plan EXCEPT ![s] = p]
        /\ row' = [row EXCEPT ![s] = [status |-> "running", snapshot |-> 0]]
        /\ NotRunning(p)
    BY <1>3 DEF Start
  <2>2. stateBar[s] = "unborn"
    BY <2>1 DEF stateBar
  <2>3. \A t \in Session : ~(stateBar[t] = "running" /\ keyBar[t] = KeyOf(p))
    BY <2>1 DEF stateBar, keyBar, NotRunning, SameKey, KeyOf
  <2>4. stateBar' = [stateBar EXCEPT ![s] = "running"]
    BY <2>1 DEF stateBar, TypeOK
  <2>5. keyBar' = [keyBar EXCEPT ![s] = KeyOf(p)]
    BY <2>1 DEF keyBar, TypeOK
  <2>6. KeyOf(p) \in [ws : Workspaces, service : Services, profile : Profiles,
                      kind : {"backup", "apply", "fork"}]
    BY DEF KeyOf, Plan
  <2>. QED
    BY <2>2, <2>3, <2>4, <2>5, <2>6 DEF Lifecycle!AbstractNext, Lifecycle!Start
<1>4. ASSUME NEW s \in Session, Ends(s)
      PROVE  Lifecycle!AbstractNext
  <2>1. keyBar' = keyBar
    BY <1>4 DEF Ends, keyBar
  <2>2. stateBar[s] = "running"
    BY <1>4 DEF Ends, stateBar
  <2>3. row'[s].status \in Ended /\ row'[s].status # "none"
    BY <1>4 DEF Ends, Ended
  <2>4. stateBar' = [stateBar EXCEPT ![s] = row'[s].status]
    BY <1>4, <2>3 DEF Ends, stateBar
  <2>. QED
    BY <2>1, <2>2, <2>3, <2>4 DEF Lifecycle!AbstractNext, Lifecycle!End, Lifecycle!Ended, Ended
<1>5. ASSUME NEW s \in Session, Deletes(s)
      PROVE  Lifecycle!AbstractNext
  <2>1. keyBar' = keyBar
    BY <1>5 DEF Deletes, keyBar
  <2>2. stateBar[s] \in Ended
    BY <1>5 DEF Deletes, stateBar, Ended
  <2>3. stateBar' = [stateBar EXCEPT ![s] = "deleted"]
    BY <1>5 DEF Deletes, stateBar
  <2>. QED
    BY <2>1, <2>2, <2>3 DEF Lifecycle!AbstractNext, Lifecycle!Delete, Lifecycle!Ended, Ended
<1>. QED
  BY <1>1, <1>2, <1>3, <1>4, <1>5, LifeSteps DEF Starts

\* The server implements the life of a session that its API promises, with
\* restarts, cancellations, concurrent deletions and lost writes.
THEOREM Refinement == Spec => ImplementsLifecycle
<1>1. IInv /\ [Next]_vars => [Lifecycle!AbstractNext]_(Lifecycle!abstractVars)
  BY StepLifecycle
<1>. QED
  BY <1>1, InitLifecycle, Invariant, PTL
  DEF Spec, ImplementsLifecycle, Lifecycle!AbstractSpec

-----------------------------------------------------------------------------
(***************************************************************************)
(* The snapshot folders.  What a session that has ended may say of its     *)
(* folder rests on what is true of it at every step before: that nobody    *)
(* else writes or removes it, which is what SoleProducer and SoleOwner     *)
(* say, and on what a DELETE in flight knows of the row that it read.      *)
(***************************************************************************)
AfterRun == {"returned", "unregistered", "cleaned", "done"}

Failures == {"canceled", "error"}

PlansMakeSense ==
  \A s \in Session : pc[s] # "unborn" =>
    /\ plan[s].fresh => plan[s].snapshot \in Stamps
    /\ plan[s].kind = "backup" => plan[s].source = plan[s].profile

RunsMakeSense ==
  \A s \in Session :
    /\ pc[s] \in {"backup", "dumping"} => plan[s].fresh
    /\ pc[s] \in Working \ {"queued"} => plan[s].service \in Supported
    /\ err[s] # "nil" => pc[s] \in AfterRun \cup {"killed"}
    /\ err[s] \in Failures => plan[s].service \in Supported
    /\ err[s] = "notimpl" => plan[s].service \notin Supported

\* Unless its write was lost, the row of a session that is done has the outcome.
RowsMakeSense ==
  \A s \in Session :
    /\ row[s].snapshot # 0 => row[s].snapshot = plan[s].snapshot
    /\ row[s].status = "success" => pc[s] = "done" /\ err[s] = "nil"
    /\ ~StoreMayFail /\ pc[s] = "done" /\ row[s].status # "none" => row[s] = Outcome(s)

DeletionsMakeSense ==
  \A r \in Request : del[r].step # "idle" =>
    LET s == del[r].id IN
      /\ del[r].snapshot # 0 => del[r].snapshot = plan[s].snapshot
      /\ ~StoreMayFail /\ pc[s] = "done" => del[r].snapshot = Outcome(s).snapshot
      /\ del[r].step \in {"logs", "folder"} => row[s].status = "none"
      /\ del[r].step = "folder" => del[r].snapshot # 0

Sense == PlansMakeSense /\ RunsMakeSense /\ RowsMakeSense /\ DeletionsMakeSense

FailedIsGone(s) ==
  Produces(s) /\ SoleProducer(s) /\ pc[s] \in {"cleaned", "done"} /\ err[s] \in Failures
  => folder[NewDir(s)] = "absent"

\* From the end of the backup until a DELETE takes the row.
Backed(s) ==
  \/ pc[s] \in {"provision", "apply", "restoring"}
  \/ pc[s] \in AfterRun /\ err[s] = "nil" /\ row[s].status # "none"

OwnIsWhole(s) ==
  Produces(s) /\ SoleOwner(s) =>
    /\ pc[s] = "dumping" => folder[NewDir(s)] # "absent"
    /\ Backed(s) => folder[NewDir(s)] = "complete"

RestoresOwn(s) ==
  /\ Produces(s) /\ SoleOwner(s) /\ plan[s].kind = "fork"
  /\ plan[s].service = TypeName[plan[s].service]
  /\ pc[s] = "restoring" \/ (pc[s] \in AfterRun /\ err[s] = "nil" /\ row[s].status # "none")
  => restored[s] = "complete"

BackupIsGone(s) ==
  plan[s].kind = "backup" /\ Produces(s) /\ SoleProducer(s) => folder[NewDir(s)] = "absent"

DeletesAt(s, step) == \E r \in Request : del[r].id = s /\ del[r].step = step

\* What remains of a deleted session, a request still has to remove.
DeletionGoesOn(s) ==
  ~StoreMayFail /\ pc[s] = "done" /\ row[s].status = "none" /\ s \notin cut =>
    \/ DeletesAt(s, "logs")
    \/ s \notin logged /\ (DeletesAt(s, "folder") \/ BackupIsGone(s))

FolderInv ==
  \A s \in Session : FailedIsGone(s) /\ OwnIsWhole(s) /\ RestoresOwn(s) /\ DeletionGoesOn(s)

LEMMA StartsASensiblePlan ==
  ASSUME TypeOK, NEW s \in Session,
         StartBackup(s) \/ StartApply(s) \/ StartFork(s)
  PROVE  \E p \in Plan :
           /\ Start(s, p)
           /\ p.fresh => p.snapshot \in Stamps
           /\ p.kind = "backup" => p.source = p.profile
<1>1. now \in Stamps
  BY DEF TypeOK, SnapshotsTypeOK
<1>2. PICK p \in Plan : Start(s, p)
  BY StartsAPlan
<1>3. plan' = [plan EXCEPT ![s] = p] /\ plan'[s] = p
  BY <1>2 DEF Start, TypeOK
<1>4. \E q : /\ plan' = [plan EXCEPT ![s] = q]
             /\ q.fresh => q.snapshot \in Stamps
             /\ q.kind = "backup" => q.source = q.profile
  <2>1. CASE StartBackup(s)
    <3>1. PICK w \in Workspaces, v \in Services, x \in Profiles :
            Start(s, [ws |-> w, service |-> v, profile |-> x, kind |-> "backup",
                      snapshot |-> now, source |-> x, fresh |-> TRUE])
      BY <2>1 DEF StartBackup
    <3>. DEFINE q == [ws |-> w, service |-> v, profile |-> x, kind |-> "backup",
                        snapshot |-> now, source |-> x, fresh |-> TRUE]
    <3>2. plan' = [plan EXCEPT ![s] = q]
      BY <3>1 DEF Start
    <3>3. (q.fresh => q.snapshot \in Stamps) /\ (q.kind = "backup" => q.source = q.profile)
      BY <1>1, <3>1
    <3>. HIDE DEF q
    <3>. QED
      BY <3>2, <3>3
  <2>2. CASE StartApply(s)
    <3>1. PICK w, v, x, src, n :
            Start(s, [ws |-> w, service |-> v, profile |-> x, kind |-> "apply",
                      snapshot |-> n, source |-> src, fresh |-> FALSE])
      BY <2>2 DEF StartApply
    <3>. DEFINE q == [ws |-> w, service |-> v, profile |-> x, kind |-> "apply",
                        snapshot |-> n, source |-> src, fresh |-> FALSE]
    <3>2. plan' = [plan EXCEPT ![s] = q]
      BY <3>1 DEF Start
    <3>3. (q.fresh => q.snapshot \in Stamps) /\ (q.kind = "backup" => q.source = q.profile)
      BY <1>1, <3>1
    <3>. HIDE DEF q
    <3>. QED
      BY <3>2, <3>3
  <2>3. CASE StartFork(s)
    <3>1. PICK w, v, src, n, new :
            /\ Start(s, [ws |-> w, service |-> v, profile |-> LocalProfile, kind |-> "fork",
                         snapshot |-> n, source |-> src, fresh |-> new])
            /\ new => n = now
      BY <2>3 DEF StartFork
    <3>. DEFINE q == [ws |-> w, service |-> v, profile |-> LocalProfile, kind |-> "fork",
                        snapshot |-> n, source |-> src, fresh |-> new]
    <3>2. plan' = [plan EXCEPT ![s] = q]
      BY <3>1 DEF Start
    <3>3. (q.fresh => q.snapshot \in Stamps) /\ (q.kind = "backup" => q.source = q.profile)
      BY <1>1, <3>1
    <3>. HIDE DEF q
    <3>. QED
      BY <3>2, <3>3
  <2>. QED
    BY <2>1, <2>2, <2>3
<1>5. PICK q : /\ plan' = [plan EXCEPT ![s] = q]
               /\ q.fresh => q.snapshot \in Stamps
               /\ q.kind = "backup" => q.source = q.profile
  BY <1>4
<1>6. plan'[s] = q
  BY <1>5 DEF TypeOK
<1>. QED
  BY <1>2, <1>3, <1>5, <1>6

\* What a step of a goroutine writes, beside folders: its own.
LEMMA GoroutineWrites ==
  ASSUME TypeOK, NEW s \in Session, Goroutine(s)
  PROVE  /\ UNCHANGED <<db, plan, del, cut>>
         /\ \A t \in Session \ {s} : /\ pc'[t] = pc[t] /\ err'[t] = err[t]
                                     /\ row'[t] = row[t] /\ restored'[t] = restored[t]
                                     /\ t \in logged' => t \in logged
         /\ err'[s] = err[s] \/ (pc[s] \in Working /\ pc'[s] = "returned")
         /\ pc'[s] \in Live \cup {"done"}
         /\ pc'[s] = "done" => ReadyToFinish(s) /\ (StoreMayFail \/ Finish(s))
         /\ row'[s] = row[s] \/ Finish(s)
<1>. USE DEF TypeOK, PC, Live, Working
<1>1. CASE Begin(s)
  BY <1>1 DEF Begin, Return, FirstPhase
<1>2. CASE BackupOpen(s)
  BY <1>2 DEF BackupOpen, Goto
<1>3. CASE BackupDone(s)
  BY <1>3 DEF BackupDone, Goto, Return
<1>4. CASE ProvisionDone(s)
  BY <1>4 DEF ProvisionDone, Goto
<1>5. CASE ApplyOpen(s)
  BY <1>5 DEF ApplyOpen, Goto, Return
<1>6. CASE ApplyDone(s)
  BY <1>6 DEF ApplyDone, Return
<1>7. CASE RunFails(s)
  BY <1>7 DEF RunFails, Return
<1>8. CASE Unregister(s)
  BY <1>8 DEF Unregister, Goto
<1>9. CASE Cleanup(s)
  BY <1>9 DEF Cleanup, Goto
<1>10. CASE Finish(s)
  BY <1>10 DEF Finish
<1>11. CASE FinishIsLost(s)
  BY <1>11 DEF FinishIsLost
<1>. QED
  BY <1>1, <1>2, <1>3, <1>4, <1>5, <1>6, <1>7, <1>8, <1>9, <1>10, <1>11 DEF Goroutine, Work

LEMMA GoroutineKeepsRuns ==
  ASSUME TypeOK, RunsMakeSense, NEW s \in Session, Goroutine(s)
  PROVE  RunsMakeSense'
<1>. DEFINE Runs(t) ==
       /\ pc[t] \in {"backup", "dumping"} => plan[t].fresh
       /\ pc[t] \in Working \ {"queued"} => plan[t].service \in Supported
       /\ err[t] # "nil" => pc[t] \in AfterRun \cup {"killed"}
       /\ err[t] \in Failures => plan[t].service \in Supported
       /\ err[t] = "notimpl" => plan[t].service \notin Supported
<1>0. \A t \in Session \ {s} : Runs(t)'
  BY GoroutineWrites DEF RunsMakeSense
<1>a. Runs(s) /\ plan' = plan
  BY GoroutineWrites DEF RunsMakeSense
<1>b. pc \in [Session -> PC] /\ err \in [Session -> {"nil", "notimpl", "canceled", "error"}]
  BY DEF TypeOK
<1>. USE <1>a, <1>b DEF PC, Live, Working, AfterRun, Failures
<1>1. Runs(s)'
  <2>1. CASE Begin(s)
    BY <2>1 DEF Begin, Return, FirstPhase
  <2>2. CASE BackupOpen(s)
    BY <2>2 DEF BackupOpen, Goto
  <2>3. CASE BackupDone(s)
    BY <2>3 DEF BackupDone, Goto, Return
  <2>4. CASE ProvisionDone(s)
    BY <2>4 DEF ProvisionDone, Goto
  <2>5. CASE ApplyOpen(s)
    BY <2>5 DEF ApplyOpen, Goto, Return
  <2>6. CASE ApplyDone(s)
    BY <2>6 DEF ApplyDone, Return
  <2>7. CASE RunFails(s)
    BY <2>7 DEF RunFails, Return
  <2>8. CASE Unregister(s)
    BY <2>8 DEF Unregister, Goto
  <2>9. CASE Cleanup(s)
    BY <2>9 DEF Cleanup, Goto
  <2>10. CASE Finish(s)
    BY <2>10 DEF Finish, ReadyToFinish
  <2>11. CASE FinishIsLost(s)
    BY <2>11 DEF FinishIsLost, ReadyToFinish
  <2>. QED
    BY <2>1, <2>2, <2>3, <2>4, <2>5, <2>6, <2>7, <2>8, <2>9, <2>10, <2>11 DEF Goroutine, Work
<1>. QED
  BY <1>0, <1>1 DEF RunsMakeSense

LEMMA InitSense == Init => Sense
<1>. SUFFICES ASSUME Init PROVE Sense
  OBVIOUS
<1>1. \A s \in Session : /\ pc[s] = "unborn" /\ err[s] = "nil"
                         /\ row[s] = [status |-> "none", snapshot |-> 0]
  BY DEF Init
<1>2. \A r \in Request : del[r].step = "idle"
  BY DEF Init, Idle
<1>. QED
  BY <1>1, <1>2
  DEF Sense, PlansMakeSense, RunsMakeSense, RowsMakeSense, DeletionsMakeSense, Working, Failures

LEMMA StartKeepsSense ==
  ASSUME IInv, Sense, NEW s \in Session, NEW p \in Plan, Start(s, p),
         p.fresh => p.snapshot \in Stamps, p.kind = "backup" => p.source = p.profile
  PROVE  Sense'
<1>. USE DEF IInv, Sense
<1>1. /\ pc[s] = "unborn" /\ pc' = [pc EXCEPT ![s] = "queued"]
      /\ plan' = [plan EXCEPT ![s] = p]
      /\ row' = [row EXCEPT ![s] = [status |-> "running", snapshot |-> 0]]
      /\ UNCHANGED <<err, del>>
  BY DEF Start
<1>2. /\ pc'[s] = "queued" /\ plan'[s] = p /\ row'[s] = [status |-> "running", snapshot |-> 0]
      /\ err'[s] = "nil"
      /\ \A t \in Session \ {s} : /\ pc'[t] = pc[t] /\ plan'[t] = plan[t]
                                  /\ row'[t] = row[t] /\ err'[t] = err[t]
  BY <1>1 DEF TypeOK, RunsMakeSense, AfterRun
<1>3. PlansMakeSense'
  BY <1>2 DEF PlansMakeSense
<1>4. RunsMakeSense'
  BY <1>2 DEF RunsMakeSense, Working, Failures
<1>a. \A t \in Session \ {s} : Outcome(t)' = Outcome(t)
  BY <1>2 DEF Outcome
<1>5. RowsMakeSense'
  BY <1>2, <1>a DEF RowsMakeSense
<1>6. DeletionsMakeSense'
  <2>. SUFFICES ASSUME NEW r \in Request, del[r].step # "idle" PROVE del[r].id \in Session \ {s}
    BY <1>1, <1>2, <1>a DEF DeletionsMakeSense
  <2>. QED
    BY <1>1 DEF DeletesEnded, TypeOK
<1>. QED
  BY <1>3, <1>4, <1>5, <1>6

LEMMA GoroutineKeepsSense ==
  ASSUME IInv, Sense, NEW s \in Session, Goroutine(s)
  PROVE  Sense'
<1>. USE DEF IInv, Sense
<1>1. pc[s] \in Live /\ pc[s] \notin {"unborn", "done", "killed"}
  BY GoroutineStep DEF Live, Working
<1>2. /\ UNCHANGED <<plan, del>>
      /\ \A t \in Session \ {s} : pc'[t] = pc[t] /\ err'[t] = err[t] /\ row'[t] = row[t]
  BY GoroutineWrites
<1>3. PlansMakeSense'
  BY <1>1, <1>2 DEF PlansMakeSense
<1>4. RunsMakeSense'
  BY GoroutineKeepsRuns
<1>5. RowsMakeSense'
  <2>1. CASE Finish(s)
    <3>1. /\ row' = [row EXCEPT ![s] = Outcome(s)] /\ pc' = [pc EXCEPT ![s] = "done"]
          /\ UNCHANGED err
      BY <1>1, <2>1 DEF Finish, LiveIsRunning, Running
    <3>2. row'[s] = Outcome(s) /\ pc'[s] = "done" /\ err' = err
      BY <3>1 DEF TypeOK
    <3>3. Outcome(s)' = Outcome(s)
      BY <1>2, <3>1 DEF Outcome
    <3>4. /\ Outcome(s).snapshot \in {0, plan[s].snapshot}
          /\ Outcome(s).status = "success" => err[s] = "nil"
      <4>1. err[s] \in {"nil", "notimpl", "canceled", "error"}
        BY DEF TypeOK
      <4>. QED
        BY <4>1 DEF Outcome
    <3>. QED
      BY <1>2, <3>2, <3>3, <3>4 DEF RowsMakeSense, Outcome
  <2>2. CASE ~Finish(s)
    <3>1. row'[s] = row[s] /\ (pc'[s] = "done" => StoreMayFail)
      BY <2>2, GoroutineWrites
    <3>2. row[s].status # "success"
      BY <1>1 DEF LiveIsRunning, Running
    <3>. QED
      BY <1>2, <3>1, <3>2 DEF RowsMakeSense, Outcome
  <2>. QED
    BY <2>1, <2>2
<1>6. DeletionsMakeSense'
  <2>. SUFFICES ASSUME NEW r \in Request, del[r].step # "idle" PROVE del[r].id \in Session \ {s}
    BY <1>2 DEF DeletionsMakeSense, Outcome
  <2>. QED
    BY <1>1 DEF DeletesEnded, TypeOK
<1>. QED
  BY <1>3, <1>4, <1>5, <1>6

LEMMA DeletionKeepsSense ==
  ASSUME IInv, Sense, NEW r \in Request, Deletion(r)
  PROVE  Sense'
<1>. USE DEF IInv, Sense
<1>1. UNCHANGED <<plan, pc, err>>
  BY DEF Deletion, DeleteGet, DeleteRow, DeleteLogs, DeleteFolder, DeleteFails
<1>a. \A s : Outcome(s)' = Outcome(s)
  BY <1>1 DEF Outcome
<1>2. PlansMakeSense' /\ RunsMakeSense'
  BY <1>1 DEF PlansMakeSense, RunsMakeSense
<1>3. \A s \in Session : row'[s] = row[s] \/ row'[s] = [status |-> "none", snapshot |-> 0]
  BY DeletionStep DEF TypeOK
<1>4. RowsMakeSense'
  BY <1>1, <1>3, <1>a DEF RowsMakeSense
<1>5. DeletionsMakeSense'
  <2>. DEFINE Fits(q) ==
         LET s == del[q].id IN
           /\ del[q].snapshot # 0 => del[q].snapshot = plan[s].snapshot
           /\ ~StoreMayFail /\ pc[s] = "done" => del[q].snapshot = Outcome(s).snapshot
           /\ del[q].step \in {"logs", "folder"} => row[s].status = "none"
           /\ del[q].step = "folder" => del[q].snapshot # 0
  <2>1. del \in [Request -> Del]
    BY DEF TypeOK
  <2>2. ASSUME NEW q \in Request, q # r, del'[q].step # "idle" PROVE Fits(q)'
    <3>1. del'[q] = del[q]
      BY <2>1, <2>2 DEF Deletion, DeleteGet, DeleteRow, DeleteLogs, DeleteFolder, DeleteFails
    <3>2. Fits(q) /\ del[q].id \in Session
      BY <2>2, <3>1 DEF DeletionsMakeSense, TypeOK
    <3>. QED
      BY <1>1, <1>3, <1>a, <3>1, <3>2
  <2>3. ASSUME del'[r].step # "idle" PROVE Fits(r)'
    <3>1. ASSUME NEW s \in Session, DeleteGet(r, s) PROVE Fits(r)'
      <4>1. /\ del'[r] = [step |-> "row", id |-> s, snapshot |-> row[s].snapshot]
            /\ row[s].status \in Ended /\ UNCHANGED row
        BY <2>1, <3>1 DEF DeleteGet, MayDelete
      <4>2. /\ row[s].snapshot # 0 => row[s].snapshot = plan[s].snapshot
            /\ ~StoreMayFail /\ pc[s] = "done" => row[s] = Outcome(s)
        BY <4>1 DEF RowsMakeSense, Ended
      <4>. QED
        BY <1>1, <1>a, <4>1, <4>2
    <3>2. CASE DeleteRow(r)
      <4>1. /\ del'[r] = [del[r] EXCEPT !.step = "logs"]
            /\ row' = [row EXCEPT ![del[r].id] = [status |-> "none", snapshot |-> 0]]
            /\ del[r].step = "row"
        BY <2>1, <2>3, <3>2 DEF DeleteRow, Idle
      <4>2. Fits(r) /\ del[r].id \in Session /\ del[r] \in Del
        BY <2>1, <4>1 DEF DeletionsMakeSense, TypeOK
      <4>3. /\ del'[r].id = del[r].id /\ del'[r].snapshot = del[r].snapshot
            /\ del'[r].step = "logs"
        BY <4>1, <4>2 DEF Del
      <4>4. row'[del[r].id].status = "none"
        BY <4>1, <4>2 DEF TypeOK
      <4>. QED
        BY <1>1, <1>a, <4>2, <4>3, <4>4
    <3>3. CASE DeleteLogs(r)
      <4>1. /\ del'[r] = [del[r] EXCEPT !.step = "folder"] /\ UNCHANGED row
            /\ del[r].snapshot # 0 /\ del[r].step = "logs"
        BY <2>1, <2>3, <3>3 DEF DeleteLogs, AfterLogs, Idle
      <4>2. Fits(r) /\ del[r].id \in Session /\ del[r] \in Del
        BY <2>1, <4>1 DEF DeletionsMakeSense, TypeOK
      <4>3. /\ del'[r].id = del[r].id /\ del'[r].snapshot = del[r].snapshot
            /\ del'[r].step = "folder"
        BY <4>1, <4>2 DEF Del
      <4>. QED
        BY <1>1, <1>a, <4>1, <4>2, <4>3
    <3>4. CASE DeleteFolder(r) \/ DeleteFails(r)
      BY <2>1, <2>3, <3>4 DEF DeleteFolder, DeleteFails, Idle
    <3>. QED
      BY <3>1, <3>2, <3>3, <3>4 DEF Deletion
  <2>. QED
    BY <2>2, <2>3 DEF DeletionsMakeSense
<1>. QED
  BY <1>2, <1>4, <1>5

LEMMA NextSense == IInv /\ Sense /\ [Next]_vars => Sense'
<1>. SUFFICES ASSUME IInv, Sense, [Next]_vars PROVE Sense'
  OBVIOUS
<1>. USE DEF IInv, Sense
<1>1. CASE Restart
  <2>1. /\ UNCHANGED <<row, plan, err>>
        /\ \A s \in Session : pc'[s] = IF pc[s] \in Live THEN "killed" ELSE pc[s]
        /\ \A r \in Request : del'[r].step = "idle"
    BY <1>1 DEF Restart, Idle
  <2>2. PlansMakeSense' /\ DeletionsMakeSense'
    BY <2>1 DEF PlansMakeSense, DeletionsMakeSense, Live, Working
  <2>3. RunsMakeSense'
    BY <2>1 DEF RunsMakeSense, Live, Working, AfterRun
  <2>4. RowsMakeSense'
    BY <2>1 DEF RowsMakeSense, Outcome, Live, Working
  <2>. QED
    BY <2>2, <2>3, <2>4
<1>2. CASE OpenStore
  <2>1. /\ UNCHANGED <<plan, pc, err, del>>
        /\ \A s \in Session : /\ row'[s] = row[s] \/ (Running(s) /\ row'[s].status = "error")
                              /\ row'[s].snapshot = row[s].snapshot
    BY <1>2 DEF OpenStore, Reconcile, Running
  <2>2. PlansMakeSense' /\ RunsMakeSense'
    BY <2>1 DEF PlansMakeSense, RunsMakeSense
  <2>3. \A s \in Session : ~StoreMayFail /\ pc[s] = "done" => ~Running(s)
    BY OutcomeEnds DEF RowsMakeSense, Running, Ended
  <2>4. RowsMakeSense'
    BY <2>1, <2>3 DEF RowsMakeSense, Outcome
  <2>5. DeletionsMakeSense'
    BY <2>1 DEF DeletionsMakeSense, DeletesEnded, Outcome, TypeOK
  <2>. QED
    BY <2>2, <2>4, <2>5
<1>3. ASSUME NEW s \in Session, StartBackup(s) \/ StartApply(s) \/ StartFork(s) PROVE Sense'
  BY <1>3, StartsASensiblePlan, StartKeepsSense
<1>4. CASE UNCHANGED <<row, plan, pc, err, del>>
  <2>1. \A s : Outcome(s)' = Outcome(s)
    BY <1>4 DEF Outcome
  <2>. QED
    BY <1>4, <2>1 DEF PlansMakeSense, RunsMakeSense, RowsMakeSense, DeletionsMakeSense
<1>5. CASE OpenFails \/ (\E s \in Session : Cancel(s)) \/ (Tick /\ UNCHANGED sessionVars)
           \/ UNCHANGED vars
  BY <1>4, <1>5 DEF OpenFails, Cancel, sessionVars, vars
<1>. QED
  BY <1>1, <1>2, <1>3, <1>5, GoroutineKeepsSense, DeletionKeepsSense DEF Next, Process, User

-----------------------------------------------------------------------------
(***************************************************************************)
(* What is fixed for the life of a session.                                *)
(***************************************************************************)
PlansStay ==
  \A t \in Session : pc[t] # "unborn" => pc'[t] # "unborn" /\ plan'[t] = plan[t]

LEMMA NextPlansStay == IInv /\ [Next]_vars => PlansStay
<1>. SUFFICES ASSUME IInv, [Next]_vars PROVE PlansStay
  OBVIOUS
<1>. USE DEF IInv
<1>1. ASSUME NEW s \in Session, NEW p \in Plan, Start(s, p) PROVE PlansStay
  BY <1>1 DEF Start, PlansStay, TypeOK
<1>2. ASSUME NEW s \in Session, Goroutine(s) PROVE PlansStay
  BY <1>2, GoroutineWrites DEF PlansStay, Live, Working
<1>3. ASSUME NEW r \in Request, Deletion(r) PROVE PlansStay
  BY <1>3, DeletionStep DEF PlansStay
<1>4. CASE Restart
  BY <1>4 DEF Restart, PlansStay
<1>5. CASE UNCHANGED <<plan, pc>>
  BY <1>5 DEF PlansStay
<1>. QED
  BY <1>1, <1>2, <1>3, <1>4, <1>5, StartsAPlan
  DEF Next, Process, User, OpenStore, OpenFails, Cancel, sessionVars, vars

\* A folder that is shared stays shared.
LEMMA SoleStays ==
  ASSUME PlansStay, NEW s \in Session, pc[s] # "unborn"
  PROVE  /\ Produces(s)' => Produces(s)
         /\ NewDir(s)' = NewDir(s)
         /\ SoleProducer(s)' => SoleProducer(s)
         /\ SoleOwner(s)' => SoleOwner(s)
<1>1. Produces(s)' => Produces(s)
  BY DEF PlansStay, Produces
<1>2. \A t \in Session : pc[t] # "unborn" =>
        /\ NewDir(t)' = NewDir(t)
        /\ RowDir(t, plan[t].snapshot)' = RowDir(t, plan[t].snapshot)
        /\ Produces(t) => Produces(t)'
        /\ pc'[t] # "unborn"
  BY DEF PlansStay, Produces, NewDir, RowDir
<1>3. SoleProducer(s)' => SoleProducer(s)
  BY <1>2 DEF SoleProducer, Produces
<1>4. SoleOwner(s)' => SoleOwner(s)
  BY <1>2, <1>3 DEF SoleOwner
<1>. QED
  BY <1>1, <1>2, <1>3, <1>4

LEMMA NewDirIsFolder ==
  ASSUME TypeOK, PlansMakeSense, NEW s \in Session, Produces(s)
  PROVE  NewDir(s) \in Folder
BY DEF TypeOK, PlansMakeSense, Produces, NewDir, SnapshotDir, Folder, Plan, Names

FolderOf(s) == FailedIsGone(s) /\ OwnIsWhole(s) /\ RestoresOwn(s) /\ DeletionGoesOn(s)

\* A step of another actor that leaves the folder alone.
LEMMA StepBeside ==
  ASSUME IInv, Sense, PlansStay, NEW s \in Session, FolderOf(s),
         pc'[s] = pc[s], err'[s] = err[s], restored'[s] = restored[s],
         row'[s].status = "none" <=> row[s].status = "none",
         s \in logged' => s \in logged, s \in cut => s \in cut',
         \A step \in {"logs", "folder"} : DeletesAt(s, step) => DeletesAt(s, step)' \/ s \in cut',
         Produces(s) /\ SoleProducer(s) => folder'[NewDir(s)] = folder[NewDir(s)]
  PROVE  FolderOf(s)'
<1>1. CASE pc[s] = "unborn"
  <2>1. err[s] = "nil"
    BY <1>1 DEF Sense, RunsMakeSense, AfterRun
  <2>. QED
    BY <1>1, <2>1 DEF FolderOf, FailedIsGone, OwnIsWhole, Backed, RestoresOwn, DeletionGoesOn,
         AfterRun
<1>2. CASE pc[s] # "unborn"
  <2>1. /\ Produces(s)' => Produces(s)
        /\ NewDir(s)' = NewDir(s)
        /\ SoleProducer(s)' => SoleProducer(s)
        /\ SoleOwner(s)' => SoleOwner(s)
        /\ plan'[s] = plan[s]
    BY <1>2, SoleStays DEF PlansStay
  <2>2. SoleOwner(s) => SoleProducer(s)
    BY DEF SoleOwner
  <2>3. FailedIsGone(s)'
    BY <2>1 DEF FolderOf, FailedIsGone
  <2>4. OwnIsWhole(s)'
    BY <2>1, <2>2 DEF FolderOf, OwnIsWhole, Backed
  <2>5. RestoresOwn(s)'
    BY <2>1 DEF FolderOf, RestoresOwn
  <2>6. BackupIsGone(s) => BackupIsGone(s)'
    BY <2>1 DEF BackupIsGone
  <2>7. DeletionGoesOn(s)'
    BY <2>6 DEF FolderOf, DeletionGoesOn
  <2>. QED
    BY <2>3, <2>4, <2>5, <2>7 DEF FolderOf
<1>. QED
  BY <1>1, <1>2

\* Runs write folders of their own only, and remove no other.
LEMMA RunsKeepOut ==
  ASSUME IInv, Sense, NEW s \in Session, NEW t \in Session \ {s}, Goroutine(t),
         Produces(s), SoleProducer(s)
  PROVE  folder'[NewDir(s)] = folder[NewDir(s)]
<1>1. NewDir(s) \in Folder /\ folder \in [Folder -> Content]
  BY NewDirIsFolder DEF IInv, Sense, TypeOK, SnapshotsTypeOK
<1>2. Produces(t) => NewDir(t) # NewDir(s)
  BY DEF SoleProducer
<1>3. pc[t] \in {"backup", "dumping"} => Produces(t)
  BY DEF Sense, RunsMakeSense, Produces, Working
<1>4. pc[t] = "unregistered" /\ CleansUp(t) => Produces(t)
  BY DEF Sense, RunsMakeSense, CleansUp, Failures, Produces
<1>5. CASE BackupOpen(t)
  BY <1>1, <1>2, <1>3, <1>5 DEF BackupOpen, Goto, CreateArtifact
<1>6. CASE BackupDone(t)
  BY <1>1, <1>2, <1>3, <1>6 DEF BackupDone, CompleteArtifact
<1>7. CASE Cleanup(t)
  BY <1>1, <1>2, <1>4, <1>7 DEF Cleanup, Goto, RemoveAll
<1>8. CASE UNCHANGED folder
  BY <1>8
<1>. QED
  BY <1>5, <1>6, <1>7, <1>8
  DEF Goroutine, Work, Begin, ProvisionDone, ApplyOpen, ApplyDone, RunFails, Unregister,
      Finish, FinishIsLost

\* What the goroutine of a session does with its own folder.
LEMMA RunKeepsFolder ==
  ASSUME IInv, Sense, PlansStay, NEW s \in Session, FolderOf(s), Goroutine(s)
  PROVE  FolderOf(s)'
<1>1. /\ pc[s] \in Live /\ pc[s] \notin {"unborn", "done", "killed"} /\ row[s].status = "running"
      /\ plan' = plan
  BY GoroutineStep DEF IInv, LiveIsRunning, Running, Live, Working
<1>2. row'[s].status # "none"
  <2>1. CASE Finish(s)
    BY <1>1, <2>1, OutcomeEnds DEF IInv, TypeOK, Finish, Ended
  <2>2. CASE ~Finish(s)
    BY <1>1, <2>2, GoroutineWrites DEF IInv
  <2>. QED
    BY <2>1, <2>2
<1>3. /\ Produces(s)' => Produces(s)
      /\ NewDir(s)' = NewDir(s)
      /\ SoleProducer(s)' => SoleProducer(s)
      /\ SoleOwner(s)' => SoleOwner(s)
      /\ SoleOwner(s) => SoleProducer(s)
  BY <1>1, SoleStays DEF SoleOwner
<1>4. Sense /\ TypeOK
  BY DEF IInv
<1>5. DeletionGoesOn(s)'
  BY <1>2 DEF DeletionGoesOn
<1>6. CASE ~(Produces(s) /\ SoleProducer(s))
  BY <1>3, <1>5, <1>6 DEF FolderOf, FailedIsGone, OwnIsWhole, RestoresOwn
<1>7. CASE Produces(s) /\ SoleProducer(s)
  <2>. DEFINE dir == NewDir(s)
              Whole == pc[s] \in {"provision", "apply", "restoring"}
                       \/ (pc[s] \in AfterRun /\ err[s] = "nil")
              Restored == pc[s] = "restoring" \/ (pc[s] \in AfterRun /\ err[s] = "nil")
              Restores == /\ SoleOwner(s) /\ plan[s].kind = "fork"
                          /\ plan[s].service = TypeName[plan[s].service]
              Failed == pc[s] \in {"cleaned", "done"} /\ err[s] \in Failures
  <2>1. /\ Failed => folder[dir] = "absent"
        /\ SoleOwner(s) /\ pc[s] = "dumping" => folder[dir] # "absent"
        /\ SoleOwner(s) /\ Whole => folder[dir] = "complete"
        /\ Restores /\ Restored => restored[s] = "complete"
    BY <1>1, <1>7 DEF FolderOf, FailedIsGone, OwnIsWhole, Backed, RestoresOwn
  <2>2. /\ dir \in Folder
        /\ pc \in [Session -> PC] /\ err \in [Session -> {"nil", "notimpl", "canceled", "error"}]
        /\ folder \in [Folder -> Content]
        /\ restored \in [Session -> Content \cup {"nothing"}]
        /\ plan[s].fresh /\ plan[s].service \in Supported
    BY <1>4, <1>7, NewDirIsFolder DEF Sense, TypeOK, SnapshotsTypeOK, Produces
  <2>3. /\ Failed' => folder'[dir] = "absent"
        /\ SoleOwner(s) /\ pc'[s] = "dumping" => folder'[dir] # "absent"
        /\ SoleOwner(s) /\ Whole' => folder'[dir] = "complete"
        /\ Restores /\ Restored' => restored'[s] = "complete"
    <3>. HIDE DEF dir
    <3>1. CASE Begin(s)
      BY <1>1, <2>2, <3>1 DEF Begin, Return, FirstPhase, Failures, AfterRun
    <3>2. CASE BackupOpen(s)
      BY <1>1, <2>2, <3>2 DEF BackupOpen, Goto, CreateArtifact, Failures, AfterRun, dir
    <3>3. CASE BackupDone(s)
      <4>1. ~\E t \in Session \ {s} : pc[t] = "dumping" /\ NewDir(t) = NewDir(s)
        BY <1>4, <1>7 DEF SoleProducer, Produces, Sense, RunsMakeSense, Working
      <4>2. folder' = [folder EXCEPT ![dir] = IF @ = "absent" THEN @ ELSE "complete"]
        BY <3>3, <4>1 DEF BackupDone, CompleteArtifact, dir
      <4>3. SoleOwner(s) => folder'[dir] = "complete"
        BY <2>1, <2>2, <3>3, <4>2 DEF BackupDone
      <4>4. \/ plan[s].kind = "backup" /\ pc'[s] = "returned" /\ err'[s] = "nil"
            \/ plan[s].kind = "fork" /\ pc'[s] = "provision"
        BY <2>2, <3>3 DEF BackupDone, Return, Goto
      <4>. QED
        BY <4>3, <4>4 DEF Failures, AfterRun
    <3>4. CASE ProvisionDone(s)
      BY <1>1, <2>1, <2>2, <3>4 DEF ProvisionDone, Goto, Failures, AfterRun
    <3>5. CASE ApplyOpen(s)
      <4>1. pc[s] = "apply" /\ UNCHANGED folder
        BY <3>5 DEF ApplyOpen
      <4>2. pc'[s] \in {"restoring", "returned"} /\ (pc'[s] = "returned" => err'[s] = "nil")
        BY <2>2, <3>5 DEF ApplyOpen, Goto, Return
      <4>3. ASSUME Restores PROVE restored'[s] = "complete"
        <5>1. folder[dir] = "complete"
          BY <2>1, <4>1, <4>3
        <5>2. SourceDirs(s) = {dir}
          <6>1. plan[s].snapshot \in Stamps /\ plan[s].snapshot # 0
            BY <1>1, <1>4, <2>2 DEF Sense, PlansMakeSense, Stamps
          <6>2. /\ dir.profile = plan[s].source /\ dir.service = plan[s].service
                /\ dir.stamp = plan[s].snapshot
            BY DEF dir, NewDir, SnapshotDir
          <6>3. \A d \in Folder : d = [profile |-> d.profile, service |-> d.service,
                                       stamp |-> d.stamp]
            BY DEF Folder
          <6>4. \A d \in Folder : d.profile = dir.profile /\ d.service = dir.service
                                  /\ d.stamp = dir.stamp => d = dir
            BY <2>2, <6>3
          <6>5. SourceDirs(s) = {d \in ListSnapshots(plan[s].source, plan[s].service) :
                                   d.stamp = plan[s].snapshot}
            BY <4>3, <6>1 DEF SourceDirs
          <6>. QED
            BY <2>2, <5>1, <6>2, <6>4, <6>5 DEF ListSnapshots
        <5>. QED
          BY <2>2, <3>5, <5>1, <5>2 DEF ApplyOpen
      <4>4. SoleOwner(s) => folder'[dir] = "complete"
        BY <2>1, <4>1
      <4>. QED
        BY <4>2, <4>3, <4>4 DEF Failures, AfterRun
    <3>6. CASE ApplyDone(s)
      BY <1>1, <2>1, <2>2, <3>6 DEF ApplyDone, Return, Failures, AfterRun
    <3>7. CASE RunFails(s)
      BY <1>1, <2>2, <3>7 DEF RunFails, Return, Failures, AfterRun
    <3>8. CASE Unregister(s)
      BY <1>1, <2>1, <2>2, <3>8 DEF Unregister, Goto, Failures, AfterRun
    <3>9. CASE Cleanup(s)
      BY <1>1, <2>2, <3>9 DEF Cleanup, CleansUp, Goto, RemoveAll, Failures, AfterRun, dir
    <3>10. CASE Finish(s) \/ FinishIsLost(s)
      <4>1. /\ pc'[s] = "done" /\ UNCHANGED <<folder, err, restored>>
            /\ pc[s] = "cleaned" \/ (pc[s] = "unregistered" /\ err[s] \notin Failures)
        BY <2>2, <3>10 DEF Finish, FinishIsLost, ReadyToFinish, CleansUp, Failures
      <4>. QED
        BY <2>1, <4>1 DEF AfterRun
    <3>. QED
      BY <3>1, <3>2, <3>3, <3>4, <3>5, <3>6, <3>7, <3>8, <3>9, <3>10 DEF Goroutine, Work
  <2>4. FailedIsGone(s)'
    BY <1>3, <2>3 DEF FailedIsGone
  <2>5. OwnIsWhole(s)'
    BY <1>3, <2>3 DEF OwnIsWhole, Backed
  <2>6. RestoresOwn(s)'
    BY <1>1, <1>3, <2>3 DEF RestoresOwn
  <2>. QED
    BY <1>5, <2>4, <2>5, <2>6 DEF FolderOf
<1>. QED
  BY <1>6, <1>7

\* A DELETE removes the folder that the row of its session names, and no other.
LEMMA DeletionsKeepOut ==
  ASSUME IInv, Sense, NEW s \in Session, NEW r \in Request, Deletion(r), Produces(s)
  PROVE  /\ folder'[NewDir(s)] \in {folder[NewDir(s)], "absent"}
         /\ SoleOwner(s) /\ ~(DeleteFolder(r) /\ del[r].id = s) =>
              folder'[NewDir(s)] = folder[NewDir(s)]
<1>1. NewDir(s) \in Folder /\ folder \in [Folder -> Content]
  BY NewDirIsFolder DEF IInv, Sense, TypeOK, SnapshotsTypeOK
<1>2. CASE DeleteFolder(r)
  <2>. DEFINE t == del[r].id
  <2>1. folder' = [folder EXCEPT ![RowDir(t, del[r].snapshot)] = "absent"]
    BY <1>2 DEF DeleteFolder, RemoveAll
  <2>2. /\ t \in Session /\ pc[t] # "unborn"
        /\ del[r].snapshot = plan[t].snapshot
    BY <1>2 DEF DeleteFolder, IInv, DeletesEnded, TypeOK, Sense, DeletionsMakeSense
  <2>3. SoleOwner(s) /\ t # s => RowDir(t, del[r].snapshot) # NewDir(s)
    BY <2>2 DEF SoleOwner
  <2>. QED
    BY <1>1, <1>2, <2>1, <2>3
<1>3. CASE UNCHANGED folder
  BY <1>3
<1>. QED
  BY <1>2, <1>3 DEF Deletion, DeleteGet, DeleteRow, DeleteLogs, DeleteFails

LEMMA DeletionKeepsFolder ==
  ASSUME IInv, Sense, PlansStay, NEW s \in Session, FolderOf(s), NEW r \in Request, Deletion(r)
  PROVE  FolderOf(s)'
<1>. DEFINE dir == NewDir(s)
<1>1. /\ UNCHANGED <<plan, pc, err, restored>>
      /\ row'[s].status # "none" => row'[s] = row[s]
  <2>1. UNCHANGED <<plan, pc, err, restored>>
    BY DEF Deletion, DeleteGet, DeleteRow, DeleteLogs, DeleteFolder, DeleteFails
  <2>2. row'[s].status # "none" => row'[s] = row[s]
    BY DeletionStep DEF IInv, TypeOK
  <2>. QED
    BY <2>1, <2>2
<1>2. /\ Produces(s)' <=> Produces(s)
      /\ NewDir(s)' = dir
      /\ SoleProducer(s)' <=> SoleProducer(s)
      /\ SoleOwner(s)' <=> SoleOwner(s)
  BY <1>1 DEF Produces, SoleProducer, SoleOwner, NewDir, RowDir
<1>3. FailedIsGone(s) /\ OwnIsWhole(s) /\ RestoresOwn(s) /\ DeletionGoesOn(s)
  BY DEF FolderOf
<1>4. Produces(s) => folder'[dir] \in {folder[dir], "absent"}
  BY DeletionsKeepOut
<1>5. FailedIsGone(s)'
  BY <1>1, <1>2, <1>3, <1>4 DEF FailedIsGone
<1>6. OwnIsWhole(s)'
  <2>1. DeleteFolder(r) /\ del[r].id = s => pc[s] \in {"done", "killed"} /\ row[s].status = "none"
    BY DEF DeleteFolder, IInv, DeletesEnded, Sense, DeletionsMakeSense
  <2>2. Backed(s)' => Backed(s) /\ ~(DeleteFolder(r) /\ del[r].id = s)
    BY <1>1, <2>1 DEF Backed
  <2>3. pc[s] = "dumping" => ~(DeleteFolder(r) /\ del[r].id = s)
    BY <2>1
  <2>. QED
    BY <1>1, <1>2, <1>3, <2>2, <2>3, DeletionsKeepOut DEF OwnIsWhole
<1>7. RestoresOwn(s)'
  BY <1>1, <1>2, <1>3 DEF RestoresOwn
<1>8. DeletionGoesOn(s)'
  <2>. SUFFICES ASSUME ~StoreMayFail, pc[s] = "done", row'[s].status = "none", s \notin cut'
                PROVE  \/ DeletesAt(s, "logs")'
                       \/ s \notin logged' /\ (DeletesAt(s, "folder")' \/ BackupIsGone(s)')
    BY <1>1 DEF DeletionGoesOn
  <2>1. del \in [Request -> Del] /\ row \in [Session -> Row]
    BY DEF IInv, TypeOK
  <2>2. /\ s \notin cut
        /\ s \in logged' => s \in logged
        /\ \A q \in Request \ {r} : del'[q] = del[q]
    BY <2>1 DEF Deletion, DeleteGet, DeleteRow, DeleteLogs, DeleteFolder, DeleteFails
  <2>3. BackupIsGone(s) => BackupIsGone(s)'
    BY <1>1, <1>2, <1>4 DEF BackupIsGone
  <2>4. ASSUME row[s].status = "none", del[r].id # s \/ del[r].step \notin {"logs", "folder"}
        PROVE  \/ DeletesAt(s, "logs")'
               \/ s \notin logged' /\ (DeletesAt(s, "folder")' \/ BackupIsGone(s)')
    <3>1. /\ DeletesAt(s, "logs") => DeletesAt(s, "logs")'
          /\ DeletesAt(s, "folder") => DeletesAt(s, "folder")'
      BY <2>2, <2>4 DEF DeletesAt
    <3>2. DeletesAt(s, "logs") \/ (s \notin logged /\ (DeletesAt(s, "folder") \/ BackupIsGone(s)))
      BY <1>3, <2>2, <2>4 DEF DeletionGoesOn
    <3>. QED
      BY <2>2, <2>3, <3>1, <3>2
  <2>5. ASSUME NEW t \in Session, DeleteGet(r, t) PROVE row[s].status = "none" /\ del[r].step = "idle"
    BY <2>5 DEF DeleteGet
  <2>6. CASE DeleteRow(r)
    <3>1. CASE row[s].status = "none"
      BY <2>4, <2>6, <3>1 DEF DeleteRow
    <3>2. CASE row[s].status # "none"
      <4>1. /\ del[r].id = s /\ del' = [del EXCEPT ![r].step = "logs"]
        BY <2>1, <2>6, <3>2 DEF DeleteRow, IInv, TypeOK
      <4>2. del'[r].id = s /\ del'[r].step = "logs"
        BY <2>1, <4>1 DEF Del
      <4>. QED
        BY <4>2 DEF DeletesAt
    <3>. QED
      BY <3>1, <3>2
  <2>7. CASE DeleteLogs(r)
    <3>1. UNCHANGED <<row, folder>> /\ del[r].step = "logs" /\ logged' = logged \ {del[r].id}
      BY <2>7 DEF DeleteLogs
    <3>2. CASE del[r].id # s
      BY <2>4, <3>1, <3>2
    <3>3. CASE del[r].id = s /\ del[r].snapshot # 0
      <4>1. del' = [del EXCEPT ![r] = [@ EXCEPT !.step = "folder"]]
        BY <2>7, <3>3 DEF DeleteLogs, AfterLogs
      <4>2. del'[r].id = s /\ del'[r].step = "folder"
        BY <2>1, <3>3, <4>1 DEF Del
      <4>. QED
        BY <3>1, <3>3, <4>2 DEF DeletesAt
    <3>4. CASE del[r].id = s /\ del[r].snapshot = 0
      <4>1. Outcome(s).snapshot = 0
        BY <3>1, <3>4 DEF Sense, DeletionsMakeSense
      <4>2. ASSUME Produces(s), SoleProducer(s) PROVE folder[dir] = "absent"
        <5>1. err[s] # "nil"
          <6>1. plan[s].snapshot # 0
            BY <4>2, MaxStampAssumption DEF Produces, Sense, PlansMakeSense, Stamps
          <6>. QED
            BY <4>1, <6>1 DEF Outcome
        <5>2. err[s] # "notimpl"
          BY <4>2 DEF Produces, Sense, RunsMakeSense
        <5>3. err[s] \in Failures
          BY <5>1, <5>2 DEF IInv, TypeOK, Failures
        <5>. QED
          BY <1>3, <4>2, <5>3 DEF FailedIsGone
      <4>3. BackupIsGone(s)'
        BY <1>1, <1>2, <3>1, <4>2 DEF BackupIsGone
      <4>. QED
        BY <3>1, <3>4, <4>3
    <3>. QED
      BY <3>2, <3>3, <3>4
  <2>8. CASE DeleteFolder(r)
    <3>1. /\ UNCHANGED <<row, logged>> /\ del[r].step = "folder"
          /\ folder' = [folder EXCEPT ![RowDir(del[r].id, del[r].snapshot)] = "absent"]
      BY <2>8 DEF DeleteFolder, RemoveAll
    <3>2. CASE del[r].id # s
      BY <2>4, <3>1, <3>2
    <3>3. CASE del[r].id = s
      <4>1. del[r].snapshot = plan[s].snapshot
        BY <3>1, <3>3 DEF Sense, DeletionsMakeSense
      <4>2. plan[s].kind = "backup" => RowDir(s, plan[s].snapshot) = dir
        BY DEF Sense, PlansMakeSense, RowDir, NewDir
      <4>3. Produces(s) => dir \in Folder /\ folder \in [Folder -> Content]
        BY NewDirIsFolder DEF IInv, Sense, TypeOK, SnapshotsTypeOK
      <4>4. BackupIsGone(s)'
        BY <1>1, <1>2, <3>1, <3>3, <4>1, <4>2, <4>3 DEF BackupIsGone
      <4>5. DeletesAt(s, "logs") => DeletesAt(s, "logs")'
        BY <2>2, <3>1 DEF DeletesAt
      <4>6. row[s].status = "none"
        BY <3>1
      <4>7. DeletesAt(s, "logs") \/ s \notin logged
        BY <1>3, <2>2, <4>6 DEF DeletionGoesOn
      <4>. QED
        BY <2>2, <4>4, <4>5, <4>7
    <3>. QED
      BY <3>2, <3>3
  <2>9. ~DeleteFails(r)
    BY DEF DeleteFails
  <2>. QED
    BY <2>4, <2>5, <2>6, <2>7, <2>8, <2>9 DEF Deletion
<1>. QED
  BY <1>5, <1>6, <1>7, <1>8 DEF FolderOf

LEMMA NextFolder ==
  ASSUME IInv, Sense, [Next]_vars, NEW s \in Session, FolderOf(s)
  PROVE  FolderOf(s)'
<1>1. PlansStay
  BY NextPlansStay
<1>2. TypeOK
  BY DEF IInv
<1>3. ASSUME NEW t \in Session, NEW p \in Plan, Start(t, p) PROVE FolderOf(s)'
  <2>1. CASE t = s
    <3>1. /\ pc[s] = "unborn" /\ pc'[s] = "queued" /\ UNCHANGED err
      BY <1>2, <1>3, <2>1 DEF Start, TypeOK
    <3>. QED
      BY <3>1 DEF FolderOf, FailedIsGone, OwnIsWhole, Backed, RestoresOwn, DeletionGoesOn, AfterRun
  <2>2. CASE t # s
    <3>1. /\ pc'[s] = pc[s] /\ row'[s] = row[s]
          /\ UNCHANGED <<folder, err, restored, logged, cut, del>>
      BY <1>2, <1>3, <2>2 DEF Start, TypeOK
    <3>. QED
      BY <1>1, <3>1, StepBeside DEF DeletesAt
  <2>. QED
    BY <2>1, <2>2
<1>4. ASSUME NEW t \in Session, Goroutine(t) PROVE FolderOf(s)'
  <2>1. CASE t = s
    BY <1>1, <1>4, <2>1, RunKeepsFolder
  <2>2. CASE t # s
    <3>1. /\ pc'[s] = pc[s] /\ row'[s] = row[s] /\ err'[s] = err[s] /\ restored'[s] = restored[s]
          /\ (s \in logged' => s \in logged) /\ UNCHANGED <<del, cut>>
      BY <1>2, <1>4, <2>2, GoroutineWrites
    <3>2. Produces(s) /\ SoleProducer(s) => folder'[NewDir(s)] = folder[NewDir(s)]
      BY <1>4, <2>2, RunsKeepOut
    <3>. QED
      BY <1>1, <3>1, <3>2, StepBeside DEF DeletesAt
  <2>. QED
    BY <2>1, <2>2
<1>5. ASSUME NEW r \in Request, Deletion(r) PROVE FolderOf(s)'
  BY <1>1, <1>5, DeletionKeepsFolder
<1>6. CASE Restart
  <2>1. CASE pc[s] \in Live
    <3>1. pc'[s] = "killed"
      BY <1>6, <2>1 DEF Restart
    <3>. QED
      BY <3>1 DEF FolderOf, FailedIsGone, OwnIsWhole, Backed, RestoresOwn, DeletionGoesOn, AfterRun
  <2>2. CASE pc[s] \notin Live
    <3>1. /\ pc'[s] = pc[s] /\ UNCHANGED <<row, folder, err, restored, logged>>
          /\ s \in cut => s \in cut'
          /\ \A step \in {"logs", "folder"} : DeletesAt(s, step) => s \in cut'
      BY <1>6, <2>2 DEF Restart, DeletesAt
    <3>. QED
      BY <1>1, <3>1, StepBeside
  <2>. QED
    BY <2>1, <2>2
<1>7. CASE OpenStore
  <2>1. /\ UNCHANGED <<pc, folder, err, restored, logged, cut, del>>
        /\ row'[s].status = "none" <=> row[s].status = "none"
    BY <1>7 DEF OpenStore, Reconcile
  <2>. QED
    BY <1>1, <2>1, StepBeside DEF DeletesAt
<1>8. CASE UNCHANGED <<row, pc, folder, err, restored, logged, cut, del>>
  BY <1>1, <1>8, StepBeside DEF DeletesAt
<1>9. CASE OpenFails \/ (\E t \in Session : Cancel(t)) \/ (Tick /\ UNCHANGED sessionVars)
           \/ UNCHANGED vars
  BY <1>8, <1>9 DEF OpenFails, Cancel, Tick, sessionVars, vars
<1>. QED
  BY <1>2, <1>3, <1>4, <1>5, <1>6, <1>7, <1>9, StartsAPlan DEF Next, Process, User

\* A session's folder is written and removed by those who may, at every step.
THEOREM FolderInvariant == Spec => [](Sense /\ FolderInv)
<1>1. Init => FolderInv
  BY DEF Init, FolderInv, FailedIsGone, OwnIsWhole, Backed, RestoresOwn, DeletionGoesOn, AfterRun
<1>2. IInv /\ Sense /\ FolderInv /\ [Next]_vars => FolderInv'
  BY NextFolder DEF FolderInv, FolderOf
<1>. QED
  BY <1>1, <1>2, InitSense, NextSense, Invariant, PTL DEF Spec

\* A row that shows an outcome belongs to a goroutine that has ended.
LEMMA EndedRows ==
  ASSUME IInv, NEW s \in Session, row[s].status \in Ended
  PROVE  pc[s] \in {"done", "killed"}
BY DEF IInv, TypeOK, PC, LiveIsRunning, UnbornHasNoRow, Running, Ended

\* Cleanup (backup.go, in the goroutine of Start): a session that is shown as cancelled
\* or failed has left no folder of its own.
THEOREM FailuresCleanUp == Spec => []FailedLeavesNoSnapshot
<1>1. IInv /\ Sense /\ FolderInv => FailedLeavesNoSnapshot
  <2>. SUFFICES ASSUME IInv, Sense, FolderInv, NEW s \in Session,
                       Produces(s), SoleProducer(s), row[s].status \in {"cancelled", "error"},
                       pc[s] # "killed", err[s] # "nil"
                PROVE  folder[NewDir(s)] = "absent"
    BY DEF FailedLeavesNoSnapshot
  <2>1. pc[s] = "done"
    BY EndedRows DEF Ended
  <2>2. err[s] \in Failures
    BY DEF Produces, Sense, RunsMakeSense, IInv, TypeOK, Failures
  <2>. QED
    BY <2>1, <2>2 DEF FolderInv, FailedIsGone
<1>. QED
  BY <1>1, FolderInvariant, Invariant, PTL

\* A backup that is shown as a success is whole on disk, as long as its folder is its own.
THEOREM SuccessesAreWhole == Spec => []SuccessKeepsSnapshot
<1>1. Sense /\ FolderInv => SuccessKeepsSnapshot
  BY DEF SuccessKeepsSnapshot, Sense, RowsMakeSense, FolderInv, OwnIsWhole, Backed, AfterRun
<1>. QED
  BY <1>1, FolderInvariant, PTL

\* handleDeleteBackup: once all requests about a session are over, its lines and the
\* folder of its backup are gone.
THEOREM DeletionsAreComplete == Spec => []DeleteLeavesNothing
<1>1. FolderInv => DeleteLeavesNothing
  <2>. SUFFICES ASSUME FolderInv, ~StoreMayFail, NEW s \in Session, Deleted(s)
                PROVE  s \notin logged /\ BackupIsGone(s)
    BY DEF DeleteLeavesNothing, BackupIsGone
  <2>. QED
    BY DEF FolderInv, DeletionGoesOn, Deleted, DeletesAt
<1>. QED
  BY <1>1, FolderInvariant, PTL

\* handleStartFork: a fork that succeeds has restored the backup that it took, as long as
\* the folder is its own and the instance bears its type's name.
THEOREM ForksRestoreTheirs == Spec => []ForkRestoresItsBackup
<1>1. Sense /\ FolderInv => ForkRestoresItsBackup
  BY DEF ForkRestoresItsBackup, Sense, RowsMakeSense, FolderInv, RestoresOwn, AfterRun
<1>. QED
  BY <1>1, FolderInvariant, PTL
=============================================================================
