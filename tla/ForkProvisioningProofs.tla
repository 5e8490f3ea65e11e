----------------------- MODULE ForkProvisioningProofs -----------------------
(***************************************************************************)
(* The container of a fork that is alone, at every step of the fork, and   *)
(* what follows for the forks that succeeded and for retries; for any      *)
(* number of forks, containers and ports.                                  *)
(***************************************************************************)
EXTENDS ForkProvisioning, TLAPS

\* What a fork that is alone knows of its container.
LoneAt(f) ==
  /\ job[f].step = "remove" => box[Box(f)] # Absent
  /\ job[f].step = "run" => box[Box(f)] = Absent
  /\ job[f].step = "start" => /\ box[Box(f)].state \in {"created", "exited"}
                              /\ box[Box(f)].ports = Publishes(f)
  /\ job[f].step \in {"probe", "wait"} => /\ box[Box(f)].state = "running"
                                          /\ box[Box(f)].ports = Publishes(f)
  /\ job[f].step = "restore" => Answers(f) /\ box[Box(f)].ports = Publishes(f)
  /\ job[f].step = "succeeded" => /\ box[Box(f)].state = "running"
                                  /\ box[Box(f)].ports = Publishes(f)
                                  /\ box[Box(f)].cred = Cred(f)
                                  /\ box[Box(f)].data = f

IInv ==
  /\ TypeOK
  /\ \A f \in Fork : job[f].alone => LoneAt(f)

Steps == AtWork \cup {"idle", "succeeded", "failed"}

-----------------------------------------------------------------------------
\* A set of bindings that a fork asks for is one that a container may have.
LEMMA PublishesType ==
  ASSUME TypeOK, NEW f \in Fork
  PROVE  Publishes(f) \in SUBSET Binding
BY PortsAssumption DEF TypeOK, Jobs, Publishes, Binding

\* A container is absent or has one of the other states.
LEMMA BoxState ==
  ASSUME NEW b \in Boxes
  PROVE  /\ b = Absent <=> b.state = "absent"
         /\ b # Absent => b.state \in {"created", "exited", "running"}
<1>1. CASE b = Absent
  BY <1>1 DEF Absent
<1>2. CASE b # Absent
  <2>1. b.state \in {"created", "exited", "running"}
    BY <1>2 DEF Boxes
  <2> QED BY <1>2, <2>1
<1> QED BY <1>1, <1>2

\* f goes on and leaves its container as it is.
LEMMA GoesKeeps ==
  ASSUME IInv, NEW f \in Fork, NEW j \in Jobs, job' = [job EXCEPT ![f] = j],
         UNCHANGED <<box, taken>>,
         j.alone => LoneAt(f)'
  PROVE  IInv'
<1>1. \A g \in Fork : job'[g] = IF g = f THEN j ELSE job[g]
  BY DEF IInv, TypeOK
<1>2. TypeOK'
  BY DEF IInv, TypeOK
<1>3. ASSUME NEW g \in Fork, job'[g].alone PROVE LoneAt(g)'
  <2>1. CASE g = f
    BY <1>1, <1>3, <2>1
  <2>2. CASE g # f
    <3>1. job'[g] = job[g] /\ LoneAt(g)
      BY <1>1, <1>3, <2>2 DEF IInv
    <3> QED BY <3>1 DEF LoneAt, Publishes, Answers
  <2> QED BY <2>1, <2>2
<1> QED BY <1>2, <1>3 DEF IInv

\* The same for a step that only moves on.
LEMMA StepKeeps ==
  ASSUME IInv, NEW f \in Fork, NEW step \in Steps, Goes(f, step),
         UNCHANGED <<box, taken>>,
         job[f].alone => LoneAt(f)'
  PROVE  IInv'
<1> DEFINE j == [job[f] EXCEPT !.step = step]
<1>1. job[f] \in Jobs /\ j \in Jobs /\ j.alone = job[f].alone
  BY DEF IInv, TypeOK, Jobs, Steps
<1>2. job' = [job EXCEPT ![f] = j]
  BY DEF Goes
<1> HIDE DEF j
<1> QED BY <1>1, <1>2, GoesKeeps

\* f changes its container: the forks that share it are not alone any more.
LEMMA ActsKeeps ==
  ASSUME IInv, NEW f \in Fork, NEW step \in Steps, NEW broken \in BOOLEAN,
         NEW b \in Boxes, b.ready => b.state = "running",
         box' = [box EXCEPT ![Box(f)] = b], UNCHANGED taken,
         Acts(f, step, broken),
         job[f].alone => LoneAt(f)'
  PROVE  IInv'
<1>1. Box(f) \in Name
  BY BoxAssumption
<1>2. \A g \in Fork : Box(g) # Box(f) => job'[g] = job[g] /\ box'[Box(g)] = box[Box(g)]
  BY <1>1, BoxAssumption DEF IInv, TypeOK, Acts
<1>3. \A g \in Fork : g # f /\ Box(g) = Box(f) => ~job'[g].alone
  BY DEF IInv, TypeOK, Jobs, Acts
<1>4. job'[f].alone = job[f].alone
  BY DEF IInv, TypeOK, Jobs, Acts
<1>5. job' \in [Fork -> Jobs]
  BY DEF IInv, TypeOK, Jobs, Steps, Acts
<1>6. TypeOK'
  BY <1>1, <1>5 DEF IInv, TypeOK
<1>7. ASSUME NEW g \in Fork, job'[g].alone PROVE LoneAt(g)'
  <2>1. CASE g = f
    BY <1>4, <1>7, <2>1
  <2>2. CASE g # f
    <3>1. job'[g] = job[g] /\ box'[Box(g)] = box[Box(g)] /\ LoneAt(g)
      BY <1>2, <1>3, <1>7, <2>2 DEF IInv
    <3> QED BY <3>1 DEF LoneAt, Publishes, Answers
  <2> QED BY <2>1, <2>2
<1> QED BY <1>6, <1>7 DEF IInv
-----------------------------------------------------------------------------
(***************************************************************************)
(* The steps of a fork.                                                    *)
(***************************************************************************)
LEMMA RequestKeeps ==
  ASSUME IInv, NEW f \in Fork, Request(f)
  PROVE  IInv'
<1>1. PICK p \in Ports :
        job' = [job EXCEPT ![f] = [step |-> "inspect", port |-> p, alone |-> TRUE,
                                   broken |-> FALSE, tries |-> job[f].tries + 1]]
  BY DEF Request
<1> DEFINE j == [step |-> "inspect", port |-> p, alone |-> TRUE, broken |-> FALSE,
                 tries |-> job[f].tries + 1]
<1>2. j \in Jobs
  BY TriesAssumption DEF Request, IInv, TypeOK, Jobs, AtWork
<1>3. job'[f].step = "inspect"
  BY <1>1 DEF IInv, TypeOK
<1>4. LoneAt(f)'
  BY <1>3 DEF LoneAt
<1> HIDE DEF j
<1> QED BY <1>1, <1>2, <1>4, GoesKeeps DEF j, Request

LEMMA GivesUpKeeps ==
  ASSUME IInv, NEW f \in Fork, Deadline(f) \/ Break(f)
  PROVE  IInv'
<1> DEFINE j == [job[f] EXCEPT !.step = "failed", !.broken = TRUE]
<1>1. job' = [job EXCEPT ![f] = j] /\ UNCHANGED <<box, taken>>
  BY DEF Deadline, Break
<1>2. j \in Jobs
  BY DEF IInv, TypeOK, Jobs
<1>3. job'[f].step = "failed"
  BY <1>1 DEF IInv, TypeOK, Jobs
<1>4. LoneAt(f)'
  BY <1>3 DEF LoneAt
<1> HIDE DEF j
<1> QED BY <1>1, <1>2, <1>4, GoesKeeps

LEMMA InspectKeeps ==
  ASSUME IInv, NEW f \in Fork, Inspect(f)
  PROVE  IInv'
<1> DEFINE step == Decision(box[Box(f)], Publishes(f))
<1>1. job[f] \in Jobs /\ box[Box(f)] \in Boxes
  BY BoxAssumption DEF IInv, TypeOK
<1>2. step \in {"run", "remove", "probe", "start"}
  BY DEF Decision
<1>3. job'[f].step = step /\ Publishes(f)' = Publishes(f) /\ box' = box
  BY <1>1 DEF Inspect, Goes, Publishes, IInv, TypeOK, Jobs
<1>4. /\ box[Box(f)] # Absent => box[Box(f)].state \in {"created", "exited", "running"}
      /\ box[Box(f)] = Absent <=> box[Box(f)].state = "absent"
  BY <1>1, BoxState
<1>5. /\ step = "run" => box[Box(f)].state = "absent"
      /\ step # "run" => box[Box(f)].state # "absent"
      /\ step \in {"probe", "start"} => box[Box(f)].ports = Publishes(f)
      /\ step = "probe" => box[Box(f)].state = "running"
      /\ step = "start" => box[Box(f)].state # "running"
  BY DEF Decision, SamePorts
<1> HIDE DEF step
<1>6. LoneAt(f)'
  BY <1>2, <1>3, <1>4, <1>5 DEF LoneAt
<1> QED BY <1>2, <1>6, StepKeeps DEF Inspect, Steps, AtWork, step

\* Moving between the probe and the wait for the next.
LEMMA ProbeKeeps ==
  ASSUME IInv, NEW f \in Fork, Probe(f) \/ Tick(f)
  PROVE  IInv'
<1> DEFINE step == IF Probe(f) THEN IF Answers(f) THEN "restore" ELSE "wait" ELSE "probe"
<1>1. job[f] \in Jobs /\ job[f].step \in {"probe", "wait"}
  BY DEF IInv, TypeOK, Probe, Tick
<1>2. Goes(f, step) /\ UNCHANGED <<box, taken>>
  BY DEF Probe, Tick
<1>3. /\ job'[f].step = step /\ job'[f].port = job[f].port
      /\ Publishes(f)' = Publishes(f) /\ Answers(f)' = Answers(f)
  BY <1>1, <1>2 DEF Goes, Publishes, Answers, IInv, TypeOK, Jobs
<1>4. job[f].alone => LoneAt(f)'
  BY <1>1, <1>2, <1>3 DEF LoneAt, IInv
<1>5. step \in Steps
  BY DEF Steps, AtWork
<1> HIDE DEF step
<1> QED BY <1>2, <1>4, <1>5, StepKeeps

LEMMA RemoveKeeps ==
  ASSUME IInv, NEW f \in Fork, Remove(f)
  PROVE  IInv'
<1>1. Absent \in Boxes /\ ~Absent.ready /\ Box(f) \in Name
  BY BoxAssumption DEF Boxes, Absent
<1>2. CASE box[Box(f)] = Absent
  <2>1. PICK step \in {"run", "failed"} : Goes(f, step) /\ UNCHANGED <<box, taken>>
    BY <1>2 DEF Remove
  <2>2. job'[f].step = step
    BY <2>1 DEF Goes, IInv, TypeOK, Jobs
  <2>3. LoneAt(f)'
    BY <1>2, <2>1, <2>2 DEF LoneAt
  <2> QED BY <2>1, <2>3, StepKeeps DEF Steps, AtWork
<1>3. CASE box[Box(f)] # Absent
  <2>1. PICK cut \in BOOLEAN : Acts(f, IF cut THEN "failed" ELSE "run", cut)
    BY <1>3 DEF Remove
  <2> DEFINE step == IF cut THEN "failed" ELSE "run"
  <2>2. box' = [box EXCEPT ![Box(f)] = Absent] /\ UNCHANGED taken
    BY <1>3 DEF Remove
  <2>3. job'[f].step = step /\ box'[Box(f)] = Absent
    BY <1>1, <2>1, <2>2 DEF Acts, IInv, TypeOK, Jobs
  <2>4. LoneAt(f)'
    BY <2>3 DEF LoneAt
  <2>5. step \in Steps
    BY DEF Steps, AtWork
  <2>6. Acts(f, step, cut)
    BY <2>1
  <2> HIDE DEF step
  <2> QED BY <1>1, <2>2, <2>4, <2>5, <2>6, ActsKeeps
<1> QED BY <1>2, <1>3

\* The container that run makes is one that docker may have.
LEMMA NewBoxType ==
  ASSUME IInv, NEW f \in Fork, NEW state \in {"created", "running"}
  PROVE  NewBox(f, state) \in Boxes /\ ~NewBox(f, state).ready
BY PublishesType DEF NewBox, Boxes, IInv

LEMMA RunKeeps ==
  ASSUME IInv, NEW f \in Fork, Run(f)
  PROVE  IInv'
<1>1. Box(f) \in Name
  BY BoxAssumption
<1>2. CASE Goes(f, "failed") /\ UNCHANGED box
  <2>1. job'[f].step = "failed" /\ UNCHANGED taken
    BY <1>2 DEF Run, Goes, IInv, TypeOK, Jobs
  <2>2. LoneAt(f)'
    BY <2>1 DEF LoneAt
  <2> QED BY <1>2, <2>1, <2>2, StepKeeps DEF Steps
<1>3. ASSUME NEW cut \in BOOLEAN,
             box' = [box EXCEPT ![Box(f)] = NewBox(f, "running")],
             Acts(f, IF cut THEN "failed" ELSE "probe", cut)
      PROVE  IInv'
  <2> DEFINE step == IF cut THEN "failed" ELSE "probe"
  <2>1. /\ job'[f].step = step /\ job'[f].port = job[f].port
        /\ box'[Box(f)] = NewBox(f, "running") /\ UNCHANGED taken
    BY <1>1, <1>3 DEF Run, Acts, IInv, TypeOK, Jobs
  <2>2. LoneAt(f)'
    BY <2>1 DEF LoneAt, NewBox, Publishes
  <2>3. step \in Steps /\ Acts(f, step, cut)
    BY <1>3 DEF Steps, AtWork
  <2> HIDE DEF step
  <2>4. NewBox(f, "running") \in Boxes /\ ~NewBox(f, "running").ready
    BY NewBoxType
  <2> QED BY <1>3, <2>1, <2>2, <2>3, <2>4, ActsKeeps
<1>4. ASSUME NEW broken \in BOOLEAN,
             box' = [box EXCEPT ![Box(f)] = NewBox(f, "created")],
             Acts(f, "failed", broken)
      PROVE  IInv'
  <2>1. job'[f].step = "failed" /\ UNCHANGED taken
    BY <1>4 DEF Run, Acts, IInv, TypeOK, Jobs
  <2>2. LoneAt(f)'
    BY <2>1 DEF LoneAt
  <2>3. NewBox(f, "created") \in Boxes /\ ~NewBox(f, "created").ready
    BY NewBoxType
  <2> QED BY <1>4, <2>1, <2>2, <2>3, ActsKeeps DEF Steps
<1>5. PortsFree(Box(f), Publishes(f)) \in BOOLEAN
  BY DEF PortsFree
<1> QED BY <1>2, <1>3, <1>4, <1>5 DEF Run

LEMMA StartKeeps ==
  ASSUME IInv, NEW f \in Fork, Start(f)
  PROVE  IInv'
<1> DEFINE b == [box[Box(f)] EXCEPT !.state = "running", !.ready = FALSE]
<1>1. Box(f) \in Name
  BY BoxAssumption
<1>2. CASE Goes(f, "probe") /\ UNCHANGED box /\ box[Box(f)].state = "running"
  <2>1. job'[f].step = "probe" /\ job'[f].alone = job[f].alone /\ UNCHANGED taken
    BY <1>2 DEF Start, Goes, IInv, TypeOK, Jobs
  <2>2. job[f].alone => LoneAt(f)'
    BY <1>2 DEF LoneAt, Start, IInv
  <2> QED BY <1>2, <2>1, <2>2, StepKeeps DEF Steps, AtWork
<1>3. ASSUME NEW cut \in BOOLEAN,
             box[Box(f)].state \in {"created", "exited"},
             box' = [box EXCEPT ![Box(f)] = b],
             Acts(f, IF cut THEN "failed" ELSE "probe", cut)
      PROVE  IInv'
  <2> DEFINE step == IF cut THEN "failed" ELSE "probe"
  <2>1. box[Box(f)] \in Boxes \ {Absent}
    BY <1>1, <1>3 DEF IInv, TypeOK, Absent
  <2>2. /\ b \in Boxes /\ b.state = "running" /\ b.ports = box[Box(f)].ports
    BY <2>1 DEF Boxes
  <2>3. /\ job'[f].step = step /\ job'[f].port = job[f].port
        /\ box'[Box(f)] = b /\ UNCHANGED taken
    BY <1>1, <1>3 DEF Start, Acts, IInv, TypeOK, Jobs
  <2>4. step \in Steps /\ Acts(f, step, cut) /\ step \in {"failed", "probe"}
    BY <1>3 DEF Steps, AtWork
  <2>5. Publishes(f)' = Publishes(f)
    BY <2>3 DEF Publishes
  <2> HIDE DEF step, b
  <2>6. job[f].alone => LoneAt(f)'
    BY <2>2, <2>3, <2>4, <2>5 DEF LoneAt, Start, IInv
  <2> QED BY <1>3, <2>2, <2>3, <2>4, <2>6, ActsKeeps
<1>4. CASE Goes(f, "failed") /\ UNCHANGED box
  <2>1. job'[f].step = "failed" /\ UNCHANGED taken
    BY <1>4 DEF Start, Goes, IInv, TypeOK, Jobs
  <2>2. LoneAt(f)'
    BY <2>1 DEF LoneAt
  <2> QED BY <1>4, <2>1, <2>2, StepKeeps DEF Steps
<1> QED BY <1>2, <1>3, <1>4 DEF Start

LEMMA RestoreKeeps ==
  ASSUME IInv, NEW f \in Fork, Restore(f)
  PROVE  IInv'
<1> DEFINE b == [box[Box(f)] EXCEPT !.data = f]
<1>1. Box(f) \in Name
  BY BoxAssumption
<1>2. CASE Answers(f)
  <2>1. box[Box(f)] \in Boxes \ {Absent}
    BY <1>1, <1>2 DEF IInv, TypeOK, Answers, Absent
  <2>2. /\ b \in Boxes /\ b.data = f /\ b.state = "running"
        /\ b.ports = box[Box(f)].ports /\ b.cred = Cred(f)
    BY <1>2, <2>1 DEF Boxes, Answers
  <2>3. box' = [box EXCEPT ![Box(f)] = b] /\ Acts(f, "succeeded", FALSE) /\ UNCHANGED taken
    BY <1>2 DEF Restore
  <2>4. job'[f].step = "succeeded" /\ job'[f].port = job[f].port /\ box'[Box(f)] = b
    BY <1>1, <2>3 DEF Acts, IInv, TypeOK, Jobs
  <2>5. Publishes(f)' = Publishes(f)
    BY <2>4 DEF Publishes
  <2> HIDE DEF b
  <2>6. job[f].alone => LoneAt(f)'
    BY <2>2, <2>4, <2>5 DEF LoneAt, Restore, IInv
  <2> QED BY <2>2, <2>3, <2>6, ActsKeeps DEF Steps
<1>3. CASE ~Answers(f)
  <2>1. Goes(f, "failed") /\ UNCHANGED <<box, taken>>
    BY <1>3 DEF Restore
  <2>2. job'[f].step = "failed"
    BY <2>1 DEF Goes, IInv, TypeOK, Jobs
  <2>3. LoneAt(f)'
    BY <2>2 DEF LoneAt
  <2> QED BY <2>1, <2>3, StepKeeps DEF Steps
<1> QED BY <1>2, <1>3
-----------------------------------------------------------------------------
(***************************************************************************)
(* What happens outside.                                                   *)
(***************************************************************************)
LEMMA BecomesReadyKeeps ==
  ASSUME IInv, NEW n \in Name, BecomesReady(n)
  PROVE  IInv'
<1> DEFINE b == [box[n] EXCEPT !.ready = TRUE]
<1>1. box[n] \in Boxes \ {Absent} /\ box[n].state = "running"
  BY DEF BecomesReady, IInv, TypeOK, Absent
<1>2. /\ b \in Boxes /\ b.state = "running" /\ b.ready
      /\ b.ports = box[n].ports /\ b.cred = box[n].cred /\ b.data = box[n].data
  BY <1>1 DEF Boxes
<1>3. box' = [box EXCEPT ![n] = b] /\ UNCHANGED <<taken, job>>
  BY DEF BecomesReady
<1>4. b # Absent
  BY <1>2 DEF Absent
<1> HIDE DEF b
<1>5. \A m \in Name : box'[m] = IF m = n THEN b ELSE box[m]
  BY <1>3 DEF IInv, TypeOK
<1>6. TypeOK'
  BY <1>2, <1>3, <1>5 DEF IInv, TypeOK
<1>7. ASSUME NEW f \in Fork, job'[f].alone PROVE LoneAt(f)'
  <2>1. LoneAt(f) /\ Publishes(f)' = Publishes(f) /\ Box(f) \in Name /\ job' = job
    BY <1>3, <1>7, BoxAssumption DEF IInv, Publishes
  <2>2. CASE Box(f) # n
    BY <2>1, <2>2, <1>5 DEF LoneAt, Answers
  <2>3. CASE Box(f) = n
    BY <1>1, <1>2, <1>4, <1>5, <2>1, <2>3 DEF LoneAt, Answers
  <2> QED BY <2>2, <2>3
<1> QED BY <1>6, <1>7 DEF IInv

LEMMA UserChangesKeeps ==
  ASSUME IInv, NEW n \in Name, UserChanges(n)
  PROVE  IInv'
<1>1. PICK b \in {Absent, [box[n] EXCEPT !.state = "exited", !.ready = FALSE]} :
        box' = [box EXCEPT ![n] = b]
  BY DEF UserChanges
<1>2. b \in Boxes /\ ~b.ready
  <2>1. CASE b = Absent
    BY <2>1 DEF Boxes, Absent
  <2>2. CASE b = [box[n] EXCEPT !.state = "exited", !.ready = FALSE]
    <3>1. box[n] \in Boxes \ {Absent}
      BY DEF UserChanges, IInv, TypeOK, Absent
    <3> QED BY <2>2, <3>1 DEF Boxes
  <2> QED BY <1>1, <2>1, <2>2
<1>3. \A f \in Fork : IF Box(f) = n THEN ~job'[f].alone ELSE job'[f] = job[f]
  BY DEF UserChanges, IInv, TypeOK, Jobs
<1>4. TypeOK'
  BY <1>1, <1>2 DEF UserChanges, IInv, TypeOK, Jobs
<1>5. ASSUME NEW f \in Fork, job'[f].alone PROVE LoneAt(f)'
  <2>1. Box(f) # n /\ job'[f] = job[f] /\ LoneAt(f) /\ box'[Box(f)] = box[Box(f)]
    BY <1>1, <1>3, <1>5, BoxAssumption DEF IInv, TypeOK
  <2> QED BY <2>1 DEF LoneAt, Answers, Publishes
<1> QED BY <1>4, <1>5 DEF IInv

LEMMA OthersListenKeeps ==
  ASSUME IInv, NEW p \in Ports, OthersListen(p)
  PROVE  IInv'
<1>1. UNCHANGED <<box, job>> /\ taken' \in SUBSET Ports
  BY DEF OthersListen, IInv, TypeOK
<1> QED BY <1>1 DEF IInv, TypeOK, LoneAt, Answers, Publishes

-----------------------------------------------------------------------------
(***************************************************************************)
(* The theorems.                                                           *)
(***************************************************************************)
LEMMA InitIInv == Init => IInv
<1> SUFFICES ASSUME Init PROVE IInv
  OBVIOUS
<1>1. PICK p \in Ports : job = [f \in Fork |-> [step |-> "idle", port |-> p,
                                   alone |-> TRUE, broken |-> FALSE, tries |-> 0]]
  BY DEF Init
<1>2. job \in [Fork -> Jobs] /\ \A f \in Fork : job[f].step = "idle"
  BY <1>1, TriesAssumption DEF Jobs
<1>3. TypeOK
  BY <1>2 DEF Init, TypeOK, Boxes, Absent
<1> QED BY <1>2, <1>3 DEF IInv, LoneAt

LEMMA NextIInv == IInv /\ [Next]_vars => IInv'
<1> SUFFICES ASSUME IInv, [Next]_vars PROVE IInv'
  OBVIOUS
<1>1. ASSUME NEW f \in Fork,
             \/ Request(f) \/ Inspect(f) \/ Remove(f) \/ Run(f) \/ Start(f)
             \/ Probe(f) \/ Tick(f) \/ Deadline(f) \/ Restore(f) \/ Break(f)
      PROVE  IInv'
  BY <1>1, RequestKeeps, InspectKeeps, RemoveKeeps, RunKeeps, StartKeeps, ProbeKeeps,
     GivesUpKeeps, RestoreKeeps
<1>2. ASSUME NEW n \in Name, BecomesReady(n) \/ UserChanges(n) PROVE IInv'
  BY <1>2, BecomesReadyKeeps, UserChangesKeeps
<1>3. ASSUME NEW p \in Ports, OthersListen(p) PROVE IInv'
  BY <1>3, OthersListenKeeps
<1>4. CASE UNCHANGED vars
  BY <1>4 DEF vars, IInv, TypeOK, LoneAt, Answers, Publishes
<1> QED BY <1>1, <1>2, <1>3, <1>4 DEF Next

\* The inductive invariant: what a fork that is alone knows of its container at
\* each step between its docker commands and its probes.
THEOREM ProvisioningInvariant == Spec => []IInv
<1>1. Init => IInv
  BY InitIInv
<1>2. IInv /\ [Next]_vars => IInv'
  BY NextIInv
<1> QED BY <1>1, <1>2, PTL DEF Spec

\* Containers and forks stay well typed; what accepts connections runs.
THEOREM ProvisioningTypeCorrect == Spec => []TypeOK
<1>1. IInv => TypeOK
  BY DEF IInv
<1> QED BY <1>1, ProvisioningInvariant, PTL

\* A fork that succeeded undisturbed is in its container, on its ports.
THEOREM SucceededForksAreThere == Spec => []SucceededIsThere
<1>1. IInv => SucceededIsThere
  BY DEF IInv, LoneAt, SucceededIsThere
<1> QED BY <1>1, ProvisioningInvariant, PTL

-----------------------------------------------------------------------------
(***************************************************************************)
(* Retries.                                                                *)
(***************************************************************************)

\* What RetriesGoThrough says of one fork.
GoesThrough(f) ==
  job[f].step \in AtWork /\ job[f].alone /\ job'[f].alone =>
    /\ job'[f].step = "failed" /\ ~job'[f].broken => ~PortsFree(Box(f), Publishes(f))
    /\ job[f].step = "probe" /\ job'[f].step = "wait"
         => ~box[Box(f)].ready \/ box[Box(f)].cred # Cred(f)

\* Nobody else moves a fork on.
LEMMA OthersDoNotMove ==
  ASSUME IInv, NEW f \in Fork, NEW g \in Fork, f # g,
         \/ Request(g) \/ Inspect(g) \/ Remove(g) \/ Run(g) \/ Start(g)
         \/ Probe(g) \/ Tick(g) \/ Deadline(g) \/ Restore(g) \/ Break(g)
  PROVE  job'[f].step = job[f].step
<1>1. /\ \A step : Goes(g, step) => job'[f].step = job[f].step
      /\ \A step, broken : Acts(g, step, broken) => job'[f].step = job[f].step
  BY DEF Goes, Acts, IInv, TypeOK, Jobs
<1>2. CASE Request(g) \/ Deadline(g) \/ Break(g)
  BY <1>2 DEF Request, Deadline, Break, IInv, TypeOK
<1>3. CASE Inspect(g) \/ Probe(g) \/ Tick(g)
  BY <1>1, <1>3 DEF Inspect, Probe, Tick
<1>4. CASE Remove(g) \/ Run(g)
  BY <1>1, <1>4 DEF Remove, Run
<1>5. CASE Start(g) \/ Restore(g)
  BY <1>1, <1>5 DEF Start, Restore
<1> QED BY <1>2, <1>3, <1>4, <1>5

\* docker refuses none of the commands of a fork that is alone, but for a port.
LEMMA CommandsGoThrough ==
  ASSUME IInv, NEW f \in Fork, job[f].alone, Remove(f) \/ Run(f) \/ Start(f)
  PROVE  GoesThrough(f)
<1>1. LoneAt(f) /\ job[f] \in Jobs
  BY DEF IInv, TypeOK
<1>2. /\ \A step : Goes(f, step) => job'[f].step = step
      /\ \A step, broken : Acts(f, step, broken) =>
           job'[f].step = step /\ job'[f].broken = broken
  BY DEF Goes, Acts, IInv, TypeOK, Jobs
<1>3. CASE Remove(f)
  <2>1. box[Box(f)] # Absent /\ job[f].step = "remove"
    BY <1>1, <1>3 DEF LoneAt, Remove
  <2>2. PICK cut \in BOOLEAN : Acts(f, IF cut THEN "failed" ELSE "run", cut)
    BY <1>3, <2>1 DEF Remove
  <2> QED BY <1>2, <2>1, <2>2 DEF GoesThrough
<1>4. CASE Run(f)
  <2>1. box[Box(f)] = Absent /\ job[f].step = "run"
    BY <1>1, <1>4 DEF LoneAt, Run
  <2>2. ASSUME NEW cut \in BOOLEAN, Acts(f, IF cut THEN "failed" ELSE "probe", cut)
        PROVE  GoesThrough(f)
    BY <1>2, <2>1, <2>2 DEF GoesThrough
  <2>3. ASSUME Acts(f, "failed", PortsFree(Box(f), Publishes(f)))
        PROVE  GoesThrough(f)
    BY <1>2, <2>1, <2>3 DEF GoesThrough
  <2> QED BY <1>4, <2>1, <2>2, <2>3 DEF Run
<1>5. CASE Start(f)
  <2>1. /\ box[Box(f)].state \in {"created", "exited"} /\ job[f].step = "start"
        /\ box[Box(f)].ports = Publishes(f) /\ box[Box(f)] # Absent
    BY <1>1, <1>5 DEF LoneAt, Start, Absent
  <2>2. ASSUME NEW cut \in BOOLEAN, Acts(f, IF cut THEN "failed" ELSE "probe", cut)
        PROVE  GoesThrough(f)
    BY <1>2, <2>1, <2>2 DEF GoesThrough
  <2>3. CASE ~PortsFree(Box(f), box[Box(f)].ports)
    BY <2>1, <2>3 DEF GoesThrough
  <2> QED BY <1>5, <2>1, <2>2, <2>3 DEF Start
<1> QED BY <1>3, <1>4, <1>5

\* What is left of the steps of f itself.
LEMMA WaitsGoThrough ==
  ASSUME IInv, NEW f \in Fork, job[f].alone,
         \/ Request(f) \/ Inspect(f) \/ Probe(f) \/ Tick(f) \/ Deadline(f)
         \/ Restore(f) \/ Break(f)
  PROVE  GoesThrough(f)
<1>1. LoneAt(f) /\ job[f] \in Jobs
  BY DEF IInv, TypeOK
<1>2. \A step : Goes(f, step) => job'[f].step = step
  BY DEF Goes, IInv, TypeOK, Jobs
<1>3. CASE Request(f)
  BY <1>3 DEF Request, GoesThrough
<1>4. CASE Deadline(f) \/ Break(f)
  <2>1. job'[f].step = "failed" /\ job'[f].broken
    BY <1>1, <1>4 DEF Deadline, Break, IInv, TypeOK, Jobs
  <2> QED BY <2>1 DEF GoesThrough
<1>5. CASE Inspect(f)
  <2>1. job[f].step = "inspect" /\ job'[f].step \in {"run", "remove", "probe", "start"}
    BY <1>2, <1>5 DEF Inspect, Decision
  <2> QED BY <2>1 DEF GoesThrough
<1>6. CASE Tick(f)
  <2>1. job[f].step = "wait" /\ job'[f].step = "probe"
    BY <1>2, <1>6 DEF Tick
  <2> QED BY <2>1 DEF GoesThrough
<1>7. CASE Probe(f)
  <2>1. /\ job[f].step = "probe" /\ job'[f].step \in {"restore", "wait"}
        /\ job'[f].step = "wait" => ~Answers(f)
    BY <1>2, <1>7 DEF Probe
  <2>2. box[Box(f)].state = "running" /\ <<job[f].port, "main">> \in box[Box(f)].ports
    BY <1>1, <2>1 DEF LoneAt, Publishes
  <2> QED BY <2>1, <2>2 DEF GoesThrough, Answers
<1>8. CASE Restore(f)
  <2>1. job[f].step = "restore" /\ Answers(f)
    BY <1>1, <1>8 DEF LoneAt, Restore
  <2>2. Acts(f, "succeeded", FALSE)
    BY <1>8, <2>1 DEF Restore
  <2>3. job'[f].step = "succeeded"
    BY <2>2 DEF Acts, IInv, TypeOK, Jobs
  <2> QED BY <2>1, <2>3 DEF GoesThrough
<1> QED BY <1>3, <1>4, <1>5, <1>6, <1>7, <1>8

\* Whatever failed forks have left behind, docker refuses a fork that is alone only
\* for a port, and its container keeps it waiting only until it is ready, unless it
\* has other credentials.
THEOREM RetriesDoGoThrough == Spec => RetriesGoThrough
<1>1. ASSUME IInv, [Next]_vars, NEW f \in Fork PROVE GoesThrough(f)
  <2>1. SUFFICES ASSUME job[f].alone, job'[f].step # job[f].step PROVE GoesThrough(f)
    BY DEF GoesThrough, AtWork
  <2>2. ASSUME NEW g \in Fork,
               \/ Request(g) \/ Inspect(g) \/ Remove(g) \/ Run(g) \/ Start(g)
               \/ Probe(g) \/ Tick(g) \/ Deadline(g) \/ Restore(g) \/ Break(g)
        PROVE  GoesThrough(f)
    <3>1. f = g
      BY <1>1, <2>1, <2>2, OthersDoNotMove
    <3> QED BY <1>1, <2>1, <2>2, <3>1, CommandsGoThrough, WaitsGoThrough
  <2>3. ASSUME NEW n \in Name, BecomesReady(n) \/ UserChanges(n) PROVE FALSE
    <3>1. job'[f].step = job[f].step
      BY <1>1, <2>3 DEF BecomesReady, UserChanges, IInv, TypeOK, Jobs
    <3> QED BY <2>1, <3>1
  <2>4. ASSUME NEW p \in Ports, OthersListen(p) PROVE FALSE
    BY <2>1, <2>4 DEF OthersListen
  <2>5. CASE UNCHANGED vars
    BY <2>1, <2>5 DEF vars
  <2> QED BY <1>1, <2>2, <2>3, <2>4, <2>5 DEF Next
<1>2. IInv /\ [Next]_vars => [\A f \in Fork : GoesThrough(f)]_vars
  BY <1>1
<1>3. [\A f \in Fork : GoesThrough(f)]_vars =>
        [\A f \in Fork :
           job[f].step \in AtWork /\ job[f].alone /\ job'[f].alone =>
             /\ job'[f].step = "failed" /\ ~job'[f].broken
                  => ~PortsFree(Box(f), Publishes(f))
             /\ job[f].step = "probe" /\ job'[f].step = "wait"
                  => ~box[Box(f)].ready \/ box[Box(f)].cred # Cred(f)]_vars
  BY DEF GoesThrough
<1> QED BY <1>2, <1>3, ProvisioningInvariant, PTL DEF Spec, RetriesGoThrough
=============================================================================
