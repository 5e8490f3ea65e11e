-------------------------- MODULE ForkProvisioning --------------------------
(***************************************************************************)
(* The containers that forks run in (docker.go, postgres_provision.go,     *)
(* minio_provision.go), from the handler that derives the local env to the *)
(* restore into the container (fork.go).  BackupSessions has the session   *)
(* around it, where provisioning is one step that succeeds or fails.       *)
(*                                                                         *)
(* A container is found by its name, easy-infra-local-<type>: the forks of *)
(* every workspace, and of every instance of a type, share one container.  *)
(* Each docker command and each probe is a step, and between any two of    *)
(* them other forks, the user and other programs may act.  The session's   *)
(* context may be cancelled, and a docker command fail, at any step.       *)
(***************************************************************************)
EXTENDS Integers, FiniteSets

CONSTANTS
  Fork,      \* what forks: the services of the workspaces
  Name,      \* containers, one for each service type that is Provisioner
  Box(_),    \* the container of a fork's type
  Extra(_),  \* what a fork publishes besides its port: minio's console
  Cred(_),   \* the user, password and database of a fork's source
  Ports,     \* host ports that a fork may choose
  MaxTries,  \* bound: how often each fork is requested
  None

ASSUME BoxAssumption == \A f \in Fork : Box(f) \in Name
ASSUME PortsAssumption == \A f \in Fork : Extra(f) \subseteq Ports \X {"console"}
ASSUME CredAssumption == None \notin Fork /\ \A f \in Fork : Cred(f) # None
ASSUME TriesAssumption == MaxTries \in Nat

VARIABLES
  box,    \* what docker has under each name
  taken,  \* host ports that other programs hold
  job     \* the fork of each service: its session's run, or the last one

vars == <<box, taken, job>>

Binding == Ports \X {"main", "console"}

Absent == [state |-> "absent", ports |-> {}, cred |-> None, ready |-> FALSE,
           data |-> None]

\* "created" was never started, "exited" was stopped.
Boxes == {Absent} \cup
         [state : {"created", "exited", "running"}, ports : SUBSET Binding,
          cred : {Cred(f) : f \in Fork}, ready : BOOLEAN, data : Fork \cup {None}]

AtWork == {"inspect", "remove", "run", "start", "probe", "wait", "restore"}

\* alone: history, nothing else has changed the container since the fork was
\* requested.  broken: history, docker or the restore failed of itself, or the
\* fork was cancelled.
Jobs == [step : AtWork \cup {"idle", "succeeded", "failed"},
         port : Ports, alone : BOOLEAN, broken : BOOLEAN, tries : 0 .. MaxTries]

\* The type invariant; only a running container accepts connections.
TypeOK ==
  /\ box \in [Name -> Boxes]
  /\ \A n \in Name : box[n].ready => box[n].state = "running"
  /\ taken \in SUBSET Ports
  /\ job \in [Fork -> Jobs]

Init ==
  /\ box = [n \in Name |-> Absent]
  /\ taken \in SUBSET Ports
  /\ \E p \in Ports :
       job = [f \in Fork |-> [step |-> "idle", port |-> p, alone |-> TRUE,
                              broken |-> FALSE, tries |-> 0]]

Publishes(f) == {<<job[f].port, "main">>} \cup Extra(f)

HostPorts(bindings) == {b[1] : b \in bindings}

\* docker refuses to start a container unless it can bind its ports.
PortsFree(n, bindings) ==
  /\ HostPorts(bindings) \cap taken = {}
  /\ \A b, c \in bindings : b[1] = c[1] => b = c
  /\ \A m \in Name \ {n} :
       box[m].state = "running" => HostPorts(box[m].ports) \cap HostPorts(bindings) = {}

Goes(f, step) == job' = [job EXCEPT ![f].step = step]

\* f does something to its container, which the other forks of it did not.
Acts(f, step, broken) ==
  job' = [g \in Fork |->
            IF g = f THEN [job[f] EXCEPT !.step = step, !.broken = broken]
            ELSE IF Box(g) = Box(f) THEN [job[g] EXCEPT !.alone = FALSE]
            ELSE job[g]]

-----------------------------------------------------------------------------
(***************************************************************************)
(* The handler: the local env has the source's credentials, and its port   *)
(* unless the request names another.  While the session runs, a second     *)
(* request is given the same session and changes nothing here.             *)
(***************************************************************************)
Request(f) ==
  /\ job[f].step \notin AtWork
  /\ job[f].tries < MaxTries
  /\ \E p \in Ports :
       job' = [job EXCEPT ![f] = [step |-> "inspect", port |-> p, alone |-> TRUE,
                                  broken |-> FALSE, tries |-> job[f].tries + 1]]
  /\ UNCHANGED <<box, taken>>

(***************************************************************************)
(* EnsureContainer decides by what inspect tells it, once.                 *)
(***************************************************************************)
SamePorts(bound, wanted) == bound = wanted

\* Mutant: a container that runs is reused before its ports are compared.
DecisionByState(b, wanted) ==
  IF b.state = "absent" THEN "run"
  ELSE IF b.state = "running" THEN "probe"
  ELSE IF SamePorts(b.ports, wanted) THEN "start"
  ELSE "remove"

Decision(b, wanted) ==
  IF b.state = "absent" THEN "run"
  ELSE IF ~SamePorts(b.ports, wanted) THEN "remove"
  ELSE IF b.state = "running" THEN "probe"
  ELSE "start"

Inspect(f) ==
  /\ job[f].step = "inspect"
  /\ Goes(f, Decision(box[Box(f)], Publishes(f)))
  /\ UNCHANGED <<box, taken>>

(***************************************************************************)
(* rm -f.  Of a name that is gone, docker may or may not make an error.    *)
(* The daemon may have done what the killed command asked for.             *)
(***************************************************************************)
Remove(f) ==
  /\ job[f].step = "remove"
  /\ \/ /\ box[Box(f)] = Absent
        /\ \E step \in {"run", "failed"} : Goes(f, step)
        /\ UNCHANGED box
     \/ /\ box[Box(f)] # Absent
        /\ box' = [box EXCEPT ![Box(f)] = Absent]
        /\ \E cut \in BOOLEAN : Acts(f, IF cut THEN "failed" ELSE "run", cut)
  /\ UNCHANGED taken

(***************************************************************************)
(* run -d.  When the ports cannot be bound, the container was created and  *)
(* stays so.  A name that someone else has created meanwhile is refused.   *)
(***************************************************************************)
\* Mutant: only the main port is published.
NewBoxMainPort(f, state) == [state |-> state, ports |-> {<<job[f].port, "main">>},
                             cred |-> Cred(f), ready |-> FALSE, data |-> None]

NewBox(f, state) == [state |-> state, ports |-> Publishes(f), cred |-> Cred(f),
                     ready |-> FALSE, data |-> None]

Run(f) ==
  /\ job[f].step = "run"
  /\ \/ /\ box[Box(f)] # Absent
        /\ Goes(f, "failed")
        /\ UNCHANGED box
     \/ /\ box[Box(f)] = Absent /\ PortsFree(Box(f), Publishes(f))
        /\ box' = [box EXCEPT ![Box(f)] = NewBox(f, "running")]
        /\ \E cut \in BOOLEAN : Acts(f, IF cut THEN "failed" ELSE "probe", cut)
     \/ /\ box[Box(f)] = Absent
        /\ box' = [box EXCEPT ![Box(f)] = NewBox(f, "created")]
        /\ Acts(f, "failed", PortsFree(Box(f), Publishes(f)))
  /\ UNCHANGED taken

Start(f) ==
  LET b == box[Box(f)] IN
  /\ job[f].step = "start"
  /\ \/ /\ b.state = "running"
        /\ Goes(f, "probe")
        /\ UNCHANGED box
     \/ /\ b.state \in {"created", "exited"} /\ PortsFree(Box(f), b.ports)
        /\ box' = [box EXCEPT ![Box(f)] = [b EXCEPT !.state = "running", !.ready = FALSE]]
        /\ \E cut \in BOOLEAN : Acts(f, IF cut THEN "failed" ELSE "probe", cut)
     \/ /\ b = Absent \/ (b.state # "running" /\ ~PortsFree(Box(f), b.ports))
        /\ Goes(f, "failed")
        /\ UNCHANGED box
  /\ UNCHANGED taken

-----------------------------------------------------------------------------
(***************************************************************************)
(* waitReady: Health connects to the port with the credentials; the select *)
(* then waits for the ticker, the deadline or the context.                 *)
(***************************************************************************)
Answers(f) ==
  LET b == box[Box(f)] IN
  /\ b.state = "running" /\ b.ready
  /\ <<job[f].port, "main">> \in b.ports
  /\ b.cred = Cred(f)

Probe(f) ==
  /\ job[f].step = "probe"
  /\ Goes(f, IF Answers(f) THEN "restore" ELSE "wait")
  /\ UNCHANGED <<box, taken>>

Tick(f) ==
  /\ job[f].step = "wait"
  /\ Goes(f, "probe")
  /\ UNCHANGED <<box, taken>>

\* Mutant: the timer is made anew in each turn of the loop, and never fires.
DeadlineRearmed(f) ==
  /\ job[f].step = "wait" /\ job[f].tries > MaxTries
  /\ UNCHANGED vars

Deadline(f) ==
  /\ job[f].step = "wait"
  /\ job' = [job EXCEPT ![f].step = "failed", ![f].broken = TRUE]
  /\ UNCHANGED <<box, taken>>

(***************************************************************************)
(* The snapshot is restored through the local env: into whatever answers   *)
(* there by then.  The restore itself is one step here.                    *)
(***************************************************************************)
Restore(f) ==
  /\ job[f].step = "restore"
  /\ \/ /\ Answers(f)
        /\ box' = [box EXCEPT ![Box(f)].data = f]
        /\ Acts(f, "succeeded", FALSE)
     \/ /\ ~Answers(f)
        /\ Goes(f, "failed")
        /\ UNCHANGED box
  /\ UNCHANGED taken

\* A command or a connection fails before it has done anything, or the context
\* is cancelled.
Break(f) ==
  /\ job[f].step \in AtWork
  /\ job' = [job EXCEPT ![f].step = "failed", ![f].broken = TRUE]
  /\ UNCHANGED <<box, taken>>

-----------------------------------------------------------------------------
(***************************************************************************)
(* What is outside: a container accepts connections some time after it was *)
(* started, the user stops or removes it, other programs come and go.      *)
(***************************************************************************)
BecomesReady(n) ==
  /\ box[n].state = "running" /\ ~box[n].ready
  /\ box' = [box EXCEPT ![n].ready = TRUE]
  /\ UNCHANGED <<taken, job>>

UserChanges(n) ==
  /\ box[n].state = "running"
  /\ \E b \in {Absent, [box[n] EXCEPT !.state = "exited", !.ready = FALSE]} :
       box' = [box EXCEPT ![n] = b]
  /\ job' = [f \in Fork |->
               IF Box(f) = n THEN [job[f] EXCEPT !.alone = FALSE] ELSE job[f]]
  /\ UNCHANGED taken

OthersListen(p) ==
  /\ \/ p \in taken /\ taken' = taken \ {p}
     \/ /\ \A n \in Name : box[n].state = "running" => p \notin HostPorts(box[n].ports)
        /\ taken' = taken \cup {p}
  /\ UNCHANGED <<box, job>>

Next ==
  \/ \E f \in Fork :
       \/ Request(f) \/ Inspect(f) \/ Remove(f) \/ Run(f) \/ Start(f)
       \/ Probe(f) \/ Tick(f) \/ Deadline(f) \/ Restore(f) \/ Break(f)
  \/ \E n \in Name : BecomesReady(n) \/ UserChanges(n)
  \/ \E p \in Ports : OthersListen(p)

Spec == Init /\ [][Next]_vars

\* Commands and probes return.  The ticker and the deadline both fire; once the
\* deadline has, select takes it in the end although the ticker goes on.
Fairness ==
  \A f \in Fork :
    /\ WF_vars(Inspect(f)) /\ WF_vars(Remove(f)) /\ WF_vars(Run(f)) /\ WF_vars(Start(f))
    /\ WF_vars(Probe(f)) /\ WF_vars(Tick(f)) /\ WF_vars(Restore(f))
    /\ SF_vars(Deadline(f))

FairSpec == Spec /\ Fairness
-----------------------------------------------------------------------------
(***************************************************************************)
(* A fork that succeeded, and whose container nobody else has touched      *)
(* since it was requested, runs on the ports and with the credentials of   *)
(* the local profile and holds the fork's data: whatever was there before  *)
(* under the name, EnsureContainer reused or replaced it rightly.          *)
(***************************************************************************)
SucceededIsThere ==
  \A f \in Fork :
    job[f].step = "succeeded" /\ job[f].alone =>
      /\ box[Box(f)].state = "running"
      /\ box[Box(f)].ports = Publishes(f)
      /\ box[Box(f)].cred = Cred(f)
      /\ box[Box(f)].data = f

(***************************************************************************)
(* Provisioning is safe to run repeatedly (docker.go): whatever earlier    *)
(* forks left behind when they failed between two commands, docker refuses *)
(* a command of a fork that is alone only because a port is held, and its  *)
(* container keeps it waiting only until it is ready, unless it has other  *)
(* credentials.                                                            *)
(***************************************************************************)
RetriesGoThrough ==
  [][\A f \in Fork :
       job[f].step \in AtWork /\ job[f].alone /\ job'[f].alone =>
         /\ job'[f].step = "failed" /\ ~job'[f].broken
              => ~PortsFree(Box(f), Publishes(f))
         /\ job[f].step = "probe" /\ job'[f].step = "wait"
              => ~box[Box(f)].ready \/ box[Box(f)].cred # Cred(f)]_vars

(***************************************************************************)
(* Every fork ends, also when its container never accepts its credentials. *)
(***************************************************************************)
EveryForkEnds ==
  \A f \in Fork : job[f].step \in AtWork ~> job[f].step \notin AtWork
=============================================================================
