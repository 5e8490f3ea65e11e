--------------------------- MODULE SessionLifecycle ---------------------------
(***************************************************************************)
(* What the session list promises to a client of the HTTP API, whatever    *)
(* the goroutines, the snapshot folders and the database do behind it:     *)
(*                                                                         *)
(*   - a session is running from the moment it exists, ends at most once,  *)
(*     and only an ended session can be deleted;                           *)
(*   - while a session of some workspace, service, profile and kind is     *)
(*     running, no second one starts.                                      *)
(***************************************************************************)
CONSTANTS
  Session,   \* session ids
  Keys,      \* what may run once at a time
  NoKey      \* the key of an id that has not been given out

VARIABLES
  state,     \* the life of each session id
  key        \* what each session runs

abstractVars == <<state, key>>

Ended == {"success", "unsupported", "error", "cancelled"}

AbstractInit ==
  /\ state = [s \in Session |-> "unborn"]
  /\ key = [s \in Session |-> NoKey]

Start(s, k) ==
  /\ state[s] = "unborn"
  /\ \A t \in Session : ~(state[t] = "running" /\ key[t] = k)
  /\ state' = [state EXCEPT ![s] = "running"]
  /\ key' = [key EXCEPT ![s] = k]

End(s) ==
  /\ state[s] = "running"
  /\ \E o \in Ended : state' = [state EXCEPT ![s] = o]
  /\ UNCHANGED key

(***************************************************************************)
(* The server restarts: whatever was running has failed.                   *)
(***************************************************************************)
Interrupt ==
  /\ state' = [s \in Session |->
                 IF state[s] = "running" THEN "error" ELSE state[s]]
  /\ UNCHANGED key

Delete(s) ==
  /\ state[s] \in Ended
  /\ state' = [state EXCEPT ![s] = "deleted"]
  /\ UNCHANGED key

AbstractNext ==
  \/ \E s \in Session, k \in Keys : Start(s, k)
  \/ \E s \in Session : End(s) \/ Delete(s)
  \/ Interrupt

AbstractSpec == AbstractInit /\ [][AbstractNext]_abstractVars
=============================================================================
