---------------------------- MODULE SessionPolling ----------------------------
(***************************************************************************)
(* A dialog of the UI that follows a session (useBackupSession.ts, in      *)
(* features/backups and in features/services/detail), the answers of       *)
(* GET /backups/{id}, and the log that the session writes.                 *)
(*                                                                         *)
(* The server's side of a session is SessionLifecycle, which               *)
(* BackupSessions implements, with the number of lines that the log has.   *)
(* A line is the session and its seq.                                      *)
(*                                                                         *)
(* The hooks of both features share the polling.  A viewer attaches to a   *)
(* session of the list; a starter asks the server to start one, or to      *)
(* re-attach to the one that runs, and follows what it is told.  No        *)
(* request is aborted: an answer is handled whenever it arrives.           *)
(***************************************************************************)
EXTENDS SessionLifecycle, Integers, Sequences, FiniteSets

CONSTANTS
  Call,      \* requests that may be in flight at once
  MyKey,     \* what a starter runs
  Outcomes,  \* bound: how a run may end
  MaxLines,  \* bound: lines of a log
  None

ASSUME KeyAssumption == MyKey \in Keys /\ NoKey \notin Keys
ASSUME OutcomesAssumption == Outcomes \subseteq Ended
ASSUME LinesAssumption == MaxLines \in Nat
ASSUME NoneAssumption == None \notin Session
ASSUME CallAssumption == IsFiniteSet(Call)

VARIABLES
  logged,  \* the seq of the last line of each session
  calls,   \* the requests in flight
  ui,      \* the hook's refs and the React state
  timers,  \* how many setTimeouts are pending, and whether timer.current is one
  late     \* history: the dialog was opened while answers to an earlier
           \* opening were on their way, or their timers still run

vars == <<state, key, logged, calls, ui, timers, late>>

Line == Session \X (1 .. MaxLines)

Status == Ended \cup {"running"}

\* A poll is sent, the handler reads the row, then the log, and the answer is
\* handled; a start is served in one step.
Calls == [at : {"free", "sent", "halfRead", "answered", "failed"},
          kind : {"poll", "start"},
          session : Session \cup {None},
          after : 0 .. MaxLines,
          upto : 0 .. MaxLines,
          status : Status]

Free == [at |-> "free", kind |-> "poll", session |-> None, after |-> 0, upto |-> 0,
         status |-> "running"]

\* "unreachable" is status "error" with the text of a failed request.
UI == [hook : {"viewer", "starter"},
       stopped : BOOLEAN,
       session : Session \cup {None},
       lastSeq : 0 .. MaxLines,
       status : Status \cup {"idle", "unreachable"},
       lines : Seq(Line)]

TypeOK ==
  /\ state \in [Session -> Status \cup {"unborn", "deleted"}]
  /\ key \in [Session -> Keys \cup {NoKey}]
  /\ logged \in [Session -> 0 .. MaxLines]
  /\ calls \in [Call -> Calls]
  /\ ui \in UI
  /\ timers \in [pending : Nat, current : BOOLEAN]
  /\ late \in BOOLEAN

Closed(hook) == [hook |-> hook, stopped |-> TRUE, session |-> None, lastSeq |-> 0,
                 status |-> "idle", lines |-> <<>>]

Init ==
  /\ AbstractInit
  /\ logged = [s \in Session |-> 0]
  /\ calls = [c \in Call |-> Free]
  /\ \E hook \in {"viewer", "starter"} : ui = Closed(hook)
  /\ timers = [pending |-> 0, current |-> FALSE]
  /\ late = FALSE

-----------------------------------------------------------------------------
(***************************************************************************)
(* The server: sessions start, write, end and are deleted.                 *)
(***************************************************************************)

client == <<calls, ui, timers, late>>

AnotherStarts ==
  /\ \E s \in Session, k \in Keys : Start(s, k)
  /\ UNCHANGED <<logged, client>>

WritesLine(s) ==
  /\ state[s] = "running"
  /\ logged[s] < MaxLines
  /\ logged' = [logged EXCEPT ![s] = @ + 1]
  /\ UNCHANGED <<state, key, client>>

Ends(s) ==
  /\ End(s)
  /\ state'[s] \in Outcomes
  /\ UNCHANGED <<logged, client>>

Restart ==
  /\ \E s \in Session : state[s] = "running"
  /\ Interrupt
  /\ UNCHANGED <<logged, client>>

Deleted(s) == Delete(s) /\ UNCHANGED <<logged, client>>

-----------------------------------------------------------------------------
(***************************************************************************)
(* The server: handlers.  handleGetBackup reads the row and then the log.  *)
(***************************************************************************)

server == <<state, key, logged, ui, timers, late>>

Becomes(c, call) == calls' = [calls EXCEPT ![c] = call]

LogFirst(c) == IF calls[c].at = "sent" THEN "log" ELSE "row"

\* What the next statement of handleGetBackup reads.
NextRead(c) == IF calls[c].at = "sent" THEN "row" ELSE "log"

AfterRead(c) == IF calls[c].at = "sent" THEN "halfRead" ELSE "answered"

ReadRow(c) ==
  LET s == calls[c].session IN
    IF state[s] \in Status
    THEN Becomes(c, [calls[c] EXCEPT !.at = AfterRead(c), !.status = state[s]])
    ELSE Becomes(c, [Free EXCEPT !.at = "failed"])  \* not found

\* The lines of a deleted row go in a second statement of Store.Delete.
ReadLog(c) ==
  LET s == calls[c].session IN
    \E n \in {logged[s]} \cup (IF state[s] = "deleted" THEN {calls[c].after} ELSE {}) :
      Becomes(c, [calls[c] EXCEPT !.at = AfterRead(c), !.upto = n])

GetBackup(c) ==
  /\ calls[c].kind = "poll"
  /\ calls[c].at \in {"sent", "halfRead"}
  /\ \/ NextRead(c) = "row" /\ ReadRow(c)
     \/ NextRead(c) = "log" /\ ReadLog(c)
  /\ UNCHANGED server

Running == {s \in Session : state[s] = "running" /\ key[s] = MyKey}

\* backupManager.Start: the session that runs, or a new one.
ServeStart(c) ==
  /\ calls[c].kind = "start"
  /\ calls[c].at = "sent"
  /\ \/ \E s \in Running :
          /\ Becomes(c, [calls[c] EXCEPT !.at = "answered", !.session = s])
          /\ UNCHANGED <<state, key>>
     \/ /\ Running = {}
        /\ \E s \in Session :
             /\ Start(s, MyKey)
             /\ Becomes(c, [calls[c] EXCEPT !.at = "answered", !.session = s])
     \/ /\ \A s \in Session : state[s] \notin {"unborn", "running"}  \* bound: no id is left
        /\ Becomes(c, [Free EXCEPT !.at = "failed"])
        /\ UNCHANGED <<state, key>>
  /\ UNCHANGED <<logged, ui, timers, late>>

\* A request fails: the network, a restart, or the store.
CallFails(c) ==
  /\ calls[c].at \in {"sent", "halfRead"}
  /\ Becomes(c, [Free EXCEPT !.at = "failed"])
  /\ UNCHANGED server

-----------------------------------------------------------------------------
(***************************************************************************)
(* The hook.  Sends are part of the step that causes them.                 *)
(***************************************************************************)

lifecycle == <<state, key, logged>>

Busy == {c \in Call : calls[c].at # "free"}

\* poll(): asks for what follows lastSeq of the session that the ref holds now.
Poll(free, s, after) ==
  /\ free # {}
  /\ LET c == CHOOSE c \in free : TRUE IN
       calls' = [d \in Call |->
         IF d = c THEN [Free EXCEPT !.at = "sent", !.session = s, !.after = after]
         ELSE IF d \in free THEN Free ELSE calls[d]]

StopKeepsTimer == UNCHANGED timers

\* clearTimeout(timer.current)
StopTimer ==
  timers' = [pending |-> IF timers.current THEN timers.pending - 1 ELSE timers.pending,
             current |-> FALSE]

\* What is under way when the dialog opens belongs to an earlier opening.  Bound: each
\* of them can turn into a chain of polls, and a chain needs a call.
Opens ==
  /\ ui.stopped
  /\ Cardinality(Busy) + timers.pending < Cardinality(Call)
  /\ late' = (Busy # {} \/ (late /\ timers.pending > 0))
  /\ UNCHANGED <<lifecycle, timers>>

Attach(s) ==
  /\ ui.hook = "viewer"
  /\ state[s] # "unborn"
  /\ Opens
  /\ ui' = [Closed("viewer") EXCEPT !.stopped = FALSE, !.session = s, !.status = "running"]
  /\ Poll(Call \ Busy, s, 0)

StartOrReattach ==
  /\ ui.hook = "starter"
  /\ Opens
  /\ ui' = [Closed("starter") EXCEPT !.stopped = FALSE, !.status = "running"]
  /\ Becomes(CHOOSE c \in Call \ Busy : TRUE, [Free EXCEPT !.at = "sent", !.kind = "start"])

\* detach and reset.
Close ==
  /\ ~ui.stopped
  /\ ui' = Closed(ui.hook)
  /\ StopTimer
  /\ UNCHANGED <<lifecycle, calls, late>>

\* What an answer does when the dialog is closed: nothing.
Dropped(c) ==
  /\ ui.stopped
  /\ Becomes(c, Free)
  /\ UNCHANGED <<ui, timers>>

Started(c) ==
  /\ calls[c].kind = "start"
  /\ calls[c].at = "answered"
  /\ \/ Dropped(c)
     \/ /\ ~ui.stopped
        /\ ui' = [ui EXCEPT !.session = calls[c].session]
        /\ Poll((Call \ Busy) \cup {c}, calls[c].session, ui.lastSeq)
        /\ UNCHANGED timers
  /\ UNCHANGED <<lifecycle, late>>

NewLinesAndTheLast(call) ==
  [i \in 1 .. call.upto - call.after + 1 |-> <<call.session, call.after + i - 1>>]

\* seq > after
NewLines(call) ==
  [i \in 1 .. call.upto - call.after |-> <<call.session, call.after + i>>]

PollsOnWhileItGrows(call) == call.status = "running" /\ call.upto > call.after

PollsOn(call) == call.status = "running"

Answered(c) ==
  /\ calls[c].kind = "poll"
  /\ calls[c].at = "answered"
  /\ \/ Dropped(c)
     \/ /\ ~ui.stopped
        /\ Becomes(c, Free)
        /\ ui' = [ui EXCEPT !.lastSeq = IF NewLines(calls[c]) # <<>> THEN calls[c].upto ELSE @,
                            !.status = calls[c].status,
                            !.lines = @ \o NewLines(calls[c])]
        /\ timers' = IF PollsOn(calls[c])
                     THEN [pending |-> timers.pending + 1, current |-> TRUE]
                     ELSE timers
  /\ UNCHANGED <<lifecycle, late>>

Failed(c) ==
  /\ calls[c].at = "failed"
  /\ \/ Dropped(c)
     \/ /\ ~ui.stopped
        /\ Becomes(c, Free)
        /\ ui' = [ui EXCEPT !.status = "unreachable"]
        /\ UNCHANGED timers
  /\ UNCHANGED <<lifecycle, late>>

AfterInterval(isCurrent) == timers

AfterTimeout(isCurrent) ==
  [pending |-> timers.pending - 1, current |-> timers.current /\ ~isCurrent]

\* A timeout ends: the one of timer.current, or one that the ref has lost.
TimerFires ==
  /\ timers.pending > 0
  /\ \E isCurrent \in BOOLEAN :
       /\ isCurrent => timers.current
       /\ ~isCurrent => timers.pending > 1 \/ ~timers.current
       /\ timers' = AfterTimeout(isCurrent)
  /\ IF ui.stopped \/ ui.session = None
     THEN UNCHANGED calls
     ELSE Poll(Call \ Busy, ui.session, ui.lastSeq)
  /\ UNCHANGED <<lifecycle, ui, late>>

-----------------------------------------------------------------------------
Serve(c) == GetBackup(c) \/ ServeStart(c)

Arrives(c) == Started(c) \/ Answered(c) \/ Failed(c)

Next ==
  \/ AnotherStarts \/ Restart
  \/ \E s \in Session : WritesLine(s) \/ Ends(s) \/ Deleted(s) \/ Attach(s)
  \/ \E c \in Call : Serve(c) \/ CallFails(c) \/ Arrives(c)
  \/ StartOrReattach \/ Close \/ TimerFires

Spec == Init /\ [][Next]_vars

(***************************************************************************)
(* The server answers, the browser delivers, timeouts end.  Nothing is     *)
(* assumed of the user, of the sessions and of failures.                   *)
(***************************************************************************)
Fairness ==
  /\ \A c \in Call : WF_vars(Serve(c) \/ Arrives(c))
  /\ WF_vars(TimerFires)

FairSpec == Spec /\ Fairness

-----------------------------------------------------------------------------
(***************************************************************************)
(* Properties.                                                             *)
(***************************************************************************)

\* While the dialog is open, unless answers to an earlier opening are about, it
\* shows the lines of its session from the first on, in order, each once, although they
\* come in pieces and what a piece is asked for depends on the one before.
ShowsThePrefix ==
  ~late => ui.lines = [i \in 1 .. ui.lastSeq |-> <<ui.session, i>>]

\* A dialog that says how its session ended shows all of its log: the answer that
\* ends the polling is the last one, so it must hold every line that is left.
EndedLogIsComplete ==
  ~late /\ ui.session # None /\ ui.status \in Ended /\ state[ui.session] # "deleted"
  => Len(ui.lines) = logged[ui.session]

\* The dialog never polls twice at a time: at most one request or timer is its own.
OnePoller ==
  ~late /\ ~ui.stopped => Cardinality(Busy) + timers.pending <= 1

\* An open dialog learns that its session has ended, whatever it was told before and
\* however the answers and the end interleave, unless a request fails.
LearnsTheEnd ==
  LET over == ~late /\ ui.session # None /\ state[ui.session] \in Ended IN
    over ~> (~over \/ ui.status \in {state[ui.session], "unreachable"})

\* A closed dialog comes to rest: no request and no timer is left, also of those that
\* an opening before the last one has lost, unless it is opened again.
ComesToRest ==
  ui.stopped ~> (~ui.stopped \/ (Busy = {} /\ timers.pending = 0))
=============================================================================
