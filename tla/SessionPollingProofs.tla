------------------------- MODULE SessionPollingProofs -------------------------
(***************************************************************************)
(* Proofs about SessionPolling, for every number of sessions, of lines and *)
(* of requests in flight.                                                  *)
(***************************************************************************)
EXTENDS SessionPolling, TLAPS, FiniteSetTheorems, SequenceTheorems

(***************************************************************************)
(* The invariant.  What an answer or a timer does depends on what the      *)
(* dialog showed when it was asked for, so the properties need to know     *)
(* what is under way: while the dialog is open and not late, one request   *)
(* or one timer at most, and it carries on where the log stands.           *)
(***************************************************************************)
Types ==
  /\ state \in [Session -> Status \cup {"unborn", "deleted"}]
  /\ logged \in [Session -> 0 .. MaxLines]
  /\ calls \in [Call -> Calls]
  /\ ui \in UI
  /\ timers \in [pending : Nat, current : BOOLEAN]
  /\ late \in BOOLEAN

\* Over is what a session that has ended stays.
Over == Ended \cup {"deleted"}

\* Which requests there can be, also those of an earlier opening.
CallsMakeSense ==
  \A c \in Call :
    /\ calls[c].at = "halfRead" => calls[c].kind = "poll"
    /\ calls[c].at \in {"sent", "halfRead", "answered"} /\ calls[c].kind = "poll" =>
         calls[c].session \in Session
    /\ calls[c].at = "answered" => calls[c].session \in Session

TimerCounts == timers.current => timers.pending > 0

ClosedIsEmpty == ui.stopped => ui = Closed(ui.hook)

QuietWhenClosed == ~late /\ ui.stopped => timers.pending = 0

Own == ~late /\ ~ui.stopped

\* One request or one timer, of which timer.current knows.
OneAtATime ==
  Own => /\ timers.pending = 0 \/ (timers.pending = 1 /\ timers.current)
         /\ \A c, d \in Busy : c = d
         /\ Busy # {} => timers.pending = 0
         /\ ui.status # "running" => Busy = {} /\ timers.pending = 0

\* What the dialog shows of its session.
ShowsItsSession ==
  Own => /\ ui.lines = [i \in 1 .. ui.lastSeq |-> <<ui.session, i>>]
         /\ ui.session = None => ui.lastSeq = 0 /\ timers.pending = 0
         /\ ui.session # None => ui.lastSeq <= logged[ui.session]
         /\ ui.status \in Ended =>
              /\ ui.session # None
              /\ state[ui.session] \in Over
              /\ state[ui.session] # "deleted" => ui.lastSeq = logged[ui.session]

\* A request of the dialog carries on where its log stands, and an answer that says
\* the session is over has all there is.
Fits(c) ==
  LET call == calls[c] IN
    /\ call.kind = "start" => ui.session = None
    /\ call.kind = "poll" /\ call.at # "failed" =>
         call.session = ui.session /\ call.after = ui.lastSeq
    /\ call.kind = "poll" /\ call.at \in {"halfRead", "answered"} /\ call.status \in Ended =>
         state[call.session] \in Over
    /\ call.kind = "poll" /\ call.at = "answered" =>
         /\ call.after <= call.upto /\ call.upto <= logged[call.session]
         /\ call.status \in Ended /\ state[call.session] # "deleted" =>
              call.upto = logged[call.session]

CallsFit == Own => \A c \in Busy : Fits(c)

PollInv ==
  /\ Types /\ CallsMakeSense /\ TimerCounts /\ ClosedIsEmpty /\ QuietWhenClosed
  /\ OneAtATime /\ ShowsItsSession /\ CallsFit

-----------------------------------------------------------------------------
LEMMA InitPollInv == Init => PollInv
<1> SUFFICES ASSUME Init PROVE PollInv
  OBVIOUS
<1>. USE NoneAssumption, LinesAssumption
<1>1. PICK hook \in {"viewer", "starter"} : ui = Closed(hook)
  BY DEF Init
<1>2. ui \in UI /\ ui.stopped /\ ui = Closed(ui.hook)
  BY <1>1 DEF Closed, UI
<1>3. Free \in Calls
  BY DEF Free, Calls, Status
<1>4. Types
  <2>1. state \in [Session -> Status \cup {"unborn", "deleted"}]
    BY DEF Init, AbstractInit
  <2>2. logged \in [Session -> 0 .. MaxLines]
    BY DEF Init
  <2>3. calls \in [Call -> Calls]
    BY <1>3 DEF Init
  <2>4. timers \in [pending : Nat, current : BOOLEAN] /\ late \in BOOLEAN
    BY DEF Init
  <2>. QED
    BY <1>2, <2>1, <2>2, <2>3, <2>4 DEF Types
<1>5. CallsMakeSense /\ TimerCounts /\ ClosedIsEmpty /\ QuietWhenClosed
  BY <1>2 DEF Init, Free, CallsMakeSense, TimerCounts, ClosedIsEmpty, QuietWhenClosed
<1>6. OneAtATime /\ ShowsItsSession /\ CallsFit
  BY <1>2 DEF OneAtATime, ShowsItsSession, CallsFit, Own
<1> QED
  BY <1>4, <1>5, <1>6 DEF PollInv

-----------------------------------------------------------------------------
(***************************************************************************)
(* The server.  Sessions end once, and the log of a session that has ended *)
(* does not grow: what the dialog knows of them stays true.                *)
(***************************************************************************)
LifeGoesOn ==
  /\ state' \in [Session -> Status \cup {"unborn", "deleted"}]
  /\ logged' \in [Session -> 0 .. MaxLines]
  /\ \A s \in Session :
       /\ state[s] \in Over => state'[s] \in Over /\ logged'[s] = logged[s]
       /\ state[s] = "deleted" => state'[s] = "deleted"
       /\ logged[s] <= logged'[s]

LEMMA LifeStands == Types /\ UNCHANGED lifecycle => LifeGoesOn
BY LinesAssumption DEF Types, LifeGoesOn, lifecycle

LEMMA StartGoesOn ==
  ASSUME Types, NEW s \in Session, NEW k \in Keys, Start(s, k), UNCHANGED logged
  PROVE  LifeGoesOn
BY LinesAssumption DEF Types, LifeGoesOn, Start, Status, Over, Ended

LEMMA LifeActions ==
  ASSUME Types,
         \/ AnotherStarts \/ Restart
         \/ \E s \in Session : WritesLine(s) \/ Ends(s) \/ Deleted(s)
  PROVE  LifeGoesOn /\ UNCHANGED client
<1>. USE LinesAssumption
<1>1. CASE AnotherStarts
  BY <1>1, StartGoesOn DEF AnotherStarts
<1>2. CASE Restart
  BY <1>2 DEF Restart, Interrupt, Types, LifeGoesOn, Status, Over, Ended
<1>3. ASSUME NEW s \in Session, WritesLine(s) PROVE LifeGoesOn /\ UNCHANGED client
  BY <1>3 DEF WritesLine, Types, LifeGoesOn, Over, Ended
<1>4. ASSUME NEW s \in Session, Ends(s) PROVE LifeGoesOn /\ UNCHANGED client
  BY <1>4 DEF Ends, End, Types, LifeGoesOn, Status, Over, Ended
<1>5. ASSUME NEW s \in Session, Deleted(s) PROVE LifeGoesOn /\ UNCHANGED client
  BY <1>5 DEF Deleted, Delete, Types, LifeGoesOn, Status, Over, Ended
<1>. QED
  BY <1>1, <1>2, <1>3, <1>4, <1>5

\* What the dialog shows stays right while the sessions live on.
LEMMA ShownStays ==
  ASSUME PollInv, LifeGoesOn, UNCHANGED <<ui, timers, late>>
  PROVE  ShowsItsSession'
<1>. SUFFICES ASSUME Own' PROVE ShowsItsSession'
  BY DEF ShowsItsSession
<1>1. Own /\ ui.session \in Session \cup {None} /\ ui.lastSeq \in 0 .. MaxLines
  BY DEF Own, PollInv, Types, UI
<1>. QED
  BY <1>1, LinesAssumption DEF PollInv, Types, LifeGoesOn, ShowsItsSession, Over

LEMMA FitStays ==
  ASSUME PollInv, LifeGoesOn, UNCHANGED <<ui, late>>, Own,
         NEW c \in Busy, calls'[c] = calls[c]
  PROVE  Fits(c)'
<1>1. c \in Call /\ calls[c] \in Calls /\ Fits(c)
  BY DEF PollInv, Types, CallsFit, Busy
<1>2. calls[c].kind = "poll" /\ calls[c].at \in {"halfRead", "answered"} =>
        calls[c].session \in Session
  BY <1>1 DEF PollInv, CallsMakeSense
<1>3. logged \in [Session -> 0 .. MaxLines] /\ logged' \in [Session -> 0 .. MaxLines]
  BY DEF PollInv, Types, LifeGoesOn
<1>. QED
  BY <1>1, <1>2, <1>3, LinesAssumption DEF LifeGoesOn, Fits, Calls, Over

LEMMA LifePollInv ==
  ASSUME PollInv, LifeGoesOn, UNCHANGED client
  PROVE  PollInv'
<1>1. Types' /\ CallsMakeSense' /\ TimerCounts' /\ ClosedIsEmpty' /\ QuietWhenClosed'
  BY DEF PollInv, Types, LifeGoesOn, client, CallsMakeSense, TimerCounts, ClosedIsEmpty,
         QuietWhenClosed
<1>2. OneAtATime'
  BY DEF PollInv, OneAtATime, Own, Busy, client
<1>3. ShowsItsSession'
  BY ShownStays DEF client
<1>4. CallsFit'
  BY FitStays DEF CallsFit, Own, Busy, client
<1>. QED
  BY <1>1, <1>2, <1>3, <1>4 DEF PollInv
-----------------------------------------------------------------------------
(***************************************************************************)
(* The handlers.  One request under way moves on.                          *)
(***************************************************************************)
Sensible(call) ==
  /\ call.at = "halfRead" => call.kind = "poll"
  /\ call.at \in {"sent", "halfRead", "answered"} /\ call.kind = "poll" =>
       call.session \in Session
  /\ call.at = "answered" => call.session \in Session

LEMMA CallMoves ==
  ASSUME PollInv, LifeGoesOn, UNCHANGED <<ui, timers, late>>,
         NEW c \in Call, calls[c].at # "free",
         NEW call \in Calls, call.at # "free", Sensible(call), Becomes(c, call),
         Own => Fits(c)'
  PROVE  PollInv'
<1>1. calls \in [Call -> Calls]
  BY DEF PollInv, Types
<1>2. /\ calls' \in [Call -> Calls]
      /\ calls'[c] = call
      /\ \A d \in Call \ {c} : calls'[d] = calls[d]
  BY <1>1 DEF Becomes
<1>3. Busy' = Busy /\ c \in Busy
  BY <1>2 DEF Busy
<1>4. Types' /\ TimerCounts' /\ ClosedIsEmpty' /\ QuietWhenClosed'
  BY <1>2 DEF PollInv, Types, LifeGoesOn, TimerCounts, ClosedIsEmpty, QuietWhenClosed
<1>5. CallsMakeSense'
  BY <1>2 DEF PollInv, CallsMakeSense, Sensible
<1>6. OneAtATime'
  BY <1>3 DEF PollInv, OneAtATime, Own
<1>7. ShowsItsSession'
  BY ShownStays
<1>8. CallsFit'
  <2>. SUFFICES ASSUME Own', NEW d \in Busy' PROVE Fits(d)'
    BY DEF CallsFit
  <2>1. Own /\ d \in Busy /\ d \in Call
    BY <1>3 DEF Own, Busy
  <2>2. CASE d = c
    BY <2>1, <2>2
  <2>3. CASE d # c
    BY <1>2, <2>1, <2>3, FitStays
  <2>. QED
    BY <2>2, <2>3
<1>. QED
  BY <1>4, <1>5, <1>6, <1>7, <1>8 DEF PollInv

LEMMA FreeCall == Free \in Calls
BY LinesAssumption DEF Free, Calls, Status

LEMMA FailedCall ==
  LET call == [Free EXCEPT !.at = "failed"] IN
    call \in Calls /\ call.at = "failed" /\ call.kind = "poll" /\ Sensible(call)
BY LinesAssumption DEF Free, Calls, Status, Sensible

\* A request that fails is known to be nothing else.
LEMMA CallDies ==
  ASSUME PollInv, NEW c \in Call, calls[c].at # "free",
         Becomes(c, [Free EXCEPT !.at = "failed"]), UNCHANGED server
  PROVE  PollInv'
<1>1. LifeGoesOn
  BY LifeStands DEF PollInv, server, lifecycle
<1>2. calls'[c] = [Free EXCEPT !.at = "failed"]
  BY DEF PollInv, Types, Becomes
<1>3. Fits(c)'
  BY <1>2, FailedCall DEF Fits
<1>. QED
  BY <1>1, <1>3, FailedCall, CallMoves DEF server

LEMMA GetBackupPollInv ==
  ASSUME PollInv, NEW c \in Call, GetBackup(c)
  PROVE  PollInv'
<1>. DEFINE s == calls[c].session
<1>1. /\ calls \in [Call -> Calls] /\ calls[c] \in Calls
      /\ calls[c].kind = "poll" /\ calls[c].at \in {"sent", "halfRead"}
      /\ s \in Session
      /\ state \in [Session -> Status \cup {"unborn", "deleted"}]
      /\ logged \in [Session -> 0 .. MaxLines]
  BY DEF PollInv, Types, CallsMakeSense, GetBackup
<1>2. LifeGoesOn
  BY LifeStands DEF PollInv, server, lifecycle, GetBackup
<1>3. Own => Fits(c)
  BY <1>1 DEF PollInv, CallsFit, Busy
<1>4. CASE ReadRow(c) /\ calls[c].at = "sent"
  <2>1. CASE state[s] \in Status
    <3>. DEFINE call == [calls[c] EXCEPT !.at = "halfRead", !.status = state[s]]
    <3>1. Becomes(c, call)
      BY <1>4, <2>1 DEF ReadRow, AfterRead
    <3>2. call \in Calls /\ call.at # "free" /\ Sensible(call)
      BY <1>1, <2>1 DEF Calls, Sensible
    <3>3. calls'[c] = call
      BY <1>1, <3>1 DEF Becomes
    <3>4. Own => Fits(c)'
      BY <1>1, <1>2, <1>3, <1>4, <3>3 DEF Fits, Calls, LifeGoesOn, Over, GetBackup, server
    <3>. QED
      BY <1>1, <1>2, <3>1, <3>2, <3>4, CallMoves DEF GetBackup, server
  <2>2. CASE state[s] \notin Status
    BY <1>1, <1>4, <2>2, CallDies DEF ReadRow, GetBackup
  <2>. QED
    BY <2>1, <2>2
<1>5. CASE ReadLog(c) /\ calls[c].at = "halfRead"
  <2>1. PICK n \in {logged[s]} \cup (IF state[s] = "deleted" THEN {calls[c].after} ELSE {}) :
          Becomes(c, [calls[c] EXCEPT !.at = AfterRead(c), !.upto = n])
    BY <1>5 DEF ReadLog
  <2>. DEFINE call == [calls[c] EXCEPT !.at = "answered", !.upto = n]
  <2>2. Becomes(c, call)
    BY <1>5, <2>1 DEF AfterRead
  <2>3. n \in 0 .. MaxLines /\ (n = logged[s] \/ (state[s] = "deleted" /\ n = calls[c].after))
    BY <1>1, <2>1 DEF Calls
  <2>4. call \in Calls /\ call.at # "free" /\ Sensible(call)
    BY <1>1, <2>3 DEF Calls, Sensible
  <2>5. calls'[c] = call
    BY <1>1, <2>2 DEF Becomes
  <2>6. Own => calls[c].after <= logged[s]
    BY <1>1, <1>3, <1>5, NoneAssumption DEF Fits, PollInv, ShowsItsSession
  <2>7. Own => Fits(c)'
    <3>1. ui' = ui /\ state' = state /\ logged' = logged
      BY DEF GetBackup, server
    <3>. QED
      BY <1>1, <1>3, <1>5, <2>3, <2>5, <2>6, <3>1, LinesAssumption DEF Fits, Calls
  <2>. QED
    BY <1>1, <1>2, <2>2, <2>4, <2>7, CallMoves DEF GetBackup, server
<1>. QED
  BY <1>1, <1>4, <1>5 DEF GetBackup, NextRead

LEMMA ServeStartPollInv ==
  ASSUME PollInv, NEW c \in Call, ServeStart(c)
  PROVE  PollInv'
<1>1. /\ calls \in [Call -> Calls] /\ calls[c] \in Calls
      /\ calls[c].kind = "start" /\ calls[c].at = "sent"
  BY DEF PollInv, Types, ServeStart
<1>2. ASSUME NEW s \in Session, Becomes(c, [calls[c] EXCEPT !.at = "answered", !.session = s]),
             LifeGoesOn
      PROVE  PollInv'
  <2>. DEFINE call == [calls[c] EXCEPT !.at = "answered", !.session = s]
  <2>1. call \in Calls /\ call.at # "free" /\ Sensible(call)
    BY <1>1 DEF Calls, Sensible
  <2>2. calls'[c] = call
    BY <1>1, <1>2 DEF Becomes
  <2>3. Own => Fits(c)'
    BY <1>1, <2>2 DEF PollInv, CallsFit, Busy, Fits, Calls, ServeStart
  <2>. QED
    BY <1>1, <1>2, <2>1, <2>3, CallMoves DEF ServeStart
<1>3. UNCHANGED <<state, key>> => LifeGoesOn
  BY LifeStands DEF PollInv, lifecycle, ServeStart
<1>4. ASSUME NEW s \in Session, Start(s, MyKey) PROVE LifeGoesOn
  BY <1>4, StartGoesOn, KeyAssumption DEF PollInv, ServeStart
<1>5. CASE Becomes(c, [Free EXCEPT !.at = "failed"]) /\ UNCHANGED <<state, key>>
  BY <1>1, <1>5, CallDies DEF ServeStart, server
<1>. QED
  BY <1>2, <1>3, <1>4, <1>5 DEF ServeStart, Running

LEMMA CallFailsPollInv ==
  ASSUME PollInv, NEW c \in Call, CallFails(c)
  PROVE  PollInv'
BY CallDies DEF CallFails
-----------------------------------------------------------------------------
(***************************************************************************)
(* The hook.                                                               *)
(***************************************************************************)

LEMMA ClosedType ==
  ASSUME NEW hook \in {"viewer", "starter"}
  PROVE  /\ Closed(hook) \in UI
         /\ Closed(hook).session = None /\ Closed(hook).lastSeq = 0
         /\ Closed(hook).lines = <<>> /\ Closed(hook).hook = hook
BY LinesAssumption DEF Closed, UI

\* A poll takes one of the requests that are free.
LEMMA PollSends ==
  ASSUME Types, NEW free \in SUBSET Call, NEW s \in Session, NEW after \in 0 .. MaxLines,
         Poll(free, s, after)
  PROVE  \E c \in free :
           /\ calls' \in [Call -> Calls]
           /\ calls'[c] = [Free EXCEPT !.at = "sent", !.session = s, !.after = after]
           /\ \A d \in free \ {c} : calls'[d] = Free
           /\ \A d \in Call \ free : calls'[d] = calls[d]
<1>. DEFINE c == CHOOSE c \in free : TRUE
            call == [Free EXCEPT !.at = "sent", !.session = s, !.after = after]
<1>1. c \in free
  BY DEF Poll
<1>2. Free \in Calls /\ call \in Calls
  BY FreeCall DEF Calls
<1>3. calls' = [d \in Call |-> IF d = c THEN call ELSE IF d \in free THEN Free ELSE calls[d]]
  BY DEF Poll
<1>4. calls \in [Call -> Calls]
  BY DEF Types
<1>. HIDE DEF c, call
<1>5. calls' \in [Call -> Calls]
  BY <1>2, <1>3, <1>4
<1>6. calls'[c] = call
  BY <1>1, <1>3
<1>7. \A d \in free \ {c} : calls'[d] = Free
  BY <1>3
<1>8. \A d \in Call \ free : calls'[d] = calls[d]
  BY <1>1, <1>3
<1>. QED
  BY <1>1, <1>5, <1>6, <1>7, <1>8 DEF call

LEMMA OpensFresh ==
  ASSUME PollInv, Opens, ~late'
  PROVE  Busy = {} /\ timers.pending = 0
<1>1. ~(Busy # {} \/ (late /\ timers.pending > 0))
  BY Zenon DEF Opens
<1>2. ui.stopped /\ timers.pending \in Nat
  BY DEF PollInv, Types, Opens
<1>3. ~late => timers.pending = 0
  BY <1>2, Zenon DEF PollInv, QuietWhenClosed
<1>. QED
  BY <1>1, <1>2, <1>3

\* A dialog that opens has one request of its own, or it is late.
LEMMA OpensPollInv ==
  ASSUME PollInv, Opens, NEW c \in Call \ Busy, NEW call \in Calls,
         call.at = "sent", call.kind = "poll" => call.session \in Session,
         calls' \in [Call -> Calls],
         calls'[c] = call, \A d \in Call \ {c} : calls'[d].at = "free" \/ calls'[d] = calls[d],
         ui' \in UI, ~ui'.stopped, ui'.status = "running", ui'.lines = <<>>, ui'.lastSeq = 0,
         call.kind = "start" => ui'.session = None,
         call.kind = "poll" => call.session = ui'.session /\ call.after = 0
  PROVE  PollInv'
<1>. USE NoneAssumption, LinesAssumption
<1>1. UNCHANGED <<state, logged, timers>> /\ late' \in BOOLEAN
  BY DEF Opens, lifecycle, PollInv, Types
<1>2. Types' /\ TimerCounts' /\ ClosedIsEmpty' /\ QuietWhenClosed'
  BY <1>1 DEF PollInv, Types, TimerCounts, ClosedIsEmpty, QuietWhenClosed
<1>3. CallsMakeSense'
  BY DEF PollInv, CallsMakeSense
<1>4. Own' => Busy' = {c} /\ timers.pending = 0
  <2>. SUFFICES ASSUME Own' PROVE Busy' = {c} /\ timers.pending = 0
    OBVIOUS
  <2>1. Busy = {} /\ timers.pending = 0
    BY OpensFresh DEF Own
  <2>. QED
    BY <2>1 DEF Busy
<1>5. OneAtATime'
  BY <1>1, <1>4 DEF OneAtATime
<1>6. ShowsItsSession'
  <2>. SUFFICES ASSUME Own' PROVE ShowsItsSession'
    BY DEF ShowsItsSession
  <2>1. ui'.session # None => 0 <= logged'[ui'.session]
    BY <1>2 DEF Types, UI
  <2>2. ui'.status \notin Ended
    BY DEF Ended
  <2>3. ui'.lines = [i \in 1 .. 0 |-> <<ui'.session, i>>]
    OBVIOUS
  <2>. QED
    BY <1>1, <1>4, <2>1, <2>2, <2>3 DEF ShowsItsSession
<1>7. CallsFit'
  BY <1>4 DEF CallsFit, Fits
<1>. QED
  BY <1>2, <1>3, <1>5, <1>6, <1>7 DEF PollInv

LEMMA AttachPollInv ==
  ASSUME PollInv, NEW s \in Session, Attach(s)
  PROVE  PollInv'
<1>1. Types
  BY DEF PollInv
<1>2. 0 \in 0 .. MaxLines /\ Call \ Busy \in SUBSET Call
  BY LinesAssumption
<1>3. PICK c \in Call \ Busy :
        /\ calls' \in [Call -> Calls]
        /\ calls'[c] = [Free EXCEPT !.at = "sent", !.session = s, !.after = 0]
        /\ \A d \in (Call \ Busy) \ {c} : calls'[d] = Free
        /\ \A d \in Call \ (Call \ Busy) : calls'[d] = calls[d]
  BY <1>1, <1>2, PollSends DEF Attach
<1>4. \A d \in Call \ {c} : calls'[d].at = "free" \/ calls'[d] = calls[d]
  BY <1>3 DEF Busy, Free
<1>5. /\ ui' \in UI /\ ~ui'.stopped /\ ui'.status = "running" /\ ui'.lines = <<>>
      /\ ui'.lastSeq = 0 /\ ui'.session = s
  <2>. DEFINE closed == Closed("viewer")
  <2>1. /\ closed \in UI /\ closed.session = None /\ closed.lastSeq = 0
        /\ closed.lines = <<>>
    BY ClosedType
  <2>2. ui' = [closed EXCEPT !.stopped = FALSE, !.session = s, !.status = "running"]
    BY DEF Attach
  <2>. HIDE DEF closed
  <2>. QED
    BY <2>1, <2>2 DEF UI, Status
<1>6. calls'[c] \in Calls
  BY <1>3
<1>7. /\ calls'[c].at = "sent" /\ calls'[c].kind = "poll" /\ calls'[c].session = s
      /\ calls'[c].after = 0
  BY <1>3 DEF Free
<1>. QED
  BY <1>3, <1>4, <1>5, <1>6, <1>7, OpensPollInv DEF Attach

LEMMA StartOrReattachPollInv ==
  ASSUME PollInv, StartOrReattach
  PROVE  PollInv'
<1>. DEFINE c == CHOOSE c \in Call \ Busy : TRUE
            call == [Free EXCEPT !.at = "sent", !.kind = "start"]
<1>1. c \in Call \ Busy
  <2>1. Busy # Call
    <3>. SUFFICES ASSUME Busy = Call PROVE FALSE
      OBVIOUS
    <3>1. Cardinality(Call) \in Nat
      BY CallAssumption, FS_CardinalityType
    <3>. QED
      BY <3>1 DEF StartOrReattach, Opens, PollInv, Types
  <2>. QED
    BY <2>1 DEF Busy
<1>2. call \in Calls /\ call.at = "sent" /\ call.kind = "start"
  BY FreeCall DEF Calls
<1>3. calls' = [calls EXCEPT ![c] = call]
  BY DEF StartOrReattach, Becomes
<1>. HIDE DEF c, call
<1>4. calls' \in [Call -> Calls] /\ calls'[c] = call /\ \A d \in Call \ {c} : calls'[d] = calls[d]
  BY <1>1, <1>2, <1>3 DEF PollInv, Types
<1>5. /\ ui' \in UI /\ ~ui'.stopped /\ ui'.status = "running" /\ ui'.lines = <<>>
      /\ ui'.lastSeq = 0 /\ ui'.session = None
  <2>. DEFINE closed == Closed("starter")
  <2>1. /\ closed \in UI /\ closed.session = None /\ closed.lastSeq = 0
        /\ closed.lines = <<>>
    BY ClosedType
  <2>2. ui' = [closed EXCEPT !.stopped = FALSE, !.status = "running"]
    BY DEF StartOrReattach
  <2>. HIDE DEF closed
  <2>. QED
    BY <2>1, <2>2 DEF UI, Status
<1>. QED
  BY <1>1, <1>2, <1>4, <1>5, OpensPollInv DEF StartOrReattach

LEMMA ClosePollInv ==
  ASSUME PollInv, Close
  PROVE  PollInv'
<1>1. ui'.stopped /\ ui' \in UI /\ ui' = Closed(ui'.hook)
  BY LinesAssumption DEF PollInv, Types, Close, Closed, UI
<1>2. /\ timers' \in [pending : Nat, current : BOOLEAN] /\ ~timers'.current
      /\ Own => timers'.pending = 0
  BY DEF Close, StopTimer, PollInv, Types, TimerCounts, OneAtATime, Own
<1>3. UNCHANGED <<state, logged, calls, late>>
  BY DEF Close, lifecycle
<1>4. Types' /\ CallsMakeSense' /\ TimerCounts' /\ ClosedIsEmpty'
  BY <1>1, <1>2, <1>3 DEF PollInv, Types, CallsMakeSense, TimerCounts, ClosedIsEmpty
<1>5. QuietWhenClosed'
  BY <1>2, <1>3 DEF QuietWhenClosed, Own, Close
<1>6. OneAtATime' /\ ShowsItsSession' /\ CallsFit'
  BY <1>1 DEF OneAtATime, ShowsItsSession, CallsFit, Own
<1>. QED
  BY <1>4, <1>5, <1>6 DEF PollInv
\* Whether a request is handled or not, it makes room for the next.
LEMMA CallFreed ==
  ASSUME Types, CallsMakeSense, NEW c \in Call, Becomes(c, Free)
  PROVE  /\ calls' \in [Call -> Calls]
         /\ Busy' = Busy \ {c}
         /\ CallsMakeSense'
<1>1. calls \in [Call -> Calls]
  BY DEF Types
<1>2. calls' \in [Call -> Calls] /\ calls'[c] = Free /\ \A d \in Call \ {c} : calls'[d] = calls[d]
  BY <1>1, FreeCall DEF Becomes
<1>3. Busy' = Busy \ {c}
  BY <1>2 DEF Busy, Free
<1>4. CallsMakeSense'
  BY <1>2 DEF CallsMakeSense, Free
<1>. QED
  BY <1>2, <1>3, <1>4

LEMMA DroppedPollInv ==
  ASSUME PollInv, NEW c \in Call, Dropped(c), UNCHANGED <<lifecycle, late>>
  PROVE  PollInv'
<1>1. Types /\ CallsMakeSense /\ Becomes(c, Free) /\ ui.stopped
  BY DEF PollInv, Dropped
<1>2. UNCHANGED <<state, logged, ui, timers, late>>
  BY DEF Dropped, lifecycle
<1>3. Types' /\ CallsMakeSense'
  BY <1>1, <1>2, CallFreed DEF Types
<1>4. TimerCounts' /\ ClosedIsEmpty' /\ QuietWhenClosed'
  BY <1>2 DEF PollInv, TimerCounts, ClosedIsEmpty, QuietWhenClosed
<1>5. OneAtATime' /\ ShowsItsSession' /\ CallsFit'
  BY <1>1, <1>2 DEF OneAtATime, ShowsItsSession, CallsFit, Own
<1>. QED
  BY <1>3, <1>4, <1>5 DEF PollInv

LEMMA OwnCall ==
  ASSUME PollInv, Own, NEW c \in Busy
  PROVE  Busy = {c} /\ timers.pending = 0 /\ ui.status = "running" /\ Fits(c)
BY DEF PollInv, OneAtATime, CallsFit

LEMMA StartedPollInv ==
  ASSUME PollInv, NEW c \in Call, Started(c)
  PROVE  PollInv'
<1>. USE NoneAssumption, LinesAssumption
<1>1. CASE Dropped(c)
  BY <1>1, DroppedPollInv DEF Started
<1>2. CASE ~Dropped(c)
  <2>. DEFINE s == calls[c].session
              free == (Call \ Busy) \cup {c}
              seq == ui.lastSeq
  <2>1. /\ Types /\ s \in Session /\ seq \in 0 .. MaxLines /\ free \in SUBSET Call /\ c \in Busy
        /\ calls[c].kind = "start"
    BY DEF PollInv, Types, CallsMakeSense, Started, UI, Busy
  <2>2. /\ ~ui.stopped /\ ui' = [ui EXCEPT !.session = s]
        /\ UNCHANGED <<state, logged, timers, late>>
        /\ Poll(free, s, seq)
    BY <1>2 DEF Started, lifecycle
  <2>. HIDE DEF s, free, seq
  <2>3. PICK e \in free :
          /\ calls' \in [Call -> Calls]
          /\ calls'[e] = [Free EXCEPT !.at = "sent", !.session = s, !.after = seq]
          /\ \A d \in free \ {e} : calls'[d] = Free
          /\ \A d \in Call \ free : calls'[d] = calls[d]
    BY <2>1, <2>2, PollSends
  <2>4. /\ calls'[e].at = "sent" /\ calls'[e].kind = "poll" /\ calls'[e].session = s
        /\ calls'[e].after = seq
    BY <2>3 DEF Free
  <2>5. ui' \in UI /\ ui'.session = s /\ UNCHANGED <<ui.stopped, ui.status, ui.lines, ui.lastSeq>>
    BY <2>1, <2>2 DEF Types, UI
  <2>6. Types' /\ TimerCounts' /\ ClosedIsEmpty' /\ QuietWhenClosed'
    BY <2>2, <2>3, <2>5 DEF PollInv, Types, TimerCounts, ClosedIsEmpty, QuietWhenClosed
  <2>7. CallsMakeSense'
    <3>. SUFFICES ASSUME NEW d \in Call
                  PROVE  /\ calls'[d].at = "halfRead" => calls'[d].kind = "poll"
                         /\ calls'[d].at \in {"sent", "halfRead", "answered"}
                              /\ calls'[d].kind = "poll" => calls'[d].session \in Session
                         /\ calls'[d].at = "answered" => calls'[d].session \in Session
      BY DEF CallsMakeSense
    <3>1. CASE d = e
      BY <2>1, <2>4, <3>1
    <3>2. CASE d \in free \ {e}
      BY <2>3, <3>2 DEF Free
    <3>3. CASE d \in Call \ free
      BY <2>3, <3>3 DEF PollInv, CallsMakeSense
    <3>. QED
      BY <3>1, <3>2, <3>3
  <2>8. ASSUME Own'
        PROVE  /\ Own /\ Busy' = {e} /\ timers.pending = 0 /\ ui.status = "running"
               /\ ui.lastSeq = 0 /\ ui.lines = <<>>
    <3>1. Own
      BY <2>2, <2>5, <2>8 DEF Own
    <3>2. Busy = {c} /\ timers.pending = 0 /\ ui.status = "running" /\ Fits(c)
      BY <2>1, <3>1, OwnCall
    <3>3. ui.session = None
      BY <2>1, <3>2 DEF Fits
    <3>4. ui.lastSeq = 0 /\ ui.lines = [i \in 1 .. 0 |-> <<ui.session, i>>]
      BY <3>1, <3>3 DEF PollInv, ShowsItsSession
    <3>5. free = Call
      BY <3>2 DEF free, Busy
    <3>6. Busy' = {e}
      <4>1. e \in Call /\ \A d \in Call \ {e} : calls'[d].at = "free"
        BY <2>3, <3>5 DEF Free
      <4>2. calls'[e].at # "free"
        BY <2>4
      <4>. QED
        BY <4>1, <4>2 DEF Busy
    <3>. QED
      BY <3>1, <3>2, <3>4, <3>6
  <2>9. OneAtATime'
    BY <2>2, <2>5, <2>8 DEF OneAtATime
  <2>10. ShowsItsSession'
    <3>. SUFFICES ASSUME Own' PROVE ShowsItsSession'
      BY DEF ShowsItsSession
    <3>1. ui'.lines = [i \in 1 .. ui'.lastSeq |-> <<ui'.session, i>>]
      BY <2>5, <2>8
    <3>2. 0 <= logged'[ui'.session] /\ ui'.session # None
      BY <2>1, <2>5, <2>6 DEF Types
    <3>. QED
      BY <2>5, <2>8, <3>1, <3>2 DEF ShowsItsSession, Ended
  <2>11. CallsFit'
    BY <2>4, <2>5, <2>8 DEF CallsFit, Fits, seq
  <2>. QED
    BY <2>6, <2>7, <2>9, <2>10, <2>11 DEF PollInv
<1>. QED
  BY <1>1, <1>2

LEMMA FailedPollInv ==
  ASSUME PollInv, NEW c \in Call, Failed(c)
  PROVE  PollInv'
<1>1. CASE Dropped(c)
  BY <1>1, DroppedPollInv DEF Failed
<1>2. CASE ~Dropped(c)
  <2>1. /\ ~ui.stopped /\ Becomes(c, Free) /\ ui' = [ui EXCEPT !.status = "unreachable"]
        /\ UNCHANGED <<state, logged, timers, late>> /\ c \in Busy
    BY <1>2 DEF Failed, lifecycle, Busy
  <2>2. /\ ui' \in UI /\ ui'.status = "unreachable"
        /\ UNCHANGED <<ui.stopped, ui.session, ui.lines, ui.lastSeq>>
    BY <2>1 DEF PollInv, Types, UI
  <2>3. calls' \in [Call -> Calls] /\ Busy' = Busy \ {c} /\ CallsMakeSense'
    BY <2>1, CallFreed DEF PollInv
  <2>4. Types' /\ TimerCounts' /\ ClosedIsEmpty' /\ QuietWhenClosed'
    BY <2>1, <2>2, <2>3 DEF PollInv, Types, TimerCounts, ClosedIsEmpty, QuietWhenClosed
  <2>5. ASSUME Own' PROVE Own /\ Busy' = {} /\ timers.pending = 0
    <3>1. Own
      BY <2>1, <2>2, <2>5 DEF Own
    <3>. QED
      BY <2>1, <2>3, <3>1, OwnCall
  <2>6. OneAtATime' /\ CallsFit'
    BY <2>1, <2>5 DEF OneAtATime, CallsFit
  <2>7. ShowsItsSession'
    BY <2>1, <2>2, <2>5 DEF PollInv, ShowsItsSession, Ended
  <2>. QED
    BY <2>3, <2>4, <2>6, <2>7 DEF PollInv
<1>. QED
  BY <1>1, <1>2
FirstLines(s, n) == [i \in 1 .. n |-> <<s, i>>]

LEMMA FirstLinesAre ==
  ASSUME NEW s \in Session, NEW n \in 0 .. MaxLines
  PROVE  /\ FirstLines(s, n) \in Seq(Line) /\ Len(FirstLines(s, n)) = n
         /\ \A i \in 1 .. n : FirstLines(s, n)[i] = <<s, i>>
<1>. USE LinesAssumption
<1>1. \A i \in 1 .. n : <<s, i>> \in Line
  BY DEF Line
<1>. QED
  BY <1>1 DEF FirstLines

\* The lines of an answer come after those it was asked to follow.
LEMMA LinesFollow ==
  ASSUME NEW call \in Calls, call.session \in Session
  PROVE  /\ NewLines(call) \in Seq(Line)
         /\ call.upto <= call.after => NewLines(call) = <<>>
         /\ call.after < call.upto => NewLines(call) # <<>>
         /\ call.after <= call.upto =>
              FirstLines(call.session, call.after) \o NewLines(call)
                = FirstLines(call.session, call.upto)
<1>. USE LinesAssumption
<1>. DEFINE s == call.session
            after == call.after
            upto == call.upto
            new == NewLines(call)
            old == FirstLines(s, after)
            all == FirstLines(s, upto)
<1>1. s \in Session /\ after \in 0 .. MaxLines /\ upto \in 0 .. MaxLines
  BY DEF Calls
<1>2. /\ old \in Seq(Line) /\ Len(old) = after /\ \A i \in 1 .. after : old[i] = <<s, i>>
      /\ all \in Seq(Line) /\ Len(all) = upto /\ \A i \in 1 .. upto : all[i] = <<s, i>>
  BY <1>1, FirstLinesAre
<1>3. new = [i \in 1 .. upto - after |-> <<s, after + i>>]
  BY DEF NewLines
<1>. HIDE DEF s, after, upto, new, old, all
<1>4. CASE upto <= after
  <2>1. new = <<>>
    BY <1>1, <1>3, <1>4
  <2>2. new \in Seq(Line) /\ old \o new = old
    BY <1>2, <2>1
  <2>3. upto = after => old = all
    BY DEF old, all
  <2>4. ~(after < upto) /\ (after <= upto => upto = after)
    BY <1>1, <1>4
  <2>. QED
    BY <2>1, <2>2, <2>3, <2>4 DEF s, after, upto, new, old, all
<1>5. CASE after < upto
  <2>1. upto - after \in Nat /\ \A i \in 1 .. upto - after : <<s, after + i>> \in Line
    BY <1>1, <1>5 DEF Line
  <2>2. /\ new \in Seq(Line) /\ Len(new) = upto - after
        /\ \A i \in 1 .. upto - after : new[i] = <<s, after + i>>
    BY <1>3, <2>1
  <2>3. new # <<>>
    BY <1>1, <1>5, <2>2
  <2>4. /\ old \o new \in Seq(Line) /\ Len(old \o new) = Len(old) + Len(new)
        /\ \A i \in 1 .. Len(old) + Len(new) :
             (old \o new)[i] = IF i <= Len(old) THEN old[i] ELSE new[i - Len(old)]
    BY <1>2, <2>2, ConcatProperties
  <2>5. Len(old) + Len(new) = upto
    BY <1>1, <1>2, <2>2
  <2>6. ASSUME NEW i \in 1 .. upto PROVE (old \o new)[i] = all[i]
    <3>1. (old \o new)[i] = IF i <= after THEN old[i] ELSE new[i - after]
      <4>1. i \in 1 .. Len(old) + Len(new)
        BY <2>5
      <4>2. (old \o new)[i] = IF i <= Len(old) THEN old[i] ELSE new[i - Len(old)]
        BY <2>4, <4>1
      <4>. QED
        BY <1>2, <4>2
    <3>2. CASE i <= after
      <4>1. i \in 1 .. after
        BY <1>1, <2>6, <3>2
      <4>. QED
        BY <1>2, <2>6, <3>1, <3>2, <4>1
    <3>3. CASE after < i
      <4>1. i - after \in 1 .. upto - after /\ after + (i - after) = i
        BY <1>1, <3>3
      <4>2. new[i - after] = <<s, i>>
        BY <2>2, <4>1
      <4>3. ~(i <= after)
        BY <1>1, <3>3
      <4>. QED
        BY <1>2, <3>1, <4>2, <4>3
    <3>. QED
      <4>1. i <= after \/ after < i
        BY <1>1, <2>6
      <4>. QED
        BY <3>2, <3>3, <4>1
  <2>7. old \o new = all
    <3>1. Len(old \o new) = Len(all)
      BY <1>2, <2>4, <2>5
    <3>2. \A i \in 1 .. Len(old \o new) : (old \o new)[i] = all[i]
      BY <2>4, <2>5, <2>6
    <3>. QED
      BY <1>2, <2>4, <3>1, <3>2, SeqEqual, Zenon
  <2>8. ~(upto <= after)
    BY <1>1, <1>5
  <2>. QED
    BY <2>2, <2>3, <2>7, <2>8 DEF s, after, upto, new, old, all
<1>6. upto <= after \/ after < upto
  BY <1>1
<1>. QED
  BY <1>4, <1>5, <1>6 DEF s, after, upto, new, old, all

LEMMA AnsweredPollInv ==
  ASSUME PollInv, NEW c \in Call, Answered(c)
  PROVE  PollInv'
<1>. USE NoneAssumption, LinesAssumption
<1>1. CASE Dropped(c)
  BY <1>1, DroppedPollInv DEF Answered
<1>2. CASE ~Dropped(c)
  <2>. DEFINE call == calls[c]
              new == NewLines(call)
  <2>1. /\ call \in Calls /\ call.kind = "poll" /\ call.at = "answered" /\ call.session \in Session
        /\ call.after \in 0 .. MaxLines /\ call.upto \in 0 .. MaxLines /\ c \in Busy
        /\ ui \in UI
    BY DEF PollInv, Types, CallsMakeSense, Answered, Busy, Calls
  <2>2. /\ ~ui.stopped /\ Becomes(c, Free)
        /\ ui' = [ui EXCEPT !.lastSeq = IF new # <<>> THEN call.upto ELSE @,
                            !.status = call.status,
                            !.lines = @ \o new]
        /\ timers' = IF PollsOn(call)
                     THEN [pending |-> timers.pending + 1, current |-> TRUE]
                     ELSE timers
        /\ UNCHANGED <<state, logged, late>>
    BY <1>2 DEF Answered, lifecycle
  <2>3. /\ new \in Seq(Line)
        /\ call.upto <= call.after => new = <<>>
        /\ call.after < call.upto => new # <<>>
        /\ call.after <= call.upto =>
             FirstLines(call.session, call.after) \o new = FirstLines(call.session, call.upto)
    BY <2>1, LinesFollow
  <2>4. calls' \in [Call -> Calls] /\ Busy' = Busy \ {c} /\ CallsMakeSense'
    BY <2>2, CallFreed DEF PollInv
  <2>. HIDE DEF new, call
  <2>5. /\ ui' \in UI /\ UNCHANGED <<ui.stopped, ui.session>>
        /\ ui'.status = call.status /\ ui'.lines = ui.lines \o new
        /\ ui'.lastSeq = IF new # <<>> THEN call.upto ELSE ui.lastSeq
    <3>1. call.status \in Status
      BY <2>1 DEF Calls
    <3>2. ui.lines \o new \in Seq(Line)
      BY <2>1, <2>3 DEF UI
    <3>. QED
      BY <2>1, <2>2, <3>1, <3>2 DEF UI
  <2>6. /\ timers' \in [pending : Nat, current : BOOLEAN]
        /\ call.status = "running" => timers'.pending = timers.pending + 1 /\ timers'.current
        /\ call.status # "running" => timers' = timers
    BY <2>2 DEF PollInv, Types, PollsOn
  <2>7. Types' /\ ClosedIsEmpty' /\ QuietWhenClosed'
    BY <2>2, <2>4, <2>5, <2>6 DEF PollInv, Types, ClosedIsEmpty, QuietWhenClosed
  <2>8. TimerCounts'
    BY <2>6 DEF PollInv, Types, TimerCounts
  <2>9. ASSUME Own'
        PROVE  /\ Busy' = {} /\ timers.pending = 0
               /\ ui.session = call.session /\ ui.lastSeq = call.after
               /\ call.after <= call.upto /\ call.upto <= logged[call.session]
               /\ call.status \in Ended => state[call.session] \in Over
               /\ call.status \in Ended /\ state[call.session] # "deleted" =>
                    call.upto = logged[call.session]
               /\ ui.lines = [i \in 1 .. ui.lastSeq |-> <<ui.session, i>>]
    <3>1. Own
      BY <2>2, <2>5, <2>9 DEF Own
    <3>2. Busy = {c} /\ timers.pending = 0 /\ Fits(c)
      BY <2>1, <3>1, OwnCall
    <3>3. ui.lines = [i \in 1 .. ui.lastSeq |-> <<ui.session, i>>]
      BY <3>1 DEF PollInv, ShowsItsSession
    <3>. QED
      BY <2>1, <2>4, <3>2, <3>3 DEF Fits, call
  <2>10. OneAtATime' /\ CallsFit'
    BY <2>5, <2>6, <2>9 DEF OneAtATime, CallsFit
  <2>11. ShowsItsSession'
    <3>. SUFFICES ASSUME Own' PROVE ShowsItsSession'
      BY DEF ShowsItsSession
    <3>1. ui'.lastSeq = call.upto
      BY <2>1, <2>3, <2>5, <2>9
    <3>2. ui'.lines = [i \in 1 .. ui'.lastSeq |-> <<ui'.session, i>>]
      BY <2>3, <2>5, <2>9, <3>1 DEF FirstLines
    <3>3. ui'.session = call.session /\ ui'.session # None
      BY <2>1, <2>5, <2>9
    <3>. QED
      BY <2>2, <2>5, <2>9, <3>1, <3>2, <3>3 DEF ShowsItsSession
  <2>. QED
    BY <2>4, <2>7, <2>8, <2>10, <2>11 DEF PollInv
<1>. QED
  BY <1>1, <1>2

LEMMA TimerFiresPollInv ==
  ASSUME PollInv, TimerFires
  PROVE  PollInv'
<1>. USE NoneAssumption, LinesAssumption
<1>1. UNCHANGED <<state, logged, ui, late>>
  BY DEF TimerFires, lifecycle
<1>2. /\ timers \in [pending : Nat, current : BOOLEAN] /\ timers.pending > 0
      /\ timers' \in [pending : Nat, current : BOOLEAN]
      /\ timers'.pending = timers.pending - 1
      /\ timers'.current => timers'.pending > 0
  <2>1. timers \in [pending : Nat, current : BOOLEAN] /\ timers.pending > 0
    BY DEF PollInv, Types, TimerFires
  <2>2. PICK isCurrent \in BOOLEAN :
          /\ ~isCurrent => timers.pending > 1 \/ ~timers.current
          /\ timers' = [pending |-> timers.pending - 1,
                        current |-> timers.current /\ ~isCurrent]
    BY DEF TimerFires, AfterTimeout
  <2>. DEFINE isLeft == timers.current /\ ~isCurrent
  <2>3. isLeft \in BOOLEAN /\ (isLeft => timers.pending > 1)
    BY <2>2
  <2>4. timers' = [pending |-> timers.pending - 1, current |-> isLeft]
    BY <2>2
  <2>. HIDE DEF isLeft
  <2>. QED
    BY <2>1, <2>3, <2>4
<1>3. ClosedIsEmpty' /\ QuietWhenClosed' /\ TimerCounts'
  BY <1>1, <1>2 DEF PollInv, ClosedIsEmpty, QuietWhenClosed, TimerCounts
<1>4. Own => /\ Busy = {} /\ timers.pending = 1 /\ ui.status = "running" /\ ~ui.stopped
             /\ ui.session # None
  BY <1>2 DEF PollInv, OneAtATime, Own, ShowsItsSession
<1>5. CASE ui.stopped \/ ui.session = None
  <2>1. UNCHANGED calls
    BY <1>5 DEF TimerFires
  <2>2. ~Own /\ ~Own'
    BY <1>1, <1>4, <1>5 DEF Own
  <2>3. Types' /\ CallsMakeSense'
    BY <1>1, <1>2, <2>1 DEF PollInv, Types, CallsMakeSense
  <2>4. OneAtATime' /\ ShowsItsSession' /\ CallsFit'
    BY <2>2 DEF OneAtATime, ShowsItsSession, CallsFit
  <2>. QED
    BY <1>3, <2>3, <2>4 DEF PollInv
<1>6. CASE ~(ui.stopped \/ ui.session = None)
  <2>. DEFINE free == Call \ Busy
              s == ui.session
              seq == ui.lastSeq
  <2>1. Types /\ s \in Session /\ seq \in 0 .. MaxLines /\ free \in SUBSET Call
    BY <1>6 DEF PollInv, Types, UI
  <2>2. Poll(free, s, seq)
    BY <1>6 DEF TimerFires
  <2>. HIDE DEF free, s, seq
  <2>3. PICK e \in free :
          /\ calls' \in [Call -> Calls]
          /\ calls'[e] = [Free EXCEPT !.at = "sent", !.session = s, !.after = seq]
          /\ \A d \in free \ {e} : calls'[d] = Free
          /\ \A d \in Call \ free : calls'[d] = calls[d]
    BY <2>1, <2>2, PollSends
  <2>4. /\ calls'[e].at = "sent" /\ calls'[e].kind = "poll" /\ calls'[e].session = s
        /\ calls'[e].after = seq
    BY <2>3 DEF Free
  <2>5. Types'
    BY <1>1, <1>2, <2>3 DEF PollInv, Types
  <2>6. CallsMakeSense'
    <3>. SUFFICES ASSUME NEW d \in Call
                  PROVE  /\ calls'[d].at = "halfRead" => calls'[d].kind = "poll"
                         /\ calls'[d].at \in {"sent", "halfRead", "answered"}
                              /\ calls'[d].kind = "poll" => calls'[d].session \in Session
                         /\ calls'[d].at = "answered" => calls'[d].session \in Session
      BY DEF CallsMakeSense
    <3>1. CASE d = e
      BY <2>1, <2>4, <3>1
    <3>2. CASE d \in free \ {e}
      BY <2>3, <3>2 DEF Free
    <3>3. CASE d \in Call \ free
      BY <2>3, <3>3 DEF PollInv, CallsMakeSense
    <3>. QED
      BY <3>1, <3>2, <3>3
  <2>7. ASSUME Own' PROVE Own /\ Busy' = {e}
    <3>1. Own /\ free = Call
      BY <1>1, <1>4, <2>7 DEF Own, free
    <3>2. e \in Call /\ \A d \in Call \ {e} : calls'[d].at = "free"
      BY <2>3, <3>1 DEF Free
    <3>3. calls'[e].at # "free"
      BY <2>4
    <3>. QED
      BY <3>1, <3>2, <3>3 DEF Busy
  <2>8. OneAtATime'
    BY <1>1, <1>2, <1>4, <2>7 DEF OneAtATime
  <2>9. ShowsItsSession'
    BY <1>1, <1>2, <1>4, <2>7 DEF PollInv, ShowsItsSession
  <2>10. CallsFit'
    BY <1>1, <2>4, <2>7 DEF CallsFit, Fits, s, seq
  <2>. QED
    BY <1>3, <2>5, <2>6, <2>8, <2>9, <2>10 DEF PollInv
<1>. QED
  BY <1>5, <1>6

-----------------------------------------------------------------------------
LEMMA NextPollInv == PollInv /\ [Next]_vars => PollInv'
<1>. SUFFICES ASSUME PollInv, [Next]_vars PROVE PollInv'
  OBVIOUS
<1>1. ASSUME \/ AnotherStarts \/ Restart
             \/ \E s \in Session : WritesLine(s) \/ Ends(s) \/ Deleted(s)
      PROVE  PollInv'
  BY <1>1, LifeActions, LifePollInv DEF PollInv
<1>2. ASSUME NEW s \in Session, Attach(s) PROVE PollInv'
  BY <1>2, AttachPollInv
<1>3. ASSUME NEW c \in Call, Serve(c) \/ CallFails(c) \/ Arrives(c) PROVE PollInv'
  BY <1>3, GetBackupPollInv, ServeStartPollInv, CallFailsPollInv, StartedPollInv,
     AnsweredPollInv, FailedPollInv DEF Serve, Arrives
<1>4. CASE StartOrReattach \/ Close \/ TimerFires
  BY <1>4, StartOrReattachPollInv, ClosePollInv, TimerFiresPollInv
<1>5. CASE UNCHANGED vars
  <2>1. LifeGoesOn
    BY <1>5, LifeStands DEF PollInv, vars, lifecycle
  <2>. QED
    BY <1>5, <2>1, LifePollInv DEF vars, client
<1>. QED
  BY <1>1, <1>2, <1>3, <1>4, <1>5 DEF Next

\* While the dialog is open and no answer to an earlier opening is about, one request or
\* one timer at most is under way, and it carries on where the shown log stands.
THEOREM PollInvariant == Spec => []PollInv
<1>. QED
  BY InitPollInv, NextPollInv, PTL DEF Spec

\* Every variable keeps its type.
THEOREM PollTypeCorrect == Spec => []TypeOK
<1>. DEFINE KeyType == key \in [Session -> Keys \cup {NoKey}]
<1>1. Init => KeyType
  BY DEF Init, AbstractInit
<1>2. KeyType /\ [Next]_vars => KeyType'
  <2>. SUFFICES ASSUME KeyType, [Next]_vars PROVE KeyType'
    OBVIOUS
  <2>1. ASSUME NEW s \in Session, NEW k \in Keys, Start(s, k) PROVE KeyType'
    BY <2>1 DEF Start
  <2>2. CASE UNCHANGED key
    BY <2>2
  <2>3. CASE AnotherStarts
    BY <2>1, <2>3 DEF AnotherStarts
  <2>4. CASE \E c \in Call : ServeStart(c)
    BY <2>1, <2>2, <2>4, KeyAssumption DEF ServeStart
  <2>5. CASE Restart \/ \E s \in Session : WritesLine(s) \/ Ends(s) \/ Deleted(s) \/ Attach(s)
    BY <2>5 DEF Restart, Interrupt, WritesLine, Ends, End, Deleted, Delete, Attach, Opens, lifecycle
  <2>6. CASE \E c \in Call : GetBackup(c) \/ CallFails(c) \/ Arrives(c)
    BY <2>6 DEF GetBackup, CallFails, server, Arrives, Started, Answered, Failed, lifecycle
  <2>7. CASE StartOrReattach \/ Close \/ TimerFires \/ UNCHANGED vars
    BY <2>7 DEF StartOrReattach, Opens, Close, TimerFires, lifecycle, vars
  <2>. QED
    BY <2>3, <2>4, <2>5, <2>6, <2>7 DEF Next, Serve
<1>3. PollInv /\ KeyType => TypeOK
  BY DEF PollInv, Types, TypeOK
<1>. QED
  BY <1>1, <1>2, <1>3, PollInvariant, PTL DEF Spec

\* The dialog shows the log of its session (poll in useBackupSession.ts) from the first
\* line on, in order and each line once, however the polls, the writes and the failures
\* interleave.
THEOREM PrefixShown == Spec => []ShowsThePrefix
<1>1. PollInv => ShowsThePrefix
  <2>. SUFFICES ASSUME PollInv, ~late PROVE ui.lines = [i \in 1 .. ui.lastSeq |-> <<ui.session, i>>]
    BY DEF ShowsThePrefix
  <2>1. CASE ui.stopped
    <3>1. ui = Closed(ui.hook) /\ ui.hook \in {"viewer", "starter"}
      BY <2>1 DEF PollInv, ClosedIsEmpty, Types, UI
    <3>2. ui.lastSeq = 0 /\ ui.lines = <<>>
      BY <3>1, ClosedType
    <3>. QED
      BY <3>2
  <2>2. CASE ~ui.stopped
    BY <2>2 DEF PollInv, ShowsItsSession, Own
  <2>. QED
    BY <2>1, <2>2
<1>. QED
  BY <1>1, PollInvariant, PTL

\* When the dialog says how its session ended, it shows all of its log: handleGetBackup
\* reads the row before the lines, and a session that has ended writes no more.
THEOREM EndedLogShown == Spec => []EndedLogIsComplete
<1>1. PollInv => EndedLogIsComplete
  <2>. SUFFICES ASSUME PollInv, ~late, ui.session # None, ui.status \in Ended,
                       state[ui.session] # "deleted"
                PROVE  Len(ui.lines) = logged[ui.session]
    BY DEF EndedLogIsComplete
  <2>1. ~ui.stopped
    BY DEF PollInv, ClosedIsEmpty, Closed
  <2>2. /\ ui.lines = [i \in 1 .. ui.lastSeq |-> <<ui.session, i>>]
        /\ ui.lastSeq = logged[ui.session]
    BY <2>1 DEF PollInv, ShowsItsSession, Own
  <2>3. ui.lastSeq \in Nat
    BY LinesAssumption DEF PollInv, Types, UI
  <2>. QED
    BY <2>2, <2>3
<1>. QED
  BY <1>1, PollInvariant, PTL

\* The dialog has one chain of polls: its requests and its timers are one at most, since
\* closing clears the timer that the ref holds, and it holds the only one.
THEOREM PollsOnce == Spec => []OnePoller
<1>1. PollInv => OnePoller
  <2>. SUFFICES ASSUME PollInv, Own PROVE Cardinality(Busy) + timers.pending <= 1
    BY DEF OnePoller, Own
  <2>1. timers.pending \in Nat /\ timers.pending <= 1
    BY DEF PollInv, Types, OneAtATime
  <2>2. CASE Busy = {}
    BY <2>1, <2>2, FS_EmptySet
  <2>3. CASE Busy # {}
    <3>1. PICK c \in Busy : TRUE
      BY <2>3
    <3>2. Busy = {c} /\ timers.pending = 0
      BY <3>1, OwnCall
    <3>3. Cardinality({c}) = 1
      BY FS_Singleton
    <3>. QED
      BY <3>2, <3>3
  <2>. QED
    BY <2>2, <2>3
<1>. QED
  BY <1>1, PollInvariant, PTL
=============================================================================
