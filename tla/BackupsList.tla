----------------------------- MODULE BackupsList ------------------------------
(***************************************************************************)
(* The backups screen: a page of sessions, newest first, with a dialog to  *)
(* view one (its polling is SessionPolling) and the deletion of one.  The  *)
(* sessions are numbered in the order they were created.                   *)
(*                                                                         *)
(* Others delete sessions too: another window, or a deletion that was sent *)
(* before the screen was left and opened again.  (Sessions that begin      *)
(* while the screen is open are left out.)                                 *)
(***************************************************************************)
EXTENDS AsyncLoad, Naturals, FiniteSets

CONSTANTS
  SessionIds,    \* sessions, as numbers: a higher one is newer
  PageSize,      \* sessions on a page
  MaxRemovals    \* bound: deletions under way at once

ASSUME BackupsAssumption ==
  SessionIds \subseteq Nat /\ PageSize \in Nat \ {0} /\ MaxRemovals \in Nat \ {0}

VARIABLES
  backups,       \* the state of the screen's components
  kept,          \* the server: the sessions it has
  underway       \* the server: those of them that run

backupsVars == <<backups, kept, underway>>
server == <<kept, underway>>

FreshBackups ==
  [page |-> 1, list |-> Mounted(1), read |-> {}, viewing |-> Nothing, asked |-> Nothing,
   removals |-> {}, unsure |-> FALSE]

\* The sessions of a page, and their pages; a page past the last has none.
OnPage(all, page) ==
  {s \in all : LET newer == Cardinality({n \in all : n > s})
               IN newer \div PageSize = page - 1}
Pages(n) == IF n = 0 THEN 1 ELSE (n + PageSize - 1) \div PageSize

Rows(w) == IF HasData(w.list) THEN w.list.data.rows ELSE {}

\* A deletion disables the screen's controls while the table that started it is shown.
BusyTable(w) == \E r \in w.removals : r.mounted

\* A load shows a skeleton: the table, its dialogs and its busy state are dropped.
LoadPage(w, page) ==
  [w EXCEPT !.page = page, !.list = Reloaded(@, page), !.read = {}, !.viewing = Nothing,
     !.asked = Nothing, !.removals = {[r EXCEPT !.mounted = FALSE] : r \in @},
     !.unsure = @ /\ w.removals # {}]
-----------------------------------------------------------------------------
ReadSessions ==
  /\ Pending(backups.list) /\ backups.read = {}
  /\ backups' = [backups EXCEPT !.read =
       {[of |-> backups.page, rows |-> OnPage(kept, backups.page), total |-> Cardinality(kept),
         running |-> underway]}]
  /\ UNCHANGED server

SessionsAnswered ==
  /\ Pending(backups.list)
  /\ \E data \in backups.read :
       backups' = [backups EXCEPT !.list = Succeeded(@, data), !.read = {}]
  /\ UNCHANGED server

SessionsFail ==
  /\ Pending(backups.list)
  /\ backups' = [backups EXCEPT !.list = Failed(@), !.read = {}]
  /\ UNCHANGED server

\* Previous and Next; a page without sessions has neither.
TurnTo(page) ==
  /\ Rows(backups) # {} /\ ~BusyTable(backups)
  /\ backups.viewing = Nothing /\ backups.asked = Nothing
  /\ page \in {backups.page - 1, backups.page + 1} /\ page \in 1..Pages(backups.list.data.total)
  /\ backups' = LoadPage(backups, page)
  /\ UNCHANGED server

\* A row opens also while a deletion runs; closing it loads the page again.
View(s) ==
  /\ s \in Rows(backups) /\ backups.viewing = Nothing /\ backups.asked = Nothing
  /\ backups' = [backups EXCEPT !.viewing = s]
  /\ UNCHANGED server

CloseView ==
  /\ backups.viewing # Nothing
  /\ backups' = LoadPage(backups, backups.page)
  /\ UNCHANGED server
-----------------------------------------------------------------------------
\* Deletion of a session that did not run when the page was read.

AskRemove(s) ==
  /\ s \in Rows(backups) /\ s \notin backups.list.data.running /\ ~BusyTable(backups)
  /\ backups.viewing = Nothing /\ backups.asked = Nothing
  /\ backups' = [backups EXCEPT !.asked = s]
  /\ UNCHANGED server

CancelRemove ==
  /\ backups.asked # Nothing
  /\ backups' = [backups EXCEPT !.asked = Nothing]
  /\ UNCHANGED server

\* The call keeps the page and the number of its rows as they are now.
ConfirmRemove ==
  /\ backups.asked # Nothing /\ Cardinality(backups.removals) < MaxRemovals
  /\ backups' = [backups EXCEPT !.asked = Nothing,
       !.removals = @ \cup {[session |-> backups.asked, page |-> backups.page,
                             last |-> Cardinality(Rows(backups)) = 1,
                             mounted |-> TRUE, done |-> FALSE]}]
  /\ UNCHANGED server

\* The server refuses a session that runs or is gone.
RemovalArrives(r) ==
  /\ ~r.done /\ r.session \in kept \ underway
  /\ kept' = kept \ {r.session}
  /\ backups' = [backups EXCEPT !.removals = (@ \ {r}) \cup {[r EXCEPT !.done = TRUE]}]
  /\ UNCHANGED underway

\* The last row of a later page steps back; to be there already loads nothing.
RemovalSucceeds(r) ==
  /\ r.done
  /\ LET w == [backups EXCEPT !.removals = @ \ {r}]  back == r.last /\ r.page > 1 IN
     backups' = IF back /\ w.page = r.page - 1 THEN [w EXCEPT !.unsure = TRUE]
                ELSE LoadPage(w, IF back THEN r.page - 1 ELSE w.page)
  /\ UNCHANGED server

RemovalFails(r) ==
  /\ backups' = [backups EXCEPT !.removals = @ \ {r}, !.unsure = @ \/ r.done]
  /\ UNCHANGED server

\* Someone else's deletion: the rows the screen has or awaits are from before it.
OthersRemove(s) ==
  /\ s \in kept \ underway
  /\ kept' = kept \ {s}
  /\ backups' = [backups EXCEPT !.unsure = @ \/ HasData(backups.list) \/ backups.read # {}]
  /\ UNCHANGED underway

RunFinishes(s) ==
  /\ s \in underway
  /\ underway' = underway \ {s}
  /\ UNCHANGED <<backups, kept>>

BackupsInit ==
  /\ backups = FreshBackups /\ kept = SessionIds
  /\ underway \in {{}} \cup {{s} : s \in SessionIds}

BackupsActs ==
  \/ ReadSessions \/ SessionsAnswered \/ SessionsFail \/ CloseView \/ CancelRemove \/ ConfirmRemove
  \/ \E page \in 1..Cardinality(SessionIds) : TurnTo(page)
  \/ \E s \in SessionIds : View(s) \/ AskRemove(s) \/ RunFinishes(s) \/ OthersRemove(s)
  \/ \E r \in backups.removals : RemovalArrives(r) \/ RemovalSucceeds(r) \/ RemovalFails(r)

BackupsSpec == BackupsInit /\ [][BackupsActs]_backupsVars
-----------------------------------------------------------------------------
\* Once its deletions are answered, the screen has the rows that the server has for
\* its page, though answers come in on other pages and loads were read before them.
\* Three things leave it unsure until the next load: an answer that was lost, a step
\* back to a page that the user has turned to already, and the deletions of others,
\* those of this screen among them that were sent before it was last left.
RowsAreKept ==
  HasData(backups.list) /\ backups.removals = {} /\ ~backups.unsure
    => Rows(backups) = OnPage(kept, backups.page)
=============================================================================
