------------------------------ MODULE SqlConsole ------------------------------
(***************************************************************************)
(* One tab of the SQL console: the statement that runs, its result, and    *)
(* the edits of the result's rows.                                         *)
(***************************************************************************)
EXTENDS AsyncLoad, Naturals, FiniteSets, TLC

CONSTANTS
  Queries,       \* statements whose result can be edited: each reads the table
  Writes,        \* other statements: each sets every row to its own value
  TableRows,     \* primary keys of the table
  Cells,         \* values of a cell
  MaxRuns,       \* bound: requests of the console under way at once
  MaxSent        \* bound: statements and changes the console ever sends

ASSUME ConsoleAssumption ==
  /\ Writes \subseteq Cells /\ Cells # {} /\ Nothing \notin Cells
  /\ {MaxRuns, MaxSent} \subseteq Nat

VARIABLES
  console,       \* the state of the tab's components
  table          \* the server: the rows there are, with their cell

consoleVars == <<console, table>>

\* A request is sent, carried out (or not) and answered; only the last one's answer is
\* listened to.  Its answer has the table as the statement saw it, and how many of this
\* console's edits it saw (kept for the properties).
Request(id, query) ==
  [id |-> id, query |-> query, state |-> "sent", answer |-> Nothing]

FreshConsole ==
  [mounted |-> TRUE, status |-> "idle", result |-> Nothing, statement |-> Nothing,
   requests |-> {}, sent |-> 0, current |-> 0,
   editing |-> Nothing, staged |-> Nothing, change |-> {}, edits |-> 0, acknowledged |-> 0]

StagedChange(kind, row, cell) == [kind |-> kind, row |-> row, cell |-> cell, state |-> "sent"]

\* The dialog of a staged change covers the page.
FreeTab(c) == c.mounted /\ c.staged = Nothing
Editable(c) == c.status = "done" /\ c.statement \in Queries

\* Another run aborts the one before and takes the result with its editors away.
Executed(c, statement) ==
  [c EXCEPT !.status = "running", !.result = Nothing, !.statement = statement,
            !.requests = @ \cup {Request(c.sent, statement)},
            !.current = c.sent, !.sent = @ + 1, !.editing = Nothing]
-----------------------------------------------------------------------------
\* The button is disabled while a statement runs, the keyboard's command is not.
RunSql(statement) ==
  /\ FreeTab(console)
  /\ console.sent < MaxSent /\ Cardinality(console.requests) < MaxRuns
  /\ console' = Executed(console, statement)
  /\ UNCHANGED table

Moved(r, to) == (console.requests \ {r}) \cup to

\* The server carries a statement out, whether or not its answer is awaited.
CarriedOut(r) ==
  /\ r.state = "sent"
  /\ table' = IF r.query \in Writes THEN [k \in DOMAIN table |-> r.query] ELSE table
  /\ console' = [console EXCEPT !.requests =
                   Moved(r, {[r EXCEPT !.state = "carried out", !.answer = [rows |-> table', seen |-> console.edits]]})]

\* The answer of an aborted run is dropped; so is one that is late for the page.
RunAnswered(r) ==
  /\ r.state = "carried out"
  /\ console' = IF r.id = console.current /\ console.mounted
                THEN [console EXCEPT !.requests = Moved(r, {}), !.status = "done",
                                     !.result = r.answer]
                ELSE [console EXCEPT !.requests = Moved(r, {})]
  /\ UNCHANGED table

\* A statement fails on the server, or its request does, carried out or not.
RunFails(r) ==
  /\ console' = IF r.id = console.current /\ console.mounted
                THEN [console EXCEPT !.requests = Moved(r, {}), !.status = "failed"]
                ELSE [console EXCEPT !.requests = Moved(r, {})]
  /\ UNCHANGED table
-----------------------------------------------------------------------------
\* Edits of the result: staged, shown as a statement, confirmed.

EditCell(k) ==
  /\ FreeTab(console) /\ Editable(console) /\ k \in DOMAIN console.result.rows
  /\ console' = [console EXCEPT !.editing = k]
  /\ UNCHANGED table

CancelEdit ==
  /\ FreeTab(console) /\ console.editing # Nothing
  /\ console' = [console EXCEPT !.editing = Nothing]
  /\ UNCHANGED table

\* An edit that changes nothing is not staged.
CommitEdit(cell) ==
  /\ FreeTab(console) /\ console.editing # Nothing
  /\ console' = [console EXCEPT !.editing = Nothing,
       !.staged = IF console.result.rows[console.editing] = cell THEN Nothing
                  ELSE StagedChange("update", console.editing, cell)]
  /\ UNCHANGED table

StageDelete(k) ==
  /\ FreeTab(console) /\ Editable(console) /\ k \in DOMAIN console.result.rows
  /\ console' = [console EXCEPT !.staged = StagedChange("delete", k, Nothing)]
  /\ UNCHANGED table

\* Cancel and confirm are disabled while the change is sent.
CancelChange ==
  /\ console.mounted /\ console.staged # Nothing /\ console.change = {}
  /\ console' = [console EXCEPT !.staged = Nothing]
  /\ UNCHANGED table

ApplyChange ==
  /\ console.mounted /\ console.staged # Nothing /\ console.change = {}
  /\ console.sent < MaxSent
  /\ console' = [console EXCEPT !.change = {console.staged}, !.sent = @ + 1]
  /\ UNCHANGED table

\* A change of a row that is gone changes none and is no error.
ChangeArrives(ch) ==
  /\ ch.state = "sent"
  /\ table' = IF ch.row \notin DOMAIN table THEN table
              ELSE IF ch.kind = "update" THEN [table EXCEPT ![ch.row] = ch.cell]
              ELSE [k \in DOMAIN table \ {ch.row} |-> table[k]]
  /\ console' = [console EXCEPT !.change = {[ch EXCEPT !.state = "carried out"]},
                                !.edits = @ + 1]

\* The dialog closes and the statement that gave the result is run again, also when
\* the page is gone by then.
ChangeSucceeds(ch) ==
  /\ ch.state = "carried out"
  /\ console' = Executed([console EXCEPT !.change = {}, !.staged = Nothing, !.acknowledged = @ + 1],
                         console.statement)
  /\ UNCHANGED table

ChangeFails(ch) ==
  /\ console' = [console EXCEPT !.change = {}]
  /\ UNCHANGED table

\* The tab is closed or the page left: its run is aborted.
CloseTab ==
  /\ console.mounted
  /\ console' = [console EXCEPT !.mounted = FALSE, !.current = console.sent, !.status = "idle",
                                !.result = Nothing, !.editing = Nothing]
  /\ UNCHANGED table

ConsoleInit ==
  /\ console = FreshConsole
  /\ table \in [TableRows -> Cells]

ConsoleActs ==
  \/ \E s \in Queries \cup Writes : RunSql(s)
  \/ \E r \in console.requests : CarriedOut(r) \/ RunAnswered(r) \/ RunFails(r)
  \/ \E k \in TableRows : EditCell(k) \/ StageDelete(k)
  \/ CancelEdit \/ CancelChange \/ ApplyChange
  \/ \E cell \in Cells : CommitEdit(cell)
  \/ \E ch \in console.change : ChangeArrives(ch) \/ ChangeSucceeds(ch) \/ ChangeFails(ch)
  \/ CloseTab

ConsoleSpec == ConsoleInit /\ [][ConsoleActs]_consoleVars
-----------------------------------------------------------------------------
\* A result on the screen was read after every edit that the console had confirmed,
\* though the answers of aborted runs still come in.
EditsShow ==
  console.status = "done" => console.result.seen >= console.acknowledged

\* A change that is asked for or sent is of a row on the screen, and it changes it.
EditsWhatIsShown ==
  console.mounted /\ console.staged # Nothing =>
    /\ Editable(console) /\ console.staged.row \in DOMAIN console.result.rows
    /\ console.staged.cell # console.result.rows[console.staged.row]
=============================================================================
