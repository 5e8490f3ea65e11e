----------------------------- MODULE PostgresDump -----------------------------
(***************************************************************************)
(* Backup and Apply of the postgres service: dump (postgres_dump.go)       *)
(* writes the tables of a database as a script of SQL statements, and      *)
(* restore (postgres_restore.go) replays a script into another one.        *)
(*                                                                         *)
(* A dump is one query after the other with no transaction around them,    *)
(* and the programs that use the database write between any two.  What the *)
(* queries answer, and which statements of a script go through, is         *)
(* Postgres's; the model has what the two functions rely on: unique keys   *)
(* that a foreign key needs, transactions, and sequences, which no         *)
(* transaction undoes.                                                     *)
(*                                                                         *)
(* A table's name is its place in the order by name.  Every table takes    *)
(* its ids from the one sequence, and refers by one column to one table at *)
(* most.                                                                   *)
(***************************************************************************)
EXTENDS Integers, FiniteSets, SequencesExt

CONSTANTS
  Tables,  \* the tables of the database, by name
  MaxId,   \* bound: the ids that writers take
  Missing  \* a database or a sequence that is not there

ASSUME TablesAssumption == IsFiniteSet(Tables) /\ Tables \subseteq Nat

ASSUME PgBoundAssumption == MaxId \in Nat \ {0}

VARIABLES
  origin,   \* the database that is dumped
  dump,     \* where the dump is, and what it has read
  script,   \* the statements in the file
  asDumped, \* history: the origin since the dump began, Missing if it is then changed
  target,   \* the database that the script is applied to
  apply     \* where the apply is, and whether reading the file failed (cut)

pgVars == <<origin, dump, script, asDumped, target, apply>>

\* pg_constraint: a primary or unique key, and a foreign key to the ids of another
\* table (or of the same).
UniqueKey(t) == [type |-> "p", on |-> t, to |-> t]

ForeignKey(t, u) == [type |-> "f", on |-> t, to |-> u]

\* A database.  A row has its id and ref, the id it refers to, or 0 for NULL; indexes
\* are the tables with a unique index on their ids that is no constraint's; sequence
\* is its last value, 0 (NULL in pg_sequences) before the first.
EmptyDatabase ==
  [tables |-> {}, rows |-> [t \in Tables |-> {}], constraints |-> {}, indexes |-> {},
   sequence |-> Missing]

ASSUME MissingAssumption == Missing \notin 0 .. MaxId /\ Missing # EmptyDatabase

\* What a foreign key to t needs, and which of its values are there.
IsUnique(db, t) == UniqueKey(t) \in db.constraints \/ t \in db.indexes

Ids(db, t) == {r.id : r \in db.rows[t]}

Resolves(db, t, u) == \A r \in db.rows[t] : r.ref \in {0} \cup Ids(db, u)

Designed(keyed, indexes, refs) ==
  [tables |-> Tables, rows |-> [t \in Tables |-> {}],
   constraints |-> {UniqueKey(t) : t \in keyed} \cup refs, indexes |-> indexes,
   sequence |-> 0]

\* A database whose tables have a key, a unique index or neither, and foreign keys
\* to some that have either.
Designs ==
  {db \in {Designed(keyed, indexes, refs) : keyed, indexes \in SUBSET Tables,
             refs \in SUBSET {ForeignKey(t, u) : t, u \in Tables}} :
     /\ \A t \in db.indexes : UniqueKey(t) \notin db.constraints
     /\ \A c \in db.constraints : c.type = "f" =>
          /\ IsUnique(db, c.to)
          /\ \A e \in db.constraints : e.type = "f" /\ e.on = c.on => e = c}

\* What a script is applied to: nothing, or what earlier use of the database has left.
Targets ==
  {Missing, EmptyDatabase, [EmptyDatabase EXCEPT !.sequence = 1],
   [EmptyDatabase EXCEPT !.sequence = 1, !.tables = Tables]}

PgInit ==
  /\ origin \in Designs
  /\ dump = [step |-> "idle", last |-> 0, list |-> {}, left |-> {}]
  /\ script = <<>>
  /\ asDumped = Missing
  /\ target = Missing
  /\ apply = [step |-> "idle", at |-> 1, before |-> Missing, txn |-> Missing, cut |-> FALSE]

-----------------------------------------------------------------------------
(***************************************************************************)
(* The programs that use the database.  What they write after the dump is  *)
(* seen by nothing here, and left out.                                     *)
(***************************************************************************)

Dumping == dump.step \in {"tables", "ddl", "data", "keys", "others", "indexes", "values"}

ChangesTo(db) ==
  /\ dump.step = "idle" \/ Dumping
  /\ origin' = db
  /\ asDumped' = Missing

InsertRow(t) ==
  /\ t \in origin.tables
  /\ origin.sequence < MaxId
  /\ \E ref \in 0 .. MaxId :
       LET id == origin.sequence + 1
           db == [origin EXCEPT !.rows[t] = @ \cup {[id |-> id, ref |-> ref]},
                                !.sequence = id]
       IN  /\ \A u \in Tables : ForeignKey(t, u) \in origin.constraints => Resolves(db, t, u)
           /\ ref # 0 => \E u \in Tables : ForeignKey(t, u) \in origin.constraints
           /\ ChangesTo(db)
  /\ UNCHANGED <<dump, script, target, apply>>

DropTable(t) ==
  /\ t \in origin.tables
  /\ ChangesTo([origin EXCEPT !.tables = @ \ {t}, !.rows[t] = {}, !.indexes = @ \ {t},
                              !.constraints = {c \in @ : t \notin {c.on, c.to}}])
  /\ UNCHANGED <<dump, script, target, apply>>

-----------------------------------------------------------------------------
(***************************************************************************)
(* dump.  Its queries see the database as it is by then.                   *)
(***************************************************************************)

DumpEnded(step) == [dump EXCEPT !.step = step, !.list = {}, !.left = {}]

\* listSequences reads the values that end the script.
BeginDump ==
  /\ dump.step = "idle"
  /\ dump' = [dump EXCEPT !.step = "tables", !.last = origin.sequence]
  /\ asDumped' = origin
  /\ UNCHANGED <<origin, script, target, apply>>

ListTables ==
  /\ dump.step = "tables"
  /\ dump' = [dump EXCEPT !.step = IF origin.tables = {} THEN "values" ELSE "ddl",
                          !.list = origin.tables, !.left = origin.tables]
  /\ script' = <<[op |-> "sequence"]>>
  /\ UNCHANGED <<origin, asDumped, target, apply>>

\* The passes over the tables, each in the order of the names.
NextPass ==
  [ddl |-> "data", data |-> "keys", keys |-> "others", others |-> "indexes",
   indexes |-> "values"]

IsNext(t) == t \in dump.left /\ \A u \in dump.left : t <= u

\* One table's turn in a pass, and the statements that it adds.
Emit(pass, t, statements) ==
  /\ dump.step = pass /\ IsNext(t)
  /\ script' = script \o statements
  /\ dump' = IF dump.left = {t}
             THEN [dump EXCEPT !.step = NextPass[pass], !.left = dump.list]
             ELSE [dump EXCEPT !.left = @ \ {t}]
  /\ UNCHANGED <<origin, asDumped, target, apply>>

\* A table that is gone is created without columns; its rows then fail the dump.
DumpDDL(t) == Emit("ddl", t, <<[op |-> "table", table |-> t]>>)

DumpData(t) ==
  /\ t \in origin.tables
  /\ Emit("data", t, <<[op |-> "copy", table |-> t, rows |-> origin.rows[t]]>>)

AllAtOnce(pass) == IF pass = "keys" THEN {"p", "f"} ELSE {}

\* emitCons: first what foreign keys refer to.
Wanted(pass) == IF pass = "keys" THEN {"p"} ELSE {"f"}

DumpConstraints(t) ==
  \E pass \in {"keys", "others"} :
    LET wanted == {c \in origin.constraints : c.on = t /\ c.type \in Wanted(pass)}
    IN  Emit(pass, t, SetToSeq({[op |-> "constraint", constraint |-> c] : c \in wanted}))

\* pg_constraint.conindid is, of a foreign key, the index that it relies on.
BacksConstraint(db, t) == \E u \in Tables : ForeignKey(u, t) \in db.constraints

DumpIndexes(t) ==
  Emit("indexes", t, IF t \in origin.indexes /\ ~BacksConstraint(origin, t)
                     THEN <<[op |-> "index", table |-> t]>> ELSE <<>>)

DumpValues ==
  /\ dump.step = "values"
  /\ dump' = DumpEnded("done")
  /\ script' = IF dump.last = 0 THEN script
               ELSE Append(script, [op |-> "setval", value |-> dump.last])
  /\ UNCHANGED <<origin, asDumped, target, apply>>

\* A query or a write fails, and the session removes the folder.
DumpFails ==
  /\ Dumping
  /\ dump' = DumpEnded("failed")
  /\ script' = <<>>
  /\ UNCHANGED <<origin, asDumped, target, apply>>

\* The process stops, and the folder stays: between two statements (what is there of
\* one is never executed), or among the rows of a table.
DumpIsCut ==
  /\ Dumping
  /\ dump' = DumpEnded("cut")
  /\ \/ script' = script
     \/ \E t \in dump.left :
          /\ dump.step = "data" /\ IsNext(t)
          /\ \E rows \in SUBSET origin.rows[t] :
               script' = Append(script, [op |-> "torn", table |-> t, rows |-> rows])
  /\ UNCHANGED <<origin, asDumped, target, apply>>

-----------------------------------------------------------------------------
(***************************************************************************)
(* Apply.                                                                  *)
(***************************************************************************)

Restore(a) == apply' = a /\ UNCHANGED <<origin, dump, script, asDumped>>

Ended(step) == [apply EXCEPT !.step = step, !.at = 1, !.txn = Missing]

\* Some database is the target; ensureDatabase looks for it and then creates it.
BeginApply ==
  /\ dump.step \in {"done", "cut"}
  /\ apply.step = "idle"
  /\ target' \in Targets
  /\ Restore([apply EXCEPT !.step = IF target' = Missing THEN "create" ELSE "begin"])

CreateDatabase ==
  /\ apply.step = "create"
  /\ Restore(IF target = Missing THEN [apply EXCEPT !.step = "begin"] ELSE Ended("refused"))
  /\ target' = IF target = Missing THEN EmptyDatabase ELSE target

\* Somebody else creates it in between.
OthersCreate ==
  /\ apply.step = "create" /\ target = Missing
  /\ target' = EmptyDatabase
  /\ UNCHANGED <<origin, dump, script, asDumped, apply>>

BeginRestore ==
  /\ apply.step = "begin"
  /\ Restore([apply EXCEPT !.step = "replay", !.before = target, !.txn = target])
  /\ UNCHANGED target

\* Whether a statement goes through, and what it makes of the database.
Accepts(db, s) ==
  CASE s.op = "table" -> s.table \notin db.tables /\ db.sequence # Missing  \* DEFAULT nextval
    [] s.op = "copy" -> s.table \in db.tables
    [] s.op = "torn" -> FALSE  \* replayCopy: unexpected EOF
    [] s.op = "constraint" ->
         LET c == s.constraint
         IN  /\ {c.on, c.to} \subseteq db.tables
             /\ c.type = "f" => IsUnique(db, c.to) /\ Resolves(db, c.on, c.to)
    [] s.op = "index" -> s.table \in db.tables
    [] s.op \in {"sequence", "setval"} -> TRUE

Result(db, s) ==
  CASE s.op = "sequence" -> [db EXCEPT !.sequence = IF @ = Missing THEN 0 ELSE @]
    [] s.op = "table" -> [db EXCEPT !.tables = @ \cup {s.table}]
    [] s.op \in {"copy", "torn"} -> [db EXCEPT !.rows[s.table] = @ \cup s.rows]
    [] s.op = "constraint" -> [db EXCEPT !.constraints = @ \cup {s.constraint}]
    [] s.op = "index" -> [db EXCEPT !.indexes = @ \cup {s.table}]
    [] s.op = "setval" -> [db EXCEPT !.sequence = s.value]

WithoutBegin(s) == Result(target, s)

\* What a statement changes that no rollback undoes: the value of a sequence that
\* was there before the transaction.
Outlives(s) ==
  IF s.op = "setval" /\ target.sequence # Missing
  THEN [target EXCEPT !.sequence = s.value] ELSE target

Replay ==
  /\ apply.step = "replay" /\ apply.at <= Len(script)
  /\ LET s == script[apply.at]
     IN  IF Accepts(apply.txn, s)
         THEN /\ Restore([apply EXCEPT !.at = @ + 1, !.txn = Result(@, s)])
              /\ target' = Outlives(s)
         ELSE /\ Restore(Ended("refused"))
              /\ UNCHANGED target

\* The file cannot be read on.  replay takes that for its end, as it does in the middle
\* of a statement; replayCopy, among the rows of a table, for an error.
ReadFails ==
  /\ apply.step = "replay" /\ apply.at <= Len(script)
  /\ \/ Restore([apply EXCEPT !.step = "stopped", !.cut = TRUE])
     \/ /\ script[apply.at].op \in {"copy", "torn"}
        /\ Restore([Ended("refused") EXCEPT !.cut = TRUE])
  /\ UNCHANGED target

ReadToTheEnd == apply.step = "stopped" \/ (apply.step = "replay" /\ apply.at > Len(script))

Commit ==
  /\ ReadToTheEnd
  /\ Restore(Ended("success"))
  /\ target' = apply.txn

\* The connection is lost: Postgres rolls back, unless it was committing.
LoseConnection ==
  /\ apply.step \in {"create", "begin", "replay", "stopped"}
  /\ Restore(Ended("lost"))
  /\ \/ target' = target
     \/ ReadToTheEnd /\ target' = apply.txn

-----------------------------------------------------------------------------
PgNext ==
  \/ \E t \in Tables : \/ InsertRow(t) \/ DropTable(t)
                       \/ DumpDDL(t) \/ DumpData(t) \/ DumpConstraints(t) \/ DumpIndexes(t)
  \/ BeginDump \/ ListTables \/ DumpValues \/ DumpFails \/ DumpIsCut
  \/ BeginApply \/ CreateDatabase \/ OthersCreate \/ BeginRestore \/ Replay
  \/ ReadFails \/ Commit \/ LoseConnection

PgSpec == PgInit /\ [][PgNext]_pgVars

-----------------------------------------------------------------------------
(***************************************************************************)
(* Safety.                                                                 *)
(***************************************************************************)

\* The script of a dump during which nobody wrote, applied to an empty database.
Reloads ==
  /\ asDumped # Missing
  /\ apply.before = EmptyDatabase

\* "The script is ordered so it reloads cleanly into an empty schema"
\* (postgres_dump.go:10): no statement of a complete dump that can be read is refused.
ReloadsCleanly == Reloads /\ dump.step = "done" /\ ~apply.cut => apply.step # "refused"

\* A dump during which nobody wrote, restored into an empty database, brings the
\* tables, rows, keys, indexes and last values back as they were, whatever refers to
\* what (foreign keys to an index that is no constraint's apart).  One that was cut
\* short, or is read in part, has no table with part of its rows, if it is restored.
QuietDumpReloads ==
  Reloads =>
    /\ /\ dump.step = "done" /\ ~apply.cut
       /\ \A t \in asDumped.indexes : ~BacksConstraint(asDumped, t)
       => /\ apply.step # "refused"
          /\ apply.step = "success" => target = asDumped
    /\ apply.step = "success" =>
         \A t \in Tables : target.rows[t] \in {{}, asDumped.rows[t]}

\* Whatever fails, a restore whose file is read to its end leaves the database as it
\* was, or as the whole script makes it; only the value of a sequence that was there may
\* have been set.  When the reading fails, which restore does not tell from the end, it
\* leaves the database as it was or as the statements before make it, each as a whole.
AllOrNothing ==
  apply.before # Missing =>
    \/ target = apply.before
    \/ /\ Missing \notin {apply.before.sequence, target.sequence}
       /\ [target EXCEPT !.sequence = apply.before.sequence] = apply.before
    \/ \E n \in IF apply.cut THEN 0 .. Len(script) ELSE {Len(script)} :
         target = FoldLeft(Result, apply.before, SubSeq(script, 1, n))
=============================================================================
