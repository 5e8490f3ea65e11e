------------------------------ MODULE RedisPage ------------------------------
(***************************************************************************)
(* The page of a Redis service: a browser of keys (scan, value) and a      *)
(* command console, two tabs that stay mounted and share one database.     *)
(***************************************************************************)
EXTENDS AsyncLoad, Naturals, Sequences

CONSTANTS
  Dbs,           \* logical databases; 0 is shown first
  Keys,          \* names of keys
  Patterns,      \* match patterns
  AnyPattern,    \* "*", the pattern at first and of an empty input
  Verbs,         \* first words of commands that users run
  MaxLog,        \* MAX_LOG
  MaxCommands    \* bound: commands run on one page

ASSUME RedisAssumption ==
  /\ 0 \in Dbs /\ AnyPattern \in Patterns
  /\ MaxLog \in Nat \ {0} /\ MaxCommands \in Nat

VARIABLE redis

\* Commands that destroy data or may stall the server.
Guarded == {"FLUSHDB", "FLUSHALL", "DEL", "UNLINK", "KEYS"}

\* What the server may answer to a scan, to a read and to a command.
Scans(at) == [of : {at}, keys : {{}, Keys}]
Values(at) == [of : {at}]
Replies(verb) == IF verb = "SCAN" THEN [keys : {{}, Keys}, more : BOOLEAN]
                 ELSE {[keys |-> {}, more |-> FALSE]}

FreshRedis ==
  [tab |-> "keys", db |-> 0,
   databases |-> Mounted(Nothing), pattern |-> AnyPattern, selected |-> Nothing,
   list |-> Mounted(<<0, AnyPattern>>), value |-> Mounted(Nothing),
   log |-> <<>>, commands |-> 0, call |-> {}, pending |-> Nothing]
-----------------------------------------------------------------------------
\* The browser of keys.

\* Its controls are there once the databases are known, and no dialog is open.
KeysShown(w) == w.tab = "keys" /\ HasData(w.databases)

\* A change of the database or of the applied pattern scans anew and aborts the scan
\* before; the value is keyed by database and key, so it is mounted anew.
Scanned(w) == [w EXCEPT !.list = IF @.key = <<w.db, w.pattern>> THEN @
                                 ELSE Reloaded(@, <<w.db, w.pattern>>)]
Opened(w) == [w EXCEPT !.value =
                IF w.selected = Nothing THEN Mounted(Nothing)
                ELSE IF @.key = <<w.db, w.selected>> THEN @
                ELSE Mounted(<<w.db, w.selected>>)]

DatabasesAnswered ==
  /\ Pending(redis.databases)
  /\ \/ redis' = [redis EXCEPT !.databases = Succeeded(@, Nothing)]
     \/ redis' = [redis EXCEPT !.databases = Failed(@)]

\* Submitting the form closes the value; it scans if the pattern is another one.
Scan(p) ==
  /\ KeysShown(redis)
  /\ redis' = Scanned(Opened([redis EXCEPT !.selected = Nothing, !.pattern = p]))

SelectKey(k) ==
  /\ KeysShown(redis) /\ HasData(redis.list) /\ k \in redis.list.data.keys
  /\ redis' = Opened([redis EXCEPT !.selected = k])

\* Either tab picks the database of both; only the browser closes the value.
PickDb(d) ==
  /\ redis.pending = Nothing
  /\ \/ /\ KeysShown(redis)
        /\ redis' = Scanned(Opened([redis EXCEPT !.db = d, !.selected = Nothing]))
     \/ /\ redis.tab = "console"
        /\ redis' = Scanned(Opened([redis EXCEPT !.db = d]))

\* When keys are left to scan, the list has the status "more", which is also that of a
\* page being appended: it disables the button for the next one (RedisKeyBrowser.tsx:117
\* and :354), so that no step appends a page.
ScanAnswered(data) ==
  /\ Pending(redis.list) /\ data \in Scans(redis.list.key)
  /\ redis' = [redis EXCEPT !.list = Succeeded(@, data)]

ScanFails == Pending(redis.list) /\ redis' = [redis EXCEPT !.list = Failed(@)]

ScanAnsweredLate(data) ==
  /\ redis.list.late # Nothing /\ data \in Scans(redis.list.late)
  /\ redis' = [redis EXCEPT !.list = LateAnswer(@, data)]

ValueAnswered(data) ==
  /\ redis.selected # Nothing /\ Pending(redis.value) /\ data \in Values(redis.value.key)
  /\ redis' = [redis EXCEPT !.value = Succeeded(@, data)]

ValueFails ==
  /\ redis.selected # Nothing /\ Pending(redis.value)
  /\ redis' = [redis EXCEPT !.value = Failed(@)]
-----------------------------------------------------------------------------
\* The console.

SwitchTab(t) ==
  /\ t # redis.tab /\ redis.pending = Nothing
  /\ redis' = [redis EXCEPT !.tab = t]

ConsoleShown(w) == w.tab = "console" /\ w.pending = Nothing
Running(w) == w.call # {}

\* The newest command comes first; the log is cut at MaxLog.  A command that is sent
\* aborts the one before.
Logged(log, entry) == SubSeq(<<entry>> \o log, 1, IF Len(log) < MaxLog THEN Len(log) + 1 ELSE MaxLog)
Run(w, verb) ==
  [w EXCEPT !.commands = @ + 1,
     !.call = {[id |-> w.commands + 1, verb |-> verb]},
     !.log = Logged(@, [id |-> w.commands + 1, verb |-> verb, db |-> w.db,
                        status |-> "running", reply |-> Nothing])]

\* Guarded commands wait for a confirmation.
Submit(verb) ==
  /\ ConsoleShown(redis) /\ ~Running(redis) /\ redis.commands < MaxCommands
  /\ redis' = IF verb \in Guarded THEN [redis EXCEPT !.pending = verb] ELSE Run(redis, verb)

Confirm ==
  /\ redis.pending # Nothing
  /\ redis' = Run([redis EXCEPT !.pending = Nothing], redis.pending)

Cancel ==
  /\ redis.pending # Nothing
  /\ redis' = [redis EXCEPT !.pending = Nothing]

\* "Scan next" of a scan that has more, unless a command runs.
ScanNext(i) ==
  /\ ConsoleShown(redis) /\ ~Running(redis) /\ redis.commands < MaxCommands
  /\ redis.log[i].status = "done" /\ redis.log[i].reply.more
  /\ redis' = Run(redis, "SCAN")

\* A key of a scan's reply opens in the browser, in the database shown now.
OpenKey(i, k) ==
  /\ ConsoleShown(redis)
  /\ redis.log[i].status = "done" /\ k \in redis.log[i].reply.keys
  /\ redis' = Opened([redis EXCEPT !.selected = k, !.tab = "keys"])

Clear ==
  /\ ConsoleShown(redis) /\ redis.log # <<>>
  /\ redis' = [redis EXCEPT !.log = <<>>]

\* The answer settles the entry of its command, if the log still has it.
Settled(log, id, status, reply) ==
  [i \in DOMAIN log |-> IF log[i].id = id
                        THEN [log[i] EXCEPT !.status = status, !.reply = reply] ELSE log[i]]

CommandAnswered ==
  \E c \in redis.call :
    \/ \E r \in Replies(c.verb) :
         redis' = [redis EXCEPT !.call = {}, !.log = Settled(@, c.id, "done", r)]
    \/ redis' = [redis EXCEPT !.call = {}, !.log = Settled(@, c.id, "failed", Nothing)]

RedisInit == redis = FreshRedis

RedisActs ==
  \/ DatabasesAnswered \/ ScanFails \/ ValueFails
  \/ \E p \in Patterns : Scan(p)
  \/ \E k \in Keys : SelectKey(k)
  \/ \E d \in Dbs : PickDb(d)
  \/ \E at \in Dbs \X Patterns : \E data \in Scans(at) : ScanAnswered(data) \/ ScanAnsweredLate(data)
  \/ \E at \in Dbs \X Keys : \E data \in Values(at) : ValueAnswered(data)
  \/ \E t \in {"keys", "console"} : SwitchTab(t)
  \/ \E v \in Verbs : Submit(v)
  \/ Confirm \/ Cancel \/ Clear \/ CommandAnswered
  \/ \E i \in DOMAIN redis.log : ScanNext(i) \/ \E k \in Keys : OpenKey(i, k)

RedisSpec == RedisInit /\ [][RedisActs]_redis
-----------------------------------------------------------------------------
\* The keys on the screen are those of the database and the pattern on the screen,
\* and the value is that of the selected key in that database, though either tab
\* changes the database while scans and reads are on their way.
KeysAreCurrent ==
  /\ ShownFor(redis.list, <<redis.db, redis.pattern>>)
  /\ redis.selected # Nothing => ShownFor(redis.value, <<redis.db, redis.selected>>)

\* The log is honest: an entry says that it runs exactly while the console waits for
\* its answer, so none is left running by a later command, a cleared or a full log.
LogIsHonest ==
  /\ \A i \in DOMAIN redis.log : redis.log[i].status = "running"
       => \E c \in redis.call : c.id = redis.log[i].id
  /\ \A c \in redis.call, i \in DOMAIN redis.log :
       redis.log[i].id = c.id => redis.log[i].status = "running" /\ i = 1
  /\ Len(redis.log) <= MaxLog
=============================================================================
