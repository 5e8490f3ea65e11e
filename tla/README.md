# Formal model of easy-infra

easy-infra is one Go process that keeps workspaces, profiles, services and
backup sessions in a SQLite file, runs backups, restores and local forks in
goroutines, and serves a React UI that polls it. This directory holds TLA+
models of the parts where steps of several actors meet, the TLC runs that check
them on small instances, and TLAPS proofs that hold for every size.

    tlc -workers 2 -config sessions.cfg MCBackupSessions    # a run
    tlapm BackupSessionsProofs.tla                          # a module of proofs

`PROJECT.json` lists components, runs, mutants (for each property a plausible bug
that breaks it), the source lines of every definition, findings, hazards and
theorems.

## 1. The system

| Component | State | Operations | Interacts with | What is hard | What makes it correct |
|---|---|---|---|---|---|
| Sessions (`server/backup.go`, `fork.go`, `backup/store.go`) | rows and log lines of sessions, a map of cancel functions, one goroutine per run | start backup, apply or fork; cancel; poll; list; delete; reconcile when the store opens | snapshot folders, services, project (fork) | starts, cancels and deletes race the end of the goroutine; the process stops at any point; store errors are dropped | one run per key, honest status, final outcome, folders that agree with the rows |
| Snapshot folders (`service/backup.go`) | a folder per profile, service and second | create, write artifact, list, latest, remove | sessions, services | a folder exists before it is complete; names have a resolution of a second | what is listed can be restored |
| Store (`store/store.go`) | workspaces, active pointer, profiles, services, templates | one statement or transaction each | project, sessions (by workspace id) | foreign keys, cascades, id reuse | no orphans, fresh ids, valid pointer |
| Project facade and handlers (`project/*.go`, `server/workspace.go`, `profiles.go`, `templates.go`) | none between requests | read, check, compute, write back | store | several statements without a transaction | checks still hold when the write happens |
| Export and import (`project/transfer.go`) | none | export; import under a free name | store | an import that fails half way | the whole or nothing |
| Services (`service/*.go`) | none; external servers | health, clean, apply, backup, provision, query | docker, Postgres, MinIO, Redis, LocalStack, Jenkins | order of statements in a dump, partial failure, shared containers | a restore gives what was backed up |
| Docker and provisioning (`docker.go`, `*_provision.go`) | containers by name | ensure container, wait until ready | forks | containers shared by forks, deadlines | idempotent, bounded waiting |
| Browsers and consoles (`server/browse.go`, `console.go`, `keyspace.go`, `cloud.go`, `jenkins.go`) | none | list, get, delete, query | external servers | partial deletes, timeouts | every key once |
| UI: dialogs that follow a session (`features/backups/hooks`) | refs and state of a hook | attach, start, poll, detach | the sessions' API | answers that arrive late, timers | the log once, in order, to its end |
| UI: loading (`hooks/useAsync.ts`) | a status and data per component | load, abort, answer | every page | answers out of order | data of what is selected |
| UI: a service's page (`features/services/detail`) | the selection, a listing, panels, a log, per kind of service | browse, upload, delete; scan keys, run commands; choose a region, queues, identities; jobs, builds and their logs | the service's API, localStorage | what is selected changes while answers are on their way; polls unmount what is open | what is shown fits what is selected; requests are for what was shown |
| UI: SQL console (`detail/console`) | tabs per connection, a run, its result, staged changes | open, close, run, abort, page, edit a row | the console's API, localStorage | aborted runs go on; windows share the storage; where a statement ends | results after edits, own tabs, the statement at the cursor |
| UI: lists with changes (`features/backups`, `templates`, `profiles`, dialogs of a service) | a list, a form or a dialog | load, change, delete, announce | the handlers above | reloads unmount what asked for them; two loads of one list | what a change made is shown once it is answered |
| Command line, scripts, layout | none | start, render | everything | nothing | - |

The SQLite handles have one open connection, so a statement, or a transaction,
is atomic, and nothing larger is: a handler is a sequence of atomic statements.
`backupManager.mu` makes the check and the insert of a start one step.

## 2. Modules

| Module | Models |
|---|---|
| `Snapshots` | the folders: their content, creation, completion, listing, latest, removal |
| `SessionLifecycle` | the abstract life of a session that API clients see |
| `BackupSessions` | the sessions: handlers, goroutines, store, restarts, on top of `Snapshots`; implements `SessionLifecycle` |
| `WorkspaceStore` | the tables of the central store, one operator per statement |
| `Workspaces` | the handlers over it, one action per statement of a handler |
| `WorkspaceTransfer` | export and import of workspaces, over the same tables |
| `SessionPolling` | a UI dialog that follows a session, the poll handler, and the log, on top of `SessionLifecycle` |
| `ForkProvisioning` | the docker commands, probes and waits of forks that share containers |
| `ObjectStore` | the calls of the S3 API that backups, applies and browser requests make |
| `PostgresDump` | the queries of a dump, its script, and the replay of a script |
| `Services` | the two together: a session works on a bucket store or on a database |
| `AsyncLoad` | what `useAsync` keeps of a load: key, status, data, and the aborted request whose answer is due |
| `UploadPool` | the workers that upload a batch of files from a shared cursor |
| `BucketBrowser`, `RedisPage`, `RegionHeader`, `CloudLists`, `JenkinsPage` | the pages of the services, on top of `AsyncLoad` |
| `ConsoleTabs`, `SqlConsole`, `SqlEditor` | the SQL console: its tabs, one tab's runs and edits, its document |
| `ServiceDialogs`, `BackupsList`, `TemplatesScreen`, `ProfilesNav` | the dialogs of a service, the page of sessions, the templates, the profiles and the sidebar |
| `Ui` | the screens: parts that are mounted and left at any moment |
| `MC*` | instances for TLC |
| `*Proofs` | theorems |

### BackupSessions

A session is a row (`rows`), the memory of its goroutine (`live`) and its place
in `pc`; `del` holds the deletions in flight. `StartBackup`, `StartApply` and
`StartFork` are the handlers, each with the check and the insert under the mutex.
`Work` is one step of the run (`BackupOpen`, `BackupDone`, `ProvisionDone`,
`ApplyOpen`, `ApplyDone`, `RunFails`), at the points where folders or external
state change. Then the goroutine unregisters, cleans up and finishes, in the
order of the code. `Restart` loses all goroutines, deletions and cancel functions;
`OpenStore` reconciles. `DeleteGet`, `DeleteRow`, `DeleteLogs` and `DeleteFolder`
are the statements of a deletion. `StoreMayFail` adds lost writes: the code drops
the errors of `Finish` and of log lines.

### WorkspaceStore and Workspaces

An operator of `WorkspaceStore` is a statement with the constraints that make it
fail. A request in `Workspaces` goes through `at`: it reads the active workspace,
opens the project, finds a profile, reads its services, finds the profile again
and replaces. `Abandon` is everything that ends a request early. A read that only
repeats what a later constraint checks is left out. Ids are given out by a
counter, as AUTOINCREMENT does.

### WorkspaceTransfer

Exports and imports over the tables of `WorkspaceStore`. An export (`ex`) opens the
workspace, lists the names of its profiles and then, name by name, finds the row and
reads its services; the result is a `file`. An import (`im`) looks up a free name,
inserts the workspace, creates its profiles one by one, sets the active profile, and
the handler makes the workspace the active one. Each of these is an action, and
`ExportFails` and `ImportFails` can end a request between any two. `OthersEdit` and
`OthersName` stand for the other handlers: any statement on any workspace at any time.
Two history fields say what the properties may rely on: `file.of` is the workspace
that the file is an export of, until somebody writes to that workspace, and
`alone` says that nobody else wrote to the workspace that an import creates. Files
that users write (`UserFiles`) may name a profile twice, be empty, or name an active
profile that they do not have.

### SessionPolling

One hook instance, either of the viewer kind (`attach`, `detach`) or of the starter kind
(`start`, `reset`), with its refs (`ui`, `timers`) and up to two requests on their way. `late`
is a history variable: it is true while what is left of an earlier opening can
still reach the dialog. The properties of polling hold when it is false (section 3
says what happens otherwise). The server side is `SessionLifecycle`, so what is checked here holds over `BackupSessions`.

### ForkProvisioning

A container is found by its name, `easy-infra-local-<type>`, so the forks of all
workspaces and instances meet in it. `box` is what docker has under each name: its state,
the host ports it publishes, the credentials it was created with, whether it accepts
connections, and whose data it holds. A fork (`job`) is one step per docker command
(`Inspect`, `Remove`, `Run`, `Start`), per probe (`Probe`), per wake of the wait's select
(`Tick`, `Deadline`) and for the restore. The user and other programs stop and remove
containers and take and free ports in between. `alone` and `broken` are history: nothing
else has changed the container since the fork was requested, and docker or the restore
has failed of itself. `BackupSessions` has the session around this, where provisioning is
one step.

### ObjectStore

Each call of the S3 API is a step, and fails or is cut off at any point. A backup lists
the buckets, then bucket by bucket the objects, downloads each to a file and writes the
manifest at the end. An apply reads the manifest, asks for each bucket and makes it if it
was not there, then uploads. A delete or archive walks the folders of the selection level by
level and only then deletes or reads object by object. `HandleUpload` and `OthersChange`
are the writers beside them. A key is the sequence of its segments; "" at its end is the
marker that other clients write for an empty folder (`Path` says which file it becomes,
`Itself` how it shows in a listing). `calm` and `since` are history: who has not
been disturbed by another writer, and what was put into its bucket since a request came.
A listing is one step, although the code pages through it: a page boundary is not
modelled. A failed backup loses its folder in the same step, since the cleanup of a
session is the subject of `BackupSessions`. `Clean` has no caller and is left out.

### PostgresDump and Services

Each query of a dump is a step over the database as it is by then (`origin`), and adds its
statements to the file (`script`). `dump.step` is the pass: DDL, data, keys, other
constraints, indexes, last values; within a pass the tables come by name (`IsNext`).
`DumpFails` is an error, after which the session removes the folder; `DumpIsCut` is a process
that stops, which leaves the file between two statements or among the rows of a table. An
apply looks for the database and creates it, then replays the script, one statement per step, in a
transaction (`apply.txn`); `Accepts` and `Result` are what Postgres does with a statement,
and `Outlives` what of it no rollback undoes. `ReadFails` is an error of the file: `replay` takes
it for the end of the script and commits what there is, `replayCopy` reports it (`apply.cut` keeps
that it happened, for the properties). `asDumped` is history: the database since the dump
began, as long as nobody has written to it. Several schemas, and statements that a line
splits, are not modelled.

`Services` has either an object store or a database: a session works on one, and the two
share nothing.

### The screens: AsyncLoad, UploadPool and Ui

A load is a record. Its `key` is what the effect of `useAsync` depends on: the bucket and
folder, the database and pattern, the view and region. `Reloaded` aborts the request on
its way, whose answer (`late`) may still come; `LateAnswer` drops it, as the check of
`signal.aborted` does. Data carries the key it was read for (`of`), which the properties
compare with what is on the screen. React renders between any two events, so an action is
an event (a click, an answer, a timer, a message of another component) with everything
that the components do about it, effects included, before the next.

`Ui` composes the parts. `Mount` gives a part the state its components begin with and
whatever the server or the storage has by then; `Unmount` loses it, at any moment. Of parts
that are on one screen one is mounted at a time: none of the properties relates two of them.
What one part does to another goes through the server, and so does what a screen that was
left has still under way, which is not aborted and takes effect later. In the part that is
mounted both are steps of others: `OthersSave`, `OthersRemove`, `OthersChange`, `OthersOwn` and
`ChangedElsewhere` change what the server has at any moment, and nothing tells the part (a
save from the sidebar reaches the page of the same service so, see section 3). Uploads go on
after the screen is left (`UploadsGoOn`), and so do a console's requests.

Where a module needs the other side, it has only as much as its properties speak of: which
queues there are, which settings are saved, which rows a table has, what a build wrote.
There a request takes effect at one step and is answered at a later one, so that reads
and changes meet in every order. `unsure` is history: a change whose answer was lost, that
the page asked for and did not wait to see, or that somebody else made of what it has
loaded, may not show.

* `BucketBrowser`: buckets, folders, the listing, the selection (`checked`, whose meaning is
  its intersection with the listing), the panel of one object (`detail`), dialogs and
  uploads. `shown` is what the open dialog was opened on. Every success reloads the listing
  (`Reload`) and what no longer exists closes (`Rendered`).
* `RedisPage`: the two tabs share the database. `Scanned` and `Opened` are the effects of
  a change: another scan, another value. The console's log holds the newest command first.
* `RegionHeader` and `CloudLists`: the region's dropdown with its highlight and the poll of
  the health; the lists with creations, purges and deletions (`calls`), each of which reloads
  the list when it succeeds, if the view that asked is still there.
* `JenkinsPage`: the poll of the jobs unmounts everything below while it shows a skeleton
  (`Restart`) or an error (`TableGone`, `RowsShown`). A log is polled from an offset: `Read`
  is the request, `Appended` what the dialog does with its answer. An answer holds `MaxAnswer`
  chunks at most, as the server cuts the body, but its offset is the end of all that was
  written (`LogRead`).
* `ConsoleTabs`: what two windows keep and what both store. A switch of the connection and
  the effect that stores the tabs are one step, since React runs both before the next event.
* `SqlConsole`: a run that is aborted goes on at the server. An edit is staged, shown, sent
  and then followed by another run of the statement. `seen` and `acknowledged` count edits.
* `SqlEditor`: a document is a sequence of tokens (quotes, backslashes, dollar tags, comment
  marks, semicolons, words). `SplitStatements` scans it as the code does. `Lexed` is the
  reference: a recursive function that follows the lexical rules of Postgres, in which comments
  nest and a dollar sign behind a word is a part of it, unlike in the code. `Plain` are the
  texts in which that, and backslashes, make no difference.
* `ServiceDialogs`, `BackupsList`, `TemplatesScreen`, `ProfilesNav`: a list or a form with
  the changes made from it. `ProfilesNav` has the sidebar and the screen of profiles, which
  load the same list separately, and the event by which changes are announced.

## 3. Runs

All runs use 2 workers and end within 4 minutes.

| Run | Question | Bounds |
|---|---|---|
| `sessions` | Do starts, cancels, restarts and deletions keep one run per key, an honest and final status, and folders that agree with the rows? | two sessions, two deletions, one workspace and profile, two services (redis has no backups), two stamps, all kinds, any number of restarts, no lost writes |
| `sessions_faults` | With lost writes and a service without backups, is the life that clients see still that of `SessionLifecycle`, and does a session that ended, was cancelled or was interrupted stop running? | two sessions, one deletion, two services, one stamp, backups and applies, lost writes, with fairness |
| `workspaces` | Do workspaces that come and go under requests in flight leave orphans, a dangling pointer or stale ids, and can requests that edit profiles and services duplicate a name or empty a profile? | two requests, two profile ids; of one workspace with two instances of a service, every request on profiles and services; of two workspaces, the requests that make or remove what they own (`Explored`) |
| `transfer` | Is what an import makes active complete, and the import of an export the exported workspace, while others write? | two workspace ids, four profile ids, two profile names, one service, one import at a time, one download, two statements of others |
| `polling` | Does a dialog show its session's log once, in order and completely, learn the end, and stop? | two sessions, two lines each, two requests in flight |
| `provisioning` | Does a fork that succeeds have what it promises, do failed forks stand in no retry's way, and does every fork end? | two forks of one container with different credentials, ports 1 to 3 (the console's is 3), two requests of each fork |
| `services` | Are snapshots of a store faithful and restores complete, and do deletes and archives take their selection, while others write? Does the dump of a database reload, and does a restore leave all or nothing, wherever it, its file or the dump is cut? | two buckets of which one is configured, three keys (a plain one, a nested one, a folder's marker), two contents, two objects at the start, one foreign write, selections of two, a walk of three pending folders; two jobs, or one request beside the writers; two tables with every choice of keys, indexes and foreign keys, two rows, a target that is missing, empty, or has a sequence or tables |
| `ui` | Does a screen show what is selected and what was changed, and ask for what it showed, with answers in any order and screens left at any moment? | two buckets, three entries of which one is a folder; three files, two workers; two databases and patterns, one key, a log of two, two commands; two regions, three search texts; one queue, two changes under way; two profiles with three snapshots; three sessions in pages of two; two connections, two windows, three tabs; two requests of a console at once and four in all, one row; documents of four tokens; two jobs, one build of three chunks of which two fit in an answer, one trigger; two templates; two profiles, one service, one edit; others change anything at any time |
| `found_*` | The findings below: TLC shows a behaviour of the code that a comment denies | the smallest that shows it |

Two sessions are enough for the properties about pairs (one run per key, a
deletion that hits another session's folder); two stamps let folders collide and
differ; every property has a mutant that TLC finds within these bounds, which
shows that the bounds reach the interesting cases. Two requests are enough for a
check and a write to be separated by any other request; a third adds no kind of
interference, since requests only meet in the tables. Two lines let an answer
carry none, some or all of what is left. Two workspaces are what a round trip needs, each with up
to two profiles; two foreign statements can remove a workspace or profile under an export and
take the name an import has found free. Two forks of one container are enough for
one to find what the other left; two requests each make a retry, and the clash of a port
with the console needs three ports. In `services` the two jobs are a backup and the apply of
it, or two that meet; a request runs beside `OthersChange`, which does whatever a second
request or a job does to it (`Together`). Three keys are a level, a level below it and the
marker of that folder, the case in which a folder lists itself; without `MaxPending` a
walk of such a folder would not end. Two tables refer to each other
in both directions and to themselves, and two rows are one that refers to the other, or two of
a table of which a file that is cut may have one. In `ui` two of whatever can be selected are what a stale answer
needs to be seen; three files for two workers leave one to take from the cursor; a third
session makes a second page; four tokens open, hold and close a literal or a comment and
follow it; two
changes under way let one be answered between the other and its reload; a log longer than an
answer has chunks that are cut off. One edit of a profile is what the run has room for, beside
those that others make: the hazard of several at once is covered by the proof alone. The theorems
of `ServicesProofs` and `UiProofs` have no such bounds.

`CHECK_DEADLOCK FALSE`: the bounds on ids end every behaviour, and a server that
nobody uses rests.

### Fairness

`sessions_faults` assumes that a goroutine takes its next step (Go schedules it and the
service's call returns: its context is cancelled or the command ends), that the
process is started again and opens the store. It assumes nothing about users, nor that
writes arrive: `Settles` speaks of sessions whose end was written.
`polling` assumes that each request is answered or fails and that the browser delivers the
answer, and that timers fire.
`provisioning` assumes that docker commands and probes return (WF) and that a wait whose
deadline has passed comes to see it (SF): the deadline's channel stays ready while the
ticker's comes and goes, and select picks among ready channels at random. Restarts, failures, lost writes and what users do are never fair.

### Findings

| Run | What the code says | What it does |
|---|---|---|
| `found_delete_apply` | deleting removes the snapshot the session produced | deleting an apply removes the snapshot it read |
| `found_instance` | a fork restores the chosen snapshot | a second instance of a type restores nothing and succeeds |
| `found_reload` | a dump reloads cleanly into an empty schema | a unique index that a foreign key relies on, and that is no constraint's, is never dumped; the restore is refused |
| `found_archive` | an archive that lacks objects is truncated, and the client can tell | the deferred `Close` completes the zip, which looks whole |

The models show more that no comment denies outright, or that needs no run to see: the
properties except it, in the words quoted here. On the server:

* a restore whose file cannot be read on commits what it has read so far and reports success:
  `replay` takes any error of the reader for the end (`postgres_restore.go:36`, `:63`), against
  "a failure leaves the database untouched" (`:12`). `AllOrNothing` says of such a restore
  (`apply.cut`) only that it leaves what a beginning of the script makes;
* of a build's log the server reads 1 MiB at a time (`jenkins_conn.go:86`), but the next offset
  it hands out is the end of the whole log (`X-Text-Size`, `jenkins.go:256`): what one answer
  could not hold is in none, without a notice. `BuildLogIsWhole` says that the log lacks nothing
  else (`CutOff`);
* a process that stops during a backup leaves a folder that is offered for restore; a script
  that ends between two statements, or within one that holds no rows, is replayed as far as it
  goes and committed as a success (`DumpIsCut`);
* a dump is no transaction: while others write, a row may be dumped without the row it refers
  to, which a restore refuses, and a sequence without ids that were given out since
  (`postgres_dump.go:42` reads the values first), so a restored database gives them again;
* a restore that fails after it has set the value of a sequence that was there leaves it set,
  against "a failure leaves the database untouched" (`postgres_restore.go:13`): Postgres never
  rolls `setval` back (`Outlives`); a connection lost in COMMIT is reported as a failure and
  may have committed all (`LoseConnection`);
* a statement of a dump ends, for `replay`, with a line that ends in a semicolon, also inside
  a literal of several lines, such as a column's default (`postgres_restore.go:54`); a generated
  column is dumped with its expression as a default (`postgres_dump.go:211`);
* `RemoveProfile` compares with the profile that was active when the request began;
* a late answer of the session that a dialog watched before is shown in the next one
  (`late` in `SessionPolling`);
* a container is taken as it is when its ports fit, also with other credentials than the
  fork's: probes then fail until the deadline;
* a folder's marker makes every backup of its bucket fail once the folder has an object
  (`Blocked`), and a walk of that folder go on until its request times out.

On the screens (paths below `src/ui/src/features`), each of which the modules have as the
code does it, with properties that say what holds all the same:

* Templates: the editor keeps the text of the template that was open before until the load
  of the next answers, and for good if it fails; saved then, it is the other's text
  (`TemplateEditor.tsx:47`, `:73`). `UpdatesItsOwnText` holds from the answer on.
* Adding a service from the sidebar announces the change, which reloads the list and
  unmounts the item together with the settings it has just opened
  (`ProfileNavItem.tsx:154`, against the comment at `:146`).
* A change that takes effect after its screen was left and mounted again reloads only the
  screen that is gone; the new one goes on showing the list from before it
  (`BackupsManager.tsx:41`, `TemplatesPage.tsx:44`, `ServiceSettingsDialog.tsx:55`). So
  `ChangesAreShown` is about a screen's own changes.
* An edit of a service in the sidebar is announced "so this submenu (and any other view of this
  profile) reloads" (`ProfileNavItem.tsx:124`); the page of that service does not listen
  (`useServices.ts:23`), shows the settings from before, and its next save writes those of them
  that were not edited back (`OthersSave`). The lists of profiles do listen (`useProfiles.ts:39`).
* Jenkins: a poll that fails unmounts the table with its pending triggers, so a build can be
  triggered twice; the success of a trigger unmounts a log that was opened meanwhile
  (`JenkinsOverview.tsx:152`).
* Redis: "Load more" is disabled by the status that more keys remain, so a second page is
  never loaded (`RedisKeyBrowser.tsx:117`, `:354`); a key of a scan's reply opens in the
  database that is shown by then.
* The dialog that deletes several objects deletes what is checked and listed when it is
  confirmed, which may be fewer than it counts; its answer clears a selection made meanwhile
  (`BucketContents.tsx:126`).
* A reload of a LocalStack list unmounts the rows that show that they are busy; an identity's
  mail of an unreachable emulator offers no retry (`SesDetail.tsx:388`, against `:360`).
* Sessions: two deletions from a last page can leave an empty one (`BackupsManager.tsx:51`).
* Settings that are saved late reload the service's page and unmount a dialog that was
  opened since; the ports that a fork's source suggests overwrite what was typed
  (`ForkDialog.tsx:82`).
* Two windows on one connection overwrite each other's tabs (`useConsoleTabs.ts:89`).
* The console's key runs a statement while another runs; its abort does not stop that one on
  the server (`PostgresConsole.tsx:107`). A change that is answered after its tab was closed
  runs the statement again.
* A template chosen from the completion is inserted at the offsets of the moment its load
  began (`templateCompletion.ts:55`); a comment mark inside a block comment misleads
  `hasSql` (`statement.ts:142`).
* The scan that splits statements does so "matching how postgres itself parses the text"
  (`statement.ts:9`), but not where comments nest (`:73`, whose comment sets that aside: the
  first end ends all, and a semicolon behind it separates), where a dollar sign follows a letter
  (`a$$` opens a block, `:117`), where a backslash escapes a quote (`E'\''`, `:82`) and where a tag has letters
  beyond ASCII (`:22`). `SendsOneStatement` is about texts without the first three (`Plain`), and
  the tokens have no tag of the last kind.

## 4. Proofs

Proved for all values of the constants that satisfy the ASSUMEs:

* `BackupSessionsProofs`: `TypeCorrect`, `Invariant`, `RunningIsUnique`, `LiveRowsRun`,
  `RunningRowsLive`. The properties are not inductive: that no two rows of one key
  run says nothing about a goroutine whose row is being finished, or a deletion
  that read a row which changed since. The invariant ties a live goroutine to a
  running row, a deletion in flight to a row that has ended (ended rows stay as
  they are), and with no lost writes a running row to a live goroutine.
  Also `OutcomesAreFinal` and `Refinement`, that every step of `BackupSessions` is a step
  of `SessionLifecycle` or a stutter, under the mapping of the property
  `ImplementsLifecycle`. It uses the invariant: without it a `Finish` could hit a row that
  has ended.
  Of the folders: `FolderInvariant`, `FailuresCleanUp`, `SuccessesAreWhole`,
  `DeletionsAreComplete`, `ForksRestoreTheirs`. These properties speak of sessions that
  have ended and folders that one session owns. The invariant follows such a folder from
  the run that writes it to the DELETE that removes it (`FolderOf`), says what the
  result of a run, its row and a DELETE in flight know of each other (`Sense`: with no lost
  writes a row has the outcome of its run, and a DELETE names the folder that row named),
  and rests on plans that never change, so that a folder once shared stays shared
  (`SoleStays`) and runs and deletions of other sessions stay out of it (`RunsKeepOut`,
  `DeletionsKeepOut`).
* `WorkspaceStoreProofs`: lemmas that every statement of `WorkspaceStore` preserves `StoreInv`
  (types, the active pointer, no orphans, unique profile names, ids below the
  counters), whoever issues it and whatever was read before. The next two build on it.
* `WorkspacesProofs`: `TypeCorrect`, `StoreInvariant`, `ActiveExists`,
  `NothingIsOrphaned`, `NamesAreUnique`, `ServicesStay`, `IdsAreFresh`. To `StoreInv` the
  invariant adds what requests hold. It needs that ids only grow: a request
  may hold the id of a row that is gone, but never one that is yet to be given
  out. `ServicesStay` needs that services to be written are never empty.
* `WorkspaceTransferProofs`: `TransferInvariant`, `TransferTypeCorrect`, `ImportsAreComplete`,
  `RoundTripHolds`, `WorkspaceNamesAreUnique`. `RoundTrip` speaks of the end of an
  import only; the invariant says what holds on the way: that an export in flight has
  collected a part of its workspace and what it lacks has a name it still has to read
  (which needs that a profile name is one row), that a file equals its workspace
  as long as nobody wrote to it, and that what an import has created and what is left
  make up its file. Each is about one workspace and each statement writes to one, so
  a frame lemma per statement (`KeptOthers`) carries all the others over the step; that
  two imports create different workspaces follows from the counter.

* `ForkProvisioningProofs`: `ProvisioningInvariant`, `ProvisioningTypeCorrect`,
  `SucceededForksAreThere`, `RetriesDoGoThrough`. The properties speak of forks that
  succeeded, or are refused, while nobody else touched their container; the invariant
  `LoneAt` says what such a fork knows at each step between: what it is to create is
  absent, what it waits for runs on its ports, and what it restores into answers to its
  credentials.
* `ServicesProofs`, of an object store and a database side by side (`ServicesAreBoth`: what
  `Services` does to each is what its own specification allows). Of the object store:
  `ObjectInvariant`, `ObjectTypeCorrect`, `ManifestsAreBacked`,
  `BackupsAreFaithful`, `RestoresBringBack`, `DeletesAreComplete`, `ArchivesAreWhole`,
  `OnlySelectedAreGone`, for any buckets, keys of any depth and numbers of
  sessions and requests. The properties speak of the end; the invariant says that what a
  backup has collected is on disk (`Collected`) and with what is left makes up the store
  (`Mirrors`), that an apply has still to ask for or make every bucket that is missing
  (`Restored`), and that a key of the selection that stays is collected or below a folder
  still to be listed (`Walks`). That last one needs that a listing shows each key below a
  folder as an object, below a folder of the next level, or as the folder's own marker
  (`ListingMissesNothing`), and faithfulness that no two keys share a file
  (`PathsDiffer`, from the assumption that no object is a folder of another).
  `StoreStep` says what a step of one does to all others, so that each is looked at alone.
  Of the database: `PgInvariant`, `RestoreIsAllOrNothing`, `QuietDumpsReload`, for any sets
  of objects, rows and data and any failures. Both properties speak of a whole script,
  which is replayed one statement at a time in one transaction. The invariant says of a
  dump, as long as nobody changes the database meanwhile, that the script has all
  statements that were due in the turns that are over (`IsSoFar`), and before each of them
  what it needs (`IsScriptOf`). Of an apply it says that the transaction is the fold
  of the statements replayed (`After`) and that, for a quiet dump, it holds just what they say
  (`HasMade`), so that what is committed is the whole script, or as much of it as could be read, and what is rolled back is
  what was there before. `NextIsAccepted` then shows that a script of a quiet dump meets no
  error, and `WholeScriptMakesIt` that its end is the database dumped. A fold is
  reasoned about by the least prefix for which a claim would fail.

* `UiProofs`: `UploadsAreSound`, `ScreensAreCurrent`, `ScreensShowChanges`,
  `RequestsAreForTheShown`, `ConsolesTabsAreOwn`, `RunsSendOneStatement`. For the pool the invariant is the
  property with its types: what is done, has failed and is on its way are the files up to
  the cursor. For the screens it says of each load that it was made for what is selected
  now and has data of that alone (`LoadAt`), also for a list that the emulator has read
  and not yet sent; of the console's log, that at most the newest entry runs, for the one
  call there is (`CallsMatch`, which needs that a command that awaits confirmation has no
  call beside it); and of a build's log, that the request on its way asks for what
  follows the text's offset, that its answer is as much of that as fits (`LogGrows`: what is then
  missing was cut off), and that an answer that says there is no more was given after the build's
  end (`LogIsWhole`). `UiSteps` reduces a step of the UI to
  one of a part, so that each part is looked at alone.
  For the changes a user makes (`ChangesInv`) the invariant says of each list, setting and
  text that while no change is done and its answer still to come, and nobody else has changed
  what was loaded (`unsure`), what is shown is what the
  server has, and so is every answer that was read and has not arrived. For the requests
  (`RequestsInv`) it says that what a dialog offers, a selection holds or a console would
  run was taken from what is shown. For the tabs (`TabsInv`) it says that every state of
  tabs, on a page or in the browser's storage, has tabs of one connection with ids that
  were given out, so that a new id is its tab's own.
  For the editor the work is in the text, not in the steps: `ClosingIs`, `SeparatorsAre` and
  `LexedIs` show that the three recursive functions (of the scan, and of the lexical rules)
  exist and satisfy their equations; `FlatIs`, that in a plain text at most one thing is open, so
  that its name says all; `ScanStep`, that wherever a scan goes on the rules are in
  code, and that no separator lies in what it skips, for each kind of token and for one
  that is left open (`QuotesEnd` for quotes that double); `SeparatorsAreEnds`, that the
  two therefore agree on every plain text; `OneIsSent`, that what is taken is all between two
  neighbours of them and begins at or before the cursor. All are by a least (or a
  greatest) counterexample.

* `SessionPollingProofs`: `PollInvariant`, `PollTypeCorrect`, `PrefixShown`,
  `EndedLogShown`, `PollsOnce`, for any number of sessions, lines and requests in flight.
  The properties speak of what is shown; the invariant says what is under way while
  `late` is false: one request or one timer, the one that the ref holds (`OneAtATime`), a
  request that asks for what follows the lines shown, and an answer that, when it says
  the session is over, has all lines that are left (`Fits`). That needs that the row is
  read before the lines, and that a session which has ended writes no more (`LifeGoesOn`).
  `OpensFresh` says why an opening without earlier answers starts from nothing: closing
  clears the one timer there is.

The assumptions are about the constants only: names and ids are of different
kinds, bounds are numbers, sets that must have a member have one, a template's body is a text of
tokens (`EditorAssumption`), what stands for an absent database is not one
(`MissingAssumption`), what stands for no cell is not one (`ConsoleAssumption`).

In two places what recursive definitions compute is proved for every input, without the
library's induction theorems, which take an operator: `LeastOf` and `LeastIsIn` state that
the naturals are well-founded for a set, `NoneWithoutAnEarlier` and `NoneWithoutALater` that
a set of indices whose every member has a smaller (a larger) one is empty; the set is that
of the counterexamples.

Every invariant that a run checks is proved. Only model-checked is what is out of the
prover's reach, the liveness under fairness (and the ENABLED it speaks of):
`Settles`, `LearnsTheEnd`, `ComesToRest` and `EveryForkEnds`.
The type invariants of `BackupSessions`, `SessionPolling`, `Workspaces`,
`WorkspaceTransfer`, `ForkProvisioning`, `ObjectStore` and `PostgresDump` are proved and not
in a run.

## 5. Abstractions

* To sessions a snapshot is none, partial or complete (`ObjectStore` has the files of
  MinIO's, `PostgresDump` the script of a database's). Services do what they are asked or fail.
* A table of `PostgresDump` is its name, rows, keys and one index; columns, types and the text
  of statements are left out, and so are check constraints, which refer to nothing else.
* Statuses, kinds and names are symbols. A service instance is its type and its
  suffix; its config is not modelled, so a lost update of a config is not seen.
* The clock is a stamp that may stand still or advance.
* Several processes on one database are not modelled: opening the store in a second
  process marks the first one's sessions as failed.
* On the screens, what a user may click is what the dialogs and disabled buttons leave; texts,
  sizes, sorting, focus and layout are left out unless a property is about them. A document
  is made of whole tokens, and a cell of a table is a value that is compared.
* Others' steps on a screen (`OthersSave` and the like) change what the server has to anything it
  can be, which covers the other parts of the page, other windows, and requests of a screen
  that was left.
* A load keeps one aborted request: answers of others are dropped the same way.

Not modelled: the services' registry and fields, which do not change after the start; the
query console's, Redis', LocalStack's and Jenkins' handlers, which pass one request on and keep
nothing (what the read of a Jenkins log cuts off and the offset it hands out are in
`JenkinsPage`); the rendering of templates, a pure substitution; `Clean` of a service, which nothing
calls; the workspace switcher, which reloads the window; forms of a config, which keep nothing; the
command line. `PROJECT.json` says so of each.

## 6. Plan

Done: sessions with their refinement, workspaces and profiles, export and import, polling,
provisioning, backups of object stores and of databases, the object browser, the screens of
the UI.

1. An object store and a provisioned container behind the sessions: `Work` of
   `BackupSessions` refined to the steps of `ObjectStore`, `PostgresDump` and
   `ForkProvisioning`.
