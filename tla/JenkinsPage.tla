----------------------------- MODULE JenkinsPage ------------------------------
(***************************************************************************)
(* The page of a Jenkins service: the poll of its jobs, the builds of the  *)
(* job that is open, and the log of one of them, streamed by polls that    *)
(* each ask for what was written after the last.                           *)
(*                                                                         *)
(* Jenkins is modelled as far as logs go: builds write chunks and end.     *)
(***************************************************************************)
EXTENDS AsyncLoad, Naturals, Sequences, FiniteSets

CONSTANTS
  BuildsOf,      \* [jobs -> sets of builds]
  MaxAnswer,     \* chunks that fit in one answer (jenkins_conn.go:86)
  MaxChunks,     \* bound: chunks of a log
  MaxTriggers    \* bound: triggers under way at once

Jobs == DOMAIN BuildsOf
Builds == UNION {BuildsOf[j] : j \in Jobs}

ASSUME JenkinsAssumption ==
  /\ MaxAnswer \in Nat \ {0} /\ {MaxChunks, MaxTriggers} \subseteq Nat
  /\ \A i, j \in Jobs : i # j => BuildsOf[i] \cap BuildsOf[j] = {}

VARIABLES
  jenkins,       \* the state of the page's components
  written,       \* Jenkins: [Builds -> 0..MaxChunks]
  ended          \* Jenkins: the builds that are over

jenkinsVars == <<jenkins, written, ended>>
jenkinsServer == <<written, ended>>

\* Below the table of jobs, while the page is connected, are the builds of the open job
\* and the dialog of a log; at first no job is open.
NoBuilds == Mounted(Nothing)
FreshJenkins ==
  [poll |-> "call", jobs |-> Mounted("jobs"), open |-> Nothing, triggers |-> {},
   builds |-> NoBuilds, log |-> Nothing, lateRead |-> Nothing]

Connected(w) == HasData(w.jobs)
OpenRow(w) == IF Connected(w) /\ w.open \in w.jobs.data.names THEN w.open ELSE Nothing

\* A request for the log from an offset, and its answer once Jenkins gave it.
Read(build, from) == [build |-> build, from |-> from, answer |-> Nothing]
Reading(w) == IF w.log = Nothing THEN Nothing ELSE w.log.read
Stream(build) ==
  [build |-> build, offset |-> 0, text |-> <<>>, status |-> "loading", live |-> FALSE,
   timer |-> FALSE, read |-> Read(build, 0)]

\* The log's effect is cleaned up: its request is aborted and its timer cleared.
Stopped(w) ==
  [w EXCEPT !.log = Nothing, !.lateRead = IF Reading(w) # Nothing THEN Reading(w) ELSE @]

\* The builds of the row that is open are mounted when it is, with no log.
RowsShown(w) ==
  IF OpenRow(w) = w.builds.key THEN w
  ELSE [Stopped(w) EXCEPT !.builds = Reloaded(@, OpenRow(w))]

\* What the table itself keeps: the jobs whose trigger is pending.
TableGone(w) == [w EXCEPT !.triggers = {[t EXCEPT !.mounted = FALSE] : t \in @}]
Triggering(w) == {t.job : t \in {u \in w.triggers : u.mounted}}
-----------------------------------------------------------------------------
\* The poll of the jobs: one call at a time, then a timer, also while the server is
\* unreachable.

JobsAnswered(names) ==
  /\ jenkins.poll = "call"
  /\ jenkins' = RowsShown([jenkins EXCEPT !.poll = "timer",
                        !.jobs = Succeeded(@, [of |-> "jobs", names |-> names])])
  /\ UNCHANGED jenkinsServer

JobsFail ==
  /\ jenkins.poll = "call"
  /\ jenkins' = RowsShown(TableGone([jenkins EXCEPT !.poll = "timer", !.jobs = Failed(@)]))
  /\ UNCHANGED jenkinsServer

JobsTimer ==
  /\ jenkins.poll = "timer"
  /\ jenkins' = [jenkins EXCEPT !.poll = "call"]
  /\ UNCHANGED jenkinsServer

\* Another round begins with a skeleton: everything below unmounts.
Restart(w) ==
  RowsShown(TableGone([w EXCEPT !.poll = "call",
    !.jobs = [Mounted("jobs") EXCEPT !.late = IF w.poll = "call" THEN "jobs" ELSE w.jobs.late]]))

RetryJobs ==
  /\ jenkins.jobs.status = "error"
  /\ jenkins' = Restart(jenkins)
  /\ UNCHANGED jenkinsServer

JobsLate ==
  /\ jenkins.jobs.late # Nothing
  /\ jenkins' = [jenkins EXCEPT !.jobs = LateAnswer(@, Nothing)]
  /\ UNCHANGED jenkinsServer
-----------------------------------------------------------------------------
\* Jobs.

FreePage(w) == Connected(w) /\ w.log = Nothing

ToggleJob(job) ==
  /\ FreePage(jenkins) /\ job \in jenkins.jobs.data.names
  /\ jenkins' = RowsShown([jenkins EXCEPT !.open = IF @ = job THEN Nothing ELSE job])
  /\ UNCHANGED jenkinsServer

BuildsAnswered(listed) ==
  /\ jenkins.builds.key # Nothing /\ Pending(jenkins.builds)
  /\ listed \subseteq BuildsOf[jenkins.builds.key]
  /\ jenkins' = [jenkins EXCEPT !.builds = Succeeded(@, [of |-> @.key, listed |-> listed])]
  /\ UNCHANGED jenkinsServer

BuildsFail ==
  /\ jenkins.builds.key # Nothing /\ Pending(jenkins.builds)
  /\ jenkins' = [jenkins EXCEPT !.builds = Failed(@)]
  /\ UNCHANGED jenkinsServer

BuildsLate ==
  /\ jenkins.builds.late # Nothing
  /\ jenkins' = [jenkins EXCEPT !.builds = LateAnswer(@, Nothing)]
  /\ UNCHANGED jenkinsServer

\* "Build now", disabled while the job's trigger is pending in this table.
Trigger(job) ==
  /\ FreePage(jenkins) /\ job \in jenkins.jobs.data.names \ Triggering(jenkins)
  /\ Cardinality(jenkins.triggers) < MaxTriggers
  /\ jenkins' = [jenkins EXCEPT !.triggers = @ \cup {[job |-> job, mounted |-> TRUE]}]
  /\ UNCHANGED jenkinsServer

\* Success starts another round, whatever is open by then.
TriggerSucceeds(t) ==
  /\ jenkins' = Restart([jenkins EXCEPT !.triggers = @ \ {t}])
  /\ UNCHANGED jenkinsServer

TriggerFails(t) ==
  /\ jenkins' = [jenkins EXCEPT !.triggers = @ \ {t}]
  /\ UNCHANGED jenkinsServer
-----------------------------------------------------------------------------
\* The log of a build.

OpenBuildLog(build) ==
  /\ FreePage(jenkins) /\ HasData(jenkins.builds) /\ build \in jenkins.builds.data.listed
  /\ jenkins' = [jenkins EXCEPT !.log = Stream(build)]
  /\ UNCHANGED jenkinsServer

CloseBuildLog ==
  /\ jenkins.log # Nothing
  /\ jenkins' = Stopped(jenkins)
  /\ UNCHANGED jenkinsServer

\* Refresh reads from the top.
RefreshLog ==
  /\ jenkins.log # Nothing /\ jenkins.log.status # "loading"
  /\ jenkins' = [Stopped(jenkins) EXCEPT !.log = Stream(jenkins.log.build)]
  /\ UNCHANGED jenkinsServer

\* Jenkins answers with what was written after the offset, and whether more may come.
\* The server reads as much of the body as an answer may hold; the offset that it passes
\* on is the end of all that was written.
AnswerText(build, from, upto) ==
  [i \in (1..(upto - from)) \cap (1..MaxAnswer) |-> <<build, from + i>>]
LogRead ==
  /\ Reading(jenkins) # Nothing
  /\ jenkins.log.read.answer = Nothing
  /\ LET r == jenkins.log.read  upto == written[r.build] IN
     jenkins' = [jenkins EXCEPT !.log.read.answer =
       [text |-> AnswerText(r.build, r.from, upto), offset |-> upto, more |-> r.build \notin ended]]
  /\ UNCHANGED jenkinsServer

\* The text is appended; a timer follows while more may come.
Appended(log, a) ==
  [log EXCEPT !.read = Nothing, !.text = @ \o a.text, !.offset = a.offset,
              !.status = "active", !.live = a.more, !.timer = a.more]
LogAnswered ==
  /\ Reading(jenkins) # Nothing
  /\ jenkins.log.read.answer # Nothing
  /\ jenkins' = [jenkins EXCEPT !.log = Appended(@, @.read.answer)]
  /\ UNCHANGED jenkinsServer

\* An error ends the stream.
LogFails ==
  /\ Reading(jenkins) # Nothing
  /\ jenkins' = [jenkins EXCEPT !.log.read = Nothing, !.log.status = "error", !.log.live = FALSE]
  /\ UNCHANGED jenkinsServer

LogTimer ==
  /\ jenkins.log # Nothing /\ jenkins.log.timer
  /\ jenkins' = [jenkins EXCEPT !.log.timer = FALSE,
                                !.log.read = Read(jenkins.log.build, jenkins.log.offset)]
  /\ UNCHANGED jenkinsServer

\* The answer to an aborted request, which may have been given already, is dropped.
DropLate(w) == [w EXCEPT !.lateRead = Nothing]
LogReadLate ==
  /\ jenkins.lateRead # Nothing
  /\ jenkins' = DropLate(jenkins)
  /\ UNCHANGED jenkinsServer

BuildWrites(b) ==
  /\ b \notin ended /\ written[b] < MaxChunks
  /\ written' = [written EXCEPT ![b] = @ + 1]
  /\ UNCHANGED <<jenkins, ended>>

BuildEnds(b) ==
  /\ b \notin ended
  /\ ended' = ended \cup {b}
  /\ UNCHANGED <<jenkins, written>>

JenkinsInit ==
  /\ jenkins = FreshJenkins
  /\ written = [b \in Builds |-> 0] /\ ended = {}

JenkinsActs ==
  \/ \E names \in SUBSET Jobs : JobsAnswered(names)
  \/ JobsFail \/ JobsTimer \/ RetryJobs \/ JobsLate
  \/ \E j \in Jobs : ToggleJob(j) \/ Trigger(j)
  \/ \E listed \in SUBSET Builds : BuildsAnswered(listed)
  \/ BuildsFail \/ BuildsLate
  \/ \E t \in jenkins.triggers : TriggerSucceeds(t) \/ TriggerFails(t)
  \/ \E b \in Builds : OpenBuildLog(b) \/ BuildWrites(b) \/ BuildEnds(b)
  \/ CloseBuildLog \/ RefreshLog \/ LogRead \/ LogAnswered \/ LogFails \/ LogTimer \/ LogReadLate

JenkinsSpec == JenkinsInit /\ [][JenkinsActs]_jenkinsVars
-----------------------------------------------------------------------------
\* The log on the screen is of the build that is shown, each chunk once and in order,
\* however often the dialog is closed, refreshed or unmounted by the poll while requests
\* are on their way; when it is no longer called live it reaches the build's end.  What is
\* missing from it was cut off an answer: it follows as much as one answer holds, so a log
\* that is read in smaller pieces is whole.
ChunksOf(text) == {text[i][2] : i \in DOMAIN text}
CutOff(text, c) ==
  \E e \in MaxAnswer..(c - 1) : /\ (e - MaxAnswer + 1)..e \subseteq ChunksOf(text)
                               /\ (e + 1)..c \cap ChunksOf(text) = {}
IsLogOf(text, build, upto) ==
  /\ \A i \in DOMAIN text : text[i] \in {build} \X (1..upto)
  /\ \A i, j \in DOMAIN text : i < j => text[i][2] < text[j][2]
  /\ \A c \in (1..upto) \ ChunksOf(text) : CutOff(text, c)
BuildLogIsWhole ==
  jenkins.log # Nothing => LET l == jenkins.log IN
    /\ IsLogOf(l.text, l.build, l.offset)
    /\ l.status = "active" /\ ~l.live => l.build \in ended /\ l.offset = written[l.build]
=============================================================================
