---------------------------- MODULE ServiceDialogs ----------------------------
(***************************************************************************)
(* The page of one service and its action bar: settings; and backup, apply *)
(* and fork, each a dialog that offers what the server lists and then one  *)
(* that starts the run and shows its log (polled as in SessionPolling).    *)
(* Dialogs are modal: one is open at a time.                               *)
(*                                                                         *)
(* The server is modelled as far as the page depends on it: the settings   *)
(* it keeps.  What a start does there is BackupSessions.  The settings are *)
(* changed beside the page too: in the sidebar, in another window, or by a *)
(* save whose page was left.  The page listens to none of that.            *)
(***************************************************************************)
EXTENDS AsyncLoad, Naturals, FiniteSets

CONSTANTS
  Sources, Viewed,   \* profiles, and the one the page is viewed under
  SnapshotsOf,       \* [Sources -> sets of snapshots]: what may be listed for each
  StoreBuckets,      \* buckets that an object store may list
  Settings,          \* configurations of the service
  Ports, BadPort,    \* texts of the port field, one of them invalid
  MaxSaves           \* bound: saves under way at once

ASSUME DialogAssumption ==
  Viewed \in Sources /\ BadPort \in Ports /\ Settings # {} /\ MaxSaves \in Nat \ {0}

VARIABLES
  svc,       \* the state of the page's components
  saved      \* the server's settings of the service

svcVars == <<svc, saved>>

RunKinds == {"backup", "apply", "fork"}

\* The components below the page, as they are mounted: no dialog is open.
NoDialogs ==
  [dialog |-> "none", source |-> Viewed, list |-> Mounted(Nothing),
   picked |-> {}, port |-> Nothing, portLoad |-> "none", draft |-> Nothing, log |-> Nothing]
FreshPage == [page |-> Mounted("page"), read |-> {}]

PageShown(w) == HasData(w.page)
ClosedDialogs(w) == [NoDialogs EXCEPT !.list = Reloaded(w.list, Nothing)]
Under(rec, w) == [f \in DOMAIN w |-> IF f \in DOMAIN rec THEN rec[f] ELSE w[f]]
-----------------------------------------------------------------------------
\* The page: status, catalog and the profile's services in one load.

ReadPage ==
  /\ Pending(svc.page) /\ svc.read = {}
  /\ svc' = [svc EXCEPT !.read = {[of |-> "page", config |-> saved]}]
  /\ UNCHANGED saved

PageAnswered ==
  /\ Pending(svc.page)
  /\ \E data \in svc.read : svc' = [svc EXCEPT !.page = Succeeded(@, data), !.read = {}]
  /\ UNCHANGED saved

PageFails ==
  /\ Pending(svc.page)
  /\ svc' = [svc EXCEPT !.page = Failed(@), !.read = {}]
  /\ UNCHANGED saved

\* A reload shows a skeleton first: everything below the page unmounts, its dialogs
\* too.
ReloadPage(w) ==
  Under(NoDialogs, [w EXCEPT !.page = Reloaded(@, "page"), !.read = {},
                      !.saves = {[s EXCEPT !.mounted = FALSE] : s \in @},
                      !.unsure = @ /\ w.saves # {}])
-----------------------------------------------------------------------------
\* Settings: a draft, saved as a whole.

Saving(w) == \E s \in w.saves : s.mounted

OpenSettings ==
  /\ PageShown(svc) /\ svc.dialog = "none"
  /\ svc' = [svc EXCEPT !.dialog = "settings", !.draft = svc.page.data.config]
  /\ UNCHANGED saved

\* Reset is an edit to what the page has.
EditSettings(c) ==
  /\ svc.dialog = "settings" /\ ~Saving(svc)
  /\ svc' = [svc EXCEPT !.draft = c]
  /\ UNCHANGED saved

Save ==
  /\ svc.dialog = "settings" /\ ~Saving(svc) /\ Cardinality(svc.saves) < MaxSaves
  /\ svc' = [svc EXCEPT !.saves = @ \cup {[config |-> svc.draft, mounted |-> TRUE, done |-> FALSE]}]
  /\ UNCHANGED saved

\* Escape or a click outside closes the dialog also while it saves.
CloseSettings ==
  /\ svc.dialog = "settings"
  /\ svc' = [svc EXCEPT !.dialog = "none", !.draft = Nothing,
                        !.saves = {[s EXCEPT !.mounted = FALSE] : s \in @}]
  /\ UNCHANGED saved

SaveArrives(s) ==
  /\ ~s.done
  /\ svc' = [svc EXCEPT !.saves = (@ \ {s}) \cup {[s EXCEPT !.done = TRUE]}]
  /\ saved' = s.config

\* Success reloads the page, under whatever dialog is open by then.
SaveSucceeds(s) ==
  /\ s.done
  /\ svc' = ReloadPage([svc EXCEPT !.saves = @ \ {s}])
  /\ UNCHANGED saved

SaveFails(s) ==
  /\ svc' = [svc EXCEPT !.saves = @ \ {s}, !.unsure = @ \/ s.done]
  /\ UNCHANGED saved

\* Someone else's save: what the page has or awaits is from before it, and its next
\* draft begins with that.
OthersSave(c) ==
  /\ saved' = c
  /\ svc' = [svc EXCEPT !.unsure = @ \/ PageShown(svc) \/ svc.read # {}]
-----------------------------------------------------------------------------
\* The dialogs that choose: what the server lists is loaded when one is opened.

\* A backup lists buckets, none for a service without them, and a default choice;
\* the other two list the snapshots of a profile.
ListKey(w) == <<w.dialog, w.source>>
Offers(key) ==
  IF key[1] = "backup"
  THEN UNION {[of : {key}, offered : {bs}, chosen : SUBSET bs] : bs \in SUBSET StoreBuckets}
  ELSE [of : {key}, offered : SUBSET SnapshotsOf[key[2]], chosen : {{}}]

OpenChoice(kind) ==
  /\ PageShown(svc) /\ svc.dialog = "none"
  /\ svc' = [svc EXCEPT !.dialog = kind, !.source = Viewed,
       !.list = Reloaded(@, <<kind, Viewed>>), !.picked = {}, !.port = Nothing,
       !.portLoad = IF kind = "fork" THEN "loading" ELSE "none"]
  /\ UNCHANGED saved

\* Of the snapshots to apply, one stays chosen while it is listed, else the newest;
\* a fork starts with none, which asks for a fresh backup.
Offered(data) ==
  /\ svc.dialog \in RunKinds /\ Pending(svc.list) /\ data \in Offers(svc.list.key)
  /\ \E pick \in IF svc.dialog = "backup" THEN {data.chosen}
                 ELSE IF svc.dialog = "fork" \/ data.offered = {} THEN {{}}
                 ELSE {{s} : s \in data.offered} :
       svc' = [svc EXCEPT !.list = Succeeded(@, data),
                          !.picked = IF svc.dialog = "fork" THEN @ ELSE pick]
  /\ UNCHANGED saved

OffersFail ==
  /\ svc.dialog \in RunKinds /\ Pending(svc.list)
  /\ svc' = [svc EXCEPT !.list = Failed(@)]
  /\ UNCHANGED saved

OffersLate(data) ==
  /\ svc.list.late # Nothing /\ svc.list.late[1] \in RunKinds /\ data \in Offers(svc.list.late)
  /\ svc' = [svc EXCEPT !.list = LateAnswer(@, data)]
  /\ UNCHANGED saved

\* Another profile's snapshots are listed, and none of them is chosen yet.
ChangeSource(p) ==
  /\ svc.dialog = "apply" /\ p # svc.source
  /\ svc' = [svc EXCEPT !.source = p, !.list = Reloaded(@, <<"apply", p>>), !.picked = {}]
  /\ UNCHANGED saved

Pick(s) ==
  /\ svc.dialog \in {"apply", "fork"} /\ HasData(svc.list) /\ s \in svc.list.data.offered
  /\ svc' = [svc EXCEPT !.picked = {s}]
  /\ UNCHANGED saved

ToggleBucket(b) ==
  /\ svc.dialog = "backup" /\ HasData(svc.list) /\ b \in svc.list.data.offered
  /\ svc' = [svc EXCEPT !.picked = IF b \in @ THEN @ \ {b} ELSE @ \cup {b}]
  /\ UNCHANGED saved

\* The port of the source profile fills the field when it arrives, typed in or not.
PortAnswered ==
  /\ svc.dialog = "fork" /\ svc.portLoad = "loading"
  /\ \E t \in {svc.port} \cup (Ports \ {BadPort}) : svc' = [svc EXCEPT !.portLoad = "done", !.port = t]
  /\ UNCHANGED saved

TypePort(t) ==
  /\ svc.dialog = "fork"
  /\ svc' = [svc EXCEPT !.port = t]
  /\ UNCHANGED saved

CancelChoice ==
  /\ svc.dialog \in RunKinds
  /\ svc' = Under(ClosedDialogs(svc), svc)
  /\ UNCHANGED saved

\* With buckets on offer one must be chosen; a snapshot must be chosen to be applied.
CanConfirm(w) ==
  CASE w.dialog = "backup" -> HasData(w.list) /\ (w.list.data.offered # {} => w.picked # {})
    [] w.dialog = "apply" -> w.picked # {}
    [] w.dialog = "fork" -> w.port # BadPort
    [] OTHER -> FALSE

\* The log's dialog opens and asks for the run.  The list that was offered is a record
\* of the model, for the properties.
ConfirmChoice ==
  /\ CanConfirm(svc)
  /\ LET request == [kind |-> svc.dialog, source |-> svc.source, named |-> svc.picked,
                     offered |-> IF HasData(svc.list) THEN svc.list.data.offered ELSE {}]
     IN svc' = Under([ClosedDialogs(svc) EXCEPT !.dialog = "log",
                        !.log = [request |-> request, status |-> "starting"]], svc)
  /\ UNCHANGED saved
-----------------------------------------------------------------------------
\* Runs.

\* The server starts the run, answers with the one of its kind that is under way, or
\* refuses; the dialog, while it is open, follows the run it was given.
StartAnswered ==
  /\ svc.dialog = "log" /\ svc.log.status = "starting"
  /\ \E status \in {"running", "ended"} : svc' = [svc EXCEPT !.log.status = status]
  /\ UNCHANGED saved

\* The run ends, by itself or cancelled, and a poll says so.
RunEnds ==
  /\ svc.dialog = "log" /\ svc.log.status = "running"
  /\ svc' = [svc EXCEPT !.log.status = "ended"]
  /\ UNCHANGED saved

\* Closing keeps the run.
CloseLog ==
  /\ svc.dialog = "log"
  /\ svc' = [svc EXCEPT !.dialog = "none", !.log = Nothing]
  /\ UNCHANGED saved

FreshSvc ==
  [f \in DOMAIN NoDialogs \cup DOMAIN FreshPage \cup {"saves", "unsure"} |->
     IF f \in DOMAIN NoDialogs THEN NoDialogs[f]
     ELSE IF f \in DOMAIN FreshPage THEN FreshPage[f]
     ELSE IF f = "unsure" THEN FALSE ELSE {}]

SvcInit ==
  svc = FreshSvc /\ saved \in Settings

SvcActs ==
  \/ ReadPage \/ PageAnswered \/ PageFails
  \/ OpenSettings \/ Save \/ CloseSettings
  \/ \E c \in Settings : EditSettings(c) \/ OthersSave(c)
  \/ \E s \in svc.saves : SaveArrives(s) \/ SaveSucceeds(s) \/ SaveFails(s)
  \/ \E k \in RunKinds : OpenChoice(k)
  \/ \E k \in RunKinds : \E p \in Sources : \E d \in Offers(<<k, p>>) : Offered(d) \/ OffersLate(d)
  \/ \E p \in Sources : ChangeSource(p)
  \/ \E p \in Sources : \E s \in SnapshotsOf[p] : Pick(s)
  \/ \E b \in StoreBuckets : ToggleBucket(b)
  \/ \E t \in Ports : TypePort(t)
  \/ OffersFail \/ PortAnswered \/ CancelChoice \/ ConfirmChoice
  \/ StartAnswered \/ RunEnds \/ CloseLog

SvcSpec == SvcInit /\ [][SvcActs]_svcVars
-----------------------------------------------------------------------------
\* A run is asked for with what its dialog offered: a snapshot of the profile that is
\* named with it, though the profile was changed while lists were on their way, and
\* no backup of everything because every bucket that was offered was deselected.
AsksForWhatWasOffered ==
  svc.log # Nothing => LET r == svc.log.request IN
    /\ r.named \subseteq r.offered
    /\ r.kind = "apply" => r.named # {} /\ r.named \subseteq SnapshotsOf[r.source]
    /\ r.kind = "backup" /\ r.offered # {} => r.named # {}

\* Once every save of the page is answered, it has the settings that the server has: no
\* load from before a save of its own stays on the screen after its success.  (Someone
\* else's save shows at the next load: until then a save of the page may undo it.)
SettingsShow ==
  PageShown(svc) /\ svc.saves = {} /\ ~svc.unsure => svc.page.data.config = saved
=============================================================================
