------------------------------ MODULE CloudLists -----------------------------
(***************************************************************************)
(* The views of a LocalStack service: the lists of queues (sqs) and of     *)
(* identities (ses) with the changes made from them, and an identity's     *)
(* mail.  The region above them (RegionHeader) may change at any time.     *)
(*                                                                         *)
(* A request is carried out in the emulator some time after it is sent,    *)
(* and answered some time after that.  The emulator is changed beside the  *)
(* page too: by the programs it is there for, another window, or a request *)
(* whose page was left.                                                    *)
(***************************************************************************)
EXTENDS AsyncLoad, Naturals, FiniteSets

CONSTANTS
  Lists,       \* the launcher's cards with a list: "sqs", "ses"
  AllRegions,  \* the regions the header offers
  Names,       \* names of queues and identities
  MaxCalls     \* bound: changes under way at once

ASSUME CloudAssumption ==
  Lists # {} /\ Lists \subseteq {"sqs", "ses"} /\ AllRegions # {} /\ MaxCalls \in Nat \ {0}

VARIABLES
  cloud,    \* the state of the views' components
  owned     \* the emulator: [Lists \X AllRegions -> SUBSET Names]

cloudVars == <<cloud, owned>>

Views == Lists \cup {"launcher", "mail"}

\* A view's components as they are mounted.
FreshView(v, r) ==
  [view |-> v, list |-> Mounted(<<v, r>>), read |-> {}, dialog |-> Nothing,
   preview |-> Mounted(Nothing)]

FreshCloud(r) ==
  Mounting(FreshView("launcher", r), [region |-> r, calls |-> {}, unsure |-> FALSE])

ListedNames(w) == IF HasData(w.list) THEN w.list.data.names ELSE {}
NoDialog(w) == w.dialog = Nothing

\* A change is a call: sent from a view, which waits for it while it is mounted; of a
\* row, or of the form, which is disabled while the call runs and it is mounted;
\* done once the emulator carried it out.
Sent(w, op, name) ==
  [op |-> op, name |-> name, at |-> <<w.view, w.region>>, mounted |-> TRUE,
   waiting |-> TRUE, done |-> FALSE]
Creating(w) == \E c \in w.calls : c.op = "create" /\ c.waiting
Busy(w) == {c.name : c \in {d \in w.calls : d.op # "create" /\ d.waiting}}

\* The list is loaded anew: its rows unmount, with what they had open or waited for.
ReloadList(w) ==
  [w EXCEPT !.list = Reloaded(@, <<w.view, w.region>>), !.read = {}, !.dialog = Nothing,
     !.calls = {[c EXCEPT !.waiting = @ /\ c.op = "create"] : c \in @},
     !.unsure = @ /\ w.calls # {}]
-----------------------------------------------------------------------------
\* Views: the hash names the service, and the identity whose mail is read, so links
\* and the browser's history lead to a view whatever is open.  What the old view's
\* components awaited is answered to nobody.

GoTo(v) ==
  /\ v # cloud.view
  /\ cloud' = Mounting(FreshView(v, cloud.region),
       [cloud EXCEPT !.unsure = cloud.calls # {},
          !.calls = {[c EXCEPT !.mounted = FALSE, !.waiting = FALSE] : c \in @}])
  /\ UNCHANGED owned

\* The header's choice; the views read that region instead.
ChangeRegion(r) ==
  /\ NoDialog(cloud) /\ r # cloud.region
  /\ cloud' = ReloadList([cloud EXCEPT !.region = r])
  /\ UNCHANGED owned

\* The emulator reads a list; the answer comes later.
ReadList ==
  /\ cloud.view # "launcher" /\ Pending(cloud.list) /\ cloud.read = {}
  /\ cloud' = [cloud EXCEPT !.read =
       {[of |-> cloud.list.key,
         names |-> IF cloud.list.key \in DOMAIN owned THEN owned[cloud.list.key] ELSE {}]}]
  /\ UNCHANGED owned

ListAnswered ==
  /\ Pending(cloud.list)
  /\ \E data \in cloud.read : cloud' = [cloud EXCEPT !.list = Succeeded(@, data), !.read = {}]
  /\ UNCHANGED owned

\* The request fails, or the answer says that the endpoint is unreachable.
ListFails ==
  /\ cloud.view # "launcher" /\ Pending(cloud.list)
  /\ \E status \in {"error", "unreachable"} :
       cloud' = [cloud EXCEPT !.list.status = status, !.read = {}]
  /\ UNCHANGED owned

\* Retry of an identity's mail.
CanRetry(w) == w.view = "mail" /\ w.list.status = "error"
RetryMail ==
  /\ CanRetry(cloud) /\ NoDialog(cloud)
  /\ cloud' = ReloadList(cloud)
  /\ UNCHANGED owned
-----------------------------------------------------------------------------
\* Changes.

\* The form refuses the name of an entry that is listed, and waits for its answer.
Create(n) ==
  /\ cloud.view \in Lists /\ NoDialog(cloud) /\ ~Creating(cloud)
  /\ n \notin ListedNames(cloud) /\ Cardinality(cloud.calls) < MaxCalls
  /\ cloud' = [cloud EXCEPT !.calls = @ \cup {Sent(cloud, "create", n)}]
  /\ UNCHANGED owned

\* A row asks before it purges or deletes; both are disabled while its action runs.
RowActions == [sqs |-> {"purge", "delete"}, ses |-> {"delete"}]
AskRow(op, n) ==
  /\ cloud.view \in Lists /\ NoDialog(cloud)
  /\ op \in RowActions[cloud.view] /\ n \in ListedNames(cloud) \ Busy(cloud)
  /\ cloud' = [cloud EXCEPT !.dialog = <<op, n>>]
  /\ UNCHANGED owned

\* The messages of a queue, and one message of an identity, open in a dialog.
Preview(n) ==
  /\ NoDialog(cloud) /\ HasData(cloud.list)
  /\ \/ cloud.view = "sqs" /\ n \in ListedNames(cloud)
     \/ cloud.view = "mail"
  /\ cloud' = [cloud EXCEPT !.dialog = <<"preview", n>>, !.preview = Mounted(n)]
  /\ UNCHANGED owned

PreviewAnswered ==
  /\ cloud.view = "sqs" /\ cloud.dialog # Nothing /\ cloud.dialog[1] = "preview"
  /\ Pending(cloud.preview)
  /\ \/ cloud' = [cloud EXCEPT !.preview = Succeeded(@, [of |-> @.key])]
     \/ cloud' = [cloud EXCEPT !.preview = Failed(@)]
  /\ UNCHANGED owned

CloseDialog ==
  /\ cloud.dialog # Nothing
  /\ cloud' = [cloud EXCEPT !.dialog = Nothing, !.preview = Mounted(Nothing)]
  /\ UNCHANGED owned

ConfirmRow ==
  /\ cloud.dialog # Nothing /\ cloud.dialog[1] # "preview"
  /\ Cardinality(cloud.calls) < MaxCalls
  /\ LET op == cloud.dialog[1]  n == cloud.dialog[2] IN
     cloud' = [cloud EXCEPT !.dialog = Nothing, !.calls = @ \cup {Sent(cloud, op, n)}]
  /\ UNCHANGED owned

\* The emulator carries a call out.
CarryOut(c) ==
  /\ ~c.done
  /\ cloud' = [cloud EXCEPT !.calls = (@ \ {c}) \cup {[c EXCEPT !.done = TRUE]}]
  /\ owned' = [owned EXCEPT ![c.at] =
       CASE c.op = "create" -> @ \cup {c.name}
         [] c.op = "delete" -> @ \ {c.name}
         [] OTHER -> @]

\* Success reloads the list of the view that made the call, if it is still there.
CallSucceeds(c) ==
  /\ c.done
  /\ LET ended == [cloud EXCEPT !.calls = @ \ {c}]
     IN cloud' = IF c.mounted THEN ReloadList(ended) ELSE ended
  /\ UNCHANGED owned

\* A failure does not, also when only the answer was lost.
CallFails(c) ==
  /\ cloud' = [cloud EXCEPT !.calls = @ \ {c}, !.unsure = @ \/ c.done]
  /\ UNCHANGED owned

\* Someone else changes what a region has: the list on the screen, or on its way to it,
\* may be from before that.
OnTheScreen(w, at) == at = <<w.view, w.region>> /\ (HasData(w.list) \/ w.read # {})
OthersOwn(at, names) ==
  /\ owned' = [owned EXCEPT ![at] = names]
  /\ cloud' = [cloud EXCEPT !.unsure = @ \/ OnTheScreen(cloud, at)]

CloudInit ==
  /\ \E r \in AllRegions : cloud = FreshCloud(r)
  /\ owned \in [Lists \X AllRegions -> SUBSET Names]

CloudActs ==
  \/ \E v \in Views : GoTo(v)
  \/ \E r \in AllRegions : ChangeRegion(r)
  \/ ReadList \/ ListAnswered \/ ListFails \/ RetryMail
  \/ \E n \in Names : Create(n) \/ Preview(n) \/ \E op \in {"purge", "delete"} : AskRow(op, n)
  \/ PreviewAnswered \/ CloseDialog \/ ConfirmRow
  \/ \E c \in cloud.calls : CarryOut(c) \/ CallSucceeds(c) \/ CallFails(c)
  \/ \E at \in Lists \X AllRegions : \E names \in SUBSET Names : OthersOwn(at, names)

CloudSpec == CloudInit /\ [][CloudActs]_cloudVars
-----------------------------------------------------------------------------
\* The list on the screen is that of the view and of the region on the screen, however
\* often they are changed while reads are on their way.
ListIsCurrent == ShownFor(cloud.list, <<cloud.view, cloud.region>>)

\* Once all calls are answered, the list on the screen is what the page's own changes
\* made of it: a list that was read before a change is never left on the screen after
\* its success.  (A change whose answer was lost, one whose view was left, and one of
\* someone else may not show until the next load.)
ChangesShow ==
  cloud.view \in Lists /\ HasData(cloud.list) /\ cloud.calls = {} /\ ~cloud.unsure
    => ListedNames(cloud) = owned[<<cloud.view, cloud.region>>]
=============================================================================
