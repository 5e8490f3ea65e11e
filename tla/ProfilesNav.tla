----------------------------- MODULE ProfilesNav ------------------------------
(***************************************************************************)
(* The profiles, listed in two places at once, the sidebar and the screen  *)
(* of profiles: each has its own list and changes it.  In the sidebar a    *)
(* profile opens on its services, which are added, edited and removed      *)
(* there; one such item is modelled.  A change of services is announced to *)
(* every list (profiles-events.ts), as are those of a service's page; a    *)
(* change of profiles to none but the list it was made from.  Others       *)
(* change them too: another window, the command line, or a change that was *)
(* sent before the screen was left and opened again.                       *)
(***************************************************************************)
EXTENDS AsyncLoad, Naturals, FiniteSets

CONSTANTS
  ProfileNames,      \* names of profiles
  Item,              \* the profile whose item is modelled
  ServiceIds,        \* ids of its services
  MaxEdits           \* bound: changes under way at once

ASSUME NavAssumption == Item \in ProfileNames /\ MaxEdits \in Nat \ {0}

VARIABLES
  nav,               \* the state of the components
  profiles,          \* the server: names of profiles, and the active one
  services           \* the server: the services of Item

navVars == <<nav, profiles, services>>
Places == {"sidebar", "page"}

FreshList == [load |-> Mounted("profiles"), read |-> {}]
FreshItem == [expanded |-> FALSE, load |-> Mounted(FALSE), read |-> {}]

\* unsure says of a place, or of the item, that changes of others, or changes whose
\* answer was lost, may not be shown until the next load.
FreshNav ==
  [lists |-> [p \in Places |-> FreshList], item |-> FreshItem, asked |-> Nothing,
   edits |-> {}, unsure |-> {}]

Shows(w, p) == HasData(w.lists[p].load)
Profiles(w, p) == IF Shows(w, p) THEN w.lists[p].load.data.names ELSE {}
Services(w) == IF HasData(w.item.load) /\ w.item.expanded THEN w.item.load.data.ids ELSE {}
ItemShown(w) == Item \in Profiles(w, "sidebar")

\* A load of a list unmounts its rows: what they ask, what they wait for, and in the
\* sidebar the items, which are collapsed when they are mounted again; the sidebar's
\* form stays.  It aborts the load before, whose answer is dropped.
Detached(w, p) ==
  {[e EXCEPT !.mounted = @ /\ (e.place # p \/ (p = "sidebar" /\ e.op = "create"))] : e \in w.edits}
Sure(w, what) == IF w.edits = {} THEN w.unsure \ {what} ELSE w.unsure
LoadList(w, p) ==
  [w EXCEPT !.lists[p] = FreshList,
     !.item = IF p = "sidebar" THEN FreshItem ELSE @,
     !.asked = IF @ # Nothing /\ @.place = p THEN Nothing ELSE @,
     !.edits = Detached(w, p),
     !.unsure = Sure(w, p)]
-----------------------------------------------------------------------------
\* The lists.

ReadProfiles(p) ==
  /\ Pending(nav.lists[p].load) /\ nav.lists[p].read = {}
  /\ nav' = [nav EXCEPT !.lists[p].read =
       {[of |-> "profiles", names |-> profiles.names, active |-> profiles.active]}]
  /\ UNCHANGED <<profiles, services>>

ProfilesAnswered(p) ==
  /\ Pending(nav.lists[p].load)
  /\ \E data \in nav.lists[p].read :
       nav' = [nav EXCEPT !.lists[p] = [load |-> Succeeded(@.load, data), read |-> {}]]
  /\ UNCHANGED <<profiles, services>>

ProfilesFail(p) ==
  /\ Pending(nav.lists[p].load)
  /\ nav' = [nav EXCEPT !.lists[p] = [load |-> Failed(@.load), read |-> {}]]
  /\ UNCHANGED <<profiles, services>>

\* The sidebar's group of profiles is closed and opened: its items are mounted anew.
Regroup ==
  /\ nav.asked = Nothing
  /\ nav' = [nav EXCEPT !.item = FreshItem, !.edits = Detached(nav, "sidebar")]
  /\ UNCHANGED <<profiles, services>>

\* The item loads its services when it is expanded, and "null" when it is not.
ToggleItem ==
  /\ ItemShown(nav) /\ nav.asked = Nothing
  /\ nav' = [nav EXCEPT !.item = [expanded |-> ~@.expanded,
                                  load |-> Mounted(~@.expanded), read |-> {}],
                        !.unsure = Sure(nav, "item")]
  /\ UNCHANGED <<profiles, services>>

ReadServices ==
  /\ ItemShown(nav) /\ Pending(nav.item.load) /\ nav.item.read = {}
  /\ nav' = [nav EXCEPT !.item.read =
       {[of |-> nav.item.expanded, ids |-> IF nav.item.expanded THEN services ELSE {}]}]
  /\ UNCHANGED <<profiles, services>>

ServicesAnswered ==
  /\ Pending(nav.item.load)
  /\ \E data \in nav.item.read :
       nav' = [nav EXCEPT !.item.load = Succeeded(@, data), !.item.read = {}]
  /\ UNCHANGED <<profiles, services>>

ServicesFail ==
  /\ ItemShown(nav) /\ nav.item.expanded /\ Pending(nav.item.load)
  /\ nav' = [nav EXCEPT !.item.load = Failed(@), !.item.read = {}]
  /\ UNCHANGED <<profiles, services>>
-----------------------------------------------------------------------------
\* Changes.

ProfileOps == {"create", "activate", "remove"}
ServiceOps == {"add", "edit", "drop"}

\* Controls that wait for their own change: the form, a row, the item's submenu.
Waits(w, op, name, place) ==
  \E e \in w.edits : e.mounted /\
    IF op \in ServiceOps THEN e.op \in ServiceOps
    ELSE IF op = "create" THEN e.op = "create" /\ e.place = place
    ELSE e.op \in {"activate", "remove"} /\ e.name = name /\ e.place = place

ChangeOffered(w, op, name, place) ==
  CASE op = "create" -> (place = "sidebar" \/ Shows(w, place)) /\ name \notin Profiles(w, place)
    [] op \in {"activate", "remove"} ->
         name \in Profiles(w, place) /\ name # w.lists[place].load.data.active
    [] op = "add"    -> place = "sidebar" /\ ItemShown(w) /\ w.item.expanded /\ HasData(w.item.load)
    [] OTHER         -> place = "sidebar" /\ ItemShown(w) /\ name \in Services(w)

Subjects(op) ==
  IF op \in ProfileOps THEN ProfileNames ELSE IF op = "add" THEN {Nothing} ELSE ServiceIds

Send(w, op, name, place) ==
  [w EXCEPT !.asked = IF op \in {"add", "edit"} THEN @ ELSE Nothing, !.edits = @ \cup
     {[op |-> op, name |-> name, place |-> place, mounted |-> TRUE, done |-> FALSE]}]

\* A dialog comes first: to confirm a removal, or for a service that is added or edited.
Ask(op, name, place) ==
  /\ op \notin {"create", "activate"} /\ nav.asked = Nothing
  /\ ChangeOffered(nav, op, name, place) /\ ~Waits(nav, op, name, place)
  /\ nav' = [nav EXCEPT !.asked = [op |-> op, name |-> name, place |-> place]]
  /\ UNCHANGED <<profiles, services>>

Dismiss ==
  /\ nav.asked # Nothing
  /\ nav' = [nav EXCEPT !.asked = Nothing]
  /\ UNCHANGED <<profiles, services>>

\* A confirmation closes; the dialog of a service stays, busy, and may be closed.
Agree ==
  /\ nav.asked # Nothing /\ ~Waits(nav, nav.asked.op, nav.asked.name, nav.asked.place)
  /\ Cardinality(nav.edits) < MaxEdits
  /\ nav' = Send(nav, nav.asked.op, nav.asked.name, nav.asked.place)
  /\ UNCHANGED <<profiles, services>>

Act(op, name, place) ==
  /\ op \in {"create", "activate"} /\ nav.asked = Nothing /\ Cardinality(nav.edits) < MaxEdits
  /\ ChangeOffered(nav, op, name, place) /\ ~Waits(nav, op, name, place)
  /\ nav' = Send(nav, op, name, place)
  /\ UNCHANGED <<profiles, services>>

\* The server refuses to remove the active profile, and what does not exist.
EditDone(e) ==
  /\ ~e.done
  /\ nav' = [nav EXCEPT !.edits = (@ \ {e}) \cup {[e EXCEPT !.done = TRUE]},
       !.unsure = IF e.op \in ProfileOps THEN @ \cup (Places \ {e.place}) ELSE @]
  /\ \/ /\ e.op = "create" /\ e.name \notin profiles.names
        /\ profiles' = [profiles EXCEPT !.names = @ \cup {e.name}]
        /\ services' = IF e.name = Item THEN {} ELSE services
     \/ /\ e.op = "activate" /\ e.name \in profiles.names
        /\ profiles' = [profiles EXCEPT !.active = e.name]
        /\ UNCHANGED services
     \/ /\ e.op = "remove" /\ e.name \in profiles.names \ {profiles.active}
        /\ profiles' = [profiles EXCEPT !.names = @ \ {e.name}]
        /\ services' = IF e.name = Item THEN {} ELSE services
     \/ /\ e.op \in ServiceOps /\ Item \in profiles.names
        /\ \/ e.op = "add" /\ \E id \in ServiceIds \ services : services' = services \cup {id}
           \/ e.op = "edit" /\ e.name \in services /\ UNCHANGED services
           \/ e.op = "drop" /\ e.name \in services /\ services' = services \ {e.name}
        /\ UNCHANGED profiles

\* Success loads the list that made the change; a change of services loads all lists,
\* so the item that made it is unmounted, and with it the settings of a service that
\* was added, which it opens in the same step.
EditAnswered(e) ==
  /\ e.done
  /\ LET w == [nav EXCEPT !.edits = @ \ {e}] IN
     nav' = IF e.op \in ProfileOps THEN LoadList(w, e.place)
            ELSE LoadList(LoadList(w, "page"), "sidebar")
  /\ UNCHANGED <<profiles, services>>

EditFails(e) ==
  /\ nav' = [nav EXCEPT !.edits = @ \ {e},
       !.unsure = IF e.done THEN @ \cup {e.place, "item"} ELSE @]
  /\ UNCHANGED <<profiles, services>>

\* What is shown, or on its way to be, when someone else changes something.
Outdated(w) ==
  {p \in Places : Shows(w, p) \/ w.lists[p].read # {}}
    \cup {what \in {"item"} : HasData(w.item.load) \/ w.item.read # {}}

\* Someone else changes profiles and services; among them a service's page, which forks
\* into a profile or saves settings and then, unless it was left, announces that.
ChangedElsewhere(names, active, ids) ==
  /\ active \in names /\ (Item \notin names => ids = {})
  /\ profiles' = [names |-> names, active |-> active] /\ services' = ids
  /\ nav' = [nav EXCEPT !.unsure = @ \cup Outdated(nav)]

Announced ==
  /\ nav' = LoadList(LoadList(nav, "page"), "sidebar")
  /\ UNCHANGED <<profiles, services>>

NavInit ==
  /\ nav = FreshNav
  /\ \E a \in ProfileNames : profiles = [names |-> ProfileNames, active |-> a]
  /\ services \in SUBSET ServiceIds

NavActs ==
  \/ \E p \in Places : ReadProfiles(p) \/ ProfilesAnswered(p) \/ ProfilesFail(p)
  \/ Regroup \/ ToggleItem \/ ReadServices \/ ServicesAnswered \/ ServicesFail
  \/ \E op \in ProfileOps \cup ServiceOps, p \in Places :
       \E n \in Subjects(op) : Ask(op, n, p) \/ Act(op, n, p)
  \/ Dismiss \/ Agree
  \/ Announced
  \/ \E names \in SUBSET ProfileNames, ids \in SUBSET ServiceIds :
       \E active \in names : ChangedElsewhere(names, active, ids)
  \/ \E e \in nav.edits : EditDone(e) \/ EditAnswered(e) \/ EditFails(e)

NavSpec == NavInit /\ [][NavActs]_navVars
-----------------------------------------------------------------------------
\* Once all changes are answered, each list shows the profiles the server has, and the
\* item its services, whichever place changed what: no load from before a change stays
\* after its success.  (A place is unsure of the profiles changed in the other, and both
\* of what others change, until the next load.)
ProfilesShow ==
  nav.edits = {} =>
    /\ \A p \in Places : Shows(nav, p) /\ p \notin nav.unsure =>
         /\ nav.lists[p].load.data.names = profiles.names
         /\ nav.lists[p].load.data.active = profiles.active
    /\ ItemShown(nav) /\ nav.item.expanded /\ HasData(nav.item.load)
         /\ {"item", "sidebar"} \cap nav.unsure = {}
       => nav.item.load.data.ids = services
=============================================================================
