----------------------------- MODULE ConsoleTabs ------------------------------
(***************************************************************************)
(* The page of a SQL console: its tabs, kept for each connection in the    *)
(* browser's storage, which all windows of the user share, and the         *)
(* sidebar of the connection's tables, which opens tabs.                   *)
(***************************************************************************)
EXTENDS AsyncLoad, Naturals, SequencesExt

CONSTANTS
  Connections,   \* profile and service: what a storage key is made of
  Windows,       \* windows of the browser
  Typed,         \* what the user types into a console
  Blank,         \* the text of a new console
  MaxTabs        \* bound: tabs opened, in all connections

ASSUME TabsAssumption == Blank # Typed /\ MaxTabs \in Nat \ {0}

VARIABLES
  tabs,          \* each window: its page, or nothing
  stored,        \* the storage, by connection: a state of tabs, or an empty one
  opened         \* tabs opened so far: the next one's id

tabsVars == <<tabs, stored, opened>>

\* A tab's number is 0 when it is titled by a table.  "under" is the connection it was
\* opened for (kept for the properties).
Tab(id, number, text, at) == [id |-> id, number |-> number, text |-> text, under |-> at]
NoTabs == [list |-> <<>>, active |-> 0]
Ids(s) == {s.list[i].id : i \in DOMAIN s.list}
Numbers(s) == {s.list[i].number : i \in DOMAIN s.list}

\* Read the connection's tabs, or begin with one empty console.
LoadTabs(at) ==
  IF stored[at] # NoTabs THEN stored[at]
  ELSE [list |-> <<Tab(opened, 1, Blank, at)>>, active |-> opened]
NewTabs(at) == IF stored[at] # NoTabs THEN 0 ELSE 1

\* Variant for the checks: the effect stores what the render before had.
StoredLate(w, page) ==
  /\ tabs' = [tabs EXCEPT ![w] = page]
  /\ stored' \in {stored, [stored EXCEPT ![page.at] =
                             IF tabs[w] = Nothing THEN page.state ELSE tabs[w].state]}

\* A render is followed by the effect that stores its tabs under its key; the storage
\* may refuse.
Rendering(w, page) ==
  /\ tabs' = [tabs EXCEPT ![w] = page]
  /\ stored' \in {stored, [stored EXCEPT ![page.at] = page.state]}

Change(w, s) == Rendering(w, [tabs[w] EXCEPT !.state = s])
-----------------------------------------------------------------------------
\* The page is mounted.
OpenConsole(w, at) ==
  /\ tabs[w] = Nothing /\ opened + NewTabs(at) <= MaxTabs
  /\ Rendering(w, [at |-> at, state |-> LoadTabs(at), schema |-> Mounted(at)])
  /\ opened' = opened + NewTabs(at)

\* The connection changes while the page is mounted (until its services are loaded
\* again it is rendered for the new profile): the tabs are switched during the render,
\* so that the effect stores them under the key they belong to.
Switch(w, at) ==
  /\ tabs[w] # Nothing /\ tabs[w].at # at /\ opened + NewTabs(at) <= MaxTabs
  /\ Rendering(w, [at |-> at, state |-> LoadTabs(at), schema |-> Reloaded(tabs[w].schema, at)])
  /\ opened' = opened + NewTabs(at)

\* The page or its window is closed: nothing but the storage is left.
CloseConsole(w) ==
  /\ tabs[w] # Nothing
  /\ tabs' = [tabs EXCEPT ![w] = Nothing]
  /\ UNCHANGED <<stored, opened>>

\* Introspection answers with the tables, with an error in its envelope, or not.
SchemaAnswered(w) ==
  /\ tabs[w] # Nothing /\ Pending(tabs[w].schema)
  /\ \E load \in {Succeeded(tabs[w].schema, [of |-> tabs[w].schema.key]), Failed(tabs[w].schema)} :
       tabs' = [tabs EXCEPT ![w].schema = load]
  /\ UNCHANGED <<stored, opened>>

SchemaAnswersLate(w) ==
  /\ tabs[w] # Nothing /\ tabs[w].schema.late # Nothing
  /\ tabs' = [tabs EXCEPT ![w].schema = LateAnswer(@, [of |-> @.late])]
  /\ UNCHANGED <<stored, opened>>
-----------------------------------------------------------------------------
SetActive(w, id) ==
  /\ tabs[w] # Nothing /\ id \in Ids(tabs[w].state) \ {tabs[w].state.active}
  /\ Change(w, [tabs[w].state EXCEPT !.active = id])
  /\ UNCHANGED opened

OpenTab(w, number, text, under) ==
  /\ opened < MaxTabs
  /\ Change(w, [list |-> Append(tabs[w].state.list, Tab(opened, number, text, under)),
                active |-> opened])
  /\ opened' = opened + 1

\* A new console is numbered from the highest number there is.
AddTab(w) ==
  /\ tabs[w] # Nothing
  /\ \E n \in Numbers(tabs[w].state) \cup {0} :
       /\ \A m \in Numbers(tabs[w].state) : m <= n
       /\ OpenTab(w, n + 1, Blank, tabs[w].at)

\* A double click on a table opens its statement in a tab, whose console runs it once
\* when it is mounted (SqlConsole's RunSql).
OpenTable(w) ==
  /\ tabs[w] # Nothing /\ HasData(tabs[w].schema)
  /\ OpenTab(w, 0, Typed, tabs[w].schema.data.of)

\* One tab is always kept; a neighbour of the active one becomes active.  (The code keeps
\* the tabs of another id, which are all others.)
RemoveTab(w, id) ==
  /\ tabs[w] # Nothing /\ Len(tabs[w].state.list) > 1
  /\ LET s == tabs[w].state
     IN \E at \in DOMAIN s.list :
          LET rest == RemoveAt(s.list, at)
              near == IF at <= Len(rest) THEN at ELSE Len(rest)
          IN  /\ s.list[at].id = id
              /\ Change(w, [list |-> rest,
                            active |-> IF s.active = id THEN rest[near].id ELSE s.active])
  /\ UNCHANGED opened

\* Only the active tab's editor is shown.
UpdateSql(w) ==
  /\ tabs[w] # Nothing
  /\ \E i \in DOMAIN tabs[w].state.list :
       /\ tabs[w].state.list[i].id = tabs[w].state.active
       /\ Change(w, [tabs[w].state EXCEPT !.list[i].text = Typed])
  /\ UNCHANGED opened

TabsInit ==
  /\ tabs = [w \in Windows |-> Nothing] /\ stored = [at \in Connections |-> NoTabs]
  /\ opened = 1

TabsActs ==
  \E w \in Windows :
    \/ \E at \in Connections : OpenConsole(w, at) \/ Switch(w, at)
    \/ CloseConsole(w) \/ SchemaAnswered(w) \/ SchemaAnswersLate(w)
    \/ \E id \in 1..MaxTabs : SetActive(w, id) \/ RemoveTab(w, id)
    \/ AddTab(w) \/ OpenTable(w) \/ UpdateSql(w)

TabsSpec == TabsInit /\ [][TabsActs]_tabsVars
-----------------------------------------------------------------------------
\* Whatever windows show and store, in any order: the tabs of a connection, in its
\* storage and on a page, were opened for that connection, one of them is active, and
\* no two have one id or one number.
ConsistentTabs(s, at) ==
  /\ s.active \in Ids(s)
  /\ \A i \in DOMAIN s.list : s.list[i].under = at
  /\ \A i, j \in DOMAIN s.list : i # j =>
       /\ s.list[i].id # s.list[j].id
       /\ s.list[i].number = s.list[j].number => s.list[i].number = 0

TabsAreOwn ==
  /\ \A at \in Connections : stored[at] # NoTabs => ConsistentTabs(stored[at], at)
  /\ \A w \in Windows : tabs[w] # Nothing => ConsistentTabs(tabs[w].state, tabs[w].at)
=============================================================================
