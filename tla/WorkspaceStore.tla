---------------------------- MODULE WorkspaceStore ----------------------------
(***************************************************************************)
(* The tables of the central SQLite database (internal/store/store.go):    *)
(* workspaces, the pointer to the active one, and what workspaces own,     *)
(* profiles with their services and SQL templates.                         *)
(*                                                                         *)
(* One SQL statement, or one transaction, is one step: the store has a     *)
(* single connection.  Each operator below is such a step and says when    *)
(* the statement succeeds; one that fails changes nothing.  Foreign keys   *)
(* are on, so a row whose parent is gone is refused and a removed parent   *)
(* takes its rows with it.                                                 *)
(*                                                                         *)
(* Row ids are AUTOINCREMENT: an id is never given out again.  The         *)
(* sessions of BackupSessions name a workspace by its id without being     *)
(* its children; here they are the set of ids they name.                   *)
(***************************************************************************)
EXTENDS Integers, FiniteSets

CONSTANTS
  WorkspaceNames,
  ProfileNames,
  TemplateNames,
  Types,         \* service types
  MaxWorkspace,  \* bounds: workspace ids, profile row ids, and the numeric
  MaxProfile,    \* suffix of instance ids that an instance explores
  MaxSuffix,
  NoProfile,     \* the empty active_profile
  Gone           \* a row that is not there

ASSUME BoundsAssumption ==
  MaxWorkspace \in Nat /\ MaxProfile \in Nat /\ MaxSuffix \in Nat \ {0}

ASSUME SetsAssumption == Types # {} /\ TemplateNames # {}

ASSUME NamesAssumption == NoProfile \notin ProfileNames

VARIABLES
  workspaces,  \* rows by id
  nextWs,      \* the next AUTOINCREMENT id of workspaces
  active,      \* app_state.active_workspace_id; 0 is NULL
  profiles,    \* rows by id
  nextProf,    \* the next AUTOINCREMENT id of profiles
  services,    \* the instance ids of each profile row
  templates,   \* sql_templates: <<workspace id, name>>
  sessions     \* the workspace ids that rows of backup_sessions carry

storeVars ==
  <<workspaces, nextWs, active, profiles, nextProf, services, templates, sessions>>

WsId == 1 .. MaxWorkspace

ProfId == 1 .. MaxProfile

\* "postgres" is <<postgres, 1>>, "postgres-2" is <<postgres, 2>>.
InstanceId == Types \X (1 .. MaxSuffix)

WorkspaceRow == [name : WorkspaceNames, profile : ProfileNames \cup {NoProfile}]

ProfileRow == [ws : WsId, name : ProfileNames]

ASSUME GoneAssumption == Gone \notin WorkspaceRow \cup ProfileRow

StoreTypeOK ==
  /\ workspaces \in [WsId -> WorkspaceRow \cup {Gone}]
  /\ nextWs \in 1 .. MaxWorkspace + 1
  /\ active \in WsId \cup {0}
  /\ profiles \in [ProfId -> ProfileRow \cup {Gone}]
  /\ nextProf \in 1 .. MaxProfile + 1
  /\ services \in [ProfId -> SUBSET InstanceId]
  /\ templates \subseteq WsId \X TemplateNames
  /\ sessions \subseteq WsId

StoreInit ==
  /\ workspaces = [w \in WsId |-> Gone]
  /\ nextWs = 1
  /\ active = 0
  /\ profiles = [p \in ProfId |-> Gone]
  /\ nextProf = 1
  /\ services = [p \in ProfId |-> {}]
  /\ templates = {}
  /\ sessions = {}

WsExists(w) == workspaces[w] # Gone

ProfExists(p) == profiles[p] # Gone

-----------------------------------------------------------------------------
(***************************************************************************)
(* Workspaces.                                                             *)
(***************************************************************************)

NameTaken(n) == \E w \in WsId : WsExists(w) /\ workspaces[w].name = n

ReusedWsId ==
  IF \E w \in WsId : WsExists(w)
  THEN (CHOOSE w \in WsId : WsExists(w) /\ \A v \in WsId : WsExists(v) => v <= w) + 1
  ELSE 1

\* AUTOINCREMENT, not the ROWID after the largest that is there.
NewWsId == nextWs

MayInsertAny(n) == TRUE

\* UNIQUE.
MayInsert(n) == ~NameTaken(n)

InsertWorkspace(n) ==
  /\ NewWsId <= MaxWorkspace
  /\ MayInsert(n)
  /\ workspaces' = [workspaces EXCEPT ![NewWsId] = [name |-> n, profile |-> NoProfile]]
  /\ nextWs' = IF NewWsId = nextWs THEN nextWs + 1 ELSE nextWs
  /\ UNCHANGED <<active, profiles, nextProf, services, templates, sessions>>

UpdateWorkspaceName(w, n) ==
  /\ WsExists(w)
  /\ \A v \in WsId \ {w} : WsExists(v) => workspaces[v].name # n
  /\ workspaces' = [workspaces EXCEPT ![w].name = n]
  /\ UNCHANGED <<nextWs, active, profiles, nextProf, services, templates, sessions>>

\* What ON DELETE CASCADE takes along: the profiles of the workspace.
Cascade(w) == {p \in ProfId : ProfExists(p) /\ profiles[p].ws = w}

DeleteWorkspace(w) ==
  /\ WsExists(w)
  /\ workspaces' = [workspaces EXCEPT ![w] = Gone]
  /\ active' = IF active = w THEN 0 ELSE active
  /\ profiles' = [p \in ProfId |-> IF p \in Cascade(w) THEN Gone ELSE profiles[p]]
  /\ services' = [p \in ProfId |-> IF p \in Cascade(w) THEN {} ELSE services[p]]
  /\ templates' = {t \in templates : t[1] # w}
  /\ UNCHANGED <<nextWs, nextProf, sessions>>

MayPointAnywhere(w) == TRUE

\* The foreign key of app_state.
MayPointAt(w) == WsExists(w)

UpsertActive(w) ==
  /\ MayPointAt(w)
  /\ active' = w
  /\ UNCHANGED <<workspaces, nextWs, profiles, nextProf, services, templates, sessions>>

\* Whether the profile exists is not checked.
UpdateActiveProfile(w, n) ==
  /\ WsExists(w)
  /\ workspaces' = [workspaces EXCEPT ![w].profile = n]
  /\ UNCHANGED <<nextWs, active, profiles, nextProf, services, templates, sessions>>

-----------------------------------------------------------------------------
(***************************************************************************)
(* Profiles and their services.                                            *)
(***************************************************************************)

\* profileID: the rows that bear the name, at most one.
ProfileRows(w, n) ==
  {p \in ProfId : ProfExists(p) /\ profiles[p].ws = w /\ profiles[p].name = n}

AnyName(w, n) == TRUE

\* UNIQUE (workspace_id, name).
NameIsFree(w, n) == ProfileRows(w, n) = {}

InsertProfile(w, n, svcs) ==
  /\ nextProf <= MaxProfile
  /\ WsExists(w)
  /\ NameIsFree(w, n)
  /\ profiles' = [profiles EXCEPT ![nextProf] = [ws |-> w, name |-> n]]
  /\ services' = [services EXCEPT ![nextProf] = svcs]
  /\ nextProf' = nextProf + 1
  /\ UNCHANGED <<workspaces, nextWs, active, templates, sessions>>

DeleteProfile(w, n) ==
  /\ ProfileRows(w, n) # {}
  /\ profiles' = [p \in ProfId |-> IF p \in ProfileRows(w, n) THEN Gone ELSE profiles[p]]
  /\ services' = [p \in ProfId |-> IF p \in ProfileRows(w, n) THEN {} ELSE services[p]]
  /\ UNCHANGED <<workspaces, nextWs, active, nextProf, templates, sessions>>

MayOwnAlways(p, svcs) == TRUE

\* The foreign key of services: without a profile row there is nothing to insert under.
MayOwn(p, svcs) == ProfExists(p) \/ svcs = {}

\* DELETE and the INSERTs, in one transaction.
ReplaceServices(p, svcs) ==
  /\ MayOwn(p, svcs)
  /\ services' = [services EXCEPT ![p] = svcs]
  /\ UNCHANGED <<workspaces, nextWs, active, profiles, nextProf, templates, sessions>>

-----------------------------------------------------------------------------
(***************************************************************************)
(* Templates and sessions.                                                 *)
(***************************************************************************)

InsertTemplate(w, n) ==
  /\ WsExists(w)
  /\ <<w, n>> \notin templates
  /\ templates' = templates \cup {<<w, n>>}
  /\ UNCHANGED <<workspaces, nextWs, active, profiles, nextProf, services, sessions>>

DeleteTemplate(w, n) ==
  /\ <<w, n>> \in templates
  /\ templates' = templates \ {<<w, n>>}
  /\ UNCHANGED <<workspaces, nextWs, active, profiles, nextProf, services, sessions>>

\* backup_sessions has no foreign key: the workspace may be gone.
InsertSession(w) ==
  /\ sessions' = sessions \cup {w}
  /\ UNCHANGED <<workspaces, nextWs, active, profiles, nextProf, services, templates>>

-----------------------------------------------------------------------------
(***************************************************************************)
(* What the tables promise, whoever writes to them and in whatever order.  *)
(***************************************************************************)

\* The active workspace exists: removing it clears the pointer, and a handler that
\* is about to point at it (creation points in a second step) fails.
ActiveWorkspaceExists == active # 0 => WsExists(active)

\* Nothing outlives its parent: profiles and templates belong to a workspace that
\* exists, services to a profile that exists, however late a write arrives.
NoOrphans ==
  /\ \A p \in ProfId : ProfExists(p) => WsExists(profiles[p].ws)
  /\ \A p \in ProfId : services[p] # {} => ProfExists(p)
  /\ \A t \in templates : WsExists(t[1])

\* Profiles are looked up by name: within a workspace a name means one row, also
\* when creations, forks and removals of that name overlap.
NamesIdentify ==
  \A p, q \in ProfId :
    ProfExists(p) /\ ProfExists(q) /\ profiles[p] = profiles[q] => p = q
=============================================================================
