------------------------------ MODULE Workspaces ------------------------------
(***************************************************************************)
(* The handlers that manage workspaces, profiles, services and templates   *)
(* (internal/server/workspace.go, profiles.go, templates.go and fork.go    *)
(* over internal/project).                                                 *)
(*                                                                         *)
(* A handler is a sequence of statements with no transaction around them:  *)
(* it reads the active workspace, then the workspace's row, then a         *)
(* profile and its services, computes the new services, and writes them    *)
(* back.  Any other handler can run between two of its statements.         *)
(*                                                                         *)
(* A read whose only use is an early return that the later write repeats   *)
(* (a UNIQUE or foreign key, WHERE id = ?) is left out.  A statement that  *)
(* fails, a request that is rejected and a process that stops all end a    *)
(* request where it is: Abandon.                                           *)
(***************************************************************************)
EXTENDS WorkspaceStore

CONSTANTS
  Request,       \* the requests that may be in flight at once
  LocalProfile,  \* "local": where forks go
  Op             \* bound: the operations that users ask for

Operations ==
  {"createProfile", "deleteProfile", "activateProfile", "updateProfile", "addService",
   "updateService", "removeService", "fork", "backup", "createTemplate", "deleteTemplate"}

ASSUME OpAssumption == Op \subseteq Operations
ASSUME LocalAssumption == LocalProfile \in ProfileNames

VARIABLE
  req  \* what each request knows and what it does next

vars == <<storeVars, req>>

-----------------------------------------------------------------------------
(***************************************************************************)
(* Requests.                                                               *)
(***************************************************************************)

Step ==
  {"idle", "point", "open", "find", "read", "local", "findAgain", "replace", "exists",
   "insert", "delete", "activate", "record", "template"}

\* forkLocal is the second half of a fork, what it does to the local profile;
\* replace is the second half of every edit of services.
Req == [op : Operations \cup {"none", "createWorkspace", "forkLocal", "replace"},
        at : Step,
        ws : WsId \cup {0},                          \* Project.Workspace.ID
        seen : ProfileNames \cup {NoProfile},        \* Project.Workspace.ActiveProfile
        name : ProfileNames \cup {NoProfile},        \* the profile it is about
        id : Types \X (1 .. MaxSuffix),              \* the instance it is about
        row : ProfId \cup {0},                       \* the profile's row id
        svcs : SUBSET InstanceId,                    \* the services read, or to write
        template : TemplateNames]

SomeId == CHOOSE i \in InstanceId : TRUE
SomeTemplate == CHOOSE t \in TemplateNames : TRUE

Idle == [op |-> "none", at |-> "idle", ws |-> 0, seen |-> NoProfile, name |-> NoProfile,
         id |-> SomeId, row |-> 0, svcs |-> {}, template |-> SomeTemplate]

TypeOK ==
  /\ StoreTypeOK
  /\ req \in [Request -> Req]

Init ==
  /\ StoreInit
  /\ req = [r \in Request |-> Idle]

At(r, step) == req[r].at = step

Continue(r, next) == req' = [req EXCEPT ![r] = next]

Done(r) == Continue(r, Idle)

Abandon(r) ==
  /\ ~At(r, "idle")
  /\ Done(r)
  /\ UNCHANGED storeVars

-----------------------------------------------------------------------------
(***************************************************************************)
(* Workspaces.  Renaming, activating and removing take the id from the     *)
(* request and are one statement each; creating is two.                    *)
(***************************************************************************)

CreateWorkspace(r) ==
  /\ At(r, "idle")
  /\ \E n \in WorkspaceNames : InsertWorkspace(n)
  /\ Continue(r, [Idle EXCEPT !.op = "createWorkspace", !.at = "point", !.ws = NewWsId])

PointAtNew(r) ==
  /\ At(r, "point")
  /\ UpsertActive(req[r].ws)
  /\ Done(r)

RenameWorkspace(w) ==
  /\ \E n \in WorkspaceNames : UpdateWorkspaceName(w, n)
  /\ UNCHANGED req

ActivateWorkspace(w) == UpsertActive(w) /\ UNCHANGED req

RemoveWorkspace(w) == DeleteWorkspace(w) /\ UNCHANGED req

-----------------------------------------------------------------------------
(***************************************************************************)
(* Opening the project: which workspace is active, and then its row.       *)
(***************************************************************************)

\* What the client asks for, and the first statement of activeProject.
Asks(r, ask) ==
  /\ At(r, "idle")
  /\ active # 0
  /\ ask.op \in Op
  /\ Continue(r, [ask EXCEPT !.at = "open", !.ws = active])
  /\ UNCHANGED storeVars

AskProfile(r) ==
  \E n \in ProfileNames, op \in {"createProfile", "deleteProfile", "activateProfile"} :
    Asks(r, [Idle EXCEPT !.op = op, !.name = n])

\* The client replaces all services; Validate wants at least one.
AskUpdate(r) ==
  \E n \in ProfileNames, svcs \in (SUBSET InstanceId) \ {{}} :
    "updateProfile" \in Op /\ Asks(r, [Idle EXCEPT !.op = "updateProfile", !.name = n, !.svcs = svcs])

AskService(r) ==
  \E n \in ProfileNames, i \in InstanceId,
     op \in {"addService", "updateService", "removeService", "fork"} :
    /\ op = "addService" => i[2] = 1
    /\ Asks(r, [Idle EXCEPT !.op = op, !.name = n, !.id = i])

AskBackup(r) == Asks(r, [Idle EXCEPT !.op = "backup"])

AskTemplate(r) ==
  \E t \in TemplateNames, op \in {"createTemplate", "deleteTemplate"} :
    Asks(r, [Idle EXCEPT !.op = op, !.template = t])

FirstStep(op) ==
  CASE op = "createProfile" -> "exists"
    [] op = "deleteProfile" -> "delete"
    [] op = "updateProfile" -> "findAgain"
    [] op = "backup" -> "record"
    [] op \in {"createTemplate", "deleteTemplate"} -> "template"
    [] op \in {"activateProfile", "addService", "updateService", "removeService", "fork"} -> "find"

OpenProject(r) ==
  /\ At(r, "open")
  /\ WsExists(req[r].ws)
  /\ LET next == [req[r] EXCEPT !.at = FirstStep(req[r].op)]
     IN  IF next.at = "delete"  \* nobody else looks at Workspace.ActiveProfile
         THEN Continue(r, [next EXCEPT !.seen = workspaces[req[r].ws].profile])
         ELSE Continue(r, next)
  /\ UNCHANGED storeVars

-----------------------------------------------------------------------------
(***************************************************************************)
(* Profiles.                                                               *)
(***************************************************************************)

\* AddProfile refuses a name that is there; the UNIQUE constraint has the last word.
CheckName(r) ==
  /\ At(r, "exists")
  /\ ProfileRows(req[r].ws, req[r].name) = {}
  /\ Continue(r, [req[r] EXCEPT !.at = "insert"])
  /\ UNCHANGED storeVars

CreateProfile(r) ==
  /\ At(r, "insert")
  /\ InsertProfile(req[r].ws, req[r].name, req[r].svcs)
  /\ Done(r)

\* "cannot remove active profile": judged by the row as it was when opened.
RemoveProfile(r) ==
  /\ At(r, "delete")
  /\ req[r].seen # req[r].name
  /\ DeleteProfile(req[r].ws, req[r].name)
  /\ Done(r)

ActivateProfile(r) ==
  /\ At(r, "activate")
  /\ UpdateActiveProfile(req[r].ws, req[r].name)
  /\ Done(r)

-----------------------------------------------------------------------------
(***************************************************************************)
(* Services: find the profile's row, read its services, compute the new    *)
(* set, find the row again, and replace.                                   *)
(***************************************************************************)

FindProfile(r) ==
  /\ At(r, "find")
  /\ \E p \in ProfileRows(req[r].ws, req[r].name) :
       Continue(r, [req[r] EXCEPT !.row = p, !.at = "read"])
  /\ UNCHANGED storeVars

\* uniqueServiceID: the bare type, or the first free suffix.
NewInstance(svcs, type) ==
  {i \in InstanceId \ svcs :
     i[1] = type /\ \A n \in 1 .. MaxSuffix : n < i[2] => <<type, n>> \in svcs}

MayRemoveTheLast(svcs, i) == i \in svcs

\* ErrServiceNotDefined and ErrLastService.
MayRemove(svcs, i) == i \in svcs /\ Cardinality(svcs) > 1

\* What each operation writes back, having read svcs: nothing if it is refused.
Edited(q, svcs) ==
  CASE q.op = "addService" -> {svcs \cup {i} : i \in NewInstance(svcs, q.id[1])}
    [] q.op = "updateService" -> IF q.id \in svcs THEN {svcs} ELSE {}
    [] q.op = "removeService" -> IF MayRemove(svcs, q.id) THEN {svcs \ {q.id}} ELSE {}
    [] q.op = "forkLocal" -> {svcs \cup {q.id}}

ReadServices(r) ==
  /\ At(r, "read")
  /\ LET q == req[r]
         read == services[q.row]
     IN  \/ /\ q.op = "activateProfile"  \* LoadProfile: Validate wants a service
            /\ read # {}
            /\ Continue(r, [q EXCEPT !.row = 0, !.at = "activate"])
         \/ /\ q.op = "fork"             \* the source has the service
            /\ q.id \in read
            /\ Continue(r, [q EXCEPT !.op = "forkLocal", !.name = LocalProfile,
                                     !.row = 0, !.at = "local"])
         \/ /\ q.op \notin {"activateProfile", "fork"}
            /\ \E svcs \in Edited(q, read) :
                 Continue(r, [q EXCEPT !.op = "replace", !.id = SomeId, !.svcs = svcs,
                                     !.row = 0, !.at = "findAgain"])
  /\ UNCHANGED storeVars

\* ForkLocalProfile: the local profile may be there from an earlier fork.
LookForLocal(r) ==
  /\ At(r, "local")
  /\ IF ProfileRows(req[r].ws, LocalProfile) # {}
     THEN Continue(r, [req[r] EXCEPT !.at = "find"])
     ELSE Continue(r, [req[r] EXCEPT !.at = "insert", !.svcs = {req[r].id}])
  /\ UNCHANGED storeVars

FindAgain(r) ==
  /\ At(r, "findAgain")
  /\ \E p \in ProfileRows(req[r].ws, req[r].name) :
       Continue(r, [req[r] EXCEPT !.row = p, !.at = "replace"])
  /\ UNCHANGED storeVars

Replace(r) ==
  /\ At(r, "replace")
  /\ ReplaceServices(req[r].row, req[r].svcs)
  /\ Done(r)

-----------------------------------------------------------------------------
(***************************************************************************)
(* Templates, and the sessions that handlers start.                        *)
(***************************************************************************)

WriteTemplate(r) ==
  /\ At(r, "template")
  /\ \/ req[r].op = "createTemplate" /\ InsertTemplate(req[r].ws, req[r].template)
     \/ req[r].op = "deleteTemplate" /\ DeleteTemplate(req[r].ws, req[r].template)
  /\ Done(r)

\* proj.Workspace.ID is recorded with the session, whatever became of the workspace.
RecordSession(r) ==
  /\ At(r, "record")
  /\ InsertSession(req[r].ws)
  /\ Done(r)

-----------------------------------------------------------------------------
Ask(r) == AskProfile(r) \/ AskUpdate(r) \/ AskService(r) \/ AskBackup(r) \/ AskTemplate(r)

Handle(r) ==
  \/ CreateWorkspace(r) \/ PointAtNew(r) \/ OpenProject(r)
  \/ CheckName(r) \/ CreateProfile(r) \/ RemoveProfile(r) \/ ActivateProfile(r)
  \/ FindProfile(r) \/ ReadServices(r) \/ LookForLocal(r) \/ FindAgain(r) \/ Replace(r)
  \/ WriteTemplate(r) \/ RecordSession(r)

Next ==
  \/ \E r \in Request : Ask(r) \/ Handle(r) \/ Abandon(r)
  \/ \E w \in WsId : RenameWorkspace(w) \/ ActivateWorkspace(w) \/ RemoveWorkspace(w)

Spec == Init /\ [][Next]_vars

-----------------------------------------------------------------------------
(***************************************************************************)
(* Safety.                                                                 *)
(***************************************************************************)

\* A profile that has services keeps at least one as long as it exists, even when
\* several requests remove, replace and fork services at once: without one,
\* LoadProfile rejects the profile.
KeepsAService ==
  [][\A p \in ProfId : services[p] # {} /\ ProfExists(p)' => services'[p] # {}]_vars

\* A new workspace inherits nothing from a removed one: no session history names
\* its id, and no request that is in flight ends up working on it; nor does a
\* late write of services reach a profile created after its row was looked up.
NewIdsAreFresh ==
  [][/\ \A w \in WsId : ~WsExists(w) /\ WsExists(w)' =>
          w \notin sessions /\ \A r \in Request : req[r].ws # w
     /\ \A p \in ProfId : ~ProfExists(p) /\ ProfExists(p)' =>
          \A r \in Request : req[r].row # p]_vars

=============================================================================
