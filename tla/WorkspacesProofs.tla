---------------------------- MODULE WorkspacesProofs ----------------------------
(***************************************************************************)
(* Proofs about Workspaces, for any number of requests, names, services    *)
(* and ids.                                                                *)
(*                                                                         *)
(* The inductive invariant has two halves.  StoreInv is about the tables   *)
(* alone (WorkspaceStoreProofs); ReqInv is about what a request in flight  *)
(* may hold, whatever other requests did to the tables since it was read.  *)
(***************************************************************************)
EXTENDS Workspaces, WorkspaceStoreProofs, FiniteSetTheorems, TLAPS

EditsServices ==
  {"activateProfile", "addService", "updateService", "removeService", "fork", "forkLocal"}

\* What is true of a request between two of its statements, when the ids that
\* AUTOINCREMENT gives out next are nw and np.
ReqOK(q, nw, np) ==
  /\ q.ws < nw
  /\ q.row < np
  /\ q.at # "idle" => q.ws \in WsId
  /\ q.at = "open" => q.op \in Operations
  /\ q.at \in {"find", "read", "local"} => q.op \in EditsServices
  /\ q.at \in {"read", "replace"} => q.row \in ProfId
  /\ q.at \in {"exists", "insert", "local"} \/ q.op \in {"createProfile", "fork"} => q.name \in ProfileNames
  /\ q.at \in {"findAgain", "replace"} \/ q.op = "updateProfile" => q.svcs # {}

ReqInv ==
  /\ req \in [Request -> Req]
  /\ \A r \in Request : ReqOK(req[r], nextWs, nextProf)

IInv == StoreInv /\ ReqInv

-----------------------------------------------------------------------------
(***************************************************************************)
(* Requests: what one holds is true whatever the others do, because ids    *)
(* only grow.                                                              *)
(***************************************************************************)

LEMMA MoveKeeps ==
  ASSUME StoreInv, ReqInv, StoreTypeOK', IdsGrow,
         NEW r \in Request, NEW q \in Req, ReqOK(q, nextWs', nextProf'), Continue(r, q)
  PROVE  ReqInv'
<1>1. \A x \in Req : x.ws \in Int /\ x.row \in Int
  BY BoundsAssumption DEF Req, WsId, ProfId
<1>2. \A x \in Req : ReqOK(x, nextWs, nextProf) => ReqOK(x, nextWs', nextProf')
  BY <1>1, BoundsAssumption DEF ReqOK, IdsGrow, StoreInv, StoreTypeOK
<1> QED BY <1>2 DEF ReqInv, Continue

LEMMA IdleIsWellFormed == Idle \in Req /\ Idle.row = 0
<1>1. SomeId \in InstanceId
  <2>1. PICK t \in Types : TRUE
    BY SetsAssumption
  <2>2. <<t, 1>> \in InstanceId
    BY BoundsAssumption DEF InstanceId
  <2> QED BY <2>2 DEF SomeId
<1>2. SomeTemplate \in TemplateNames
  BY SetsAssumption DEF SomeTemplate
<1> QED BY <1>1, <1>2 DEF Idle, Req, Step, InstanceId

LEMMA EndKeeps ==
  ASSUME StoreInv, ReqInv, StoreTypeOK', IdsGrow, NEW r \in Request, Done(r)
  PROVE  ReqInv'
<1>1. ReqOK(Idle, nextWs', nextProf')
  BY BoundsAssumption DEF Idle, ReqOK, StoreTypeOK, Operations
<1> QED BY <1>1, IdleIsWellFormed, MoveKeeps DEF Done

LEMMA StayKeeps ==
  ASSUME StoreInv, ReqInv, StoreTypeOK', IdsGrow, UNCHANGED req
  PROVE  ReqInv'
<1>1. \A x \in Req : x.ws \in Int /\ x.row \in Int
  BY BoundsAssumption DEF Req, WsId, ProfId
<1>2. \A x \in Req : ReqOK(x, nextWs, nextProf) => ReqOK(x, nextWs', nextProf')
  BY <1>1, BoundsAssumption DEF ReqOK, IdsGrow, StoreInv, StoreTypeOK
<1> QED BY <1>2 DEF ReqInv

-----------------------------------------------------------------------------
(***************************************************************************)
(* The steps of a request.                                                 *)
(***************************************************************************)

\* Every way to ask is Asks, of a request that is well formed.
WellAsked(ask) ==
  /\ ask \in Req
  /\ ask.row = 0
  /\ ask.op \in {"createProfile", "fork"} => ask.name \in ProfileNames
  /\ ask.op = "updateProfile" => ask.svcs # {}

LEMMA AskIsAsks ==
  ASSUME NEW r \in Request, Ask(r)
  PROVE  \E ask : WellAsked(ask) /\ Asks(r, ask)
<1>1. CASE AskProfile(r)
  <2>1. PICK n \in ProfileNames, op \in {"createProfile", "deleteProfile", "activateProfile"} :
          Asks(r, [Idle EXCEPT !.op = op, !.name = n])
    BY <1>1 DEF AskProfile
  <2>2. WellAsked([Idle EXCEPT !.op = op, !.name = n])
    BY IdleIsWellFormed DEF WellAsked, Req, Operations
  <2> QED BY <2>1, <2>2
<1>2. CASE AskUpdate(r)
  <2>1. PICK n \in ProfileNames, svcs \in (SUBSET InstanceId) \ {{}} :
          Asks(r, [Idle EXCEPT !.op = "updateProfile", !.name = n, !.svcs = svcs])
    BY <1>2 DEF AskUpdate
  <2>2. WellAsked([Idle EXCEPT !.op = "updateProfile", !.name = n, !.svcs = svcs])
    BY IdleIsWellFormed DEF WellAsked, Req, Operations
  <2> QED BY <2>1, <2>2
<1>3. CASE AskService(r)
  <2>1. PICK n \in ProfileNames, i \in InstanceId,
             op \in {"addService", "updateService", "removeService", "fork"} :
          Asks(r, [Idle EXCEPT !.op = op, !.name = n, !.id = i])
    BY <1>3 DEF AskService
  <2>2. WellAsked([Idle EXCEPT !.op = op, !.name = n, !.id = i])
    BY IdleIsWellFormed DEF WellAsked, Req, Operations, InstanceId
  <2> QED BY <2>1, <2>2
<1>4. CASE AskBackup(r)
  <2>1. WellAsked([Idle EXCEPT !.op = "backup"])
    BY IdleIsWellFormed DEF WellAsked, Req, Operations
  <2> QED BY <1>4, <2>1 DEF AskBackup
<1>5. CASE AskTemplate(r)
  <2>1. PICK t \in TemplateNames, op \in {"createTemplate", "deleteTemplate"} :
          Asks(r, [Idle EXCEPT !.op = op, !.template = t])
    BY <1>5 DEF AskTemplate
  <2>2. WellAsked([Idle EXCEPT !.op = op, !.template = t])
    BY IdleIsWellFormed DEF WellAsked, Req, Operations
  <2> QED BY <2>1, <2>2
<1> QED BY <1>1, <1>2, <1>3, <1>4, <1>5 DEF Ask

\* The first statement: the active workspace exists, so its id has been given out.
LEMMA AsksKeeps ==
  ASSUME IInv, NEW r \in Request, NEW ask, WellAsked(ask), Asks(r, ask)
  PROVE  IInv'
<1>1. StoreInv' /\ IdsGrow
  BY ReadKeeps DEF IInv, Asks
<1> DEFINE q == [ask EXCEPT !.at = "open", !.ws = active]
<1>2. active \in WsId /\ active < nextWs
  BY DEF IInv, StoreInv, StoreTypeOK, ActiveWorkspaceExists, IdsBelowNext, Asks
<1>3. q \in Req
  BY <1>2 DEF WellAsked, Req, Step
<1>4. ask.op \in Operations
  BY OpAssumption DEF Asks
<1>5. ReqOK(q, nextWs', nextProf')
  <2>1. nextWs' = nextWs /\ nextProf' = nextProf /\ 0 < nextProf
    BY BoundsAssumption DEF Asks, storeVars, IInv, StoreInv, StoreTypeOK
  <2>2. /\ q.at = "open" /\ q.ws = active /\ q.op = ask.op /\ q.row = 0
        /\ q.name = ask.name /\ q.svcs = ask.svcs
    BY DEF WellAsked, Req
  <2> QED BY <1>2, <1>4, <2>1, <2>2 DEF ReqOK, WellAsked
<1>6. ReqInv'
  BY <1>1, <1>3, <1>5, MoveKeeps DEF Asks, IInv, StoreInv
<1> QED BY <1>1, <1>6 DEF IInv

\* Creation is two statements; the second may find the workspace gone, and then fails.
LEMMA CreatesKeep ==
  ASSUME IInv, NEW r \in Request, CreateWorkspace(r) \/ PointAtNew(r)
  PROVE  IInv'
<1>1. CASE CreateWorkspace(r)
  <2>1. PICK n \in WorkspaceNames : InsertWorkspace(n)
    BY <1>1 DEF CreateWorkspace
  <2>2. StoreInv' /\ IdsGrow
    BY <2>1, InsertWorkspaceKeeps DEF IInv
  <2> DEFINE q == [Idle EXCEPT !.op = "createWorkspace", !.at = "point", !.ws = NewWsId]
  <2>3. NewWsId \in WsId /\ nextWs' = NewWsId + 1
    BY <2>1, BoundsAssumption DEF InsertWorkspace, NewWsId, IInv, StoreInv, StoreTypeOK, WsId
  <2>4. q \in Req
    BY <2>3, IdleIsWellFormed DEF Req, Step
  <2>5. q.at = "point" /\ q.ws = NewWsId /\ q.op = "createWorkspace" /\ q.row = 0
    BY IdleIsWellFormed DEF Req
  <2>6. ReqOK(q, nextWs', nextProf')
    BY <2>2, <2>3, <2>5, BoundsAssumption DEF ReqOK, StoreInv, StoreTypeOK, WsId
  <2>7. ReqInv'
    BY <1>1, <2>2, <2>4, <2>6, MoveKeeps DEF CreateWorkspace, IInv, StoreInv
  <2> QED BY <2>2, <2>7 DEF IInv
<1>2. CASE PointAtNew(r)
  <2>1. req[r].ws \in WsId
    BY <1>2 DEF PointAtNew, At, IInv, ReqInv, ReqOK
  <2>2. StoreInv' /\ IdsGrow
    BY <1>2, <2>1, UpsertActiveKeeps DEF PointAtNew, IInv
  <2> QED BY <1>2, <2>2, EndKeeps DEF PointAtNew, IInv, StoreInv
<1> QED BY <1>1, <1>2

\* The requests about workspaces themselves hold nothing.
LEMMA WorkspaceRequestsKeep ==
  ASSUME IInv, NEW w \in WsId, RenameWorkspace(w) \/ ActivateWorkspace(w) \/ RemoveWorkspace(w)
  PROVE  IInv'
<1>1. StoreInv' /\ IdsGrow
  <2>1. CASE RenameWorkspace(w)
    <3>1. PICK n \in WorkspaceNames : UpdateWorkspaceName(w, n)
      BY <2>1 DEF RenameWorkspace
    <3>2. [workspaces[w] EXCEPT !.name = n] \in WorkspaceRow
      BY <3>1 DEF UpdateWorkspaceName, WsExists, IInv, StoreInv, StoreTypeOK, WorkspaceRow
    <3> QED BY <3>1, <3>2, UpdateWorkspaceKeeps DEF UpdateWorkspaceName, IInv
  <2>2. CASE ActivateWorkspace(w)
    BY <2>2, UpsertActiveKeeps DEF ActivateWorkspace, IInv
  <2>3. CASE RemoveWorkspace(w)
    BY <2>3, DeleteWorkspaceKeeps DEF RemoveWorkspace, IInv
  <2> QED BY <2>1, <2>2, <2>3
<1> QED BY <1>1, StayKeeps
        DEF RenameWorkspace, ActivateWorkspace, RemoveWorkspace, IInv, StoreInv

\* The last statement of a request, or none at all.
LEMMA WritesKeep ==
  ASSUME IInv, NEW r \in Request,
         \/ CreateProfile(r) \/ RemoveProfile(r) \/ ActivateProfile(r) \/ Replace(r)
         \/ WriteTemplate(r) \/ RecordSession(r) \/ Abandon(r)
  PROVE  IInv'
<1> DEFINE q == req[r]
<1>1. q \in Req /\ ReqOK(q, nextWs, nextProf)
  BY DEF IInv, ReqInv
<1>2. StoreInv' /\ IdsGrow
  <2>1. CASE CreateProfile(r)
    <3>1. q.ws \in WsId /\ q.name \in ProfileNames /\ q.svcs \in SUBSET InstanceId
      BY <1>1, <2>1 DEF CreateProfile, At, ReqOK, Req
    <3> QED BY <2>1, <3>1, InsertProfileKeeps DEF CreateProfile, IInv
  <2>2. CASE RemoveProfile(r)
    BY <2>2, DeleteProfileKeeps DEF RemoveProfile, IInv
  <2>3. CASE ActivateProfile(r)
    <3>1. q.ws \in WsId /\ WsExists(q.ws)
      BY <1>1, <2>3 DEF ActivateProfile, UpdateActiveProfile, At, ReqOK
    <3>2. [workspaces[q.ws] EXCEPT !.profile = q.name] \in WorkspaceRow
      BY <1>1, <3>1 DEF WsExists, IInv, StoreInv, StoreTypeOK, WorkspaceRow, Req
    <3> QED BY <2>3, <3>1, <3>2, UpdateWorkspaceKeeps
            DEF ActivateProfile, UpdateActiveProfile, IInv
  <2>4. CASE Replace(r)
    <3>1. q.row \in ProfId /\ q.svcs \in SUBSET InstanceId
      BY <1>1, <2>4 DEF Replace, At, ReqOK, Req
    <3> QED BY <2>4, <3>1, ReplaceServicesKeeps DEF Replace, IInv
  <2>5. CASE WriteTemplate(r)
    <3>1. q.ws \in WsId /\ q.template \in TemplateNames
      BY <1>1, <2>5 DEF WriteTemplate, At, ReqOK, Req
    <3> QED BY <2>5, <3>1, TemplatesKeep DEF WriteTemplate, IInv
  <2>6. CASE RecordSession(r)
    <3>1. q.ws \in WsId /\ q.ws < nextWs
      BY <1>1, <2>6 DEF RecordSession, At, ReqOK
    <3> QED BY <2>6, <3>1, InsertSessionKeeps DEF RecordSession, IInv
  <2>7. CASE Abandon(r)
    BY <2>7, ReadKeeps DEF Abandon, IInv
  <2> QED BY <2>1, <2>2, <2>3, <2>4, <2>5, <2>6, <2>7
<1>3. Done(r)
  BY DEF CreateProfile, RemoveProfile, ActivateProfile, Replace, WriteTemplate, RecordSession,
         Abandon
<1> QED BY <1>2, <1>3, EndKeeps DEF IInv, StoreInv

\* A request that reads and goes on.
LEMMA TurnKeeps ==
  ASSUME IInv, NEW r \in Request, NEW q \in Req, ReqOK(q, nextWs, nextProf),
         Continue(r, q), UNCHANGED storeVars
  PROVE  IInv'
<1>1. StoreInv' /\ IdsGrow
  BY ReadKeeps DEF IInv
<1>2. nextWs' = nextWs /\ nextProf' = nextProf
  BY DEF storeVars
<1>3. ReqInv'
  BY <1>1, <1>2, MoveKeeps DEF IInv, StoreInv
<1> QED BY <1>1, <1>3 DEF IInv

LEMMA OpenKeeps ==
  ASSUME IInv, NEW r \in Request, OpenProject(r)
  PROVE  IInv'
<1> DEFINE q == req[r]
           next == [q EXCEPT !.at = FirstStep(q.op)]
           row == [next EXCEPT !.seen = workspaces[q.ws].profile]
<1>1. q \in Req /\ ReqOK(q, nextWs, nextProf) /\ q.at = "open"
  BY DEF IInv, ReqInv, OpenProject, At
<1>2. q.ws \in WsId /\ q.op \in Operations
  BY <1>1 DEF ReqOK
<1>3. /\ FirstStep(q.op) \in Step \ {"idle", "open", "read", "replace", "insert", "local"}
      /\ FirstStep(q.op) = "exists" => q.op = "createProfile"
      /\ FirstStep(q.op) = "find" => q.op \in EditsServices
      /\ FirstStep(q.op) = "findAgain" => q.op = "updateProfile"
  BY <1>2 DEF FirstStep, Operations, Step, EditsServices
<1>4. next \in Req
  BY <1>1, <1>3 DEF Req
<1>5. ReqOK(next, nextWs, nextProf)
  <2>1. /\ next.at = FirstStep(q.op) /\ next.ws = q.ws /\ next.row = q.row
        /\ next.op = q.op /\ next.name = q.name /\ next.svcs = q.svcs
    BY <1>1 DEF Req
  <2> QED BY <1>1, <1>2, <1>3, <2>1 DEF ReqOK
<1>6. ASSUME next.at = "delete" PROVE row \in Req /\ ReqOK(row, nextWs, nextProf)
  <2>1. WsExists(q.ws)
    BY DEF OpenProject
  <2>2. workspaces[q.ws].profile \in ProfileNames \cup {NoProfile}
    BY <1>2, <2>1 DEF WsExists, IInv, StoreInv, StoreTypeOK, WorkspaceRow
  <2>3. row \in Req
    BY <1>4, <2>2 DEF Req
  <2>4. /\ row.at = next.at /\ row.ws = next.ws /\ row.row = next.row
        /\ row.op = next.op /\ row.name = next.name /\ row.svcs = next.svcs
    BY <1>4 DEF Req
  <2> QED BY <1>5, <2>3, <2>4 DEF ReqOK
<1>7. CASE next.at = "delete"
  <2>1. Continue(r, row)
    BY <1>7 DEF OpenProject
  <2> QED BY <1>6, <1>7, <2>1, TurnKeeps DEF OpenProject
<1>8. CASE next.at # "delete"
  <2>1. Continue(r, next)
    BY <1>8 DEF OpenProject
  <2> QED BY <1>4, <1>5, <2>1, TurnKeeps DEF OpenProject
<1> QED BY <1>7, <1>8

\* The lookups of a name and of a row.
LEMMA LookupsKeep ==
  ASSUME IInv, NEW r \in Request,
         CheckName(r) \/ FindProfile(r) \/ LookForLocal(r) \/ FindAgain(r)
  PROVE  IInv'
<1> DEFINE q == req[r]
<1>1. q \in Req /\ ReqOK(q, nextWs, nextProf)
  BY DEF IInv, ReqInv
<1>2. \A p \in ProfileRows(q.ws, q.name) : p \in ProfId /\ p < nextProf
  BY DEF ProfileRows, IInv, StoreInv, IdsBelowNext
<1>3. CASE CheckName(r)
  <2> DEFINE next == [q EXCEPT !.at = "insert"]
  <2>1. next \in Req
    BY <1>1 DEF Req, Step
  <2>2. /\ next.at = "insert" /\ next.ws = q.ws /\ next.row = q.row
        /\ next.op = q.op /\ next.name = q.name /\ next.svcs = q.svcs /\ q.at = "exists"
    BY <1>1, <1>3 DEF Req, CheckName, At
  <2>3. ReqOK(next, nextWs, nextProf)
    BY <1>1, <2>2 DEF ReqOK
  <2> QED BY <1>3, <2>1, <2>3, TurnKeeps DEF CheckName
<1>4. CASE FindProfile(r)
  <2>1. PICK p \in ProfileRows(q.ws, q.name) : Continue(r, [q EXCEPT !.row = p, !.at = "read"])
    BY <1>4 DEF FindProfile
  <2> DEFINE next == [q EXCEPT !.row = p, !.at = "read"]
  <2>2. next \in Req
    BY <1>1, <1>2, <2>1 DEF Req, Step
  <2>3. /\ next.at = "read" /\ next.ws = q.ws /\ next.row = p
        /\ next.op = q.op /\ next.name = q.name /\ next.svcs = q.svcs /\ q.at = "find"
    BY <1>1, <1>4 DEF Req, FindProfile, At
  <2>4. ReqOK(next, nextWs, nextProf)
    BY <1>1, <1>2, <2>1, <2>3 DEF ReqOK
  <2> QED BY <1>4, <2>1, <2>2, <2>4, TurnKeeps DEF FindProfile
<1>5. CASE FindAgain(r)
  <2>1. PICK p \in ProfileRows(q.ws, q.name) : Continue(r, [q EXCEPT !.row = p, !.at = "replace"])
    BY <1>5 DEF FindAgain
  <2> DEFINE next == [q EXCEPT !.row = p, !.at = "replace"]
  <2>2. next \in Req
    BY <1>1, <1>2, <2>1 DEF Req, Step
  <2>3. /\ next.at = "replace" /\ next.ws = q.ws /\ next.row = p
        /\ next.op = q.op /\ next.name = q.name /\ next.svcs = q.svcs /\ q.at = "findAgain"
    BY <1>1, <1>5 DEF Req, FindAgain, At
  <2>4. ReqOK(next, nextWs, nextProf)
    BY <1>1, <1>2, <2>1, <2>3 DEF ReqOK
  <2> QED BY <1>5, <2>1, <2>2, <2>4, TurnKeeps DEF FindAgain
<1>6. CASE LookForLocal(r)
  <2> DEFINE find == [q EXCEPT !.at = "find"]
             create == [q EXCEPT !.at = "insert", !.svcs = {q.id}]
  <2>1. find \in Req /\ create \in Req
    BY <1>1 DEF Req, Step, InstanceId
  <2>2. /\ find.at = "find" /\ find.ws = q.ws /\ find.row = q.row
        /\ find.op = q.op /\ find.name = q.name /\ find.svcs = q.svcs
        /\ create.at = "insert" /\ create.ws = q.ws /\ create.row = q.row
        /\ create.op = q.op /\ create.name = q.name /\ create.svcs = {q.id}
        /\ q.at = "local"
    BY <1>1, <1>6 DEF Req, LookForLocal, At
  <2>3. ReqOK(find, nextWs, nextProf) /\ ReqOK(create, nextWs, nextProf)
    BY <1>1, <2>2 DEF ReqOK
  <2>4. Continue(r, find) \/ Continue(r, create)
    BY <1>6 DEF LookForLocal
  <2> QED BY <1>6, <2>1, <2>3, <2>4, TurnKeeps DEF LookForLocal
<1> QED BY <1>3, <1>4, <1>5, <1>6

\* What an edit computes is never empty: removing asks for more than one service.
LEMMA EditedIsNotEmpty ==
  ASSUME NEW q \in Req, q.op \in EditsServices \ {"activateProfile", "fork"},
         NEW read \in SUBSET InstanceId, NEW svcs \in Edited(q, read)
  PROVE  svcs \in SUBSET InstanceId /\ svcs # {}
<1>1. q.id \in InstanceId
  BY DEF Req, InstanceId
<1>2. CASE q.op = "addService"
  BY <1>2 DEF Edited, NewInstance
<1>3. CASE q.op = "updateService"
  BY <1>3 DEF Edited
<1>4. CASE q.op = "removeService"
  <2>1. q.id \in read /\ Cardinality(read) > 1 /\ svcs = read \ {q.id}
    BY <1>4 DEF Edited, MayRemove
  <2>2. ASSUME svcs = {} PROVE FALSE
    <3>1. read = {q.id}
      BY <2>1, <2>2
    <3>2. Cardinality({q.id}) = 1
      BY FS_Singleton
    <3>3. Cardinality(read) = 1
      BY <3>1, <3>2
    <3> QED BY <2>1, <3>3
  <2> QED BY <2>1, <2>2
<1>5. CASE q.op = "forkLocal"
  BY <1>1, <1>5 DEF Edited
<1> QED BY <1>2, <1>3, <1>4, <1>5 DEF EditsServices

LEMMA ReadServicesKeeps ==
  ASSUME IInv, NEW r \in Request, ReadServices(r)
  PROVE  IInv'
<1> DEFINE q == req[r]
<1>1. q \in Req /\ ReqOK(q, nextWs, nextProf) /\ q.at = "read"
  BY DEF IInv, ReqInv, ReadServices, At
<1>2. q.op \in EditsServices /\ services[q.row] \in SUBSET InstanceId
  BY <1>1 DEF ReqOK, IInv, StoreInv, StoreTypeOK
<1>3. 0 < nextProf
  BY BoundsAssumption DEF IInv, StoreInv, StoreTypeOK
<1>4. ASSUME NEW next \in Req, Continue(r, next), next.row = 0, next.ws = q.ws,
             \/ next.at = "activate" /\ next.op = "activateProfile"
             \/ next.at = "local" /\ next.op = "forkLocal" /\ next.name = LocalProfile
             \/ next.at = "findAgain" /\ next.op = "replace" /\ next.svcs # {}
      PROVE  IInv'
  <2>1. ReqOK(next, nextWs, nextProf)
    BY <1>1, <1>3, <1>4, LocalAssumption DEF ReqOK, EditsServices
  <2> QED BY <1>4, <2>1, TurnKeeps DEF ReadServices
<1>5. CASE q.op = "activateProfile"
  <2> DEFINE next == [q EXCEPT !.row = 0, !.at = "activate"]
  <2>1. Continue(r, next)
    BY <1>5 DEF ReadServices
  <2>2. next \in Req
    BY <1>1 DEF Req, Step
  <2>3. next.row = 0 /\ next.ws = q.ws /\ next.at = "activate" /\ next.op = "activateProfile"
    BY <1>1, <1>5 DEF Req
  <2> QED BY <1>4, <2>1, <2>2, <2>3
<1>6. CASE q.op = "fork"
  <2> DEFINE next == [q EXCEPT !.op = "forkLocal", !.name = LocalProfile, !.row = 0, !.at = "local"]
  <2>1. Continue(r, next)
    BY <1>6 DEF ReadServices
  <2>2. next \in Req
    BY <1>1, LocalAssumption DEF Req, Step
  <2>3. /\ next.row = 0 /\ next.ws = q.ws /\ next.at = "local" /\ next.op = "forkLocal"
        /\ next.name = LocalProfile
    BY <1>1 DEF Req
  <2> QED BY <1>4, <2>1, <2>2, <2>3
<1>7. CASE q.op \notin {"activateProfile", "fork"}
  <2>1. PICK svcs \in Edited(q, services[q.row]) :
          Continue(r, [q EXCEPT !.op = "replace", !.id = SomeId, !.svcs = svcs, !.row = 0,
                                !.at = "findAgain"])
    BY <1>7 DEF ReadServices
  <2> DEFINE next == [q EXCEPT !.op = "replace", !.id = SomeId, !.svcs = svcs, !.row = 0,
                               !.at = "findAgain"]
  <2>2. svcs \in SUBSET InstanceId /\ svcs # {}
    BY <1>1, <1>2, <1>7, <2>1, EditedIsNotEmpty
  <2>3. SomeId \in Types \X (1 .. MaxSuffix)
    BY IdleIsWellFormed DEF Idle, Req
  <2>4. next \in Req
    BY <1>1, <2>2, <2>3 DEF Req, Step
  <2>5. /\ next.row = 0 /\ next.ws = q.ws /\ next.at = "findAgain" /\ next.op = "replace"
        /\ next.svcs = svcs
    BY <1>1 DEF Req
  <2> QED BY <1>4, <2>1, <2>2, <2>4, <2>5
<1> QED BY <1>5, <1>6, <1>7

-----------------------------------------------------------------------------
(***************************************************************************)
(* The theorems.                                                           *)
(***************************************************************************)

LEMMA InitIInv == Init => IInv
<1> SUFFICES ASSUME Init PROVE IInv
  OBVIOUS
<1>1. \A w \in WsId : ~WsExists(w)
  BY DEF Init, StoreInit, WsExists
<1>2. \A p \in ProfId : ~ProfExists(p) /\ services[p] = {}
  BY DEF Init, StoreInit, ProfExists
<1>3. StoreInv
  BY <1>1, <1>2, BoundsAssumption
     DEF Init, StoreInit, StoreInv, StoreTypeOK, ActiveWorkspaceExists, NoOrphans,
         NamesIdentify, IdsBelowNext, WsId, ProfId
<1>4. ReqOK(Idle, nextWs, nextProf)
  BY DEF Idle, ReqOK, Init, StoreInit, Operations
<1>5. ReqInv
  BY <1>4, IdleIsWellFormed DEF Init, ReqInv
<1> QED BY <1>3, <1>5 DEF IInv

LEMMA NextIInv == IInv /\ [Next]_vars => IInv'
<1> SUFFICES ASSUME IInv, [Next]_vars PROVE IInv'
  OBVIOUS
<1>1. ASSUME NEW r \in Request, Ask(r) PROVE IInv'
  BY <1>1, AskIsAsks, AsksKeeps
<1>2. ASSUME NEW r \in Request, Handle(r) PROVE IInv'
  BY <1>2, CreatesKeep, OpenKeeps, LookupsKeep, ReadServicesKeeps, WritesKeep DEF Handle
<1>3. ASSUME NEW r \in Request, Abandon(r) PROVE IInv'
  BY <1>3, WritesKeep
<1>4. ASSUME NEW w \in WsId, RenameWorkspace(w) \/ ActivateWorkspace(w) \/ RemoveWorkspace(w)
      PROVE  IInv'
  BY <1>4, WorkspaceRequestsKeep
<1>5. CASE UNCHANGED vars
  <2>1. StoreInv' /\ IdsGrow
    BY <1>5, ReadKeeps DEF vars, IInv
  <2> QED BY <1>5, <2>1, StayKeeps DEF vars, IInv, StoreInv
<1> QED BY <1>1, <1>2, <1>3, <1>4, <1>5 DEF Next

\* The tables and every request in flight stay consistent, for any number of requests.
THEOREM StoreInvariant == Spec => []IInv
BY InitIInv, NextIInv, PTL DEF Spec

\* The pointer never names a workspace that is gone (workspace.go, store.go).
THEOREM ActiveExists == Spec => []ActiveWorkspaceExists
<1>1. IInv => ActiveWorkspaceExists
  BY DEF IInv, StoreInv
<1> QED BY <1>1, StoreInvariant, PTL

\* No profile, template or service outlives its parent, however late a write arrives.
THEOREM NothingIsOrphaned == Spec => []NoOrphans
<1>1. IInv => NoOrphans
  BY DEF IInv, StoreInv
<1> QED BY <1>1, StoreInvariant, PTL

\* A profile name means one row per workspace.
THEOREM NamesAreUnique == Spec => []NamesIdentify
<1>1. IInv => NamesIdentify
  BY DEF IInv, StoreInv
<1> QED BY <1>1, StoreInvariant, PTL

\* A step that writes no table of services and adds no row.
Harmless ==
  /\ services' = services
  /\ \A w \in WsId : workspaces'[w] # Gone => WsExists(w)
  /\ \A p \in ProfId : profiles'[p] # Gone => ProfExists(p)

LEMMA Frame ==
  ASSUME IInv, [Next]_vars
  PROVE  \/ Harmless
         \/ \E w \in WsId : DeleteWorkspace(w)
         \/ \E n \in WorkspaceNames : InsertWorkspace(n)
         \/ \E r \in Request : CreateProfile(r) \/ RemoveProfile(r) \/ Replace(r)
<1>1. ASSUME UNCHANGED storeVars PROVE Harmless
  BY <1>1 DEF storeVars, Harmless, WsExists, ProfExists
<1>2. ASSUME UNCHANGED <<workspaces, profiles, services>> PROVE Harmless
  BY <1>2 DEF Harmless, WsExists, ProfExists
<1>3. ASSUME NEW w, NEW row, WsExists(w), UNCHANGED <<profiles, services>>,
             workspaces' = [workspaces EXCEPT ![w] = row]
      PROVE  Harmless
  BY <1>3 DEF Harmless, WsExists, ProfExists, IInv, StoreInv, StoreTypeOK
<1>4. ASSUME NEW r \in Request, Ask(r) PROVE Harmless
  BY <1>1, <1>4, AskIsAsks DEF Asks
<1>5. ASSUME NEW r \in Request, Handle(r),
             ~CreateWorkspace(r), ~CreateProfile(r), ~RemoveProfile(r), ~Replace(r)
      PROVE  Harmless
  <2>1. CASE PointAtNew(r)
    BY <1>2, <2>1 DEF PointAtNew, UpsertActive
  <2>2. CASE OpenProject(r) \/ CheckName(r) \/ FindProfile(r) \/ ReadServices(r)
             \/ LookForLocal(r) \/ FindAgain(r)
    BY <1>1, <2>2
       DEF OpenProject, CheckName, FindProfile, ReadServices, LookForLocal, FindAgain
  <2>3. CASE ActivateProfile(r)
    BY <1>3, <2>3 DEF ActivateProfile, UpdateActiveProfile
  <2>4. CASE WriteTemplate(r)
    BY <1>2, <2>4 DEF WriteTemplate, InsertTemplate, DeleteTemplate
  <2>5. CASE RecordSession(r)
    BY <1>2, <2>5 DEF RecordSession, InsertSession
  <2> QED BY <1>5, <2>1, <2>2, <2>3, <2>4, <2>5 DEF Handle
<1>6. ASSUME NEW r \in Request, Abandon(r) PROVE Harmless
  BY <1>1, <1>6 DEF Abandon
<1>7. ASSUME NEW w \in WsId, RenameWorkspace(w) \/ ActivateWorkspace(w) PROVE Harmless
  <2>1. CASE RenameWorkspace(w)
    BY <1>3, <2>1 DEF RenameWorkspace, UpdateWorkspaceName
  <2>2. CASE ActivateWorkspace(w)
    BY <1>2, <2>2 DEF ActivateWorkspace, UpsertActive
  <2> QED BY <1>7, <2>1, <2>2
<1>8. ASSUME NEW w \in WsId, RemoveWorkspace(w) PROVE DeleteWorkspace(w)
  BY <1>8 DEF RemoveWorkspace
<1>9. ASSUME NEW r \in Request, CreateWorkspace(r)
      PROVE  \E n \in WorkspaceNames : InsertWorkspace(n)
  BY <1>9 DEF CreateWorkspace
<1>10. CASE UNCHANGED vars
  BY <1>1, <1>10 DEF vars
<1> QED BY <1>4, <1>5, <1>6, <1>7, <1>8, <1>9, <1>10 DEF Next

\* A profile that has services never loses the last one while it exists.
THEOREM ServicesStay == Spec => KeepsAService
<1> DEFINE A == \A p \in ProfId : services[p] # {} /\ ProfExists(p)' => services'[p] # {}
<1>1. ASSUME IInv, [Next]_vars PROVE A
  <2>1. CASE Harmless
    BY <2>1 DEF Harmless
  <2>2. ASSUME NEW w \in WsId, DeleteWorkspace(w) PROVE A
    BY <1>1, <2>2 DEF DeleteWorkspace, ProfExists, IInv, StoreInv, StoreTypeOK
  <2>3. ASSUME NEW n \in WorkspaceNames, InsertWorkspace(n) PROVE A
    BY <2>3 DEF InsertWorkspace
  <2>4. ASSUME NEW r \in Request, CreateProfile(r) PROVE A
    <3>1. \A p \in ProfId : services[p] # {} => p # nextProf
      BY <1>1, BoundsAssumption DEF IInv, StoreInv, StoreTypeOK, NoOrphans, IdsBelowNext
    <3> QED BY <1>1, <2>4, <3>1
            DEF CreateProfile, InsertProfile, IInv, StoreInv, StoreTypeOK
  <2>5. ASSUME NEW r \in Request, RemoveProfile(r) PROVE A
    BY <1>1, <2>5 DEF RemoveProfile, DeleteProfile, ProfExists, IInv, StoreInv, StoreTypeOK
  <2>6. ASSUME NEW r \in Request, Replace(r) PROVE A
    <3>1. req[r].svcs # {}
      BY <1>1, <2>6 DEF Replace, At, IInv, ReqInv, ReqOK
    <3> QED BY <1>1, <2>6, <3>1 DEF Replace, ReplaceServices, IInv, StoreInv, StoreTypeOK
  <2> QED BY <1>1, <2>1, <2>2, <2>3, <2>4, <2>5, <2>6, Frame
<1>2. IInv /\ [Next]_vars => [A]_vars
  BY <1>1
<1> QED BY <1>2, StoreInvariant, PTL DEF Spec, KeepsAService

\* What is created starts without a past: no session and no request knows its id.
THEOREM IdsAreFresh == Spec => NewIdsAreFresh
<1> DEFINE A == /\ \A w \in WsId : ~WsExists(w) /\ WsExists(w)' =>
                     w \notin sessions /\ \A r \in Request : req[r].ws # w
                /\ \A p \in ProfId : ~ProfExists(p) /\ ProfExists(p)' =>
                     \A r \in Request : req[r].row # p
<1>1. ASSUME IInv, [Next]_vars PROVE A
  <2>1. /\ nextWs \notin sessions
        /\ \A r \in Request : req[r].ws # nextWs /\ req[r].row # nextProf
    <3>1. \A r \in Request : req[r].ws \in Int /\ req[r].row \in Int
      BY <1>1, BoundsAssumption DEF IInv, ReqInv, Req, WsId, ProfId
    <3> QED BY <1>1, <3>1, BoundsAssumption
            DEF IInv, ReqInv, ReqOK, StoreInv, StoreTypeOK, IdsBelowNext
  <2>2. \A w \in WsId : ~WsExists(w) /\ workspaces'[w] # Gone => w = nextWs
    <3>1. ASSUME NEW v \in WsId, DeleteWorkspace(v)
          PROVE  \A w \in WsId : workspaces'[w] # Gone => WsExists(w)
      BY <1>1, <3>1 DEF DeleteWorkspace, WsExists, IInv, StoreInv, StoreTypeOK
    <3>2. ASSUME NEW n \in WorkspaceNames, InsertWorkspace(n)
          PROVE  \A w \in WsId : workspaces'[w] # Gone => WsExists(w) \/ w = nextWs
      BY <1>1, <3>2 DEF InsertWorkspace, NewWsId, WsExists, IInv, StoreInv, StoreTypeOK
    <3>3. ASSUME NEW r \in Request, CreateProfile(r) \/ RemoveProfile(r) \/ Replace(r)
          PROVE  workspaces' = workspaces
      BY <3>3 DEF CreateProfile, InsertProfile, RemoveProfile, DeleteProfile, Replace,
                  ReplaceServices
    <3> QED BY <1>1, <3>1, <3>2, <3>3, Frame DEF Harmless, WsExists
  <2>3. \A p \in ProfId : ~ProfExists(p) /\ profiles'[p] # Gone => p = nextProf
    <3>1. ASSUME NEW v \in WsId, DeleteWorkspace(v)
          PROVE  \A p \in ProfId : profiles'[p] # Gone => ProfExists(p)
      BY <1>1, <3>1 DEF DeleteWorkspace, ProfExists, IInv, StoreInv, StoreTypeOK
    <3>2. ASSUME NEW n \in WorkspaceNames, InsertWorkspace(n) PROVE profiles' = profiles
      BY <3>2 DEF InsertWorkspace
    <3>3. ASSUME NEW r \in Request, CreateProfile(r)
          PROVE  \A p \in ProfId : profiles'[p] # Gone => ProfExists(p) \/ p = nextProf
      BY <1>1, <3>3 DEF CreateProfile, InsertProfile, ProfExists, IInv, StoreInv, StoreTypeOK
    <3>4. ASSUME NEW r \in Request, RemoveProfile(r)
          PROVE  \A p \in ProfId : profiles'[p] # Gone => ProfExists(p)
      BY <1>1, <3>4 DEF RemoveProfile, DeleteProfile, ProfExists, IInv, StoreInv, StoreTypeOK
    <3>5. ASSUME NEW r \in Request, Replace(r) PROVE profiles' = profiles
      BY <3>5 DEF Replace, ReplaceServices
    <3> QED BY <1>1, <3>1, <3>2, <3>3, <3>4, <3>5, Frame DEF Harmless, ProfExists
  <2> QED BY <2>1, <2>2, <2>3 DEF WsExists, ProfExists
<1>2. IInv /\ [Next]_vars => [A]_vars
  BY <1>1
<1> QED BY <1>2, StoreInvariant, PTL DEF Spec, NewIdsAreFresh

\* Every state is well typed.
THEOREM TypeCorrect == Spec => []TypeOK
<1>1. IInv => TypeOK
  BY DEF IInv, StoreInv, ReqInv, TypeOK
<1> QED BY <1>1, StoreInvariant, PTL
=============================================================================
