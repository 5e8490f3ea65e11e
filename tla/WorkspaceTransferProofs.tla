------------------------ MODULE WorkspaceTransferProofs -------------------------
(***************************************************************************)
(* Proofs about WorkspaceTransfer, for any number of imports, names,       *)
(* services and ids.                                                       *)
(*                                                                         *)
(* The invariant says of an export what it has collected and what is left, *)
(* of a file that it is what the workspace holds as long as nobody wrote   *)
(* to it, and of an import what its workspace holds and what is left to    *)
(* create.  Each of them is about one workspace, and a statement writes to *)
(* one: it keeps all that is known of the others (KeptOthers).             *)
(***************************************************************************)
EXTENDS WorkspaceTransfer, WorkspaceStoreProofs

\* What is true of a file that is still an export of f.of.
Fits(f) ==
  f.of # 0 =>
    /\ WsExists(f.of)
    /\ f.profiles = PairsOf(f.of)
    /\ f.profile = workspaces[f.of].profile

ExOK(e) ==
  e.at # "idle" =>
    /\ e.file \in File
    /\ e.ws \in WsId
    /\ e.at = "read" => e.row \in ProfId /\ e.name \in ProfileNames
    /\ e.file.of # 0 =>
         /\ e.file.of = e.ws
         /\ WsExists(e.ws)
         /\ e.file.profile = workspaces[e.ws].profile
         /\ e.file.profiles \subseteq PairsOf(e.ws)
         /\ e.at = "find" => \A x \in PairsOf(e.ws) : x \in e.file.profiles \/ x[1] \in e.left
         /\ e.at = "read" =>
              /\ profiles[e.row] = [ws |-> e.ws, name |-> e.name]
              /\ \A x \in PairsOf(e.ws) :
                   x \in e.file.profiles \/ x[1] \in e.left \/ x[1] = e.name

Creates(i) == i.at \in {"create", "point"}

ImOK(i) ==
  /\ i.at # "idle" => i.file \in File /\ Fits(i.file)
  /\ i.at = "insert" => i.name \in WorkspaceNames
  /\ Creates(i) => i.ws \in WsId /\ i.ws < nextWs
  /\ Creates(i) /\ i.alone => WsExists(i.ws)
  /\ i.at = "create" /\ i.alone =>
       /\ PairsOf(i.ws) \cup i.left = i.file.profiles
       /\ workspaces[i.ws].profile = NoProfile
  /\ i.at = "point" /\ i.alone =>
       /\ PairsOf(i.ws) = i.file.profiles
       /\ workspaces[i.ws].profile = i.file.profile

TransferTypes ==
  /\ edits \in 0 .. MaxEdits
  /\ ex \in Export
  /\ file \in File \cup {None}
  /\ im \in [Importer -> Import]

ImInv ==
  /\ \A r \in Importer : ImOK(im[r])
  /\ \A r, q \in Importer : r # q /\ Creates(im[r]) /\ Creates(im[q]) => im[r].ws # im[q].ws

IInv ==
  /\ StoreInv
  /\ WorkspaceNamesIdentify
  /\ TransferTypes
  /\ ExOK(ex)
  /\ file # None => Fits(file)
  /\ ImInv

-----------------------------------------------------------------------------
(***************************************************************************)
(* What a statement leaves alone.                                          *)
(***************************************************************************)

Owned(p, v) == profiles[p] # Gone /\ profiles[p].ws = v

\* The workspace v, its profiles and their services are as they were.
Kept(v) ==
  /\ workspaces'[v] # Gone
  /\ workspaces'[v].profile = workspaces[v].profile
  /\ \A p \in ProfId : Owned(p, v)' <=> Owned(p, v)
  /\ \A p \in ProfId : Owned(p, v) => profiles'[p] = profiles[p] /\ services'[p] = services[p]

KeptOthers(w) == \A v \in WsId : v # w /\ WsExists(v) => Kept(v)

LEMMA PairsOfMembers ==
  ASSUME NEW w
  PROVE  \A x : x \in PairsOf(w) <=>
           \E p \in ProfId : Owned(p, w) /\ x = <<profiles[p].name, services[p]>>
BY DEF PairsOf, Owned, ProfExists

LEMMA KeptPairs ==
  ASSUME NEW v, Kept(v)
  PROVE  PairsOf(v)' = PairsOf(v)
<1>1. \A x : x \in PairsOf(v)' <=>
        \E p \in ProfId : Owned(p, v)' /\ x = <<profiles'[p].name, services'[p]>>
  BY DEF PairsOf, Owned, ProfExists
<1>2. \A x : x \in PairsOf(v)' <=> x \in PairsOf(v)
  BY <1>1, PairsOfMembers DEF Kept
<1> QED BY <1>2

LEMMA NothingWritten ==
  ASSUME StoreInv, UNCHANGED storeVars
  PROVE  KeptOthers(0)
BY DEF storeVars, KeptOthers, Kept, Owned, WsExists

LEMMA InsertWorkspaceFrame ==
  ASSUME StoreInv, NEW n \in WorkspaceNames, InsertWorkspace(n)
  PROVE  KeptOthers(0)
<1>1. nextWs \in WsId /\ \A v \in WsId : WsExists(v) => v # nextWs
  BY BoundsAssumption DEF InsertWorkspace, NewWsId, StoreInv, StoreTypeOK, IdsBelowNext, WsId
<1>2. \A v \in WsId : WsExists(v) => workspaces'[v] = workspaces[v]
  BY <1>1 DEF InsertWorkspace, NewWsId, StoreInv, StoreTypeOK
<1> QED BY <1>2 DEF InsertWorkspace, KeptOthers, Kept, Owned, WsExists

LEMMA RenameFrame ==
  ASSUME StoreInv, NEW w \in WsId, NEW n \in WorkspaceNames, UpdateWorkspaceName(w, n)
  PROVE  KeptOthers(0)
<1>1. \A v \in WsId : WsExists(v) => workspaces'[v] # Gone /\ workspaces'[v].profile = workspaces[v].profile
  BY GoneAssumption DEF UpdateWorkspaceName, WsExists, StoreInv, StoreTypeOK, WorkspaceRow
<1> QED BY <1>1 DEF UpdateWorkspaceName, KeptOthers, Kept, Owned

LEMMA DeleteWorkspaceFrame ==
  ASSUME StoreInv, NEW w \in WsId, DeleteWorkspace(w)
  PROVE  KeptOthers(w)
<1>1. \A p \in ProfId, v \in WsId : v # w =>
        /\ Owned(p, v)' <=> Owned(p, v)
        /\ Owned(p, v) => profiles'[p] = profiles[p] /\ services'[p] = services[p]
  BY DEF DeleteWorkspace, Cascade, Owned, ProfExists, StoreInv, StoreTypeOK
<1> QED BY <1>1 DEF DeleteWorkspace, KeptOthers, Kept, WsExists, StoreInv, StoreTypeOK

LEMMA UpdateActiveProfileFrame ==
  ASSUME StoreInv, NEW w \in WsId, NEW n \in ProfileNames, UpdateActiveProfile(w, n)
  PROVE  KeptOthers(w)
BY DEF UpdateActiveProfile, KeptOthers, Kept, Owned, WsExists, StoreInv, StoreTypeOK

LEMMA InsertProfileFrame ==
  ASSUME StoreInv, NEW w \in WsId, NEW n \in ProfileNames, NEW svcs \in SUBSET InstanceId,
         InsertProfile(w, n, svcs)
  PROVE  /\ KeptOthers(w)
         /\ PairsOf(w)' = PairsOf(w) \cup {<<n, svcs>>}
<1>1. PICK k \in ProfId : k = nextProf /\ profiles[k] = Gone
  <2>1. nextProf \in ProfId /\ \A p \in ProfId : ProfExists(p) => p # nextProf
    BY BoundsAssumption DEF InsertProfile, StoreInv, StoreTypeOK, IdsBelowNext, ProfId
  <2> QED BY <2>1 DEF ProfExists
<1>2. profiles'[k] = [ws |-> w, name |-> n] /\ services'[k] = svcs
  BY <1>1 DEF InsertProfile, StoreInv, StoreTypeOK
<1>3. profiles'[k] # Gone
  BY <1>2, GoneAssumption DEF ProfileRow
<1>4. \A p \in ProfId : p # k => profiles'[p] = profiles[p] /\ services'[p] = services[p]
  BY <1>1 DEF InsertProfile, StoreInv, StoreTypeOK
<1>5. profiles[k] = Gone
  BY <1>1
<1>6. KeptOthers(w)
  <2>1. \A p \in ProfId, v \in WsId : v # w =>
        /\ Owned(p, v)' <=> Owned(p, v)
        /\ Owned(p, v) => profiles'[p] = profiles[p] /\ services'[p] = services[p]
    BY <1>2, <1>3, <1>4, <1>5 DEF Owned
  <2> QED BY <2>1 DEF InsertProfile, KeptOthers, Kept, WsExists
<1>7. \A x : x \in PairsOf(w)' <=> x \in PairsOf(w) \/ x = <<n, svcs>>
  <2>1. \A x : x \in PairsOf(w)' <=>
          \E p \in ProfId : Owned(p, w)' /\ x = <<profiles'[p].name, services'[p]>>
    BY DEF PairsOf, Owned, ProfExists
  <2>2. Owned(k, w)' /\ ~Owned(k, w) /\ profiles'[k].name = n
    BY <1>2, <1>3, <1>5 DEF Owned
  <2>3. \A p \in ProfId : p # k => (Owned(p, w)' <=> Owned(p, w))
    BY <1>4 DEF Owned
  <2> QED BY <2>1, <2>2, <2>3, <1>2, <1>4, PairsOfMembers
<1> QED BY <1>6, <1>7

LEMMA DeleteProfileFrame ==
  ASSUME StoreInv, NEW w \in WsId, NEW n \in ProfileNames, DeleteProfile(w, n)
  PROVE  KeptOthers(w)
<1>1. \A p \in ProfId, v \in WsId : v # w =>
        /\ Owned(p, v)' <=> Owned(p, v)
        /\ Owned(p, v) => profiles'[p] = profiles[p] /\ services'[p] = services[p]
  BY DEF DeleteProfile, ProfileRows, Owned, ProfExists, StoreInv, StoreTypeOK
<1> QED BY <1>1 DEF DeleteProfile, KeptOthers, Kept, WsExists

LEMMA ReplaceServicesFrame ==
  ASSUME StoreInv, NEW p \in ProfId, NEW svcs \in SUBSET InstanceId, ReplaceServices(p, svcs),
         NEW w \in WsId, profiles[p].ws = w
  PROVE  KeptOthers(w)
BY DEF ReplaceServices, KeptOthers, Kept, Owned, WsExists, StoreInv, StoreTypeOK

-----------------------------------------------------------------------------
(***************************************************************************)
(* What is known of exports, files and imports outlives a write to w: it   *)
(* is about another workspace, or the history variables give it up.        *)
(***************************************************************************)

LEMMA OutdatedFile ==
  ASSUME NEW w, NEW f \in File
  PROVE  /\ Outdated(f, w) \in File
         /\ Outdated(f, w).profiles = f.profiles
         /\ Outdated(f, w).profile = f.profile
         /\ Outdated(f, w).of \in {0, f.of}
         /\ Outdated(f, w).of # 0 => Outdated(f, w) = f /\ f.of # w
BY NoneAssumption DEF Outdated, File

LEMMA FitsStays ==
  ASSUME NEW w, KeptOthers(w), NEW f \in File, Fits(f)
  PROVE  Fits(Outdated(f, w))'
<1> DEFINE g == Outdated(f, w)
<1>1. ASSUME g.of # 0
      PROVE  /\ workspaces'[g.of] # Gone
             /\ g.profiles = PairsOf(g.of)'
             /\ g.profile = workspaces'[g.of].profile
  <2>1. g = f /\ f.of # w /\ f.of # 0 /\ f.of \in WsId
    BY <1>1, OutdatedFile DEF File
  <2>2. Kept(f.of)
    BY <2>1 DEF Fits, KeptOthers
  <2>3. PairsOf(f.of)' = PairsOf(f.of)
    BY <2>2, KeptPairs
  <2> HIDE DEF g
  <2> QED BY <2>1, <2>2, <2>3 DEF Fits, Kept
<1> QED BY <1>1 DEF Fits, WsExists

LEMMA ExStays ==
  ASSUME NEW w, KeptOthers(w), NEW e \in Export, ExOK(e)
  PROVE  ExOK([e EXCEPT !.file = Outdated(@, w)])'
<1> DEFINE d == [e EXCEPT !.file = Outdated(@, w)]
<1>1. d.at = e.at /\ d.ws = e.ws /\ d.row = e.row /\ d.name = e.name /\ d.left = e.left
      /\ d.file = Outdated(e.file, w)
  BY DEF Export
<1> HIDE DEF d
<1>2. ASSUME e.at # "idle"
      PROVE  /\ d.file \in File
             /\ d.file.of # 0 => d.file = e.file /\ e.file.of # w
  BY <1>1, <1>2, OutdatedFile DEF ExOK
<1>3. ASSUME e.at # "idle", d.file.of # 0
      PROVE  /\ d.file = e.file
             /\ Kept(e.ws)
             /\ PairsOf(e.ws)' = PairsOf(e.ws)
  <2>1. Kept(e.ws) /\ d.file = e.file
    BY <1>2, <1>3 DEF ExOK, KeptOthers
  <2> QED BY <2>1, KeptPairs
<1>4. ASSUME e.at # "idle", d.file.of # 0, e.at = "read"
      PROVE  profiles'[e.row] = [ws |-> e.ws, name |-> e.name]
  <2>1. e.row \in ProfId /\ profiles[e.row] = [ws |-> e.ws, name |-> e.name]
        /\ e.ws \in WsId /\ e.name \in ProfileNames
    BY <1>3, <1>4 DEF ExOK
  <2>2. Owned(e.row, e.ws)
    BY <2>1, GoneAssumption DEF Owned, ProfileRow
  <2> QED BY <1>3, <1>4, <2>1, <2>2 DEF Kept
<1>5. ASSUME e.at # "idle", d.file.of # 0
      PROVE  /\ d.file.of = d.ws
             /\ workspaces'[d.ws] # Gone
             /\ d.file.profile = workspaces'[d.ws].profile
             /\ d.file.profiles \subseteq PairsOf(d.ws)'
             /\ d.at = "find" => \A x \in PairsOf(d.ws)' : x \in d.file.profiles \/ x[1] \in d.left
             /\ d.at = "read" =>
                  /\ profiles'[d.row] = [ws |-> d.ws, name |-> d.name]
                  /\ \A x \in PairsOf(d.ws)' :
                       x \in d.file.profiles \/ x[1] \in d.left \/ x[1] = d.name
  BY <1>1, <1>3, <1>4, <1>5 DEF ExOK, Kept
<1>6. d.at # "idle" =>
        d.ws \in WsId /\ (d.at = "read" => d.row \in ProfId /\ d.name \in ProfileNames)
  BY <1>1 DEF ExOK
<1>7. ExOK(d)'
  BY <1>1, <1>2, <1>5, <1>6 DEF ExOK, WsExists
<1> QED BY <1>7 DEF d

LEMMA ImStays ==
  ASSUME NEW w, KeptOthers(w), nextWs \in Int, nextWs' \in Int, nextWs' >= nextWs,
         NEW i \in Import, ImOK(i), NEW j \in Import,
         j.at = i.at, j.ws = i.ws, j.left = i.left, j.name = i.name,
         j.file = Outdated(i.file, w),
         Creates(i) /\ j.alone => i.alone /\ i.ws # w
  PROVE  ImOK(j)'
<1>1. ASSUME i.at # "idle"
      PROVE  /\ j.file \in File
             /\ Fits(j.file)'
             /\ j.file.profiles = i.file.profiles
             /\ j.file.profile = i.file.profile
  BY <1>1, OutdatedFile, FitsStays DEF ImOK
<1>2. Creates(i) => i.ws \in WsId /\ i.ws < nextWs'
  BY BoundsAssumption DEF ImOK, WsId
<1>3. ASSUME Creates(i), j.alone
      PROVE  /\ workspaces'[i.ws] # Gone
             /\ workspaces'[i.ws].profile = workspaces[i.ws].profile
             /\ PairsOf(i.ws)' = PairsOf(i.ws)
  <2>1. Kept(i.ws)
    BY <1>3 DEF ImOK, KeptOthers
  <2> QED BY <2>1, KeptPairs DEF Kept
<1> QED BY <1>1, <1>2, <1>3 DEF ImOK, Creates, WsExists

\* The export and the file after a write to w.
LEMMA RecordsStay ==
  ASSUME IInv, NEW w, KeptOthers(w), NEW next, Written(w, next)
  PROVE  /\ ex' \in Export /\ ExOK(ex)'
         /\ file' \in File \cup {None} /\ (file # None => Fits(file))'
<1>1. ex' \in Export /\ ExOK(ex)'
  <2>1. PICK e \in Export : e = ex
    BY DEF IInv, TransferTypes
  <2>2. ex' = [e EXCEPT !.file = Outdated(@, w)]
    BY <2>1 DEF Written
  <2>3. ExOK([e EXCEPT !.file = Outdated(@, w)])'
    BY <2>1, ExStays DEF IInv
  <2>4. [e EXCEPT !.file = Outdated(@, w)] \in Export
    <3>1. Outdated(e.file, w) \in File \cup {None}
      BY OutdatedFile DEF Export, Outdated
    <3> QED BY <3>1 DEF Export
  <2> QED BY <2>2, <2>3, <2>4
<1>2. file' \in File \cup {None} /\ (file # None => Fits(file))'
  <2>1. PICK f \in File \cup {None} : f = file
    BY DEF IInv, TransferTypes
  <2>2. CASE f = None
    BY <2>1, <2>2 DEF Written, Outdated
  <2>3. CASE f \in File
    <3>1. file' = Outdated(f, w) /\ Outdated(f, w) \in File
      BY <2>1, <2>3, OutdatedFile DEF Written
    <3>2. Fits(f)
      BY <2>1, <2>3, NoneAssumption DEF IInv
    <3>3. Fits(Outdated(f, w))'
      BY <2>3, <3>2, FitsStays
    <3> QED BY <3>1, <3>3
  <2> QED BY <2>1, <2>2, <2>3
<1> QED BY <1>1, <1>2

\* next differs from i at most in its history.
Alike(next, i) == next.at = i.at /\ next.ws = i.ws /\ next.left = i.left /\ next.name = i.name

\* An import after a write to w that was not its own.
LEMMA ImportStays ==
  ASSUME IInv, NEW w, KeptOthers(w), StoreInv', IdsGrow, NEW next \in [Importer -> Import],
         Written(w, next), NEW q \in Importer,
         Alike(next[q], im[q]), next[q].file = im[q].file,
         Creates(im[q]) /\ next[q].alone => im[q].alone /\ im[q].ws # w
  PROVE  im'[q] \in Import /\ ImOK(im[q])' /\ Alike(im'[q], im[q])
<1>1. PICK i \in Import : i = im[q] /\ ImOK(i)
  BY DEF IInv, TransferTypes, ImInv
<1>2. PICK j \in Import : j = [next[q] EXCEPT !.file = Outdated(@, w)]
  <2>1. next[q] \in Import
    OBVIOUS
  <2>2. Outdated(next[q].file, w) \in File \cup {None}
    BY <2>1, OutdatedFile DEF Import, Outdated
  <2>3. [next[q] EXCEPT !.file = Outdated(@, w)] \in Import
    BY <2>1, <2>2 DEF Import
  <2> QED BY <2>3
<1>3. im'[q] = j
  BY <1>2 DEF Written
<1>4. j.at = i.at /\ j.ws = i.ws /\ j.left = i.left /\ j.name = i.name
      /\ j.file = Outdated(i.file, w) /\ j.alone = next[q].alone
  BY <1>1, <1>2 DEF Alike, Import
<1>5. nextWs \in Int /\ nextWs' \in Int /\ nextWs' >= nextWs
  BY BoundsAssumption DEF IInv, StoreInv, StoreTypeOK, IdsGrow
<1>6. Creates(i) /\ j.alone => i.alone /\ i.ws # w
  BY <1>1, <1>4
<1>7. ImOK(j)'
  BY <1>1, <1>4, <1>5, <1>6, ImStays
<1> QED BY <1>1, <1>3, <1>4, <1>7 DEF Alike

-----------------------------------------------------------------------------
(***************************************************************************)
(* The steps.                                                              *)
(***************************************************************************)

\* The columns of workspaces that an UPDATE can change.
LEMMA UpdatesKeep ==
  ASSUME StoreInv, NEW w \in WsId,
         \/ \E n \in WorkspaceNames : UpdateWorkspaceName(w, n)
         \/ \E n \in ProfileNames : UpdateActiveProfile(w, n)
  PROVE  StoreInv' /\ IdsGrow
<1>1. ASSUME NEW n \in WorkspaceNames, UpdateWorkspaceName(w, n) PROVE StoreInv' /\ IdsGrow
  <2>1. [workspaces[w] EXCEPT !.name = n] \in WorkspaceRow
    BY <1>1 DEF UpdateWorkspaceName, WsExists, StoreInv, StoreTypeOK, WorkspaceRow
  <2>2. workspaces' = [workspaces EXCEPT ![w] = [workspaces[w] EXCEPT !.name = n]]
    BY <1>1 DEF UpdateWorkspaceName, StoreInv, StoreTypeOK
  <2> QED BY <1>1, <2>1, <2>2, UpdateWorkspaceKeeps DEF UpdateWorkspaceName
<1>2. ASSUME NEW n \in ProfileNames, UpdateActiveProfile(w, n) PROVE StoreInv' /\ IdsGrow
  <2>1. [workspaces[w] EXCEPT !.profile = n] \in WorkspaceRow
    BY <1>2 DEF UpdateActiveProfile, WsExists, StoreInv, StoreTypeOK, WorkspaceRow
  <2>2. workspaces' = [workspaces EXCEPT ![w] = [workspaces[w] EXCEPT !.profile = n]]
    BY <1>2 DEF UpdateActiveProfile, StoreInv, StoreTypeOK
  <2> QED BY <1>2, <2>1, <2>2, UpdateWorkspaceKeeps DEF UpdateActiveProfile
<1> QED BY <1>1, <1>2

\* The UNIQUE constraint, statement by statement.
LEMMA WorkspaceNamesKeep ==
  ASSUME StoreInv, WorkspaceNamesIdentify,
         \/ \E n \in WorkspaceNames : InsertWorkspace(n)
         \/ \E w \in WsId : \/ \E n \in WorkspaceNames : UpdateWorkspaceName(w, n)
                            \/ \E n \in ProfileNames : UpdateActiveProfile(w, n)
                            \/ DeleteWorkspace(w)
         \/ UNCHANGED workspaces
  PROVE  WorkspaceNamesIdentify'
<1>1. ASSUME NEW n \in WorkspaceNames, InsertWorkspace(n) PROVE WorkspaceNamesIdentify'
  BY <1>1 DEF InsertWorkspace, NewWsId, MayInsert, NameTaken, WorkspaceNamesIdentify, WsExists,
              StoreInv, StoreTypeOK
<1>2. ASSUME NEW w \in WsId, NEW n \in WorkspaceNames, UpdateWorkspaceName(w, n)
      PROVE  WorkspaceNamesIdentify'
  <2>1. \A v \in WsId : workspaces'[v] # Gone => WsExists(v)
    BY <1>2 DEF UpdateWorkspaceName, WsExists, StoreInv, StoreTypeOK
  <2>2. workspaces'[w].name = n
    BY <1>2 DEF UpdateWorkspaceName, WsExists, StoreInv, StoreTypeOK, WorkspaceRow
  <2> QED BY <1>2, <2>1, <2>2 DEF UpdateWorkspaceName, WorkspaceNamesIdentify, WsExists, StoreInv, StoreTypeOK
<1>3. ASSUME NEW w \in WsId, NEW n \in ProfileNames, UpdateActiveProfile(w, n)
      PROVE  WorkspaceNamesIdentify'
  <2>1. \A v \in WsId : workspaces'[v] # Gone =>
          WsExists(v) /\ workspaces'[v].name = workspaces[v].name
    BY <1>3 DEF UpdateActiveProfile, WsExists, StoreInv, StoreTypeOK, WorkspaceRow
  <2> QED BY <2>1 DEF WorkspaceNamesIdentify, WsExists
<1>4. ASSUME NEW w \in WsId, DeleteWorkspace(w) PROVE WorkspaceNamesIdentify'
  BY <1>4 DEF DeleteWorkspace, WorkspaceNamesIdentify, WsExists, StoreInv, StoreTypeOK
<1>5. ASSUME UNCHANGED workspaces PROVE WorkspaceNamesIdentify'
  BY <1>5 DEF WorkspaceNamesIdentify, WsExists
<1> QED BY <1>1, <1>2, <1>3, <1>4, <1>5

\* An export or a file that is kept, when no workspace that exists is written to.
LEMMA FileIdle ==
  ASSUME KeptOthers(0), NEW f \in File, Fits(f)
  PROVE  Fits(f)'
<1>1. Outdated(f, 0) = f
  BY DEF Outdated, File
<1> QED BY <1>1, FitsStays

LEMMA ExportIdle ==
  ASSUME KeptOthers(0), NEW e \in Export, ExOK(e)
  PROVE  ExOK(e)'
<1>1. [e EXCEPT !.file = Outdated(@, 0)] = e
  <2>1. Outdated(e.file, 0) = e.file
    BY NoneAssumption DEF Export, Outdated, File
  <2> QED BY <2>1 DEF Export
<1> QED BY <1>1, ExStays

LEMMA RecordsIdle ==
  ASSUME IInv, KeptOthers(0)
  PROVE  /\ UNCHANGED ex => ExOK(ex)'
         /\ UNCHANGED file => (file # None => Fits(file))'
<1>1. ASSUME UNCHANGED ex PROVE ExOK(ex)'
  <2>1. PICK e \in Export : e = ex /\ e = ex' /\ ExOK(e)
    BY <1>1 DEF IInv, TransferTypes
  <2> QED BY <2>1, ExportIdle
<1>2. ASSUME UNCHANGED file, file # None PROVE Fits(file)'
  <2>1. PICK f \in File : f = file /\ f = file' /\ Fits(f)
    BY <1>2 DEF IInv, TransferTypes
  <2> QED BY <2>1, FileIdle
<1> QED BY <1>1, <1>2

\* What a step owes when it leaves the imports alone and does not write to their workspaces.
LEMMA ImportsIdle ==
  ASSUME IInv, KeptOthers(0), StoreInv', IdsGrow, UNCHANGED im
  PROVE  im' \in [Importer -> Import] /\ ImInv'
<1>1. \A r \in Importer : ImOK(im[r])'
  <2>1. SUFFICES ASSUME NEW r \in Importer PROVE ImOK(im[r])'
    OBVIOUS
  <2>2. PICK i \in Import : i = im[r] /\ im'[r] = i /\ ImOK(i)
    BY DEF IInv, TransferTypes, ImInv
  <2>3. Outdated(i.file, 0) = i.file
    BY NoneAssumption DEF Import, Outdated, File
  <2>4. nextWs \in Int /\ nextWs' \in Int /\ nextWs' >= nextWs
    BY BoundsAssumption DEF IInv, StoreInv, StoreTypeOK, IdsGrow
  <2>5. Creates(i) => i.alone \in BOOLEAN /\ i.ws # 0
    BY <2>2, BoundsAssumption DEF Import, ImOK, WsId
  <2>6. ImOK(i)'
    BY <2>2, <2>3, <2>4, <2>5, ImStays
  <2> QED BY <2>2, <2>6
<1> QED BY <1>1 DEF IInv, TransferTypes, ImInv

LEMMA OthersEditKeeps ==
  ASSUME IInv, NEW w \in WsId, OthersEdit(w)
  PROVE  IInv'
<1> DEFINE next == [r \in Importer |-> [im[r] EXCEPT !.alone = @ /\ im[r].ws # w]]
<1>1. StoreInv' /\ IdsGrow /\ KeptOthers(w) /\ WorkspaceNamesIdentify'
  <2>1. CASE DeleteWorkspace(w)
    BY <2>1, DeleteWorkspaceKeeps, DeleteWorkspaceFrame, WorkspaceNamesKeep DEF IInv
  <2>2. ASSUME NEW n \in ProfileNames, UpdateActiveProfile(w, n)
        PROVE  StoreInv' /\ IdsGrow /\ KeptOthers(w) /\ WorkspaceNamesIdentify'
    BY <2>2, UpdatesKeep, UpdateActiveProfileFrame, WorkspaceNamesKeep DEF IInv
  <2>3. ASSUME NEW n \in ProfileNames, NEW svcs \in SUBSET InstanceId, InsertProfile(w, n, svcs)
        PROVE  StoreInv' /\ IdsGrow /\ KeptOthers(w) /\ WorkspaceNamesIdentify'
    <3>1. UNCHANGED workspaces
      BY <2>3 DEF InsertProfile
    <3> QED BY <2>3, <3>1, InsertProfileKeeps, InsertProfileFrame, WorkspaceNamesKeep DEF IInv
  <2>4. ASSUME NEW n \in ProfileNames, DeleteProfile(w, n)
        PROVE  StoreInv' /\ IdsGrow /\ KeptOthers(w) /\ WorkspaceNamesIdentify'
    <3>1. UNCHANGED workspaces
      BY <2>4 DEF DeleteProfile
    <3> QED BY <2>4, <3>1, DeleteProfileKeeps, DeleteProfileFrame, WorkspaceNamesKeep DEF IInv
  <2>5. ASSUME NEW p \in ProfId, NEW svcs \in SUBSET InstanceId, profiles[p].ws = w,
               ReplaceServices(p, svcs)
        PROVE  StoreInv' /\ IdsGrow /\ KeptOthers(w) /\ WorkspaceNamesIdentify'
    <3>1. UNCHANGED workspaces
      BY <2>5 DEF ReplaceServices
    <3> QED BY <2>5, <3>1, ReplaceServicesKeeps, ReplaceServicesFrame, WorkspaceNamesKeep DEF IInv
  <2> QED BY <2>1, <2>2, <2>3, <2>4, <2>5 DEF OthersEdit
<1>2. Written(w, next) /\ edits' \in 0 .. MaxEdits
  BY EditsAssumption DEF OthersEdit, IInv, TransferTypes
<1>3. next \in [Importer -> Import]
  BY DEF IInv, TransferTypes, Import
<1>4. ASSUME NEW q \in Importer
      PROVE  im'[q] \in Import /\ ImOK(im[q])' /\ Alike(im'[q], im[q])
  <2>1. im[q] \in Import
    BY DEF IInv, TransferTypes
  <2>2. next[q] = [im[q] EXCEPT !.alone = @ /\ im[q].ws # w]
    OBVIOUS
  <2>3. Alike(next[q], im[q]) /\ next[q].file = im[q].file
        /\ next[q].alone = (im[q].alone /\ im[q].ws # w)
    BY <2>1, <2>2 DEF Alike, Import
  <2> HIDE DEF next
  <2> QED BY <1>1, <1>2, <1>3, <2>3, ImportStays
<1>5. im' \in [Importer -> Import] /\ ImInv'
  <2>1. im' \in [Importer -> Import]
    <3>1. im' = [r \in Importer |-> im'[r]]
      BY <1>2 DEF Written
    <3> QED BY <3>1, <1>4
  <2> QED BY <1>4, <2>1 DEF IInv, ImInv, Creates, Alike
<1> HIDE DEF next
<1>6. /\ ex' \in Export /\ ExOK(ex)'
      /\ file' \in File \cup {None} /\ (file # None => Fits(file))'
  BY <1>1, <1>2, RecordsStay
<1> QED BY <1>1, <1>2, <1>5, <1>6 DEF IInv, TransferTypes

LEMMA OthersNameKeeps ==
  ASSUME IInv, OthersName
  PROVE  IInv'
<1>1. StoreInv' /\ IdsGrow /\ KeptOthers(0) /\ WorkspaceNamesIdentify'
  <2>1. ASSUME NEW n \in WorkspaceNames, InsertWorkspace(n)
        PROVE  StoreInv' /\ IdsGrow /\ KeptOthers(0) /\ WorkspaceNamesIdentify'
    BY <2>1, InsertWorkspaceKeeps, InsertWorkspaceFrame, WorkspaceNamesKeep DEF IInv
  <2>2. ASSUME NEW w \in WsId, NEW n \in WorkspaceNames, UpdateWorkspaceName(w, n)
        PROVE  StoreInv' /\ IdsGrow /\ KeptOthers(0) /\ WorkspaceNamesIdentify'
    BY <2>2, UpdatesKeep, RenameFrame, WorkspaceNamesKeep DEF IInv
  <2> QED BY <2>1, <2>2 DEF OthersName
<1>2. edits' \in 0 .. MaxEdits /\ UNCHANGED <<ex, file, im>>
  BY EditsAssumption DEF OthersName, IInv, TransferTypes
<1>3. im' \in [Importer -> Import] /\ ImInv'
  BY <1>1, <1>2, ImportsIdle
<1>4. ExOK(ex)' /\ (file # None => Fits(file))'
  BY <1>1, <1>2, RecordsIdle
<1> QED BY <1>1, <1>2, <1>3, <1>4 DEF IInv, TransferTypes

-----------------------------------------------------------------------------
(***************************************************************************)
(* The steps of an export only read.                                       *)
(***************************************************************************)

LEMMA ExportStep ==
  ASSUME IInv, UNCHANGED <<storeVars, edits, im>>,
         NEW e \in Export, ExOK(e), ex' = e,
         NEW f \in File \cup {None}, f # None => Fits(f), file' = f
  PROVE  IInv'
<1>1. StoreInv' /\ IdsGrow /\ KeptOthers(0) /\ WorkspaceNamesIdentify'
  <2>1. UNCHANGED workspaces
    BY DEF storeVars
  <2> QED BY <2>1, ReadKeeps, NothingWritten, WorkspaceNamesKeep DEF IInv
<1>2. im' \in [Importer -> Import] /\ ImInv'
  BY <1>1, ImportsIdle
<1>3. ExOK(e)' /\ (f # None => Fits(f)')
  BY <1>1, ExportIdle, FileIdle
<1>4. ExOK(ex)' /\ (file # None => Fits(file))'
  BY <1>3
<1> QED BY <1>1, <1>2, <1>4 DEF IInv, TransferTypes

\* A step of the export in flight that hands nothing out.
LEMMA ExportGoesOn ==
  ASSUME IInv, UNCHANGED <<storeVars, edits, file, im>>, NEW e \in Export, ExOK(e), ex' = e
  PROVE  IInv'
<1>1. PICK f \in File \cup {None} : f = file /\ file' = f /\ (f # None => Fits(f))
  BY DEF IInv, TransferTypes
<1> QED BY <1>1, ExportStep

LEMMA NoExportOK == NoExport \in Export /\ ExOK(NoExport)
BY DEF NoExport, Export, ExOK

LEMMA ExportsKeep ==
  ASSUME IInv, Exports
  PROVE  IInv'
<1>0. PICK e \in Export : e = ex /\ ExOK(e)
  BY DEF IInv, TransferTypes
<1> USE DEF WsExists
<1>1. ASSUME NEW w \in WsId, ExportOpen(w) PROVE IInv'
  <2> DEFINE f == [name |-> workspaces[w].name, profile |-> workspaces[w].profile,
                   profiles |-> {}, of |-> w]
             d == [NoExport EXCEPT !.at = "list", !.ws = w, !.file = f]
  <2>1. workspaces[w] \in WorkspaceRow
    BY <1>1 DEF ExportOpen, IInv, StoreInv, StoreTypeOK
  <2>2. f \in File /\ f.of = w /\ f.profiles = {} /\ f.profile = workspaces[w].profile
    BY <2>1 DEF File, WorkspaceRow
  <2> HIDE DEF f
  <2>3. /\ d.at = "list" /\ d.ws = w /\ d.file = f /\ d \in Export
    BY <2>2 DEF NoExport, Export
  <2>4. ex' = d /\ UNCHANGED <<storeVars, edits, file, im>>
    BY <1>1 DEF ExportOpen, f
  <2>5. workspaces[w] # Gone
    BY <1>1 DEF ExportOpen
  <2> HIDE DEF d
  <2>6. ExOK(d)
    BY <2>2, <2>3, <2>5 DEF ExOK
  <2> QED BY <2>3, <2>4, <2>6, ExportGoesOn
<1>2. ASSUME ExportList PROVE IInv'
  <2> DEFINE d == [e EXCEPT !.at = "find", !.left = ProfileNamesOf(e.ws)]
  <2>1. ex' = d /\ UNCHANGED <<storeVars, edits, file, im>> /\ e.at = "list"
    BY <1>0, <1>2 DEF ExportList
  <2>2. ProfileNamesOf(e.ws) \in SUBSET ProfileNames
    BY DEF ProfileNamesOf
  <2>3. /\ d.at = "find" /\ d.ws = e.ws /\ d.file = e.file /\ d.left = ProfileNamesOf(e.ws)
        /\ d \in Export
    BY <2>2 DEF Export
  <2>4. \A x \in PairsOf(e.ws) : x[1] \in ProfileNamesOf(e.ws)
    BY DEF PairsOf, ProfileNamesOf, ProfileRows, ProfExists, IInv, StoreInv, StoreTypeOK, ProfileRow
  <2> HIDE DEF d
  <2>5. ExOK(d)
    BY <1>0, <2>1, <2>3, <2>4 DEF ExOK
  <2> QED BY <2>1, <2>3, <2>5, ExportGoesOn
<1>3. ASSUME ExportFind PROVE IInv'
  <2>1. PICK n \in e.left : \E p \in ProfileRows(e.ws, n) :
          ex' = [e EXCEPT !.at = "read", !.row = p, !.left = @ \ {n}, !.name = n]
    BY <1>0, <1>3 DEF ExportFind
  <2>2. PICK p \in ProfileRows(e.ws, n) :
          ex' = [e EXCEPT !.at = "read", !.row = p, !.left = @ \ {n}, !.name = n]
    BY <2>1
  <2> DEFINE d == [e EXCEPT !.at = "read", !.row = p, !.left = @ \ {n}, !.name = n]
  <2>3. UNCHANGED <<storeVars, edits, file, im>> /\ e.at = "find"
    BY <1>0, <1>3 DEF ExportFind
  <2>4. n \in ProfileNames /\ p \in ProfId
    BY DEF Export, ProfileRows
  <2>5. /\ d.at = "read" /\ d.ws = e.ws /\ d.file = e.file /\ d.left = e.left \ {n}
        /\ d.row = p /\ d.name = n /\ d \in Export
    BY <2>4 DEF Export
  <2>6. profiles[p] = [ws |-> e.ws, name |-> n]
    BY <2>4 DEF ProfileRows, ProfExists, IInv, StoreInv, StoreTypeOK, ProfileRow
  <2> HIDE DEF d
  <2>7. ExOK(d)
    BY <1>0, <2>3, <2>4, <2>5, <2>6 DEF ExOK
  <2> QED BY <2>2, <2>3, <2>5, <2>7, ExportGoesOn DEF d
<1>4. ASSUME ExportRead PROVE IInv'
  <2> DEFINE x == <<e.name, services[e.row]>>
             d == [e EXCEPT !.at = "find", !.row = 0, !.name = NoProfile,
                            !.file.profiles = @ \cup {x}]
  <2>1. ex' = d /\ UNCHANGED <<storeVars, edits, file, im>> /\ e.at = "read"
    BY <1>0, <1>4 DEF ExportRead
  <2>2. e.file \in File /\ e.row \in ProfId /\ e.name \in ProfileNames /\ e.ws \in WsId
    BY <1>0, <2>1 DEF ExOK
  <2>3. services[e.row] \in SUBSET InstanceId
    BY <2>2 DEF IInv, StoreInv, StoreTypeOK
  <2>4. x \in Pair
    BY <2>2, <2>3 DEF Pair
  <2>5. e.file.of # 0 =>
          /\ x \in PairsOf(e.ws)
          /\ \A y \in PairsOf(e.ws) : y[1] = e.name => y = x
    <3>1. SUFFICES ASSUME e.file.of # 0,
                          profiles[e.row] = [ws |-> e.ws, name |-> e.name]
                   PROVE  /\ x \in PairsOf(e.ws)
                          /\ \A y \in PairsOf(e.ws) : y[1] = e.name => y = x
      BY <1>0, <2>1 DEF ExOK
    <3>2. profiles[e.row] # Gone /\ profiles[e.row].ws = e.ws /\ profiles[e.row].name = e.name
      BY <2>2, <3>1, GoneAssumption DEF ProfileRow
    <3>3. x \in PairsOf(e.ws)
      BY <2>2, <3>2 DEF PairsOf, ProfExists
    <3>4. ASSUME NEW q \in ProfId, ProfExists(q), profiles[q].ws = e.ws, profiles[q].name = e.name
          PROVE  q = e.row
      <4>1. profiles[q] = profiles[e.row]
        BY <3>1, <3>4 DEF ProfExists, IInv, StoreInv, StoreTypeOK, ProfileRow
      <4> QED BY <2>2, <3>2, <3>4, <4>1 DEF ProfExists, NamesIdentify, IInv, StoreInv
    <3> HIDE DEF x
    <3>5. \A y \in PairsOf(e.ws) : y[1] = e.name => y = x
      BY <3>4 DEF PairsOf, x
    <3> QED BY <3>3, <3>5
  <2> HIDE DEF x
  <2>6. [e.file EXCEPT !.profiles = @ \cup {x}] \in File
        /\ [e.file EXCEPT !.profiles = @ \cup {x}].of = e.file.of
        /\ [e.file EXCEPT !.profiles = @ \cup {x}].profile = e.file.profile
        /\ [e.file EXCEPT !.profiles = @ \cup {x}].profiles = e.file.profiles \cup {x}
    BY <2>2, <2>4 DEF File
  <2>7. /\ d.at = "find" /\ d.ws = e.ws /\ d.left = e.left
        /\ d.file = [e.file EXCEPT !.profiles = @ \cup {x}] /\ d \in Export
    BY <2>6 DEF Export
  <2> HIDE DEF d
  <2>8. ExOK(d)
    BY <1>0, <2>1, <2>2, <2>5, <2>6, <2>7 DEF ExOK
  <2> QED BY <2>1, <2>7, <2>8, ExportGoesOn
<1>5. ASSUME Download PROVE IInv'
  <2>1. file' = e.file /\ ex' = NoExport /\ UNCHANGED <<storeVars, edits, im>>
        /\ e.at = "find" /\ e.left = {}
    BY <1>0, <1>5 DEF Download
  <2>2. e.file \in File /\ Fits(e.file)
    <3>1. e.file.of # 0 => \A x : x \in e.file.profiles <=> x \in PairsOf(e.file.of)
      BY <1>0, <2>1 DEF ExOK
    <3> QED BY <1>0, <2>1, <3>1 DEF ExOK, Fits
  <2> QED BY <2>1, <2>2, NoExportOK, ExportStep
<1>6. ASSUME ExportFails PROVE IInv'
  BY <1>6, NoExportOK, ExportGoesOn DEF ExportFails
<1> QED BY <1>1, <1>2, <1>3, <1>4, <1>5, <1>6 DEF Exports

-----------------------------------------------------------------------------
(***************************************************************************)
(* The steps of an import.                                                 *)
(***************************************************************************)

\* Import r becomes i, and no workspace is written to that anybody has looked at.
LEMMA ImportBecomes ==
  ASSUME IInv, StoreInv', IdsGrow, KeptOthers(0), WorkspaceNamesIdentify', UNCHANGED others,
         NEW r \in Importer, NEW i \in Import, Becomes(r, i), ImOK(i)',
         Creates(i) => \A q \in Importer \ {r} : Creates(im[q]) => im[q].ws # i.ws
  PROVE  IInv'
<1>1. im' = [im EXCEPT ![r] = i] /\ im' \in [Importer -> Import]
  BY DEF Becomes, IInv, TransferTypes
<1>2. ASSUME NEW q \in Importer PROVE ImOK(im[q])'
  <2>1. CASE q = r
    <3>1. im'[q] = i
      BY <1>1, <2>1 DEF IInv, TransferTypes
    <3> QED BY <3>1
  <2>2. CASE q # r
    <3>1. PICK j \in Import : j = im[q] /\ im'[q] = j /\ ImOK(j)
      BY <1>1, <2>2 DEF IInv, TransferTypes, ImInv
    <3>2. Outdated(j.file, 0) = j.file
      BY NoneAssumption DEF Import, Outdated, File
    <3>3. nextWs \in Int /\ nextWs' \in Int /\ nextWs' >= nextWs
      BY BoundsAssumption DEF IInv, StoreInv, StoreTypeOK, IdsGrow
    <3>4. Creates(j) => j.alone \in BOOLEAN /\ j.ws # 0
      BY <3>1, BoundsAssumption DEF Import, ImOK, WsId
    <3>5. ImOK(j)'
      BY <3>1, <3>2, <3>3, <3>4, ImStays
    <3> QED BY <3>1, <3>5
  <2> QED BY <2>1, <2>2
<1>3. \A p, q \in Importer : p # q /\ Creates(im'[p]) /\ Creates(im'[q]) => im'[p].ws # im'[q].ws
  <2>1. \A q \in Importer : im'[q] = IF q = r THEN i ELSE im[q]
    BY <1>1 DEF IInv, TransferTypes
  <2> QED BY <2>1 DEF IInv, ImInv
<1>4. ImInv'
  BY <1>2, <1>3 DEF ImInv, Creates
<1>5. ExOK(ex)' /\ (file # None => Fits(file))'
  BY RecordsIdle DEF others
<1> QED BY <1>1, <1>4, <1>5 DEF IInv, TransferTypes, others

\* Import r writes to its own workspace and becomes i.
LEMMA ImportWrites ==
  ASSUME IInv, StoreInv', IdsGrow, WorkspaceNamesIdentify', UNCHANGED edits,
         NEW r \in Importer, NEW i \in Import, im[r].at = "create", Creates(i),
         KeptOthers(i.ws), i.ws = im[r].ws,
         Written(i.ws, [im EXCEPT ![r] = i]),
         ImOK([i EXCEPT !.file = Outdated(@, i.ws)])'
  PROVE  IInv'
<1> DEFINE next == [im EXCEPT ![r] = i]
<1>1. next \in [Importer -> Import] /\ next[r] = i /\ \A q \in Importer \ {r} : next[q] = im[q]
  BY DEF IInv, TransferTypes
<1>2. Written(i.ws, next)
  OBVIOUS
<1> HIDE DEF next
<1>3. im'[r] = [i EXCEPT !.file = Outdated(@, i.ws)]
  BY <1>1, <1>2 DEF Written
<1>4. im'[r] \in Import /\ im'[r].at = i.at /\ im'[r].ws = i.ws
  <2>1. Outdated(i.file, i.ws) \in File \cup {None}
    BY OutdatedFile DEF Import, Outdated
  <2> QED BY <1>3, <2>1 DEF Import
<1>5. ASSUME NEW q \in Importer, q # r
      PROVE  im'[q] \in Import /\ ImOK(im[q])' /\ Alike(im'[q], im[q])
  <2>1. next[q] = im[q] /\ im[q] \in Import
    BY <1>1, <1>5 DEF IInv, TransferTypes
  <2>2. Creates(im[q]) => im[q].ws # i.ws
    BY <1>5 DEF IInv, ImInv, Creates
  <2>3. Creates(im[q]) /\ next[q].alone => im[q].alone /\ im[q].ws # i.ws
    BY <2>1, <2>2
  <2>4. Alike(next[q], im[q])
    BY <2>1 DEF Alike
  <2> QED BY <1>1, <1>2, <2>1, <2>3, <2>4, ImportStays
<1>6. im' \in [Importer -> Import]
  <2>1. im' = [q \in Importer |-> im'[q]]
    BY <1>2 DEF Written
  <2> QED BY <1>4, <1>5, <2>1
<1>7. \A q \in Importer : ImOK(im[q])'
  <2>1. ImOK(im[r])'
    BY <1>3
  <2> QED BY <1>5, <2>1
<1>8. \A p, q \in Importer : p # q /\ Creates(im'[p]) /\ Creates(im'[q]) => im'[p].ws # im'[q].ws
  BY <1>4, <1>5 DEF Alike, Creates, IInv, ImInv
<1>9. ImInv'
  BY <1>7, <1>8 DEF ImInv, Creates
<1>10. /\ ex' \in Export /\ ExOK(ex)'
       /\ file' \in File \cup {None} /\ (file # None => Fits(file))'
  BY <1>2, RecordsStay
<1> QED BY <1>6, <1>9, <1>10 DEF IInv, TransferTypes

LEMMA NoImportOK == NoImport \in Import /\ NoImport.at = "idle"
BY DEF NoImport, Import

LEMMA ImportAsksKeeps ==
  ASSUME IInv, NEW r \in Importer, NEW f \in UserFiles \cup ({file} \ {None}), ImportAsks(r, f)
  PROVE  IInv'
<1>1. PICK n \in WorkspaceNames : n = UniqueName(f.name)
  BY DEF ImportAsks
<1> DEFINE i == [NoImport EXCEPT !.at = "insert", !.file = f, !.name = n]
<1>2. StoreInv' /\ IdsGrow /\ KeptOthers(0) /\ WorkspaceNamesIdentify'
  <2>1. UNCHANGED storeVars /\ UNCHANGED workspaces
    BY DEF ImportAsks, storeVars
  <2> QED BY <2>1, ReadKeeps, NothingWritten, WorkspaceNamesKeep DEF IInv
<1>3. f \in File /\ Fits(f)
  BY FilesAssumption DEF IInv, TransferTypes, Fits
<1>4. UNCHANGED others /\ Becomes(r, i)
  BY <1>1 DEF ImportAsks
<1>5. i \in Import /\ i.at = "insert" /\ i.file = f /\ i.name = n
  BY <1>3 DEF NoImport, Import
<1> HIDE DEF i
<1>6. Fits(f)'
  BY <1>2, <1>3, FileIdle
<1>7. ImOK(i)'
  BY <1>3, <1>5, <1>6 DEF ImOK, Creates
<1> QED BY <1>2, <1>4, <1>5, <1>7, ImportBecomes DEF Creates

\* The new workspace has an id that no import has, and no profiles.
LEMMA ImportInsertKeeps ==
  ASSUME IInv, NEW r \in Importer, ImportInsert(r)
  PROVE  IInv'
<1>1. PICK j \in Import : j = im[r] /\ ImOK(j)
  BY DEF IInv, TransferTypes, ImInv
<1>2. PICK w \in WsId : w = nextWs
  BY BoundsAssumption DEF ImportInsert, InsertWorkspace, NewWsId, IInv, StoreInv, StoreTypeOK, WsId
<1> DEFINE i == [j EXCEPT !.at = "create", !.name = None, !.ws = w, !.left = j.file.profiles]
<1>3. InsertWorkspace(j.name) /\ Becomes(r, i) /\ UNCHANGED others /\ j.at = "insert"
  BY <1>1, <1>2 DEF ImportInsert, CreatedId, NewWsId
<1>4. j.name \in WorkspaceNames /\ j.file \in File /\ Fits(j.file)
  BY <1>1, <1>3 DEF ImOK
<1>5. StoreInv' /\ IdsGrow /\ KeptOthers(0) /\ WorkspaceNamesIdentify'
  BY <1>3, <1>4, InsertWorkspaceKeeps, InsertWorkspaceFrame, WorkspaceNamesKeep DEF IInv
<1>6. /\ i \in Import /\ i.at = "create" /\ i.ws = w
      /\ i.left = j.file.profiles /\ i.file = j.file /\ i.alone = j.alone
  BY <1>4 DEF Import, File
<1>7. /\ workspaces'[w] = [name |-> j.name, profile |-> NoProfile]
      /\ w < nextWs'
      /\ UNCHANGED profiles
  BY <1>2, <1>3, BoundsAssumption
     DEF InsertWorkspace, NewWsId, IInv, StoreInv, StoreTypeOK, WsId
<1>8. workspaces'[w] # Gone
  BY <1>4, <1>7, GoneAssumption DEF WorkspaceRow
<1>9. PairsOf(w)' = {}
  <2>1. ASSUME NEW p \in ProfId, profiles'[p] # Gone, profiles'[p].ws = w PROVE FALSE
    BY <1>2, <1>7, <2>1, BoundsAssumption
       DEF NoOrphans, IdsBelowNext, ProfExists, IInv, StoreInv, StoreTypeOK, WsId
  <2> QED BY <2>1 DEF PairsOf, ProfExists
<1>10. Fits(j.file)'
  BY <1>4, <1>5, FileIdle
<1> HIDE DEF i
<1>11. PairsOf(i.ws)' = {} /\ workspaces'[i.ws].profile = NoProfile /\ workspaces'[i.ws] # Gone
  BY <1>6, <1>7, <1>8, <1>9
<1>12. ImOK(i)'
  BY <1>4, <1>6, <1>7, <1>10, <1>11 DEF ImOK, Creates, WsExists
<1>13. \A q \in Importer : Creates(im[q]) => im[q].ws # i.ws
  BY <1>2, <1>6, BoundsAssumption DEF IInv, ImInv, ImOK, WsId
<1> QED BY <1>3, <1>5, <1>6, <1>12, <1>13, ImportBecomes

LEMMA ImportCreateKeeps ==
  ASSUME IInv, NEW r \in Importer, ImportCreate(r)
  PROVE  IInv'
<1>1. PICK j \in Import : j = im[r] /\ ImOK(j)
  BY DEF IInv, TransferTypes, ImInv
<1>2. PICK x \in j.left : /\ InsertProfile(j.ws, x[1], x[2])
                          /\ Written(j.ws, [im EXCEPT ![r].left = @ \ {x}])
  BY <1>1 DEF ImportCreate
<1> DEFINE i == [j EXCEPT !.left = @ \ {x}]
<1>3. x \in Pair /\ x[1] \in ProfileNames /\ x[2] \in SUBSET InstanceId /\ x = <<x[1], x[2]>>
  BY DEF Import, Pair
<1>4. /\ j.at = "create" /\ j.ws \in WsId /\ j.ws < nextWs /\ j.file \in File /\ Fits(j.file)
      /\ UNCHANGED edits
  BY <1>1 DEF ImportCreate, ImOK, Creates
<1>5. StoreInv' /\ IdsGrow /\ KeptOthers(j.ws) /\ PairsOf(j.ws)' = PairsOf(j.ws) \cup {x}
  BY <1>2, <1>3, <1>4, InsertProfileKeeps, InsertProfileFrame DEF IInv
<1>6. UNCHANGED workspaces
  BY <1>2 DEF InsertProfile
<1>7. WorkspaceNamesIdentify'
  BY <1>6, WorkspaceNamesKeep DEF IInv
<1>8. /\ i \in Import /\ i.at = "create" /\ i.ws = j.ws /\ i.left = j.left \ {x}
      /\ i.file = j.file /\ i.alone = j.alone /\ i.name = j.name
  BY <1>4 DEF Import
<1>9. Written(i.ws, [im EXCEPT ![r] = i])
  BY <1>1, <1>2, <1>8 DEF IInv, TransferTypes
<1> HIDE DEF i
<1> DEFINE k == [i EXCEPT !.file = Outdated(@, i.ws)]
<1>10. /\ k.at = "create" /\ k.ws = j.ws /\ k.left = j.left \ {x} /\ k.alone = j.alone
       /\ k.file = Outdated(j.file, j.ws)
  BY <1>8 DEF Import
<1> HIDE DEF k
<1>11. /\ k.file \in File /\ k.file.profiles = j.file.profiles /\ k.file.profile = j.file.profile
       /\ Fits(k.file)'
  BY <1>4, <1>5, <1>10, OutdatedFile, FitsStays
<1>12. j.alone => /\ WsExists(j.ws)' /\ PairsOf(j.ws)' \cup (j.left \ {x}) = j.file.profiles
                  /\ workspaces'[j.ws].profile = NoProfile
  BY <1>1, <1>4, <1>5, <1>6 DEF ImOK, Creates, WsExists
<1>13. j.ws < nextWs'
  BY <1>2, <1>4 DEF InsertProfile
<1>14. ImOK(k)'
  BY <1>4, <1>10, <1>11, <1>12, <1>13 DEF ImOK, Creates
<1> QED BY <1>1, <1>4, <1>5, <1>7, <1>8, <1>9, <1>14, ImportWrites DEF k, Creates

LEMMA ImportActiveKeeps ==
  ASSUME IInv, NEW r \in Importer, ImportActive(r)
  PROVE  IInv'
<1>1. PICK j \in Import : j = im[r] /\ ImOK(j)
  BY DEF IInv, TransferTypes, ImInv
<1> DEFINE i == [j EXCEPT !.at = "point"]
<1>2. /\ j.at = "create" /\ j.left = {} /\ UNCHANGED edits
      /\ IF j.file.profile = NoProfile THEN UNCHANGED storeVars
                                       ELSE UpdateActiveProfile(j.ws, j.file.profile)
      /\ Written(j.ws, [im EXCEPT ![r].at = "point"])
  BY <1>1 DEF ImportActive, AllCreated
<1>3. /\ j.ws \in WsId /\ j.ws < nextWs /\ j.file \in File /\ Fits(j.file)
      /\ j.file.profile \in ProfileNames \cup {NoProfile}
  BY <1>1, <1>2 DEF ImOK, Creates, File
<1>4. /\ StoreInv' /\ IdsGrow /\ KeptOthers(j.ws) /\ WorkspaceNamesIdentify'
      /\ UNCHANGED <<nextWs, profiles, services>>
      /\ j.alone => WsExists(j.ws)' /\ workspaces'[j.ws].profile = j.file.profile
  <2>1. CASE j.file.profile = NoProfile
    <3>1. UNCHANGED <<workspaces, nextWs, profiles, services>> /\ UNCHANGED workspaces
      BY <1>2, <2>1 DEF storeVars
    <3>2. KeptOthers(j.ws)
      BY <1>2, <2>1, NothingWritten, BoundsAssumption DEF IInv, KeptOthers, WsId
    <3>3. StoreInv' /\ IdsGrow /\ WorkspaceNamesIdentify'
      BY <1>2, <2>1, <3>1, ReadKeeps, WorkspaceNamesKeep DEF IInv
    <3>4. j.alone => WsExists(j.ws)' /\ workspaces'[j.ws].profile = j.file.profile
      BY <1>1, <1>2, <2>1, <3>1 DEF ImOK, Creates, WsExists
    <3> QED BY <3>1, <3>2, <3>3, <3>4
  <2>2. CASE j.file.profile # NoProfile
    <3>1. j.file.profile \in ProfileNames /\ UpdateActiveProfile(j.ws, j.file.profile)
      BY <1>2, <1>3, <2>2
    <3>2. UNCHANGED <<nextWs, profiles, services>>
      BY <3>1 DEF UpdateActiveProfile
    <3>3. StoreInv' /\ IdsGrow /\ KeptOthers(j.ws) /\ WorkspaceNamesIdentify'
      BY <1>3, <3>1, UpdatesKeep, UpdateActiveProfileFrame, WorkspaceNamesKeep DEF IInv
    <3>4. WsExists(j.ws)' /\ workspaces'[j.ws].profile = j.file.profile
      BY <1>3, <3>1, GoneAssumption
         DEF UpdateActiveProfile, WsExists, IInv, StoreInv, StoreTypeOK, WorkspaceRow
    <3> QED BY <3>2, <3>3, <3>4
  <2> QED BY <2>1, <2>2
<1>5. /\ i \in Import /\ i.at = "point" /\ i.ws = j.ws /\ i.left = {}
      /\ i.file = j.file /\ i.alone = j.alone
  BY <1>2 DEF Import
<1>6. Written(i.ws, [im EXCEPT ![r] = i])
  BY <1>1, <1>2, <1>5 DEF IInv, TransferTypes
<1> HIDE DEF i
<1> DEFINE k == [i EXCEPT !.file = Outdated(@, i.ws)]
<1>7. k.at = "point" /\ k.ws = j.ws /\ k.alone = j.alone /\ k.file = Outdated(j.file, j.ws)
  BY <1>5 DEF Import
<1> HIDE DEF k
<1>8. /\ k.file \in File /\ k.file.profiles = j.file.profiles /\ k.file.profile = j.file.profile
      /\ Fits(k.file)'
  BY <1>3, <1>4, <1>7, OutdatedFile, FitsStays
<1>9. j.alone => PairsOf(j.ws)' = j.file.profiles
  <2>1. PairsOf(j.ws)' = PairsOf(j.ws)
    BY <1>4 DEF PairsOf, ProfExists
  <2> QED BY <1>1, <1>2, <2>1 DEF ImOK
<1>10. ImOK(k)'
  BY <1>3, <1>4, <1>7, <1>8, <1>9 DEF ImOK, Creates
<1> QED BY <1>1, <1>2, <1>4, <1>5, <1>6, <1>10, ImportWrites DEF k, Creates

LEMMA ImportEndsKeeps ==
  ASSUME IInv, NEW r \in Importer, ImportPoint(r) \/ ImportFails(r)
  PROVE  IInv'
<1>1. ImOK(im[r]) /\ im[r] \in Import
  BY DEF IInv, TransferTypes, ImInv
<1>2. StoreInv' /\ IdsGrow /\ KeptOthers(0) /\ WorkspaceNamesIdentify'
  <2>1. CASE ImportPoint(r)
    <3>1. im[r].ws \in WsId /\ UpsertActive(im[r].ws)
      BY <1>1, <2>1 DEF ImportPoint, ImOK, Creates
    <3>2. KeptOthers(0) /\ UNCHANGED workspaces
      BY <3>1 DEF UpsertActive, KeptOthers, Kept, Owned, WsExists
    <3> QED BY <3>1, <3>2, UpsertActiveKeeps, WorkspaceNamesKeep DEF IInv
  <2>2. CASE ImportFails(r)
    <3>1. UNCHANGED storeVars /\ UNCHANGED workspaces
      BY <2>2 DEF ImportFails, storeVars
    <3> QED BY <3>1, ReadKeeps, NothingWritten, WorkspaceNamesKeep DEF IInv
  <2> QED BY <2>1, <2>2
<1>3. PICK i \in Import : i = NoImport /\ i.at = "idle"
  BY NoImportOK
<1>4. UNCHANGED others /\ Becomes(r, i)
  BY <1>3 DEF ImportPoint, ImportFails
<1>5. ImOK(i)'
  BY <1>3 DEF ImOK, Creates
<1> QED BY <1>2, <1>3, <1>4, <1>5, ImportBecomes DEF Creates

-----------------------------------------------------------------------------
(***************************************************************************)
(* The theorems.                                                           *)
(***************************************************************************)

LEMMA InitIInv == Init => IInv
<1> SUFFICES ASSUME Init PROVE IInv
  OBVIOUS
<1>1. StoreInv
  BY BoundsAssumption
     DEF Init, StoreInit, StoreInv, StoreTypeOK, ActiveWorkspaceExists, NoOrphans,
         NamesIdentify, IdsBelowNext, WsExists, ProfExists
<1>2. WorkspaceNamesIdentify
  BY DEF Init, StoreInit, WorkspaceNamesIdentify, WsExists
<1>3. TransferTypes
  BY EditsAssumption, NoExportOK, NoImportOK DEF Init, TransferTypes
<1>4. ExOK(ex) /\ (file # None => Fits(file))
  BY NoExportOK DEF Init
<1>5. ImInv
  BY NoImportOK DEF Init, ImInv, ImOK, Creates
<1> QED BY <1>1, <1>2, <1>3, <1>4, <1>5 DEF IInv

LEMMA NextIInv == IInv /\ [Next]_vars => IInv'
<1> SUFFICES ASSUME IInv, [Next]_vars PROVE IInv'
  OBVIOUS
<1>1. CASE OthersName
  BY <1>1, OthersNameKeeps
<1>2. ASSUME NEW w \in WsId, OthersEdit(w) PROVE IInv'
  BY <1>2, OthersEditKeeps
<1>3. CASE Exports
  BY <1>3, ExportsKeep
<1>4. ASSUME NEW r \in Importer, Imports(r) PROVE IInv'
  BY <1>4, ImportAsksKeeps, ImportInsertKeeps, ImportCreateKeeps, ImportActiveKeeps,
     ImportEndsKeeps DEF Imports
<1>5. CASE UNCHANGED vars
  <2>1. PICK e \in Export : e = ex /\ e = ex' /\ ExOK(e)
    BY <1>5 DEF vars, IInv, TransferTypes
  <2> QED BY <1>5, <2>1, ExportGoesOn DEF vars
<1> QED BY <1>1, <1>2, <1>3, <1>4, <1>5 DEF Next

\* The invariant above holds in every reachable state of exports and imports that overlap
\* with each other and with every statement of the other handlers.
THEOREM TransferInvariant == Spec => []IInv
BY InitIInv, NextIInv, PTL DEF Spec

\* Tables, files and requests stay well-formed: an import that creates profiles
\* has the id of the workspace it inserted (Service.Import).
THEOREM TransferTypeCorrect == Spec => []TypeOK
<1>1. IInv => TypeOK
  BY BoundsAssumption DEF IInv, StoreInv, TransferTypes, TypeOK, ImInv, ImOK, Creates, WsId
<1> QED BY <1>1, TransferInvariant, PTL

\* An import that is about to become the active workspace has all of its file's
\* profiles with their services and the file's active profile (Service.Import creates
\* them before the handler sets the active workspace), if nobody else wrote to it.
THEOREM ImportsAreComplete == Spec => []ImportIsComplete
<1>1. IInv => ImportIsComplete
  BY DEF IInv, ImInv, ImOK, Creates, ImportIsComplete
<1> QED BY <1>1, TransferInvariant, PTL

\* Exporting a workspace and importing the file gives a workspace with the same profiles,
\* services and active profile, if nobody writes to either of them meanwhile, whatever is
\* written to others between the statements of the two (Service.Export, Service.Import).
THEOREM RoundTripHolds == Spec => []RoundTrip
<1>1. IInv => RoundTrip
  BY DEF IInv, ImInv, ImOK, Creates, Fits, RoundTrip
<1> QED BY <1>1, TransferInvariant, PTL

\* No two workspaces ever have the same name, though an import looks a free name up in
\* one statement and takes it in another (uniqueWorkspaceName, CreateWorkspace).
THEOREM WorkspaceNamesAreUnique == Spec => []WorkspaceNamesIdentify
<1>1. IInv => WorkspaceNamesIdentify
  BY DEF IInv
<1> QED BY <1>1, TransferInvariant, PTL
=============================================================================
