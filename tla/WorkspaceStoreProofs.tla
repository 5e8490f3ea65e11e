-------------------------- MODULE WorkspaceStoreProofs --------------------------
(***************************************************************************)
(* Every statement of WorkspaceStore preserves StoreInv, whoever issues it *)
(* and whatever was read before it.                                        *)
(***************************************************************************)
EXTENDS WorkspaceStore, TLAPS

\* The ids that AUTOINCREMENT will give out are above those of all rows.
IdsBelowNext ==
  /\ \A w \in WsId : WsExists(w) => w < nextWs
  /\ \A w \in sessions : w < nextWs
  /\ \A p \in ProfId : ProfExists(p) => p < nextProf

StoreInv ==
  /\ StoreTypeOK
  /\ ActiveWorkspaceExists
  /\ NoOrphans
  /\ NamesIdentify
  /\ IdsBelowNext

\* An id that has been given out is never taken back.
IdsGrow == nextWs' >= nextWs /\ nextProf' >= nextProf

-----------------------------------------------------------------------------
(***************************************************************************)
(* Every statement preserves StoreInv.                                     *)
(***************************************************************************)

\* INSERT INTO workspaces: the new id has no rows that point at it.
LEMMA InsertWorkspaceKeeps ==
  ASSUME StoreInv, NEW n \in WorkspaceNames, InsertWorkspace(n)
  PROVE  StoreInv' /\ IdsGrow
<1>1. nextWs \in WsId /\ nextWs' = nextWs + 1 /\ nextProf' = nextProf
  BY BoundsAssumption DEF InsertWorkspace, NewWsId, StoreInv, StoreTypeOK, WsId
<1>2. [name |-> n, profile |-> NoProfile] \in WorkspaceRow
  BY DEF WorkspaceRow
<1>3. \A w \in WsId : WsExists(w) => workspaces'[w] # Gone
  BY <1>1, <1>2, GoneAssumption DEF InsertWorkspace, NewWsId, WsExists, StoreInv, StoreTypeOK
<1>4. \A w \in WsId : workspaces'[w] # Gone => WsExists(w) \/ w = nextWs
  BY <1>1 DEF InsertWorkspace, NewWsId, WsExists, StoreInv, StoreTypeOK
<1>5. StoreTypeOK'
  BY <1>1, <1>2, BoundsAssumption
     DEF InsertWorkspace, NewWsId, StoreInv, StoreTypeOK, WsId
<1>6. ActiveWorkspaceExists'
  BY <1>3 DEF InsertWorkspace, ActiveWorkspaceExists, WsExists, StoreInv, StoreTypeOK
<1>7. NoOrphans'
  BY <1>3 DEF InsertWorkspace, NoOrphans, WsExists, ProfExists, StoreInv, StoreTypeOK,
              ProfileRow
<1>8. NamesIdentify'
  BY DEF InsertWorkspace, NamesIdentify, ProfExists, StoreInv
<1>9. IdsBelowNext'
  BY <1>1, <1>4, BoundsAssumption
     DEF InsertWorkspace, IdsBelowNext, WsExists, ProfExists, StoreInv, StoreTypeOK, WsId
<1> QED BY <1>1, <1>5, <1>6, <1>7, <1>8, <1>9, BoundsAssumption
           DEF StoreInv, IdsGrow, StoreTypeOK

\* UPDATE workspaces, of the name or of the active profile: the same rows exist.
LEMMA UpdateWorkspaceKeeps ==
  ASSUME StoreInv, NEW w \in WsId, NEW row \in WorkspaceRow, WsExists(w),
         workspaces' = [workspaces EXCEPT ![w] = row],
         UNCHANGED <<nextWs, active, profiles, nextProf, services, templates, sessions>>
  PROVE  StoreInv' /\ IdsGrow
<1>1. \A v \in WsId : workspaces'[v] # Gone <=> WsExists(v)
  BY GoneAssumption DEF WsExists, StoreInv, StoreTypeOK
<1>2. StoreTypeOK'
  BY DEF StoreInv, StoreTypeOK
<1>3. ActiveWorkspaceExists'
  BY <1>1 DEF ActiveWorkspaceExists, WsExists, StoreInv, StoreTypeOK
<1>4. NoOrphans'
  BY <1>1 DEF NoOrphans, WsExists, ProfExists, StoreInv, StoreTypeOK, ProfileRow
<1>5. NamesIdentify' /\ IdsBelowNext'
  BY <1>1 DEF NamesIdentify, IdsBelowNext, WsExists, ProfExists, StoreInv
<1> QED BY <1>2, <1>3, <1>4, <1>5, BoundsAssumption
           DEF StoreInv, IdsGrow, StoreTypeOK

\* DELETE FROM workspaces: the cascade takes every row that would be an orphan, and
\* ON DELETE SET NULL the pointer.
LEMMA DeleteWorkspaceKeeps ==
  ASSUME StoreInv, NEW w \in WsId, DeleteWorkspace(w)
  PROVE  StoreInv' /\ IdsGrow
<1>1. \A v \in WsId : workspaces'[v] # Gone <=> WsExists(v) /\ v # w
  BY DEF DeleteWorkspace, WsExists, StoreInv, StoreTypeOK
<1>2. \A p \in ProfId : profiles'[p] # Gone => ProfExists(p) /\ profiles'[p] = profiles[p]
                                               /\ profiles[p].ws # w
  BY DEF DeleteWorkspace, Cascade, ProfExists, StoreInv, StoreTypeOK
<1>3. \A p \in ProfId : services'[p] # {} =>
                          services[p] # {} /\ (ProfExists(p) => profiles'[p] # Gone)
  BY DEF DeleteWorkspace, ProfExists, StoreInv, StoreTypeOK
<1>4. StoreTypeOK'
  BY DEF DeleteWorkspace, StoreInv, StoreTypeOK
<1>5. ActiveWorkspaceExists'
  BY <1>1 DEF DeleteWorkspace, ActiveWorkspaceExists, WsExists, StoreInv, StoreTypeOK
<1>6. NoOrphans'
  <2>1. ASSUME NEW p \in ProfId, profiles'[p] # Gone
        PROVE  workspaces'[profiles'[p].ws] # Gone
    BY <2>1, <1>1, <1>2 DEF NoOrphans, ProfExists, StoreInv, StoreTypeOK, ProfileRow
  <2>2. ASSUME NEW p \in ProfId, services'[p] # {}
        PROVE  profiles'[p] # Gone
    BY <2>2, <1>3 DEF NoOrphans, StoreInv
  <2>3. ASSUME NEW t \in templates'
        PROVE  workspaces'[t[1]] # Gone
    BY <2>3, <1>1 DEF DeleteWorkspace, NoOrphans, StoreInv, StoreTypeOK
  <2> QED BY <2>1, <2>2, <2>3 DEF NoOrphans, WsExists, ProfExists
<1>7. NamesIdentify'
  BY <1>2 DEF NamesIdentify, ProfExists, StoreInv
<1>8. IdsBelowNext'
  BY <1>1, <1>2 DEF DeleteWorkspace, IdsBelowNext, WsExists, ProfExists, StoreInv
<1> QED BY <1>4, <1>5, <1>6, <1>7, <1>8, BoundsAssumption
           DEF DeleteWorkspace, StoreInv, IdsGrow, StoreTypeOK

\* The upsert of app_state: its foreign key is what makes the pointer valid.
LEMMA UpsertActiveKeeps ==
  ASSUME StoreInv, NEW w \in WsId, UpsertActive(w)
  PROVE  StoreInv' /\ IdsGrow
<1>1. StoreTypeOK' /\ ActiveWorkspaceExists'
  BY DEF UpsertActive, MayPointAt, ActiveWorkspaceExists, WsExists, StoreInv, StoreTypeOK
<1>2. NoOrphans' /\ NamesIdentify' /\ IdsBelowNext'
  BY DEF UpsertActive, NoOrphans, NamesIdentify, IdsBelowNext, WsExists, ProfExists, StoreInv
<1> QED BY <1>1, <1>2, BoundsAssumption DEF UpsertActive, StoreInv, IdsGrow, StoreTypeOK

\* INSERT INTO profiles with its services, in one transaction: the row is new, so
\* nothing was stored under its id.
LEMMA InsertProfileKeeps ==
  ASSUME StoreInv, NEW w \in WsId, NEW n \in ProfileNames, NEW svcs \in SUBSET InstanceId,
         InsertProfile(w, n, svcs)
  PROVE  StoreInv' /\ IdsGrow
<1>1. nextProf \in ProfId /\ nextProf' = nextProf + 1 /\ nextWs' = nextWs
  BY BoundsAssumption DEF InsertProfile, StoreInv, StoreTypeOK, ProfId
<1>2. [ws |-> w, name |-> n] \in ProfileRow
  BY DEF ProfileRow
<1>3. \A p \in ProfId : profiles'[p] # Gone => \/ ProfExists(p) /\ profiles'[p] = profiles[p]
                                               \/ p = nextProf
  BY <1>1 DEF InsertProfile, ProfExists, StoreInv, StoreTypeOK
<1>4. \A p \in ProfId : ProfExists(p) => profiles'[p] # Gone
  BY <1>1, <1>2, GoneAssumption DEF InsertProfile, ProfExists, StoreInv, StoreTypeOK
<1>5. profiles'[nextProf] = [ws |-> w, name |-> n] /\ profiles'[nextProf] # Gone
  BY <1>1, <1>2, GoneAssumption DEF InsertProfile, StoreInv, StoreTypeOK
<1>6. StoreTypeOK'
  BY <1>1, <1>2, BoundsAssumption DEF InsertProfile, StoreInv, StoreTypeOK, ProfId
<1>7. ActiveWorkspaceExists'
  BY DEF InsertProfile, ActiveWorkspaceExists, WsExists, StoreInv
<1>8. NoOrphans'
  <2>1. ASSUME NEW p \in ProfId, profiles'[p] # Gone
        PROVE  workspaces'[profiles'[p].ws] # Gone
    BY <2>1, <1>3, <1>5 DEF InsertProfile, NoOrphans, WsExists, ProfExists, StoreInv
  <2>2. ASSUME NEW p \in ProfId, services'[p] # {}
        PROVE  profiles'[p] # Gone
    BY <2>2, <1>4, <1>5 DEF InsertProfile, NoOrphans, ProfExists, StoreInv, StoreTypeOK
  <2> QED BY <2>1, <2>2
          DEF InsertProfile, NoOrphans, WsExists, ProfExists, StoreInv, StoreTypeOK
<1>9. NamesIdentify'
  <2>1. ASSUME NEW p \in ProfId, ProfExists(p) PROVE profiles[p] # profiles'[nextProf]
    BY <2>1, <1>5 DEF InsertProfile, NameIsFree, ProfileRows
  <2> QED BY <2>1, <1>3 DEF NamesIdentify, ProfExists, StoreInv
<1>10. IdsBelowNext'
  BY <1>1, <1>3, BoundsAssumption
     DEF InsertProfile, IdsBelowNext, WsExists, ProfExists, StoreInv, StoreTypeOK, ProfId
<1> QED BY <1>1, <1>6, <1>7, <1>8, <1>9, <1>10, BoundsAssumption
           DEF StoreInv, IdsGrow, StoreTypeOK

\* DELETE FROM profiles: the services go with the row.
LEMMA DeleteProfileKeeps ==
  ASSUME StoreInv, NEW w, NEW n, DeleteProfile(w, n)
  PROVE  StoreInv' /\ IdsGrow
<1>1. \A p \in ProfId : profiles'[p] # Gone => ProfExists(p) /\ profiles'[p] = profiles[p]
  BY DEF DeleteProfile, ProfExists, StoreInv, StoreTypeOK
<1>2. \A p \in ProfId : services'[p] # {} =>
                          services[p] # {} /\ (ProfExists(p) => profiles'[p] # Gone)
  BY DEF DeleteProfile, ProfExists, StoreInv, StoreTypeOK
<1>3. StoreTypeOK'
  BY DEF DeleteProfile, StoreInv, StoreTypeOK
<1>4. NoOrphans'
  BY <1>1, <1>2 DEF DeleteProfile, NoOrphans, WsExists, ProfExists, StoreInv
<1>5. ActiveWorkspaceExists' /\ NamesIdentify' /\ IdsBelowNext'
  BY <1>1 DEF DeleteProfile, ActiveWorkspaceExists, NamesIdentify, IdsBelowNext, WsExists,
              ProfExists, StoreInv
<1> QED BY <1>3, <1>4, <1>5, BoundsAssumption
           DEF DeleteProfile, StoreInv, IdsGrow, StoreTypeOK

\* DELETE and INSERT of services: the foreign key refuses a row that is gone.
LEMMA ReplaceServicesKeeps ==
  ASSUME StoreInv, NEW p \in ProfId, NEW svcs \in SUBSET InstanceId, ReplaceServices(p, svcs)
  PROVE  StoreInv' /\ IdsGrow
<1>1. StoreTypeOK'
  BY DEF ReplaceServices, StoreInv, StoreTypeOK
<1>2. NoOrphans'
  BY DEF ReplaceServices, MayOwn, NoOrphans, WsExists, ProfExists, StoreInv, StoreTypeOK
<1>3. ActiveWorkspaceExists' /\ NamesIdentify' /\ IdsBelowNext'
  BY DEF ReplaceServices, ActiveWorkspaceExists, NamesIdentify, IdsBelowNext, WsExists,
         ProfExists, StoreInv
<1> QED BY <1>1, <1>2, <1>3, BoundsAssumption
           DEF ReplaceServices, StoreInv, IdsGrow, StoreTypeOK

\* Templates, and the sessions that name a workspace.
LEMMA TemplatesKeep ==
  ASSUME StoreInv, NEW w \in WsId, NEW t \in TemplateNames,
         InsertTemplate(w, t) \/ DeleteTemplate(w, t)
  PROVE  StoreInv' /\ IdsGrow
<1>1. UNCHANGED <<workspaces, nextWs, active, profiles, nextProf, services, sessions>>
  BY DEF InsertTemplate, DeleteTemplate
<1>2. templates' \subseteq WsId \X TemplateNames
  BY DEF InsertTemplate, DeleteTemplate, StoreInv, StoreTypeOK
<1>3. \A u \in templates' : WsExists(u[1])
  BY DEF InsertTemplate, DeleteTemplate, StoreInv, NoOrphans
<1>4. StoreTypeOK' /\ NoOrphans'
  BY <1>1, <1>2, <1>3 DEF StoreInv, StoreTypeOK, NoOrphans, WsExists, ProfExists
<1>5. ActiveWorkspaceExists' /\ NamesIdentify' /\ IdsBelowNext'
  BY <1>1 DEF ActiveWorkspaceExists, NamesIdentify, IdsBelowNext, WsExists, ProfExists, StoreInv
<1> QED BY <1>1, <1>4, <1>5, BoundsAssumption DEF StoreInv, IdsGrow, StoreTypeOK

LEMMA InsertSessionKeeps ==
  ASSUME StoreInv, NEW w \in WsId, w < nextWs, InsertSession(w)
  PROVE  StoreInv' /\ IdsGrow
<1>1. StoreTypeOK' /\ IdsBelowNext'
  BY DEF InsertSession, StoreInv, StoreTypeOK, IdsBelowNext, WsExists, ProfExists
<1>2. ActiveWorkspaceExists' /\ NamesIdentify' /\ NoOrphans'
  BY DEF InsertSession, ActiveWorkspaceExists, NamesIdentify, NoOrphans, WsExists, ProfExists,
         StoreInv
<1> QED BY <1>1, <1>2, BoundsAssumption DEF InsertSession, StoreInv, IdsGrow, StoreTypeOK

\* A step that only reads.
LEMMA ReadKeeps ==
  ASSUME StoreInv, UNCHANGED storeVars
  PROVE  StoreInv' /\ IdsGrow
<1>1. StoreInv'
  BY DEF storeVars, StoreInv, StoreTypeOK, ActiveWorkspaceExists, NoOrphans, NamesIdentify,
         IdsBelowNext, WsExists, ProfExists
<1>2. IdsGrow
  BY BoundsAssumption DEF storeVars, IdsGrow, StoreInv, StoreTypeOK
<1> QED BY <1>1, <1>2
=================================================================================
