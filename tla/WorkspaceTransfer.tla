-------------------------- MODULE WorkspaceTransfer ---------------------------
(***************************************************************************)
(* Export and import of workspaces (internal/project/transfer.go and its   *)
(* handlers) over the tables of WorkspaceStore.                            *)
(*                                                                         *)
(* An export reads the workspace, the names of its profiles, and then one  *)
(* profile after another, each in two statements.  An import looks for a   *)
(* free name, inserts the workspace, its profiles one by one, and the      *)
(* active profile, and the handler points at it.  None of this is in a     *)
(* transaction, and other handlers write between any two statements:       *)
(* OthersEdit is any statement that Workspaces has.                        *)
(*                                                                         *)
(* A workspace name is the sequence of a base and its suffixes: "a (2)" is *)
(* <<a, 2>>.  The order of profiles, by name in an export, as in the file  *)
(* in an import, is left open.                                             *)
(***************************************************************************)
EXTENDS WorkspaceStore, Sequences

CONSTANTS
  Importer,    \* import requests that may be in flight at once
  UserFiles,   \* bound: files that users write or edit themselves
  MaxEdits,    \* bound: statements that others write
  None

\* exp.Profiles, which may name a profile twice.
Pair == ProfileNames \X SUBSET InstanceId

\* WorkspaceExport.  of is history: the workspace that this is an export of, or 0 if
\* somebody has written to that workspace since the export began.
File == [name : WorkspaceNames, profile : ProfileNames \cup {NoProfile},
         profiles : SUBSET Pair, of : WsId \cup {0}]

ASSUME FilesAssumption == UserFiles \subseteq File /\ \A f \in UserFiles : f.of = 0

ASSUME EditsAssumption == MaxEdits \in Nat

ASSUME NoneAssumption == None \notin File

VARIABLES
  edits, \* bound: how many statements others have written
  ex,    \* the export in flight
  file,  \* the last file that was downloaded
  im     \* the imports in flight

vars == <<storeVars, edits, ex, file, im>>

Export == [at : {"idle", "list", "find", "read"},
           ws : WsId \cup {0},                   \* Project.Workspace.ID
           file : File \cup {None},              \* what has been collected
           left : SUBSET ProfileNames,           \* names that are not read yet
           name : ProfileNames \cup {NoProfile}, \* the one that is read,
           row : ProfId \cup {0}]                \* and its row

Import == [at : {"idle", "insert", "create", "point"},
           file : File \cup {None},
           name : WorkspaceNames \cup {None},    \* the name that was free
           ws : WsId \cup {0},                   \* the workspace it creates
           alone : BOOLEAN,                      \* history: nobody else wrote to it
           left : SUBSET Pair]                   \* profiles that are not created yet

NoExport == [at |-> "idle", ws |-> 0, file |-> None, left |-> {}, name |-> NoProfile,
             row |-> 0]

NoImport == [at |-> "idle", file |-> None, name |-> None, ws |-> 0, alone |-> TRUE, left |-> {}]

TypeOK ==
  /\ StoreTypeOK
  /\ edits \in 0 .. MaxEdits
  /\ ex \in Export
  /\ file \in File \cup {None}
  /\ im \in [Importer -> Import]
  /\ \A r \in Importer : im[r].at \in {"create", "point"} => im[r].ws # 0

Init ==
  /\ StoreInit
  /\ edits = 0
  /\ ex = NoExport
  /\ file = None
  /\ im = [r \in Importer |-> NoImport]

-----------------------------------------------------------------------------
(***************************************************************************)
(* Everybody else: the statements of the other handlers.                   *)
(***************************************************************************)

Outdated(f, w) == IF f # None /\ f.of = w THEN [f EXCEPT !.of = 0] ELSE f

\* History: w is written to, and imports become next.
Written(w, next) ==
  /\ ex' = [ex EXCEPT !.file = Outdated(@, w)]
  /\ file' = Outdated(file, w)
  /\ im' = [r \in Importer |-> [next[r] EXCEPT !.file = Outdated(@, w)]]

OthersEdit(w) ==
  /\ edits < MaxEdits
  /\ edits' = edits + 1
  /\ \/ DeleteWorkspace(w)
     \/ \E n \in ProfileNames :
          \/ UpdateActiveProfile(w, n)
          \/ \E svcs \in SUBSET InstanceId : InsertProfile(w, n, svcs)
          \/ DeleteProfile(w, n)
     \/ \E p \in ProfId, svcs \in (SUBSET InstanceId) \ {{}} :
          ProfExists(p) /\ profiles[p].ws = w /\ ReplaceServices(p, svcs)
  /\ Written(w, [r \in Importer |-> [im[r] EXCEPT !.alone = @ /\ im[r].ws # w]])

OthersName ==
  /\ edits < MaxEdits
  /\ edits' = edits + 1
  /\ \E n \in WorkspaceNames :
       InsertWorkspace(n) \/ \E w \in WsId : UpdateWorkspaceName(w, n)
  /\ UNCHANGED <<ex, file, im>>

-----------------------------------------------------------------------------
(***************************************************************************)
(* Export.                                                                 *)
(***************************************************************************)

\* Open: the row, with the active profile as it is now.
ExportOpen(w) ==
  /\ ex.at = "idle"
  /\ file = None  \* bound: one download
  /\ WsExists(w)
  /\ ex' = [NoExport EXCEPT !.at = "list", !.ws = w,
              !.file = [name |-> workspaces[w].name, profile |-> workspaces[w].profile,
                        profiles |-> {}, of |-> w]]
  /\ UNCHANGED <<storeVars, edits, file, im>>

NamesWithServices(w) == {n \in ProfileNames : \E p \in ProfileRows(w, n) : services[p] # {}}

\* ListProfiles.
ProfileNamesOf(w) == {n \in ProfileNames : ProfileRows(w, n) # {}}

ExportList ==
  /\ ex.at = "list"
  /\ ex' = [ex EXCEPT !.at = "find", !.left = ProfileNamesOf(ex.ws)]
  /\ UNCHANGED <<storeVars, edits, file, im>>

ExportFind ==
  /\ ex.at = "find"
  /\ \E n \in ex.left : \E p \in ProfileRows(ex.ws, n) :
       ex' = [ex EXCEPT !.at = "read", !.row = p, !.left = @ \ {n},
                        !.name = n]
  /\ UNCHANGED <<storeVars, edits, file, im>>

\* A profile that was removed since has no services.
ExportRead ==
  /\ ex.at = "read"
  /\ ex' = [ex EXCEPT !.at = "find", !.row = 0, !.name = NoProfile,
              !.file.profiles = @ \cup {<<ex.name, services[ex.row]>>}]
  /\ UNCHANGED <<storeVars, edits, file, im>>

Download ==
  /\ ex.at = "find"
  /\ ex.left = {}
  /\ file' = ex.file
  /\ ex' = NoExport
  /\ UNCHANGED <<storeVars, edits, im>>

ExportFails ==
  /\ ex.at # "idle"
  /\ ex' = NoExport
  /\ UNCHANGED <<storeVars, edits, file, im>>

-----------------------------------------------------------------------------
(***************************************************************************)
(* Import.                                                                 *)
(***************************************************************************)

others == <<edits, ex, file>>

Becomes(r, import) == im' = [im EXCEPT ![r] = import]

Candidate(base, n) == IF n = 1 THEN base ELSE Append(base, n)

\* "base", "base (2)", ...: the first that nobody has.
UniqueName(base) ==
  LET free == {n \in 1 .. MaxWorkspace + 1 : ~NameTaken(Candidate(base, n))}
  IN  Candidate(base, CHOOSE n \in free : \A m \in free : n <= m)

\* The payload was validated; the names that are taken are listed.
ImportAsks(r, f) ==
  /\ im[r].at = "idle"
  /\ UniqueName(f.name) \in WorkspaceNames
  /\ Becomes(r, [NoImport EXCEPT !.at = "insert", !.file = f, !.name = UniqueName(f.name)])
  /\ UNCHANGED <<storeVars, others>>

CreatedId == NewWsId

ImportInsert(r) ==
  /\ im[r].at = "insert"
  /\ InsertWorkspace(im[r].name)
  /\ Becomes(r, [im[r] EXCEPT !.at = "create", !.name = None, !.ws = CreatedId,
                              !.left = im[r].file.profiles])
  /\ UNCHANGED others

AllButOne(r) == Cardinality(im[r].left) <= 1

AllCreated(r) == im[r].left = {}

ImportCreate(r) ==
  /\ im[r].at = "create"
  /\ \E p \in im[r].left :
       /\ InsertProfile(im[r].ws, p[1], p[2])
       /\ Written(im[r].ws, [im EXCEPT ![r].left = @ \ {p}])
  /\ UNCHANGED edits

\* An empty active profile is not set; one that is not among the profiles is.
ImportActive(r) ==
  /\ im[r].at = "create"
  /\ AllCreated(r)
  /\ IF im[r].file.profile = NoProfile
     THEN UNCHANGED storeVars
     ELSE UpdateActiveProfile(im[r].ws, im[r].file.profile)
  /\ Written(im[r].ws, [im EXCEPT ![r].at = "point"])
  /\ UNCHANGED edits

ImportPoint(r) ==
  /\ im[r].at = "point"
  /\ UpsertActive(im[r].ws)
  /\ Becomes(r, NoImport)
  /\ UNCHANGED others

\* A statement fails: what has been written stays.
ImportFails(r) ==
  /\ im[r].at # "idle"
  /\ Becomes(r, NoImport)
  /\ UNCHANGED <<storeVars, others>>

-----------------------------------------------------------------------------
Exports ==
  \/ \E w \in WsId : ExportOpen(w)
  \/ ExportList \/ ExportFind \/ ExportRead \/ Download \/ ExportFails

Imports(r) ==
  \/ \E f \in UserFiles \cup ({file} \ {None}) : ImportAsks(r, f)
  \/ ImportInsert(r) \/ ImportCreate(r) \/ ImportActive(r) \/ ImportPoint(r) \/ ImportFails(r)

Next ==
  \/ OthersName
  \/ \E w \in WsId : OthersEdit(w)
  \/ Exports
  \/ \E r \in Importer : Imports(r)

Spec == Init /\ [][Next]_vars

-----------------------------------------------------------------------------
(***************************************************************************)
(* Properties.                                                             *)
(***************************************************************************)

\* The profiles of a workspace as a file has them.
PairsOf(w) == {<<profiles[p].name, services[p]>> : p \in {q \in ProfId : ProfExists(q) /\ profiles[q].ws = w}}

\* When an import is about to make its workspace active, it is complete: it has the file's
\* profiles with their services, and the file's active profile, unless somebody
\* else wrote to it meanwhile. An import that fails half way never gets there.
ImportIsComplete ==
  \A r \in Importer :
    im[r].at = "point" /\ im[r].alone =>
      /\ PairsOf(im[r].ws) = im[r].file.profiles
      /\ workspaces[im[r].ws].profile = im[r].file.profile

\* The round trip: a workspace that was exported, and not written to since the export began, is
\* what the import of that file has built, whatever was written to others in between.
RoundTrip ==
  \A r \in Importer :
    im[r].at = "point" /\ im[r].alone /\ im[r].file.of # 0 =>
      /\ PairsOf(im[r].ws) = PairsOf(im[r].file.of)
      /\ workspaces[im[r].ws].profile = workspaces[im[r].file.of].profile

\* No two workspaces have one name, though the free name of an import is looked up
\* one statement before it is taken and creations and renamings go on.
WorkspaceNamesIdentify ==
  \A v, w \in WsId :
    WsExists(v) /\ WsExists(w) /\ workspaces[v].name = workspaces[w].name => v = w
=============================================================================
