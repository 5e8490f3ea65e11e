----------------------------- MODULE MCWorkspaces -----------------------------
(***************************************************************************)
(* Instances of Workspaces for TLC.                                        *)
(***************************************************************************)
EXTENDS Workspaces, TLC

CONSTANTS r1, r2

Symmetry == Permutations(Request) \cup Permutations(WorkspaceNames)

(***************************************************************************)
(* Bounds.  What is explored is every request over the profiles of one     *)
(* workspace, with two instances of a service, and two workspaces with     *)
(* the requests that make or remove what a workspace owns.                 *)
(***************************************************************************)
OneWorkspace ==
  /\ nextWs <= 2
  /\ templates = {} /\ sessions = {}
  /\ \A r \in Request : req[r].op \notin {"backup", "createTemplate", "deleteTemplate"}

OwningOperations ==
  {"none", "createWorkspace", "createProfile", "addService", "replace", "backup",
   "createTemplate", "deleteTemplate"}

TwoWorkspaces ==
  /\ templates = {} \/ sessions = {}
  /\ \A p \in ProfId : services[p] \subseteq Types \X {1}
  /\ \A r \in Request : /\ req[r].op \in OwningOperations
                        /\ req[r].svcs \cup {req[r].id} \subseteq Types \X {1}

Explored == OneWorkspace \/ TwoWorkspaces
=============================================================================
