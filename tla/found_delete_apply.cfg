\* Deleting an apply session.
CONSTANTS
  postgres = postgres
  postgres2 = postgres2
  redis = redis
  Session = {s1, s2}
  Request = {r1}
  Workspaces = {w1}
  Profiles = {local}
  Services = {postgres}
  Supported = {postgres}
  TypeName <- MCTypeName
  LocalProfile = local
  None = None
  MaxStamp = 1
  Kinds = {"backup", "apply"}
  StoreMayFail = FALSE
SPECIFICATION Spec
SYMMETRY SessionSymmetry
INVARIANTS
  ListedBackupIsOnDisk
CHECK_DEADLOCK FALSE
