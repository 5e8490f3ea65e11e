\* Forking the second postgres instance of a profile.
CONSTANTS
  postgres = postgres
  postgres2 = postgres2
  redis = redis
  Session = {s1, s2}
  Request = {r1}
  Workspaces = {w1}
  Profiles = {local}
  Services = {postgres2}
  Supported = {postgres2}
  TypeName <- MCTypeName
  LocalProfile = local
  None = None
  MaxStamp = 1
  Kinds = {"fork"}
  StoreMayFail = FALSE
SPECIFICATION Spec
SYMMETRY SessionSymmetry
INVARIANTS
  ForkRestoresChosen
CHECK_DEADLOCK FALSE
