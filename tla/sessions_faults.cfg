\* Store writes may fail; no symmetry, since fairness is assumed.
CONSTANTS
  postgres = postgres
  postgres2 = postgres2
  redis = redis
  Session = {s1, s2}
  Request = {r1}
  Workspaces = {w1}
  Profiles = {local}
  Services = {postgres, redis}
  Supported = {postgres}
  TypeName <- MCTypeName
  LocalProfile = local
  None = None
  MaxStamp = 1
  Kinds = {"backup", "apply"}
  StoreMayFail = TRUE
SPECIFICATION LiveSpec
PROPERTIES
  ImplementsLifecycle
  Settles
CHECK_DEADLOCK FALSE
