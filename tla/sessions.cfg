\* No store write is lost; redis takes no backups.
CONSTANTS
  postgres = postgres
  postgres2 = postgres2
  redis = redis
  Session = {s1, s2}
  Request = {r1, r2}
  Workspaces = {w1}
  Profiles = {local}
  Services = {postgres, redis}
  Supported = {postgres}
  TypeName <- MCTypeName
  LocalProfile = local
  None = None
  MaxStamp = 2
  Kinds = {"backup", "apply", "fork"}
  StoreMayFail = FALSE
SPECIFICATION Spec
SYMMETRY SessionSymmetry
INVARIANTS
  OneRunningPerKey
  LiveIsRunning
  RunningIsLive
  FailedLeavesNoSnapshot
  SuccessKeepsSnapshot
  DeleteLeavesNothing
  ForkRestoresItsBackup
PROPERTIES
  OutcomeIsFinal
CHECK_DEADLOCK FALSE
