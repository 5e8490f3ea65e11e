\* An object is deleted while an archive is written.
CONSTANTS
  Bucket = {b1}
  Configured = {}
  Key <- MCKey
  Content = {c1}
  Job = {}
  Request = {r1, r2}
  Together = {{r1, r2}}
  MaxSelected = 1
  MaxPending = 1
  MaxObjects = 2
  MaxWrites = 0
  None = None
SPECIFICATION Spec
INVARIANTS
  TruncationShows
CHECK_DEADLOCK FALSE
