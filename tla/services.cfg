\* A session or a browser request on minio beside others, or a session on postgres.
CONSTANTS
  Bucket = {b1, b2}
  Configured = {b2}
  Key <- MCKey
  Content = {c1, c2}
  Job = {j1, j2}
  Request = {r1}
  Together = {{j1, j2}, {r1}}
  MaxSelected = 2
  MaxPending = 3
  MaxObjects = 2
  MaxWrites = 1
  None = None
  Tables = {1, 2}
  MaxId = 2
  Missing = Missing
SPECIFICATION ServicesSpec
SYMMETRY Symmetry
INVARIANTS
  ManifestIsBacked
  BackupIsFaithful
  RestoreBringsBack
  DeletedAreGone
  ArchiveIsWhole
  QuietDumpReloads
  AllOrNothing
PROPERTIES
  OnlySelectedGo
CHECK_DEADLOCK FALSE
