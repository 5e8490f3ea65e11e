\* A workspace is exported and imported while others write.
CONSTANTS
  a = a
  dev = dev
  qa = qa
  postgres = postgres
  Importer = {r1}
  WorkspaceNames <- MCWorkspaceNames
  ProfileNames = {dev, qa}
  TemplateNames = {t1}
  Types = {postgres}
  UserFiles <- MCUserFiles
  MaxWorkspace = 2
  MaxProfile = 4
  MaxEdits = 2
  MaxSuffix = 1
  NoProfile = NoProfile
  Gone = Gone
  None = None
SPECIFICATION Spec
SYMMETRY Symmetry
INVARIANTS
  ImportIsComplete
  RoundTrip
  WorkspaceNamesIdentify
CHECK_DEADLOCK FALSE
