\* Workspaces come and go, and their profiles are edited, under requests in flight.
CONSTANTS
  r1 = r1
  r2 = r2
  Request = {r1, r2}
  WorkspaceNames = {a, b}
  ProfileNames = {dev, local}
  TemplateNames = {t1}
  Types = {postgres}
  MaxWorkspace = 2
  MaxProfile = 2
  MaxSuffix = 2
  NoProfile = NoProfile
  Gone = Gone
  LocalProfile = local
  Op = {"createProfile", "deleteProfile", "activateProfile", "updateProfile", "addService", "updateService", "removeService", "fork", "backup", "createTemplate", "deleteTemplate"}
SPECIFICATION Spec
CONSTRAINT Explored
SYMMETRY Symmetry
INVARIANTS
  NamesIdentify
  ActiveWorkspaceExists
  NoOrphans
PROPERTIES
  KeepsAService
  NewIdsAreFresh
CHECK_DEADLOCK FALSE
