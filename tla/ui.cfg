\* Every part of the UI's screens, mounted one at a time.
CONSTANTS
  Nothing = Nothing
  k1 = k1  k2 = k2  d = d
  Buckets = {b1, b2}
  DefaultBucket = b2
  Entries = {k1, k2, d}
  Level <- MCLevel
  Folders = {Root, d}
  Root = Root
  MaxFiles = 3
  MaxConcurrent = 2
  Dbs = {0, 1}
  Keys = {k1}
  Patterns = {p1, p2}
  AnyPattern = p1
  Verbs = {"SCAN", "FLUSHDB"}
  MaxLog = 2
  MaxCommands = 2
  r1 = r1  r2 = r2
  Regions = {r1, r2}
  ConfigRegion = r1
  all = all  some = some  none = none
  Texts = {all, some, none}
  Matches <- MCMatches
  NoText = all
  Lists = {"sqs"}
  AllRegions = {r1, r2}
  Names = {q1}
  MaxCalls = 2
  p1 = p1  p2 = p2  s1 = s1  s2 = s2  s3 = s3
  Sources = {p1, p2}
  Viewed = p1
  SnapshotsOf <- MCSnapshotsOf
  StoreBuckets = {b1, b2}
  Settings = {c1, c2}
  Ports = {t, bad}
  BadPort = bad
  MaxSaves = 2
  SessionIds = {1, 2, 3}
  PageSize = 2
  MaxRemovals = 2
  Connections = {c1, c2}
  Windows = {w1, w2}
  Typed = typed
  Blank = blank
  MaxTabs = 3
  Queries = {q1}
  Writes = {v2}
  TableRows = {k1}
  Cells = {v1, v2}
  MaxRuns = 2
  MaxSent = 4
  Body <- MCBody
  MaxTokens = 4
  BuildsOf <- MCBuildsOf
  j1 = j1  j2 = j2  build1 = build1
  MaxAnswer = 2
  MaxChunks = 3
  MaxTriggers = 1
  TemplateNames = {n1, n2}
  SqlTexts = {x1}
  MaxChanges = 2
  ProfileNames = {n1, n2}
  Item = n1
  ServiceIds = {i1}
  MaxEdits = 1
SPECIFICATION UiSpec
INVARIANTS
  ScreenIsCurrent
  ChangesAreShown
  ActsOnWhatIsShown
  PoolIsSound
  TabsAreOwn
  SendsOneStatement
CHECK_DEADLOCK FALSE
