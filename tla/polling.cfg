\* A viewer or a starter follows two sessions that others start, end and delete.
CONSTANTS
  Session = {s1, s2}
  Keys = {k1}
  NoKey = NoKey
  Call = {c1, c2}
  MyKey = k1
  Outcomes = {"error"}
  MaxLines = 2
  None = None
SPECIFICATION FairSpec
INVARIANTS
  ShowsThePrefix
  EndedLogIsComplete
  OnePoller
PROPERTIES
  LearnsTheEnd
  ComesToRest
CHECK_DEADLOCK FALSE
