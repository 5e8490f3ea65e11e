\* A foreign key may refer to a unique index that is no constraint's.
CONSTANTS
  Tables = {1, 2}
  MaxId = 1
  Missing = Missing
SPECIFICATION PgSpec
INVARIANTS
  ReloadsCleanly
CHECK_DEADLOCK FALSE
