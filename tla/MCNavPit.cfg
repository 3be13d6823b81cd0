CONSTANTS
  Workers = {w1, w2}
  Values = {v1, v2}
  EventDays = {0}
  NavLag = 1
  DividendLag = 0
  SplitLag = 1
  LastDay = 2
  MaxVersions = 3
  MaxBatches = 3
  None = None
SYMMETRY Symmetry
SPECIFICATION Spec
INVARIANTS
  VersionsAreRevisions
  ColumnAgrees
  ChainHolds
PROPERTY RowsAreKept
CHECK_DEADLOCK FALSE
