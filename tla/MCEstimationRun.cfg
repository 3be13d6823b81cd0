CONSTANTS
  c1 = c1
  c2 = c2
  c3 = c3
  p1 = p1
  p2 = p2
  s1 = s1
  i1 = i1
  b1 = b1
  equity = equity
  good = good
  bad = bad
  Shares = {s1}
  Classes = {equity}
  Indexes = {i1}
  Components <- MCComponents
  ValidFor <- MCValidFor
  Lookback = 3
  MinTOverN = 1
  LastDay = 4
  None = None
  Callers = {c1, c2, c3}
  Runs = {r1}
  Setting <- MCSetting
  Worlds <- MCWorlds
  Factors = {good, bad}
  Comparable = {good, bad}
  Close = {good}
  MinMembers = 1
  ValidationMinTOverN = 1
  WarningTOverN = 2
  MaxCrashes = 1
SPECIFICATION FairSpec
INVARIANTS
  OneExecutor
  ApprovedIsWhole
  SameAnswer
PROPERTIES
  FinalIsKept
  RunsEnd
CHECK_DEADLOCK FALSE
