CONSTANTS
  s1 = s1
  s2 = s2
  i1 = i1
  i2 = i2
  single = single
  composite = composite
  price = price
  equity = equity
  Shares = {s1, s2}
  Classes = {equity}
  Indexes = {i1, i2}
  FirstWorld <- MCFirstWorld
  Components <- MCComponents
  ValidFor <- MCValidFor
  Lookback = 3
  MinTOverN = 1
  LastDay = 5
  MaxChanges = 2
  None = None
SYMMETRY Symmetry
SPECIFICATION DataSpec
INVARIANTS
  SegmentsAreResolutions
  OneBenchmark
  SwitchesShow
CHECK_DEADLOCK FALSE
