CONSTANTS
  Funds = {f1, f2}
  Clients = {c1}
  Target <- MCTarget
  Capital = 6
  Prices = {1, 2}
  Fee = 1
  FundLimit = 25
  CategoryLimit = 50
  MinTrade = 25
  Gains = {1}
  CostRate = 1
  Period = 0
  MaxShares = 2
  MaxReports = 2
  MaxDeliveries = 2
  MaxEvents = 1
  LastDay = 0
  None = None
SPECIFICATION Spec
INVARIANT BooksBalance
INVARIANT DriftHasTrades
PROPERTY NoSecondOrder
SYMMETRY Symmetry
VIEW Seen
