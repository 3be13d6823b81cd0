CONSTANTS
  Keys = {k1, k2}
  Clients = {c1, c2}
  Workers = {w1}
  Unhandled = {k1, k2}
  Poison = {}
  MaxJobs = 2
  MaxChunks = 1
  MaxNow = 0
  LeaseSeconds = 1
  None = None
  Portfolios = {p1, p2}
  Backtests = {b1}
  Decisions = {d1}
  Readers <- MCReaders
  Actions = {"APPROVED"}
  MaxReviews = 2
SPECIFICATION CommandsSpec
INVARIANT RecordsMatchJobs
SYMMETRY Symmetry
