CONSTANTS
  NumFunds = 2
  ChunkSize = 1
  Previews = {p1}
  SubmitKeys = {k1}
  RetryKeys = {x1}
  Requests = {r1, r2}
  Workers = {w1, w2}
  MaxOps = 2
  None = None
SPECIFICATION FairSpec
INVARIANT ProgressIsExact
PROPERTY NothingRunsAfterCancel
PROPERTY CancelEnds
