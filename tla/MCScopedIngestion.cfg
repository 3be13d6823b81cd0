CONSTANTS
  NumFunds = 2
  ChunkSize = 1
  Previews = {p1, p2}
  SubmitKeys = {k1}
  RetryKeys = {x1}
  Requests = {r1, r2}
  Workers = {w1}
  MaxOps = 2
  None = None
SPECIFICATION Spec
INVARIANT RetryCoversFailures
INVARIANT SubmittedWhole
INVARIANT AnswersMatch
PROPERTY FrozenScope
SYMMETRY Symmetry
