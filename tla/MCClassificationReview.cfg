CONSTANTS
  Sources = {a}
  Values = {v1, v2}
  Classify <- MCClassify
  Workers = {w1, w2}
  Reviewers = {r1, r2}
  LastDay = 1
  MaxRevs = 3
  MaxProposals = 2
  None = None
SPECIFICATION Spec
INVARIANT DecidedOnLatest
INVARIANT QueueIsExact
PROPERTY ReviewStands
PROPERTY ProposalsSurvive
SYMMETRY Symmetry
