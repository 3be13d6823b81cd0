CONSTANTS
  Keys = {k1, k2}
  Clients = {c1, c2}
  Workers = {w1, w2}
  Unhandled = {k2}
  Poison = {}
  MaxJobs = 3
  MaxChunks = 2
  MaxNow = 0
  LeaseSeconds = 1
  None = None
SPECIFICATION Spec
INVARIANT NoStaleWork
INVARIANT EffectsMatchProgress
PROPERTY LedgerSpec
SYMMETRY Symmetry
