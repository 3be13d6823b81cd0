CONSTANTS
  Keys = {k1, k2}
  Clients = {c1}
  Workers = {w1, w2}
  Unhandled = {}
  Poison = {k2}
  MaxJobs = 2
  MaxChunks = 2
  MaxNow = 1
  LeaseSeconds = 1
  None = None
SPECIFICATION FairSpec
PROPERTY HealthyJobsEnd
