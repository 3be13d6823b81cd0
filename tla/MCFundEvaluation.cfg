CONSTANTS
  None = None
  Profile = "active_equity"
  Weight <- MCWeight
  MinimumSample = 3
  MinimumFactors = 2
  MinimumCompleteness = 60
  EligibleTiers = {"A", "B"}
  Funds = {1, 2, 3, 4, 5}
  Groups = {g, h}
  Decisions = {d1, d2}
  Callers = {c1, c2}
  Data <- MCData
  RequireBoth = TRUE
  Evidence <- MCEvidence
  MaxChanges = 1
SPECIFICATION MCSpec
INVARIANT OneEvaluationPerFund
INVARIANT BetterIsNotWorse
PROPERTY StoredIsKept
SYMMETRY Symmetry
