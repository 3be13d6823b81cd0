CONSTANTS
  c1 = c1
  c2 = c2
  a = a
  b = b
  Codes = {c1, c2}
  Classes = {a, b}
  FormalTypes = {"mixed", "index", "other"}
  AssetOf <- MCAssetOf
  NonIndexTypes = {"mixed"}
  Declares <- MCDeclares
  Targets = {"csi", "unmapped"}
  IndexAsset <- MCIndexAsset
  Overviews <- MCOverviews
  Names = {n1, n2}
  Lists <- MCLists
  Jobs <- MCJobs
  Order <- MCOrder
  Legacy = Legacy
  Workers = {w1, w2}
  MaxBegun = 3
  LastDay = 1
  None = None
SPECIFICATION Spec
INVARIANT GroupingInReview
INVARIANT CompanyIsLastWord
INVARIANT AnswersAreKept
INVARIANT DisputesStand
PROPERTY MappingStands
PROPERTY DisclosuresStand
SYMMETRY Symmetry
VIEW Seen
CHECK_DEADLOCK FALSE
