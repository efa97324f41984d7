CONSTANTS
  Keys = {k1, k2}
  Limit = 3
  Window = 3
  WindowIs = "number"
  MaxRestarts = 1
SPECIFICATION FairSpec
INVARIANTS TypeOK BurstBound RefusedOnlyWhenSpent
PROPERTY RefusalEnds
