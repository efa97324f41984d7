CONSTANTS
  Keys = {k1}
  Limit = 2
  Window = 3
  WindowIs = "string"
  MaxRestarts = 1
SPECIFICATION Spec
INVARIANT RefusedOnlyWhenSpent
