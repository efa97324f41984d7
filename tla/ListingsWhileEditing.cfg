CONSTANTS
  Rows <- RowSet
  Keys <- KeySet
  Limit = 2
SPECIFICATION Spec
INVARIANTS TypeOK NothingMissed NothingTwice TotalCoversPage
