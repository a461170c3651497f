SPECIFICATION FairStoreSpec
CONSTANTS
  Sessions = {s1, s2}
  Ids = {i1}
  Cancels = {}
  Minted = {{i1}}
  MaxDisturbances = 0
  None = None
INVARIANTS RowsPopulated
CHECK_DEADLOCK FALSE
