CONSTANTS
  Path <- SmallPath
  DirPath <- SmallDir
  MaxOps = 2
  MaxEvents = 3
  Overflow = FALSE
  ChanCap = 1
  RowsPerTx = 1
  Fold <- CaseSensitive
  OldRows = TRUE
  NoRow = NoRow
  Unwatched = Unwatched

SPECIFICATION FairSpec
PROPERTY EventuallyComplete
CHECK_DEADLOCK FALSE
