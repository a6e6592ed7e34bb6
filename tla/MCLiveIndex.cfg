CONSTANTS
  Path <- BothPath
  DirPath <- BothDir
  MaxOps = 3
  MaxEvents = 2
  Overflow = FALSE
  ChanCap = 1
  RowsPerTx = 2
  Fold <- CaseSensitive
  OldRows = FALSE
  NoRow = NoRow
  Unwatched = Unwatched

SPECIFICATION Spec
INVARIANT TypeOK
INVARIANT QuietIndexIsComplete
INVARIANT NoBlindDirectory
INVARIANT QuietRootIsExact
CHECK_DEADLOCK FALSE
