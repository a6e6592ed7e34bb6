CONSTANTS
  Path = {p1, p2}
  MaxOps = 4
  MaxEvents = 3
  ChanCap = 2
  Binary = {2}
  TextLen <- GrowingText
  Budget = 4
  BatchSize = 2
  Renames = TRUE
  NoFile = NoFile
  NoRow = NoRow
  NoMeta = NoMeta
  NoText = NoText
  Unreadable = Unreadable

SPECIFICATION FairSpec
INVARIANT TextMatchesMeta
PROPERTY NewFilesRespectBudget
PROPERTY BacklogDrains
CHECK_DEADLOCK FALSE
