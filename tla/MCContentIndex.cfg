CONSTANTS
  Path = {p1, p2, p3}
  MaxOps = 5
  MaxEvents = 3
  ChanCap = 2
  Binary = {2}
  TextLen <- EqualText
  Budget = 0
  BatchSize = 2
  Renames = FALSE
  NoFile = NoFile
  NoRow = NoRow
  NoMeta = NoMeta
  NoText = NoText
  Unreadable = Unreadable

SPECIFICATION Spec
INVARIANT TypeOK
INVARIANT ExaminedIsCurrent
INVARIANT ReadableFilesAreSearchable
CHECK_DEADLOCK FALSE
