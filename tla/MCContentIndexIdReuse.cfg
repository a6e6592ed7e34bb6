CONSTANTS
  Path = {p1, p2}
  MaxOps = 4
  MaxEvents = 3
  ChanCap = 2
  Binary = {}
  TextLen <- EqualText
  Budget = 0
  BatchSize = 2
  Renames = TRUE
  NoFile = NoFile
  NoRow = NoRow
  NoMeta = NoMeta
  NoText = NoText
  Unreadable = Unreadable

SPECIFICATION Spec
INVARIANT ReadableFilesAreSearchable
CHECK_DEADLOCK FALSE
