SPECIFICATION Spec
CONSTANTS
  Platform = {"windows", "macos"}
  Client = {"none", "subscriber", "pager"}
  Dir = {d, e}
  DirName = {1, 2}
  MaxVersion = 2
  MaxOps <- Ops
  MaxMishaps <- Mishaps
  ChanCap = 1
  SubCap = 1
  PageSize = 1
INVARIANTS TypeOK CompleteAtRest ExactAtRest PagingSeesAll
PROPERTIES HearsInOrder
CHECK_DEADLOCK FALSE
