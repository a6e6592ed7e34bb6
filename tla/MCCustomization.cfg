SPECIFICATION Spec
CONSTANTS
  Desktop = Desktop
  App = App
  Shell = Shell
  Name = Name
  Icon = Icon
  Comment = Comment
  Pinned = Pinned
  Type = Type
  Directory = Directory
  Space = Space
  Break = Break
  Semi = Semi
  Esc = Esc
  a = a
  b = b
  DirFiles <- Dirs
  IniFiles <- Inis
  Requests <- Asks
  Slot = {r1, r2}
  MaxRequests = 3
  MaxFaults = 1
SYMMETRY Slots
INVARIANTS TypeOK QuietFileIsAsAsked EditIsLossless FirstEditKeepsLook
CHECK_DEADLOCK FALSE
