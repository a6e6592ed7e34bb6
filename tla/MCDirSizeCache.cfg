CONSTANTS
  a = a
  b = b
  c = c
  top = top
  sub = sub
  File = {a, b}
  Dir = {top, sub}
  Parent <- Tree
  Under <- Files
  NoDir = NoDir
  Job = {j1, j2}
  Caller = {c1, c2}
  Handler = {h1}
  Target = {a, sub}
  MaxOps = 1
  Unusual = {"blocking", "write", "failure"}
  NoJob = NoJob

SYMMETRY Symmetry
SPECIFICATION Spec
INVARIANT TypeOK
INVARIANT SharedSizeIsRight
CHECK_DEADLOCK FALSE
