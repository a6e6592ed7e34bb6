SPECIFICATION Spec
CONSTANTS
  pa = pa
  pb = pb
  bundled = bundled
  v1 = v1
  v2 = v2
  w = w
  NoCode = NoCode
  Id = {pa, pb, bundled}
  FirstParty = {bundled}
  Package <- Packages
  Slot = {r1, r2}
  MaxRequests = 3
  MaxCrashes = 1
SYMMETRY Slots
INVARIANTS TypeOK ServedHashIsOnDisk InstallIsAtomic StateIsWhatWasAnswered
CHECK_DEADLOCK FALSE
