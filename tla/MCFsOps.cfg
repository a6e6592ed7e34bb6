SPECIFICATION Spec
CONSTANTS
  Slot = {r1, r2}
  Request <- Requests
  InitialDisk <- Disk
  TrashFiles <- Trash
  DeviceOf <- Device
  Excluded <- Blacklisted
  Protected <- SystemPaths
  Locked <- LockedDirs
  Faults = {"copy", "remove", "extract", "close", "info"}
  MaxDepth = 4
  MaxRequests = 2
INVARIANTS TypeOK AloneLosesNothing OkMeansDone TrashTellsOrigin
CHECK_DEADLOCK FALSE
