SPECIFICATION Spec
CONSTANTS
  Op = {a, b}
  NoEndpoint = {b}
  MaxClears = 1
  MaxStops = 1
INVARIANTS TypeOK RunsAtMostOnce ClearedNeverRuns TimeoutIsExplained
CHECK_DEADLOCK FALSE
