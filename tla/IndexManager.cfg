CONSTANTS
  Core = {c1, c2}
  Service = service
  MaxCrashes = 2
  MaxInstalls = 2

SPECIFICATION FairSpec
INVARIANT TypeOK
INVARIANT NoOrphan
INVARIANT ConfigTakesEffect
PROPERTY SearchComesBack
PROPERTY AdopterKeepsSearch
CHECK_DEADLOCK FALSE
