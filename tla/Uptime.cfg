SPECIFICATION FairSpec
CONSTANTS
  Targets = {t1, t2}
  First = t1
  MaxTargets = 2
  Slots = 1
  MaxHandlers = 2
  MaxFailures = 1
CHECK_DEADLOCK FALSE
INVARIANTS NoLostSync
PROPERTIES DeletedEventuallyQuits ProbedForever StopsCleanly
