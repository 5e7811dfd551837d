SPECIFICATION FairSpec
CONSTANTS
  Parts = 2
  Window = 1
  RawTTL = 1
  RollupTTL = 2
  PurgeBatch = 1
  MaxHour = 3
  MaxStored = 2
  MaxFaults = 2
INVARIANTS AggregatedBeforeDeleted LatestIsNewest
PROPERTIES EventuallyAggregated
