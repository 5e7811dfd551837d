SPECIFICATION Spec
CONSTANTS
  Parts = 2
  Window = 1
  RawTTL = 2
  RollupTTL = 2
  PurgeBatch = 1
  MaxHour = 4
  MaxStored = 3
  MaxFaults = 1
INVARIANT NoRowUnaggregated
