SPECIFICATION FairSpec
CONSTANTS
  MaxBatches = 2
  MaxBytes = 4
  Sizes = {2, 5}
  Clock = {1, 3}
  RebuildAfter = 2
  Invalid = {2}
  Ahead = {1}
  MaxAdded = 2
  MaxDoc = 0
  MaxFaults = 2
  Faults = {"crash", "damage", "session"}
INVARIANTS BytesExact
PROPERTIES EventuallySettled
