SPECIFICATION MCSpec
CONSTANTS
  MaxBatches = 2
  MaxBytes = 100
  Sizes = {1}
  Clock = {1, 3}
  RebuildAfter = 2
  Invalid = {2}
  Ahead = {1}
  MaxAdded = 3
  MaxDoc = 2
  MaxFaults = 1
  Faults = {"crash", "damage", "write", "delete", "session"}
INVARIANTS NoSilentLoss DocumentCurrent
PROPERTIES KeepsPromise
