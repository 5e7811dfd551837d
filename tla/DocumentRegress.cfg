SPECIFICATION MCSpec
CONSTANTS
  MaxBatches = 1
  MaxBytes = 100
  Sizes = {1}
  Clock = {1, 3}
  RebuildAfter = 2
  Invalid = {}
  Ahead = {}
  MaxAdded = 3
  MaxDoc = 2
  MaxFaults = 0
  Faults = {}
INVARIANTS
  DocumentNeverOlder
