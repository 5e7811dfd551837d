SPECIFICATION EitherSpec
CONSTANTS
  Procs = {p1, p2}
  Outs = {o1, o2}
  Migrations = 2
  MaxRows = 2
  MaxTools = 3
  Containers = {w}
  Streams = {"stdout", "stderr"}
  Text <- MCText
  NL = "nl"
  Messages <- MCMessages
  Priorities = {4, 6}
  Routine <- MCRoutine
  Severity <- MCSeverity
  MaxMessage = 1
  MaxSeconds = 3
  MaxTailers = 2
  MaxFaults = 1
  MaxTicks = 2
  MaxEntries = 2
SYMMETRY Symmetry
INVARIANTS NothingLost MigratedOnce EachLineOnce LinesWhole NothingForgotten 
