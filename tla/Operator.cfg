SPECIFICATION FairSpec
CONSTANTS
  First = c1
  Home = h1
  Hosts = {h1, h2}
  Commands = {c1, c2}
  QueuedExpiry = 1
  RunningExpiry = 1
  ResultRetention = 1
  ClaimBatch = 2
  MaxOrphans = 1
  MaxAge = 2
INVARIANTS StartedAtMostOnce ExpiredNeverRuns StartsInQueueOrder 
PROPERTIES ClosedIsFinal EventuallyForgotten
