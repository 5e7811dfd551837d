SPECIFICATION FairSpec
CONSTANTS
  s1 = s1
  s2 = s2
  b1 = b1
  b2 = b2
  b3 = b3
  r1 = r1
  r2 = r2
  r3 = r3
  u1 = u1
  Subscribers = {s1, s2}
  Batches = {b1, b2, b3}
  Results = {u1}
  Records <- MCRecords
  Wanted <- MCWanted
  SubscriberBuffer = 2
CHECK_DEADLOCK FALSE
INVARIANTS OpenIffRegistered NoGaps GoodbyeIsTrue 
PROPERTIES EventuallyReleased
