SPECIFICATION EitherSpec
CONSTANTS
  a1 = a1
  a2 = a2
  b = b
  proxy = proxy
  NoAddr = NoAddr
  NoHash = NoHash
  Passwords = {p, q}
  Requests = {r1, r2}
  Sources <- MCSources
  Prefix <- MCPrefix
  Trusted <- MCTrusted
  Limit = 2
  Window = 2
  MaxClients = 2
  EvictFraction = 2
  SessionTTL = 0
  MaxTime = 2
  MaxTokens = 2
  MaxWrong = 3
  Keys = {k1, k2, k3}
  Calls = {c1, c2}
  Every = 1
  Burst = 1
  MaxKeys = 2
  KeyFraction = 2
  IdleAfter = 1
  MaxClock = 2
  MaxAdmitted = 3
SYMMETRY Symmetry
INVARIANTS OwnFailures AttemptsBounded RateHolds
 
