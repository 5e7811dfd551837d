SPECIFICATION Spec
CONSTANTS
  Hosts = {h1, h2}
  Servers = {s1, s2}
  Commands = {c1, c2}
  Paths = {f}
  NoKey = NoKey
  NoFile = NoFile
  Partial = Partial
  SubnetSize = 5
  EnrollmentTTL = 1
  MaxTime = 1
  MaxKeys = 2
SYMMETRY Symmetry
INVARIANTS SecretPairsPeer ConfigAccepted RightHost
