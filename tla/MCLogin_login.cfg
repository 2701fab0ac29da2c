SPECIFICATION Spec
CONSTANTS
  k1 = k1
  k2 = k2
  k3 = k3
  k4 = k4
  g1 = g1
  DealKeys = {k1, k2, k3, k4}
  LoginKeys = {g1}
  Lifetime = 1
  MaxChallenges = 2
  MaxVerified = 1
  MaxClock = 3
SYMMETRY KeySymmetry
INVARIANTS
  TypeOK
  MemoryBounded
  SessionOfChallenge
PROPERTIES
  OnlyOldestEvicted
