SPECIFICATION SemFairSpec
CONSTANTS
  CPUs = {c1, c2, c3}
  Limit = 2
  MaxInt = 4
  Surpluses = TRUE
  MaxLost = 1
\* All CPUs trapped is where a program of surplus releases really stops.
CHECK_DEADLOCK FALSE
INVARIANTS
  SemInv
PROPERTIES
  ImplementsSemaphore
  TakersProgress
