SPECIFICATION LockFairSpec
CONSTANTS
  CPUs = {c1, c2, c3}
  LockVals <- MCLockVals
  MaxLost = 1
PROPERTIES
  TrylockTellsTruth
  ImplementsLock
  SomebodyGetsIn
