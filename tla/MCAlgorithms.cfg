\* Each algorithm is called once, with every argument of its set.
SPECIFICATION Spec
CONSTANTS
  None = None
  Byte = 8
CHECK_DEADLOCK FALSE
INVARIANTS
  MemoryRoutines
  Checksums
  EncodedMaps
  TrapEmulates
  TraceBinned
  HeadersApart
