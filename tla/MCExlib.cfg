SPECIFICATION FairSpec
CONSTANTS
  HasMDMX = TRUE
  Need <- MCNeed
  EnvVectors = {"first", "second"}
  MaxDepth = 2
INVARIANTS
  TakenOver
  GivesBack
  ContextKept
  PanicJustified
PROPERTIES
  MdmxServed
CHECK_DEADLOCK FALSE
