SPECIFICATION FairSpec
CONSTANTS
  Size = 3
  Base = 7
  ASIDs = {0, 1}
  InitialTLBs <- MCInitialTLBs
  MaskedVPN = FALSE
INVARIANTS
  NoShutdown
  SafeRangeSuffices
PROPERTIES
  ResetComplete
  Terminates
