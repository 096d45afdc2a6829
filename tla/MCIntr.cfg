SPECIFICATION FairSpec
CONSTANTS
  h1 = h1
  h2 = h2
  NULL = NULL
  Ints = {0, 1}
  SoftInts = {0}
  Handlers = {h1, h2}
  FPMask <- MCFPMask
  HwFP <- WithMDMX
  MXEnabled = FALSE
  Shy = {h2}
  FromMain = {h1, h2}
  MainOps <- MostMainOps
  HandlerOps = {"serve", "remove_self"}
  ShutdownMasked = TRUE
INVARIANTS
  FPPreserved
  EachHandlerRunsOnce
  RequestsStick
PROPERTIES
  Served
CHECK_DEADLOCK FALSE
