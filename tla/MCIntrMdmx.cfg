SPECIFICATION Spec
CONSTANTS
  h1 = h1
  h2 = h2
  NULL = NULL
  Ints = {0, 1}
  SoftInts = {0}
  Handlers = {h1, h2}
  FPMask <- MCFPMask
  HwFP <- WithMDMX
  MXEnabled = TRUE
  Shy = {}
  FromMain = {h1, h2}
  MainOps = {"set_ie", "enable_int", "add", "init"}
  HandlerOps = {"serve"}
  ShutdownMasked = TRUE
INVARIANTS
  AllFPPreserved
CHECK_DEADLOCK FALSE
