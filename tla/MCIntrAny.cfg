SPECIFICATION Spec
CONSTANTS
  h1 = h1
  h2 = h2
  NULL = NULL
  Ints = {0, 1}
  SoftInts = {0}
  Handlers = {h1, h2}
  FPMask <- MCFPMask
  HwFP <- WithoutMDMX
  MXEnabled = FALSE
  Shy = {}
  FromMain = {h1}
  MainOps = {"set_ie", "enable_int", "disable_int", "clear_softint", "add", "init"}
  HandlerOps = {"serve", "frame", "softint", "remove_self", "remove", "add"}
  ShutdownMasked = FALSE
INVARIANTS
  SavesUnion
CHECK_DEADLOCK FALSE
