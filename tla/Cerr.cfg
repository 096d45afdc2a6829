\* Two processors, which may overlap in the handler; one set of the icache.
CONSTANTS
  CPUs = {c1, c2}
  Sets = {1}
  OtherBits = {"OTHER"}
SPECIFICATION CerrSpec
INVARIANTS RegistersKept ReturnsRecovered
PROPERTY RecoverableReturns
CHECK_DEADLOCK FALSE
