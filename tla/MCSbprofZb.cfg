CONSTANTS
  CpuSize <- MCCpuSize
  MaxTraces <- MCMaxTraces
SPECIFICATION Spec
INVARIANTS
  TracesKept
  InterruptsClaimed
  LineGivenBack
PROPERTY SamplesCome
CHECK_DEADLOCK FALSE
