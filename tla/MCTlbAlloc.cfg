SPECIFICATION Spec
CONSTANTS
  MaxPage = 16
  MaxEntries = 7
  Bank = 32
  VaLimit = 64
  LengthMod = 1024
  MaxRegions = 2
  Programs = {1, 3, 9}
  WastedSizes = {1, 2, 8}
  Starts = {2, 4, 56}
  Maps <- MCMaps
  Increments <- MCIncrements
INVARIANTS EntriesApart MemoryMappedOnce HeapGivesMapped
\* An overrun ends the model.
CHECK_DEADLOCK FALSE
