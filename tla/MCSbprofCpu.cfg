SPECIFICATION FairSpec
CONSTANTS
  BufSize = 24
  ConfigSize = 2
  Chunk = 7
  CountMod = 8
  LongMod = 64
  NSlots = 3
  TicksPerSlot = 2
  TickMod = 8
  Counters <- MCCounters
INVARIANTS InterruptInvariant Recovered RoomUsed
PROPERTIES SlotsRotate
