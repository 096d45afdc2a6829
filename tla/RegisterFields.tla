--------------------------- MODULE RegisterFields ----------------------------
(* The fields of all registers, by table and register. *)
EXTENDS HspFields, PmFields, McFields, MacFields, SocFields

Tables ==
  [ HspReceiver |-> HspReceiver, HspTransmitter |-> HspTransmitter,
    HspErrors |-> HspErrors, HspReceiverRam |-> HspReceiverRam,
    HspTransmitterRam |-> HspTransmitterRam, HspChannels |-> HspChannels,
    HspCounts |-> HspCounts, HspClocks |-> HspClocks, HspTests |-> HspTests,
    HspVisibility |-> HspVisibility, PmQueue |-> PmQueue,
    PmInterrupts |-> PmInterrupts, PmDescriptor |-> PmDescriptor,
    SwitchCounters |-> SwitchCounters, SwitchTracing |-> SwitchTracing,
    SwitchEntry |-> SwitchEntry, McMapping |-> McMapping,
    McRows |-> McRows, McColumns |-> McColumns, McMode |-> McMode, McDrive |-> McDrive,
    McTiming |-> McTiming, McGlobal |-> McGlobal, MacCfg |-> MacCfg,
    MacControl |-> MacControl, MacFrame |-> MacFrame, MacStatus |-> MacStatus,
    MacFifos |-> MacFifos, MacFilter |-> MacFilter,
    ScdRevision |-> ScdRevision, ScdManufacturing |-> ScdManufacturing,
    ScdConfig |-> ScdConfig, ScdTimers |-> ScdTimers, ScdErrors |-> ScdErrors,
    ScdTracing |-> ScdTracing, ScdSequence |-> ScdSequence,
    DmaChannel |-> DmaChannel, DmaDescriptor |-> DmaDescriptor,
    DmaStatus |-> DmaStatus, DataMover |-> DataMover,
    MoverDescriptor |-> MoverDescriptor, MemoryChannel |-> MemoryChannel,
    MemoryClock |-> MemoryClock, MemoryCommands |-> MemoryCommands,
    MemoryTiming |-> MemoryTiming, MemorySelects |-> MemorySelects ]
=============================================================================
