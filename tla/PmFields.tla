------------------------------ MODULE PmFields -------------------------------
(***************************************************************************)
(* The fields of the packet manager, of its descriptors and of the switch  *)
(* of the BCM1480, from bcm1480_pm.h, as in HspFields.                     *)
(***************************************************************************)
EXTENDS Fields

PmQueue ==
  [ BASE_SIZE |-> [BASE |-> F(40, 0), SIZE |-> F(20, 40)],
    DSCR_MERGE_TIMER |-> [DS_MT_CNT |-> F(6, 0)],
    CACHE_ATTR |-> [HDR_SIZE |-> F(9, 0)],
    CNT |-> [COUNT |-> F(20, 0)],
    LAST |-> [LAST |-> F(20, 0)],
    QUEUE |->
      [ QUEUE_ENABLE |-> B(0), DS_CACHE_EN |-> B(1), HW_ASSERT |-> B(2),
        HW_ERROR |-> B(3), SW_ERROR |-> F(3, 4), FLUSH |-> B(7) ],
    INT_CNFG |->
      [ CORE_ID |-> F(2, 0), PRIORITY |-> B(4), TIMEOUT |-> F(5, 5),
        PKT_CNT |-> F(12, 11) ],
    INT_WMK |-> [LOW_WATERMARK |-> F(20, 0), HIGH_WATERMARK |-> F(20, 20)] ]

(* Eight bits of each queue, eight queues in a word; V masks its argument. *)
PM_INT(q) == F(8, (q % 8) * 256)

PmInterrupts ==
  [ INT |-> [q \in 0 .. 7 |-> PM_INT(q)],
    INT_STATUS |->
      [ EOP_COUNT |-> B(0), EOP_SEEN |-> B(1), RCV_TIMER |-> B(2), DE |-> B(3),
        HWM |-> B(4), LWM |-> B(5), RX_ERR |-> B(6), PE_ERR |-> B(7) ],
    INT_MASK |->
      [ EOP_COUNT_MSK |-> B(0), EOP_SEEN_MSK |-> B(1), RCV_TIMER_MSK |-> B(2),
        DE_MSK |-> B(3), HWM_MSK |-> B(4), LWM_MSK |-> B(5), RX_ERR_MSK |-> B(6),
        PE_ERR_MSK |-> B(7) ],
    INT_CLR |->
      [ EOP_COUNT_CLR |-> B(0), EOP_SEEN_CLR |-> B(1), RCV_TIMER_CLR |-> B(2),
        DE_CLR |-> B(3), RX_ERR_CLR |-> B(6), PE_ERR_CLR |-> B(7) ],
    PMO_MAPPING |->
      [ ID0 |-> F(2, 0), ID8 |-> F(2, 4), ID16 |-> F(2, 8), ID24 |-> F(2, 12),
        HALF0 |-> B(2), HALF8 |-> B(6), HALF16 |-> B(10), HALF24 |-> B(14) ],
    DEBUG |-> [DEBUG_MODE |-> B(0), READ_PRIORITY |-> B(1), WRITE_PRIORITY |-> B(2)],
    PREFETCH_CNT |-> [PREF_COUNT |-> F(20, 0)],
    PREFETCH |-> [PREFETCH |-> F(20, 0)] ]

PmDescriptor ==
  [ DSCR0 |->
      [ RSVD |-> F(32, 0), BUFFER_LENGTH |-> F(16, 32), PE |-> B(55), SE |-> B(56),
        LE |-> B(57), INT |-> B(60), EOP |-> B(61), SOP |-> B(62), HW |-> B(63) ],
    DSCR1 |->
      [ BUFFER_ADDR |-> F(40, 0), IVC |-> F(8, 40), NEXT_DEST |-> F(4, 48),
        RSVD |-> F(12, 52) ] ]

(* The registers of the switch: four event counters, and the tracing unit. *)
SWPERF_CFG(c) == [SRC |-> F(8, c * 16), FILT |-> F(3, 8 + c * 16), FENA |-> B(11 + c * 16)]
SwitchCounters ==
  [ SWPERF_CFG |-> [x \in {"SRC", "FILT", "FENA"} \X (0 .. 3) |-> SWPERF_CFG(x[2])[x[1]]]
                  @@ <<"CLEAR", 0>> :> B(62) @@ <<"ENABLE", 0>> :> B(63) ]

SwitchTracing ==
  [ MATCH_CONTROL |->
      [ VC |-> F(32, 0), SRC |-> F(8, 32), DEST |-> F(8, 40), TYPE |-> F(2, 48),
        SOP |-> F(2, 50), EOP |-> F(2, 52), BCAST |-> F(2, 54) ],
    EVENT |->
      [ MATCH_CTL |-> F(8, 0), MATCH_DATA |-> F(4, 8), MATCH_TAG |-> F(4, 12),
        MATCH_EN |-> B(16), DEBUG_PIN |-> B(20), INTERRUPT |-> B(21), COUNT |-> F(8, 24) ],
    SEQUENCE |->
      [ EVSEL_3 |-> F(4, 0), EVSEL_2 |-> F(4, 4), EVSEL_1 |-> F(4, 8),
        EVSEL_0 |-> F(4, 12), FUNCTION |-> F(2, 16), DSAMPLE |-> B(18),
        CSAMPLE |-> B(19), DEBUGPIN |-> B(20), DEBUGCPU |-> B(21), CLEARUSE |-> B(22),
        ZBBUSFUNC |-> F(2, 26), DSAMPFILT |-> F(3, 28) ],
    CFG |->
      [ RESET |-> B(0), STARTREAD |-> B(1), START |-> B(2), STOP |-> B(3),
        FREEZE |-> B(4), FREEZEFULL |-> B(5), DEBUGFULL |-> B(6), TRCFULL |-> B(7),
        FORCECNT |-> B(8), TRCADDR |-> F(10, 10) ] ]

SwitchEntry ==
  [ WORD0 |->
      [ VALID |-> B(63), FMT |-> B(62), MULTI |-> B(61), BCAST |-> B(60),
        CYCDIFF |-> F(12, 48), DRELOAD |-> B(47), SRELOAD |-> B(46), EOP |-> B(45),
        SOP |-> B(44), VC |-> F(5, 39), TYPE |-> B(38), DEST |-> F(3, 35),
        SRC |-> F(3, 32), CNT |-> F(4, 28), TAG |-> F(28, 0) ] ]
=============================================================================
