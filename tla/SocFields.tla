------------------------------ MODULE SocFields -------------------------------
(***************************************************************************)
(* The fields of the BCM1250's system control and debug unit, of its DMA   *)
(* channels and data mover, and of its memory controllers, from            *)
(* sb1250_scd.h, sb1250_dma.h and sb1250_mc.h, as in HspFields.  Where a   *)
(* header describes a word twice, for reading and for writing, for two     *)
(* kinds of transfer or as a whole and by its parts, the word is here as   *)
(* often as it is described.  Reserved bits, which no program sets, are    *)
(* left out, and so is DATAID of a trace event: its G_ names a mask that   *)
(* no header defines.                                                      *)
(***************************************************************************)
EXTENDS Fields

ScdRevision ==
  [ SYSTEM_REVISION |-> [REVISION |-> F(8, 8), PART |-> F(16, 16), WID |-> F(32, 32)],
    SYSTEM_REVISION_BY_PARTS |->
      [ REVISION |-> F(8, 8), SOC_TYPE |-> F(4, 16), L2C_SIZE |-> F(4, 20),
        NUM_CPUS |-> F(4, 24), WID |-> F(32, 32) ] ]

ScdManufacturing ==
  [ SYSTEM_MANUF_200 |->
      [ WAFERID1 |-> F(32, 0), BIN |-> F(4, 32), WAFERID2 |-> F(4, 36), XPOS |-> F(6, 40),
        YPOS |-> F(6, 46) ],
    SYSTEM_MANUF_300 |-> [WAFERID |-> F(40, 0), XPOS |-> F(6, 40), YPOS |-> F(6, 46)] ]

ScdConfig ==
  [ SYSTEM_CFG |->
      [ LDT_PLL_BYP |-> B(3), PCI_SYNC_TEST_MODE |-> B(4), IOB0_DIV |-> B(5),
        IOB1_DIV |-> B(6), PLL_DIV |-> F(5, 7), SER0_ENABLE |-> B(12),
        SER0_RSTB_EN |-> B(13), SER1_ENABLE |-> B(14), SER1_RSTB_EN |-> B(15),
        PCMCIA_ENABLE |-> B(16), BOOT_MODE |-> F(2, 17), PCI_HOST |-> B(19),
        PCI_ARBITER |-> B(20), SOUTH_ON_LDT |-> B(21), BIG_ENDIAN |-> B(22),
        GENCLK_EN |-> B(23), LDT_TEST_EN |-> B(24), GEN_PARITY_EN |-> B(25),
        CONFIG |-> F(6, 26), CLKSTOP |-> B(32), CLKSTEP |-> B(33), CLKCOUNT |-> F(8, 34),
        PLL_BYPASS |-> B(42), PLL_IREF |-> F(2, 43), PLL_VCO |-> F(2, 45),
        PLL_VREG |-> F(2, 47), MEM_RESET |-> B(49), L2C_RESET |-> B(50),
        IO_RESET_0 |-> B(51), IO_RESET_1 |-> B(52), SCD_RESET |-> B(53),
        CPU_RESET_0 |-> B(54), CPU_RESET_1 |-> B(55), UNICPU0 |-> B(56), UNICPU1 |-> B(57),
        SB_SOFTRES |-> B(58), EXT_RESET |-> B(59), SYSTEM_RESET |-> B(60),
        MISR_MODE |-> B(61), MISR_RESET |-> B(62), SW_FLAG |-> B(63) ] ]

ScdTimers ==
  [ MBOX_CPU |-> [k \in 0 .. 3 |-> F(16, 16 * (3 - k))],
    WDOG_INIT |-> [INIT |-> F(23, 0)],
    WDOG_CNT |-> [CNT |-> F(23, 0)],
    WDOG_CFG |-> [ENABLE |-> B(0), RESET_TYPE |-> F(3, 2), HAS_RESET |-> B(8)],
    TIMER_INIT |-> [INIT |-> F(20, 0)],
    TIMER_CNT |-> [CNT |-> F(20, 0)],
    TIMER_CFG |-> [ENABLE |-> B(0), MODE |-> B(1)] ]

ScdErrors ==
  [ PERF_CNT_CFG |->
      [ SRC0 |-> F(8, 0), SRC1 |-> F(8, 8), SRC2 |-> F(8, 16), SRC3 |-> F(8, 24),
        CLEAR |-> B(32), ENABLE |-> B(33) ],
    BUS_ERR_STATUS |->
      [TID |-> F(10, 8), RID |-> F(4, 18), DCODE |-> F(3, 22), MULTERRS |-> B(30)],
    BUS_L2_ERRORS |->
      [CORR_D |-> F(8, 0), BAD_D |-> F(8, 8), CORR_T |-> F(8, 16), BAD_T |-> F(8, 24)],
    BUS_MEM_IO_ERRORS |-> [ECC_CORR |-> F(8, 0), ECC_BAD |-> F(8, 8), BUSERR |-> F(8, 16)] ]

ScdTracing ==
  [ ADDR_TRAP_INDEX |-> [INDEX |-> F(4, 0)],
    ADDR_TRAP |-> [ADDRESS |-> F(40, 0)],
    ADDR_TRAP_CFG |->
      [ CNT |-> F(3, 0), WRITE |-> B(3), ALL |-> B(4), INV |-> B(5), USESRC |-> B(6),
        SRCINV |-> B(7), AGENTID |-> F(4, 8), CATTR |-> F(3, 12) ],
    TRACE_CFG |->
      [ RESET |-> B(0), START_READ |-> B(1), START |-> B(2), STOP |-> B(3), FREEZE |-> B(4),
        FREEZE_FULL |-> B(5), DEBUG_FULL |-> B(6), FULL |-> B(7), FORCECNT |-> B(8),
        CUR_ADDR |-> F(8, 10) ],
    TRACE_EVENT |->
      [ ADDR_MATCH |-> F(4, 0), REQID_MATCH |-> B(4), DATAID_MATCH |-> B(5),
        RESPID_MATCH |-> B(6), INTERRUPT |-> B(7), DEBUG_PIN |-> B(9), WRITE |-> B(10),
        READ |-> B(11), REQID |-> F(4, 12), RESPID |-> F(4, 16), COUNT |-> F(8, 24) ] ]

ScdSequence ==
  [ TRACE_SEQUENCE |->
      [ EVENT4 |-> F(4, 0), EVENT3 |-> F(4, 4), EVENT2 |-> F(4, 8), EVENT1 |-> F(4, 12),
        FUNCTION |-> F(4, 16), ASAMPLE |-> B(18), DSAMPLE |-> B(19), DEBUGPIN |-> B(20),
        DEBUGCPU |-> B(21), CLEARUSE |-> B(22), ALLD_A |-> B(23), ALL_A |-> B(24) ] ]

DmaChannel ==
  [ DMA_CONFIG0 |->
      [ DROP |-> B(0), CHAIN_SEL |-> B(1), DESC_TYPE |-> F(2, 1), EOP_INT_EN |-> B(3),
        HWM_INT_EN |-> B(4), LWM_INT_EN |-> B(5), TBX_EN |-> B(6), TDX_EN |-> B(7),
        INT_PKTCNT |-> F(8, 8), RINGSZ |-> F(16, 16), HIGH_WATERMARK |-> F(16, 32),
        LOW_WATERMARK |-> F(16, 48) ],
    DMA_CONFIG1 |->
      [ HDR_CF_EN |-> B(0), ASIC_XFR_EN |-> B(1), PRE_ADDR_EN |-> B(2), FLOW_CTL_EN |-> B(3),
        NO_DSCR_UPDT |-> B(4), L2CA |-> B(5), RX_XTRA_STATUS |-> B(6), TX_CPU_PAUSE |-> B(6),
        TX_FC_PAUSE_EN |-> B(7), HDR_SIZE |-> F(9, 21), ASICXFR_SIZE |-> F(9, 37),
        INT_TIMEOUT |-> F(16, 48) ],
    DMA_CUR_DSCRADDR |-> [ADDR |-> F(40, 0), COUNT |-> F(16, 40), CH_PAUSE_ON |-> B(56)],
    DMA_OODPKTLOST |-> [OODLOST |-> F(16, 0), EOP_COUNT |-> F(8, 16)] ]

DmaDescriptor ==
  [ DSCRA |->
      [ OFFSET |-> F(5, 0), A_ADDR |-> F(35, 5), A_SIZE |-> F(9, 40), INTERRUPT |-> B(49),
        OFFSETB |-> B(50), STATUS |-> F(13, 51) ],
    DSCRA_UNALIGNED |->
      [ A_ADDR |-> F(40, 0), DSCR_CNT |-> F(8, 40), INTERRUPT |-> B(49), OFFSETB |-> B(50),
        STATUS |-> F(13, 51) ],
    DSCRB |->
      [ OPTIONS |-> F(4, 0), B_ADDR |-> F(35, 5), B_SIZE |-> F(9, 40), B_VALID |-> B(49),
        PKT_SIZE |-> F(14, 50) ],
    DSCRB_UNALIGNED |->
      [ OPTIONS |-> F(4, 0), A_SIZE |-> F(14, 8), PKT_SIZE_MSB |-> F(2, 48),
        PKT_SIZE |-> F(14, 50) ] ]

DmaStatus ==
  [ DSCRA_ETHRX |->
      [ BADIP4CS |-> B(51), DSCRERR |-> B(52), RXCH |-> F(2, 53), PKTTYPE |-> F(3, 55),
        MATCH_HASH |-> B(58), MATCH_EXACT |-> B(59), BCAST |-> B(60), MCAST |-> B(61),
        BAD |-> B(62), SOP |-> B(63) ],
    DSCRB_RX |-> [STATUS |-> B(0)],
    DSCRB_ETHRX |-> [BADTCPCS |-> B(0), VLAN_FLAG |-> B(1), CRC_FLAG |-> B(2)],
    DSCRA_SERRX |->
      [ CRC_ERROR |-> B(56), ABORT |-> B(57), OCTET_ERROR |-> B(58),
        LONGFRAME_ERROR |-> B(59), SHORTFRAME_ERROR |-> B(60), OVERRUN_ERROR |-> B(61),
        GOOD |-> B(62), SOP |-> B(63) ],
    DSCRA_ETHTX |-> [SOP |-> B(63)],
    DSCRA_SERTX |-> [FLAG |-> B(63)] ]

DataMover ==
  [ DM_DSCR_BASE |->
      [ ADDR |-> F(36, 4), RINGSZ |-> F(16, 40), PRIORITY |-> F(3, 56), ACTIVE |-> B(59),
        INTERRUPT |-> B(60), RESET |-> B(61), ERROR |-> B(61), ABORT |-> B(62),
        ENABL |-> B(63) ],
    DM_CUR_DSCR |-> [DSCR_ADDR |-> F(40, 0), DSCR_COUNT |-> F(16, 48)],
    DM_PARTIAL |-> [CRC_PARTIAL |-> F(32, 0), TCPCS_PARTIAL |-> F(16, 32), ODD_BYTE |-> B(48)],
    CRC_DEF |-> [CRC_INIT |-> F(32, 0), CRC_POLY |-> F(32, 32)],
    CTCP_DEF |->
      [ CRC_TXOR |-> F(32, 0), TCPCS_INIT |-> F(16, 32), CRC_WIDTH |-> F(2, 48),
        CRC_BIT_ORDER |-> B(50) ] ]

MoverDescriptor ==
  [ DM_DSCRA |->
      [ DST_ADDR |-> F(40, 0), UN_DEST |-> B(40), UN_SRC |-> B(41), INTERRUPT |-> B(42),
        THROTTLE |-> B(43), DIR_DEST |-> F(2, 44), DIR_SRC |-> F(2, 46), ZERO_MEM |-> B(48),
        PREFETCH |-> B(49), L2C_DEST |-> B(50), L2C_SRC |-> B(51), RD_BKOFF |-> B(52),
        WR_BKOFF |-> B(53), TCPCS_EN |-> B(54), TCPCS_RES |-> B(55), TCPCS_AP |-> B(56),
        CRC_EN |-> B(57), CRC_RES |-> B(58), CRC_AP |-> B(59), CRC_DFN |-> B(60),
        CRC_XBIT |-> B(61) ],
    DM_DSCRB |-> [SRC_ADDR |-> F(40, 0), SRC_LENGTH |-> F(20, 40)] ]

MemoryChannel ==
  [ MC_CONFIG |->
      [ CHANNEL_SEL |-> F(8, 8), BANK0_MAP |-> F(4, 16), BANK1_MAP |-> F(4, 20),
        BANK2_MAP |-> F(4, 24), BANK3_MAP |-> F(4, 28), QUEUE_SIZE |-> F(4, 40),
        AGE_LIMIT |-> F(4, 44), WR_LIMIT |-> F(4, 48), IOB1HIGHPRIORITY |-> B(52),
        CS_MODE |-> F(4, 56), ECC_DISABLE |-> B(60), BERR_DISABLE |-> B(61),
        FORCE_SEQ |-> B(62), DEBUG |-> B(63) ] ]

MemoryClock ==
  [ MC_CLK_CFG |->
      [ CLK_RATIO |-> F(4, 0), REF_RATE |-> F(8, 8), CLOCK_DRIVE |-> F(4, 16),
        DATA_DRIVE |-> F(4, 20), ADDR_DRIVE |-> F(4, 24), REF_DISABLE |-> B(30),
        DLL_BYPASS |-> B(31), DQI_SKEW |-> F(8, 32), DQO_SKEW |-> F(8, 40),
        ADDR_SKEW |-> F(8, 48), DLL_DEFAULT |-> F(8, 56) ] ]

MemoryCommands ==
  [ MC_DRAMCMD |->
      [COMMAND |-> F(4, 0), CS0 |-> B(4), CS1 |-> B(5), CS2 |-> B(6), CS3 |-> B(7)],
    MC_DRAMMODE |->
      [ EMODE |-> F(15, 0), MODE |-> F(15, 16), DRAM_TYPE |-> F(3, 32),
        EXTERNALDECODE |-> B(35), PRE_ON_A8 |-> B(36), RAM_WITH_A13 |-> B(38) ] ]

MemoryTiming ==
  [ MC_TIMING1 |->
      [ tRCD |-> F(4, 0), tCrD |-> F(3, 4), tCrDh |-> B(7), tCwD |-> F(4, 8),
        tRP |-> F(4, 16), tRRD |-> F(4, 20), tRCw |-> F(4, 24), tRCr |-> F(4, 28),
        tCwCr |-> F(4, 40), tRFC_PLUS16 |-> B(51), tRFC |-> F(4, 52), tFIFO |-> F(4, 56),
        w2rIDLE |-> B(60), r2wIDLE |-> B(61), r2rIDLE |-> B(62) ] ]

MemorySelects ==
  [ MC_CS_START |-> [k \in 0 .. 3 |-> F(16, 16 * k)],
    MC_CS_END |-> [k \in 0 .. 3 |-> F(16, 16 * k)],
    MC_CS_INTERLEAVE |-> [INTERLEAVE |-> F(18, 7)],
    MC_CS_ROW |-> [RAS_SELECT |-> F(25, 12)],
    MC_CS_COL |-> [CAS_SELECT |-> F(18, 5)],
    MC_CS_BA |-> [BA_SELECT |-> F(20, 5)],
    MC_CS_ATTR |-> [k \in 0 .. 3 |-> F(2, 16 * k)],
    MC_TEST_ECC |-> [ECC_INVERT |-> F(8, 0)] ]
=============================================================================
