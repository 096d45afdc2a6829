---------------------------- MODULE Registers1480 ----------------------------
(***************************************************************************)
(* The addresses of bcm1480_regs.h, which adds to those of sb1250_regs.h   *)
(* what the BCM1480 has more, or elsewhere.  The registers of the high-    *)
(* speed subsystem are counted from its first address, \hDF000000          *)
(* (A_BCM1480_PHYS_HS_SUBSYS): they have a function of their own.          *)
(***************************************************************************)
EXTENDS Registers1250

(* Memory controllers.  A pair of chip selects has its own registers. *)
A_BCM1480_MC_REGISTER(ctlid, reg) == \h10050000 + ctlid * \h1000 + reg
R_BCM1480_MC ==
  [ CONFIG |-> \h100, CS_START |-> \h120, CS_END |-> \h140, CS01_BA |-> \h380,
    CS23_BA |-> \h3A0, DRAMCMD |-> \h400, DRAMMODE |-> \h420, CLOCK_CFG |-> \h440,
    TEST_DATA |-> \h480, TEST_ECC |-> \h4A0, TIMING1 |-> \h4C0, TIMING2 |-> \h4E0,
    DLL_CFG |-> \h500, DRIVE_CFG |-> \h520 ]
R_BCM1480_MC_CSX == [ROW0 |-> 0, ROW1 |-> \h20, COL0 |-> \h100, COL1 |-> \h120]
BCM1480_MC_CSX(pair, reg) == \h180 + pair * \h80 + reg
R_BCM1480_MC_CS ==
  [ ROW0 |-> <<\h180, \h200>>, ROW1 |-> <<\h1A0, \h220>>, COL0 |-> <<\h280, \h300>>,
    COL1 |-> <<\h2A0, \h320>> ]
A_BCM1480_MC_GLB ==
  [ CONFIG |-> \h10054100, INTLV |-> \h10054120, ECC_STATUS |-> \h10054140,
    ECC_ADDR |-> \h10054160, ECC_CORRECT |-> \h10054180, PERF_CNT_CONTROL |-> \h100541A0 ]
A_BCM1480_L2 ==
  [ READ_TAG |-> \h10040018, ECC_TAG |-> \h10040038, MISC0_VALUE |-> \h10040058,
    MISC1_VALUE |-> \h10040078, MISC2_VALUE |-> \h10040098, MISC_CONFIG |-> \h10040040,
    CACHE_DISABLE |-> \h10040060, WAY_ENABLE_3_0 |-> \h10040080,
    WAY_ENABLE_7_4 |-> \h100400A0, WAY_LOCAL_3_0 |-> \h10040100,
    WAY_LOCAL_7_4 |-> \h10040120, WAY_REMOTE_3_0 |-> \h10040140,
    WAY_REMOTE_7_4 |-> \h10040160, WAY_AGENT_3_0 |-> \h100400C0,
    WAY_AGENT_7_4 |-> \h100400E0 ]

-----------------------------------------------------------------------------
(* Two serial ports: channels 0 and 1 are of the first, 2 and 3 (C and D)  *)
(* of the second, whose registers the header names, too.                   *)
A_BCM1480_DUART(chan) == IF (chan \div 2) % 2 = 0 THEN \h10060000 ELSE \h10060400
A_BCM1480_DUART_CHANREG(chan, reg) == A_BCM1480_DUART(chan) + \h100 * (chan % 2) + reg
A_BCM1480_DUART_INTREG(chan, reg) ==
  A_BCM1480_DUART(chan) + R_DUART_INTREG(chan % 2, reg)
A_BCM1480_DUART_CHAN ==
  [ MODE_REG_1 |-> <<\h10060400, \h10060500>>, MODE_REG_2 |-> <<\h10060410, \h10060510>>,
    STATUS |-> <<\h10060420, \h10060520>>, CLK_SEL |-> <<\h10060430, \h10060530>>,
    FULL_CTL |-> <<\h10060440, \h10060540>>, CMD |-> <<\h10060450, \h10060550>>,
    RX_HOLD |-> <<\h10060460, \h10060560>>, TX_HOLD |-> <<\h10060470, \h10060570>>,
    OPCR_X |-> <<\h10060480, \h10060580>>, AUXCTL_X |-> <<\h10060490, \h10060590>> ]
A_BCM1480_DUART_INT ==
  [ISR |-> <<\h10060620, \h10060640>>, IMR |-> <<\h10060630, \h10060650>>]
A_BCM1480_DUART_CD ==
  [ AUX_CTRL |-> \h10060610, OUT_PORT |-> \h10060660, OPCR |-> \h10060670,
    SET_OPR |-> \h100606B0, CLEAR_OPR |-> \h100606C0, INPORT_CHNG |-> \h10060600,
    IN_PORT |-> \h10060680, ISR |-> \h10060690, IMR |-> \h100606A0,
    INPORT_CHNG_A |-> \h100606D0, INPORT_CHNG_B |-> \h100606E0 ]

A_BCM1480_IO_PCMCIA_B == [CFG |-> \h10061A58, STATUS |-> \h10061A68]
A_BCM1480_GPIO_INT_ADD_TYPE == \h10061A78
R_BCM1480_GPIO_INT_ADD_TYPE == -8

-----------------------------------------------------------------------------
(* The system controller.  Interrupt mappers have two halves, H and L. *)
A_BCM1480_SCD_WDOG ==
  [ INIT |-> <<\h10022050, \h10022150>>, CNT |-> <<\h10022058, \h10022158>>,
    CFG |-> <<\h10022060, \h10022160>> ]
A_BCM1480_SCD_ZBBUS_CYCLE_CP == [CP2 |-> \h10020C10, CP3 |-> \h10020C18]
A_BCM1480_SCD_SCRATCH == \h100200A0
A_BCM1480_IMR_REGISTER(cpu, reg) == \h10020000 + cpu * \h2000 + reg
R_BCM1480_IMR ==
  [ INTERRUPT_DIAG_H |-> \h10, LDT_INTERRUPT_H |-> \h18, LDT_INTERRUPT_CLR_H |-> \h20,
    INTERRUPT_MASK_H |-> \h28, INTERRUPT_TRACE_H |-> \h38,
    INTERRUPT_SOURCE_STATUS_H |-> \h40, LDT_INTERRUPT_SET |-> \h48, MAILBOX_0_CPU |-> \hC0,
    MAILBOX_0_SET_CPU |-> \hC8, MAILBOX_0_CLR_CPU |-> \hD0, MAILBOX_1_CPU |-> \hE0,
    MAILBOX_1_SET_CPU |-> \hE8, MAILBOX_1_CLR_CPU |-> \hF0, INTERRUPT_DIAG_L |-> \h1010,
    LDT_INTERRUPT_L |-> \h1018, LDT_INTERRUPT_CLR_L |-> \h1020,
    INTERRUPT_MASK_L |-> \h1028, INTERRUPT_TRACE_L |-> \h1038,
    INTERRUPT_SOURCE_STATUS_L |-> \h1040 ]

BCM1480_IMR_ALIAS_MAILBOX_SPACING == \o100   \* sic: 0100 in C
A_BCM1480_IMR_ALIAS_MAILBOX_REGISTER(cpu, reg) ==
  \h10028000 + cpu * BCM1480_IMR_ALIAS_MAILBOX_SPACING + reg
A_BCM1480_IMR_ALIAS_MAILBOX_CPU_BASE == <<\h10028000, \h10028100, \h10028200, \h10028300>>
R_BCM1480_IMR_ALIAS_MAILBOX == [N0 |-> 0, N0_SET |-> 8]
A_BCM1480_SCD_PERF_CNT ==
  [ CFG0 |-> \h100204C0, CFG1 |-> \h100204C8, CNT_0 |-> A_PERF_CNT.CNT_0,
    CNT_1 |-> A_PERF_CNT.CNT_1, CNT_2 |-> A_PERF_CNT.CNT_2, CNT_3 |-> A_PERF_CNT.CNT_3,
    CNT_4 |-> \h100204F0, CNT_5 |-> \h100204F8, CNT_6 |-> \h10020500, CNT_7 |-> \h10020508 ]
A_BCM1480_BUS_ERR_STATUS_DEBUG == \h100208D8

-----------------------------------------------------------------------------
(* The packet manager: 32 channels in, 32 out.  A_BCM1480_PMI_INT cuts off *)
(* the lower eight bits of the channel, and finds the first for all.       *)
BCM1480_PM_CHANNELS == 0 .. 31
A_BCM1480_PMI_LCL_REGISTER(idx, reg) == \h10058000 + idx * \h100 + reg
A_BCM1480_PMO_LCL_REGISTER(idx, reg) == \h1005C000 + idx * \h100 + reg
R_BCM1480_PM ==
  [ BASE_SIZE |-> 0, CNT |-> 8, PFCNT |-> \h10, LAST |-> \h18, PFINDX |-> \h20,
    INT_WMK |-> \h28, CONFIG0 |-> \h30, LOCALDEBUG |-> \h78, CACHEABILITY |-> \h80,
    INT_CNFG |-> \h88, DESC_MERGE_TIMER |-> \h90, LOCALDEBUG_PIB_POB |-> \hF8 ]
R_BCM1480_PM_INT == [ST |-> 0, MSK |-> \h40, CLR |-> \h80, MRGD |-> \hC0]
A_BCM1480_PMI_INT(q) == \h10056800 + (q \div 256) * 256
A_BCM1480_PMO_INT(q) == \h10057800 + (q \div 256) * 256
A_BCM1480_PM ==
  [ PMO_MAPPING |-> \h10057000 + \h8C8, GLOBALDEBUGMODE_PMI |-> \h10056000,
    GLOBALDEBUG_PID |-> \h100567F8, GLOBALDEBUG_PIB |-> \h10056FF8,
    GLOBALDEBUGMODE_PMO |-> \h10057000, GLOBALDEBUG_POD |-> \h100577F8,
    GLOBALDEBUG_POB |-> \h10057FF8 ]

-----------------------------------------------------------------------------
(* The high-speed subsystem: node controller, switch, and for each port    *)
(* the tables that hash and route, and the port itself.                    *)
A_BCM1480_NC ==
  [ RLD_FIELD |-> \hBD0000, RLD_TRIGGER |-> \hBD0020, RLD_BAD_ERROR |-> \hBD0040,
    RLD_COR_ERROR |-> \hBD0060, RLD_ECC_STATUS |-> \hBD0080, RLD_WAY_ENABLE |-> \hBD00A0,
    RLD_RANDOM_LFSR |-> \hBD00C0, INTERRUPT_STATUS |-> \hBD00E0,
    INTERRUPT_ENABLE |-> \hBD0100, TIMEOUT_COUNTER |-> \hBD0120,
    TIMEOUT_COUNTER_SEL |-> \hBD0140, SR_TIMEOUT_COUNTER |-> \hBE0060,
    SR_TIMEOUT_COUNTER_SEL |-> \hBE0080 ]
CreditStatusReg(i) == IF i < 10 THEN \hBD0200 + i * \h20 ELSE \hBE0000 + (i - 10) * \h20
A_BCM1480_SWPERF ==
  [CFG |-> \hB91800, CNT0 |-> \hB91880, CNT1 |-> \hB91888, CNT2 |-> \hB91890, CNT3 |-> \hB91898]
A_BCM1480_SWTRC == [CFG |-> \hB91500, READ |-> \hB91508, SCHEDSTOP |-> \hB92000]
SwitchTrace(kind, x) ==
  LET at == [ MATCH_CONTROL |-> \hB91000, MATCH_DATA_VALUE |-> \hB91100,
              MATCH_DATA_MASK |-> \hB91108, MATCH_TAG_VALUE |-> \hB91200,
              MATCH_TAG_MASK |-> \hB91208, EVENT |-> \hB91300, SEQUENCE |-> \hB91400 ]
  IN  at[kind] + x * (IF kind \in {"MATCH_CONTROL", "EVENT", "SEQUENCE"} THEN 8 ELSE 16)

A_BCM1480_HR_REGISTER(idx, reg) == \h820000 + idx * \h80000 + reg
R_BCM1480_HR == [CFG |-> 0, EX_LEAF0 |-> \h3A0, PATH_DEFAULT |-> \h700]
R_BCM1480_HR_RULE(kind, idx) == (IF kind = "OP" THEN \h100 ELSE \h108) + idx * \h10
R_BCM1480_HR_HA_LEAF0(idx) == \h300 + idx * \h10
R_BCM1480_HR_PATH(idx) == \h600 + idx * \h10
R_BCM1480_HR_RT_WORD(idx) == \h1000 + idx * 8

A_BCM1480_HSP_REGISTER(idx, reg) == \h810000 + idx * \h80000 + reg
R_BCM1480_HSP ==
  [ RX_SPI4_CFG_0 |-> 0, RX_SPI4_CFG_1 |-> 8, RX_SPI4_DESKEW_OVERRIDE |-> \h10,
    RX_SPI4_DESKEW_DATAPATH |-> \h18, RX_SPI4_PORT_INT_EN |-> \h20,
    RX_SPI4_PORT_INT_STATUS |-> \h28, RX_SPI4_CALENDAR_0 |-> \h200,
    RX_SPI4_CALENDAR_1 |-> \h208, RX_PLL_CNFG |-> \h800, RX_CALIBRATION |-> \h808,
    RX_TEST |-> \h810, RX_DIAG_DETAILS |-> \h818, RX_DIAG_CRC_0 |-> \h820,
    RX_DIAG_CRC_1 |-> \h828, RX_DIAG_HTCMD |-> \h830, RX_DIAG_PKTCTL |-> \h838,
    RX_VIS_FLCTRL_COUNTER |-> \h870, RX_VIS_CMDQ_0 |-> \h200F0, RX_VIS_CMDQ_1 |-> \h200F8,
    RX_VIS_CMDQ_2 |-> \h20100, RX_RAM_READCTL |-> \h20108, RX_RAM_READWINDOW |-> \h20110,
    RX_RF_READCTL |-> \h20118, RX_RF_READWINDOW |-> \h20120, TX_SPI4_CFG_0 |-> \h40000,
    TX_SPI4_CFG_1 |-> \h40008, TX_SPI4_TRAINING_FMT |-> \h40010,
    TX_NPC_RAMALLOC |-> \h40078, TX_RSP_RAMALLOC |-> \h40080, TX_PC_RAMALLOC |-> \h40088,
    TX_HTIO_RXPHITCNT |-> \h400D0, TX_HTCC_RXPHITCNT |-> \h400D8,
    TX_HTIO_TXPHITCNT |-> \h40100, TX_HTCC_TXPHITCNT |-> \h40108,
    TX_SPI4_CALENDAR_0 |-> \h40200, TX_SPI4_CALENDAR_1 |-> \h40208,
    TX_PLL_CNFG |-> \h40800, TX_CALIBRATION |-> \h40808, TX_TEST |-> \h40810,
    TX_VIS_CMDQ_0 |-> \h40840, TX_VIS_CMDQ_1 |-> \h40848, TX_VIS_CMDQ_2 |-> \h40850,
    TX_RAM_READCTL |-> \h40860, TX_RAM_READWINDOW |-> \h40868, TX_RF_READCTL |-> \h40870,
    TX_RF_READWINDOW |-> \h40878, TX_SPI4_PORT_INT_STATUS |-> \h40880,
    TX_SPI4_PORT_INT_EN |-> \h40888 ]

(* Registers with a number: how many, and the offset of the first. *)
R_BCM1480_HSP_OF ==
  [ RX_PKT_RAMALLOC |-> <<8, \h20020>>, RX_HT_RAMALLOC |-> <<6, \h20078>>,
    RX_SPI_WATERMARK |-> <<8, \h200B0>>, TX_PKT_RAMALLOC |-> <<8, \h40020>>,
    TX_HTCC_RAMALLOC |-> <<3, \h40090>>, TX_PKT_RXPHITCNT |-> <<4, \h400B0>>,
    TX_PKT_TXPHITCNT |-> <<4, \h400E0>> ]

-----------------------------------------------------------------------------
Pair == {0, 1}
Ports == 0 .. 2
CPUs == 0 .. 3

Blocks1480 ==
  CommonBlocks(0 .. 3) @@
  [ MC         |-> Registers(0 .. 3, R_BCM1480_MC, A_BCM1480_MC_REGISTER),
    MC_CS      |-> [x \in (0 .. 3) \X Pair \X DOMAIN R_BCM1480_MC_CSX |->
                      A_BCM1480_MC_REGISTER(x[1], BCM1480_MC_CSX(x[2], R_BCM1480_MC_CSX[x[3]]))],
    MC_GLB     |-> A_BCM1480_MC_GLB,
    L2         |-> A_BCM1480_L2,
    DUART      |-> Registers(0 .. 3, R_DUART_CHAN, A_BCM1480_DUART_CHANREG),
    DUART_INT  |-> Registers(0 .. 3, R_DUART_INT, A_BCM1480_DUART_INTREG),
    DUART_BOTH |-> A_DUART,
    PCMCIA_B   |-> A_BCM1480_IO_PCMCIA_B,
    GPIO_ADD   |-> [x \in {0} |-> A_BCM1480_GPIO_INT_ADD_TYPE],
    WDOG_2_3   |-> [x \in (DOMAIN A_BCM1480_SCD_WDOG) \X {1, 2} |-> A_BCM1480_SCD_WDOG[x[1]][x[2]]],
    CYCLE_CP   |-> A_BCM1480_SCD_ZBBUS_CYCLE_CP,
    SCRATCH    |-> [x \in {0} |-> A_BCM1480_SCD_SCRATCH],
    IMR        |-> Registers(CPUs, R_BCM1480_IMR, A_BCM1480_IMR_REGISTER),
    IMR_STATUS |-> [x \in CPUs \X Pair \X (0 .. 7) |->
                      A_BCM1480_IMR_REGISTER(x[1], \h100 + x[2] * \h1000 + 8 * x[3])],
    IMR_MAP    |-> [x \in CPUs \X Pair \X (0 .. 63) |->
                      A_BCM1480_IMR_REGISTER(x[1], \h200 + x[2] * \h1000 + 8 * x[3])],
    MAILBOX    |-> Registers(CPUs, R_BCM1480_IMR_ALIAS_MAILBOX,
                             A_BCM1480_IMR_ALIAS_MAILBOX_REGISTER),
    PERF_CNT   |-> A_BCM1480_SCD_PERF_CNT,
    BUS_DEBUG  |-> [x \in {0} |-> A_BCM1480_BUS_ERR_STATUS_DEBUG],
    PMI        |-> Registers(BCM1480_PM_CHANNELS, R_BCM1480_PM, A_BCM1480_PMI_LCL_REGISTER),
    PMO        |-> Registers(BCM1480_PM_CHANNELS, R_BCM1480_PM, A_BCM1480_PMO_LCL_REGISTER),
    PM_INT     |-> [x \in Pair \X DOMAIN R_BCM1480_PM_INT |->
                      (IF x[1] = 0 THEN A_BCM1480_PMI_INT(0) ELSE A_BCM1480_PMO_INT(0))
                      + R_BCM1480_PM_INT[x[2]]],
    PM         |-> A_BCM1480_PM ]

BlocksHS ==
  [ NC     |-> A_BCM1480_NC,
    CREDIT |-> [i \in 0 .. 12 |-> CreditStatusReg(i)],
    SWPERF |-> A_BCM1480_SWPERF,
    SWTRC  |-> A_BCM1480_SWTRC,
    MATCH  |-> [x \in {"MATCH_DATA_VALUE", "MATCH_DATA_MASK", "MATCH_TAG_VALUE", "MATCH_TAG_MASK"}
                      \X (0 .. 7) |-> SwitchTrace(x[1], x[2])],
    EVENT  |-> [x \in {"MATCH_CONTROL", "EVENT", "SEQUENCE"} \X (0 .. 7) |->
                  SwitchTrace(x[1], x[2])],
    HR     |-> Registers(Ports, R_BCM1480_HR, A_BCM1480_HR_REGISTER),
    RULE   |-> [x \in Ports \X {"OP", "TYPE"} \X (0 .. 15) |->
                  A_BCM1480_HR_REGISTER(x[1], R_BCM1480_HR_RULE(x[2], x[3]))],
    LEAF   |-> [x \in Ports \X (0 .. 9) |->
                  A_BCM1480_HR_REGISTER(x[1], R_BCM1480_HR_HA_LEAF0(x[2]))],
    PATH   |-> [x \in Ports \X (0 .. 15) |->
                  A_BCM1480_HR_REGISTER(x[1], R_BCM1480_HR_PATH(x[2]))],
    ROUTE  |-> [x \in Ports \X (0 .. 511) |->
                  A_BCM1480_HR_REGISTER(x[1], R_BCM1480_HR_RT_WORD(x[2]))],
    HSP    |-> Registers(Ports, R_BCM1480_HSP, A_BCM1480_HSP_REGISTER),
    HSP_OF |-> [x \in {y \in Ports \X (DOMAIN R_BCM1480_HSP_OF) \X (0 .. 7) :
                         y[3] < R_BCM1480_HSP_OF[y[2]][1]} |->
                  A_BCM1480_HSP_REGISTER(x[1], R_BCM1480_HSP_OF[x[2]][2] + 8 * x[3])] ]

Names1480 ==
  CommonNames
  \union Bases(<<\h10050000, \h10051000, \h10052000, \h10053000>>, A_BCM1480_MC_REGISTER)
  \union Pairs(R_BCM1480_MC_CS, R_BCM1480_MC_CSX, BCM1480_MC_CSX, 0)
  \union Bases(<<\h10064000, \h10065000, \h10066000, \h10067000>>, A_MAC_REGISTER)
  \union {<<A_BCM1480_GPIO_INT_ADD_TYPE, A_GPIO_BASE + R_BCM1480_GPIO_INT_ADD_TYPE>>}
  \union Bases(<<\h10020000, \h10022000, \h10024000, \h10026000>>, A_BCM1480_IMR_REGISTER)
  \union Bases(A_BCM1480_IMR_ALIAS_MAILBOX_CPU_BASE, A_BCM1480_IMR_ALIAS_MAILBOX_REGISTER)
  \union Pairs(A_BCM1480_DUART_CHAN, R_DUART_CHAN, A_BCM1480_DUART_CHANREG, 2)
  \union Pairs(A_BCM1480_DUART_INT, R_DUART_INT, A_BCM1480_DUART_INTREG, 2)
  \union {<<A_BCM1480_DUART_CD[r], A_DUART[r] + (A_BCM1480_DUART(2) - A_BCM1480_DUART(0))>> :
            r \in DOMAIN A_BCM1480_DUART_CD}
=============================================================================
