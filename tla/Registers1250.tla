---------------------------- MODULE Registers1250 ----------------------------
(***************************************************************************)
(* The addresses of sb1250_regs.h.  A peripheral is a function from its    *)
(* registers to addresses, built with the macro by which a program gets    *)
(* them from the number of the peripheral and the offset of the register.  *)
(* Of many registers the header names the address, too: Names1250 pairs it *)
(* with the one that the macro computes.  Constants have their values from *)
(* the header; \h... is a hexadecimal number, as 0x... is there.           *)
(***************************************************************************)
EXTENDS Integers, Sequences, TLC

(* The registers of several peripherals: R their offsets, Address the macro. *)
Registers(I, R, Address(_, _)) ==
  [x \in I \X DOMAIN R |-> Address(x[1], R[x[2]])]

(* A table of n registers of 64 bits in each. *)
Table(I, Address(_, _), offset, n) ==
  [x \in I \X (0 .. n - 1) |-> Address(x[1], offset + 8 * x[2])]

(* The pairs of named and computed addresses: A[r] lists those of register *)
(* r, that of the peripheral first.                                        *)
Pairs(A, R, Address(_, _), first) ==
  UNION {{<<A[r][i], Address(first + i - 1, R[r])>> : i \in DOMAIN A[r]} : r \in DOMAIN A}

-----------------------------------------------------------------------------
(* Memory controllers. *)
A_MC_REGISTER(ctlid, reg) == ctlid * \h1000 + \h10051000 + reg
R_MC ==
  [ CONFIG |-> \h100, DRAMCMD |-> \h120, DRAMMODE |-> \h140, TIMING1 |-> \h160,
    TIMING2 |-> \h180, CS_START |-> \h1A0, CS_END |-> \h1C0, CS_INTERLEAVE |-> \h1E0,
    CS_ATTR |-> \h380, TEST_DATA |-> \h400, TEST_ECC |-> \h420, MCLK_CFG |-> \h500 ]

(* The registers of a chip select, and as the header names them for each. *)
R_MC_CSX == [ROW |-> 0, COL |-> \h20, BA |-> \h40]
MC_CSX(cs, reg) == \h200 + cs * \h60 + reg
R_MC_CS ==
  [ ROW |-> <<\h200, \h260, \h2C0, \h320>>, COL |-> <<\h220, \h280, \h2E0, \h340>>,
    BA |-> <<\h240, \h2A0, \h300, \h360>> ]

-----------------------------------------------------------------------------
(* MACs, their DMA channels (0 receives, 1 transmits) and tables. *)
A_MAC_REGISTER(macnum, reg) == \h10064000 + \h1000 * macnum + reg
R_MAC_DMA_REGISTER(txrx, chan, reg) == \h800 + \h400 * txrx + \h100 * chan + reg
R_MAC_DMA ==
  [ CONFIG0 |-> 0, CONFIG1 |-> 8, DSCR_BASE |-> \h10, DSCR_CNT |-> \h18,
    CUR_DSCRA |-> \h20, CUR_DSCRB |-> \h28, CUR_DSCRADDR |-> \h30, OODPKTLOST |-> \h38 ]
R_MAC_RMON ==
  [ TX_BYTES |-> 0, COLLISIONS |-> 8, LATE_COL |-> \h10, EX_COL |-> \h18,
    FCS_ERROR |-> \h20, TX_ABORT |-> \h28, TX_BAD |-> \h38, TX_GOOD |-> \h40,
    TX_RUNT |-> \h48, TX_OVERSIZE |-> \h50, RX_BYTES |-> \h80, RX_MCAST |-> \h88,
    RX_BCAST |-> \h90, RX_BAD |-> \h98, RX_GOOD |-> \hA0, RX_RUNT |-> \hA8,
    RX_OVERSIZE |-> \hB0, RX_FCS_ERROR |-> \hB8, RX_LENGTH_ERROR |-> \hC0,
    RX_CODE_ERROR |-> \hC8, RX_ALIGN_ERROR |-> \hD0 ]
R_MAC ==
  [ CFG |-> \h100, THRSH_CFG |-> \h108, VLANTAG |-> \h110, FRAMECFG |-> \h118,
    EOPCNT |-> \h120, FIFO_PTRS |-> \h130, ADFILTER_CFG |-> \h200, ETHERNET_ADDR |-> \h208,
    PKT_TYPE |-> \h210, ADMASK0 |-> \h218, ADMASK1 |-> \h220, ENABLE |-> \h400,
    STATUS |-> \h408, INT_MASK |-> \h410, TXD_CTL |-> \h420, MDIO |-> \h428,
    STATUS1 |-> \h430, DEBUG_STATUS |-> \h448 ]
R_MAC_BASE == [HASH |-> \h240, ADDR |-> \h280, CHLO0 |-> \h300, CHUP0 |-> \h320]
MAC_COUNT == [HASH |-> 8, ADDR |-> 8, CHLO0 |-> 4, CHUP0 |-> 4]

MacBlocks(Macs) ==
  [ MAC      |-> Registers(Macs, R_MAC, A_MAC_REGISTER),
    MAC_RMON |-> Registers(Macs, R_MAC_RMON, A_MAC_REGISTER),
    MAC_HASH |-> Table(Macs, A_MAC_REGISTER, R_MAC_BASE.HASH, MAC_COUNT.HASH),
    MAC_ADDR |-> Table(Macs, A_MAC_REGISTER, R_MAC_BASE.ADDR, MAC_COUNT.ADDR),
    MAC_CHLO |-> Table(Macs, A_MAC_REGISTER, R_MAC_BASE.CHLO0, MAC_COUNT.CHLO0),
    MAC_CHUP |-> Table(Macs, A_MAC_REGISTER, R_MAC_BASE.CHUP0, MAC_COUNT.CHUP0),
    MAC_DMA  |-> [x \in Macs \X {0, 1} \X {0, 1} \X DOMAIN R_MAC_DMA |->
                    A_MAC_REGISTER(x[1], R_MAC_DMA_REGISTER(x[2], x[3], R_MAC_DMA[x[4]]))] ]

-----------------------------------------------------------------------------
(* The serial port.  Its channels' registers are given from \h100 on, and  *)
(* the interrupt registers of both from another base.                      *)
A_DUART_CHANREG(chan, reg) == \h10060000 + \h100 * chan + reg
R_DUART_CHAN ==
  [ MODE_REG_1 |-> \h100, MODE_REG_2 |-> \h110, STATUS |-> \h120, CLK_SEL |-> \h130,
    CMD |-> \h150, RX_HOLD |-> \h160, TX_HOLD |-> \h170, FULL_CTL |-> \h140,
    OPCR_X |-> \h180, AUXCTL_X |-> \h190 ]
A_DUART_CHAN ==
  [ MODE_REG_1 |-> <<\h10060100, \h10060200>>, MODE_REG_2 |-> <<\h10060110, \h10060210>>,
    STATUS |-> <<\h10060120, \h10060220>>, CLK_SEL |-> <<\h10060130, \h10060230>>,
    CMD |-> <<\h10060150, \h10060250>>, RX_HOLD |-> <<\h10060160, \h10060260>>,
    TX_HOLD |-> <<\h10060170, \h10060270>>, FULL_CTL |-> <<\h10060140, \h10060240>>,
    OPCR_X |-> <<\h10060180, \h10060280>> ]
R_DUART_INT == [ISR |-> \h320, IMR |-> \h330]
R_DUART_INTREG(chan, reg) == reg + chan * \h20
A_DUART_INTREG(chan, reg) == \h10060000 + R_DUART_INTREG(chan, reg)
A_DUART_INT ==
  [ISR |-> <<\h10060320, \h10060340>>, IMR |-> <<\h10060330, \h10060350>>]
R_DUART ==
  [AUX_CTRL |-> \h310, OUT_PORT |-> \h360, OPCR |-> \h370, SET_OPR |-> \h3B0, CLEAR_OPR |-> \h3C0]
A_DUART ==
  [ AUX_CTRL |-> \h10060310, OUT_PORT |-> \h10060360, OPCR |-> \h10060370,
    SET_OPR |-> \h100603B0, CLEAR_OPR |-> \h100603C0, INPORT_CHNG |-> \h10060300,
    IN_PORT |-> \h10060380, ISR |-> \h10060390, IMR |-> \h100603A0,
    INPORT_CHNG_A |-> \h100603D0, INPORT_CHNG_B |-> \h100603E0,
    INPORT_CHNG_DEBUG |-> \h100603F0 ]

-----------------------------------------------------------------------------
(* The synchronous serial ports, with DMA. *)
A_SER_REGISTER(sernum, reg) == \h10060400 + \h400 * sernum + reg
R_SER_DMA ==
  [ CONFIG0 |-> 0, CONFIG1 |-> 8, DSCR_BASE |-> \h10, DSCR_CNT |-> \h18,
    CUR_DSCRA |-> \h20, CUR_DSCRB |-> \h28, CUR_DSCRADDR |-> \h30 ]
SER_DMA(txrx, reg) == \h80 * txrx + reg
R_SER_DMA_RX_TX ==
  [ CONFIG0 |-> <<0, \h80>>, CONFIG1 |-> <<8, \h88>>, DSCR_BASE |-> <<\h10, \h90>>,
    DSCR_CNT |-> <<\h18, \h98>>, CUR_DSCRA |-> <<\h20, \hA0>>, CUR_DSCRB |-> <<\h28, \hA8>>,
    CUR_DSCRADDR |-> <<\h30, \hB0>> ]
R_SER ==
  [ MODE |-> \h100, MINFRM_SZ |-> \h108, MAXFRM_SZ |-> \h110, ADDR |-> \h118,
    USR0_ADDR |-> \h120, USR1_ADDR |-> \h128, USR2_ADDR |-> \h130, USR3_ADDR |-> \h138,
    CMD |-> \h140, TX_RD_THRSH |-> \h160, TX_WR_THRSH |-> \h168, RX_RD_THRSH |-> \h170,
    LINE_MODE |-> \h178, DMA_ENABLE |-> \h180, INT_MASK |-> \h190, STATUS |-> \h188,
    STATUS_DEBUG |-> \h1A8, RMON_TX_BYTE_LO |-> \h1C0, RMON_TX_BYTE_HI |-> \h1C8,
    RMON_RX_BYTE_LO |-> \h1D0, RMON_RX_BYTE_HI |-> \h1D8, RMON_TX_UNDERRUN |-> \h1E0,
    RMON_RX_OVERFLOW |-> \h1E8, RMON_RX_ERRORS |-> \h1F0, RMON_RX_BADADDR |-> \h1F8 ]
SerBlocks(Sers) ==
  [ SER          |-> Registers(Sers, R_SER, A_SER_REGISTER),
    SER_RX_TABLE |-> Table(Sers, A_SER_REGISTER, \h200, 16),
    SER_TX_TABLE |-> Table(Sers, A_SER_REGISTER, \h300, 16),
    SER_DMA      |-> [x \in Sers \X {0, 1} \X DOMAIN R_SER_DMA |->
                        A_SER_REGISTER(x[1], SER_DMA(x[2], R_SER_DMA[x[3]]))] ]

-----------------------------------------------------------------------------
(* The generic bus, GPIO and SMBus. *)
A_IO_EXT_REG(r) == \h10061000 + r
R_IO_EXT_REG(cs, reg) == cs * 8 + reg
R_IO_EXT ==
  [CFG |-> 0, MULT_SIZE |-> \h100, START_ADDR |-> \h200, TIME_CFG0 |-> \h600, TIME_CFG1 |-> \h700]
A_IO_EXT_BASE ==
  [ CFG |-> \h10061000, MULT_SIZE |-> \h10061100, START_ADDR |-> \h10061200,
    TIME_CFG0 |-> \h10061600, TIME_CFG1 |-> \h10061700 ]
R_IO ==
  [ INTERRUPT_STATUS |-> \hA00, INTERRUPT_DATA0 |-> \hA10, INTERRUPT_DATA1 |-> \hA18,
    INTERRUPT_DATA2 |-> \hA20, INTERRUPT_DATA3 |-> \hA28, INTERRUPT_ADDR0 |-> \hA30,
    INTERRUPT_ADDR1 |-> \hA40, INTERRUPT_PARITY |-> \hA50, PCMCIA_CFG |-> \hA60,
    PCMCIA_STATUS |-> \hA70 ]
A_IO ==
  [ INTERRUPT_STATUS |-> \h10061A00, INTERRUPT_DATA0 |-> \h10061A10,
    INTERRUPT_DATA1 |-> \h10061A18, INTERRUPT_DATA2 |-> \h10061A20,
    INTERRUPT_DATA3 |-> \h10061A28, INTERRUPT_ADDR0 |-> \h10061A30,
    INTERRUPT_ADDR1 |-> \h10061A40, INTERRUPT_PARITY |-> \h10061A50,
    PCMCIA_CFG |-> \h10061A60, PCMCIA_STATUS |-> \h10061A70 ]
A_IO_DRIVE(x) == \h10061300 + x * 8
A_IO_DRIVE_X == <<\h10061300, \h10061308, \h10061310, \h10061318>>
R_GPIO ==
  [ CLR_EDGE |-> 0, INT_TYPE |-> 8, INPUT_INVERT |-> \h10, GLITCH |-> \h18, READ |-> \h20,
    DIRECTION |-> \h28, PIN_CLR |-> \h30, PIN_SET |-> \h38 ]
A_GPIO ==
  [ CLR_EDGE |-> \h10061A80, INT_TYPE |-> \h10061A88, INPUT_INVERT |-> \h10061A90,
    GLITCH |-> \h10061A98, READ |-> \h10061AA0, DIRECTION |-> \h10061AA8,
    PIN_CLR |-> \h10061AB0, PIN_SET |-> \h10061AB8 ]
A_GPIO_BASE == \h10061A80
A_SMB_REGISTER(idx, reg) == \h10060000 + idx * 8 + reg
R_SMB ==
  [ XTRA |-> 0, FREQ |-> \h10, STATUS |-> \h20, CMD |-> \h30, START |-> \h40,
    DATA |-> \h50, CONTROL |-> \h60, PEC |-> \h70 ]
A_SMB ==
  [ XTRA |-> <<\h10060000, \h10060008>>, FREQ |-> <<\h10060010, \h10060018>>,
    STATUS |-> <<\h10060020, \h10060028>>, CMD |-> <<\h10060030, \h10060038>>,
    START |-> <<\h10060040, \h10060048>>, DATA |-> <<\h10060050, \h10060058>>,
    CONTROL |-> <<\h10060060, \h10060068>>, PEC |-> <<\h10060070, \h10060078>> ]

-----------------------------------------------------------------------------
(* The system controller: watchdogs, timers, traps, counters and traces. *)
A_SCD_WDOG_REGISTER(w, r) == \h10020050 + \h100 * w + r
R_SCD_WDOG == [INIT |-> 0, CNT |-> 8, CFG |-> \h10]
A_SCD_WDOG ==
  [ INIT |-> <<\h10020050, \h10020150>>, CNT |-> <<\h10020058, \h10020158>>,
    CFG |-> <<\h10020060, \h10020160>> ]
A_SCD_TIMER_REGISTER(w, r) == \h10020070 + 8 * (w % 2) + \h100 * ((w \div 2) % 2) + r
R_SCD_TIMER == [INIT |-> 0, CNT |-> \h10, CFG |-> \h20]
A_SCD_TIMER ==
  [ INIT |-> <<\h10020070, \h10020078, \h10020170, \h10020178>>,
    CNT |-> <<\h10020080, \h10020088, \h10020180, \h10020188>>,
    CFG |-> <<\h10020090, \h10020098, \h10020190, \h10020198>> ]
A_SCD ==
  [ ZBBUS_CYCLE_COUNT |-> \h10030000, ZBBUS_CYCLE_CP0 |-> \h10020C00,
    ZBBUS_CYCLE_CP1 |-> \h10020C08, SYSTEM_REVISION |-> \h10020000,
    SYSTEM_CFG |-> \h10020008, SYSTEM_MANUF |-> \h10038000 ]
A_SCD_SCRATCH == \h10020C10
A_ADDR_TRAP ==
  [ INDEX |-> \h100200B0, REG |-> \h100200B8, UP_0 |-> \h10020400, UP_1 |-> \h10020408,
    UP_2 |-> \h10020410, UP_3 |-> \h10020418, DOWN_0 |-> \h10020420, DOWN_1 |-> \h10020428,
    DOWN_2 |-> \h10020430, DOWN_3 |-> \h10020438, CFG_0 |-> \h10020440,
    CFG_1 |-> \h10020448, CFG_2 |-> \h10020450, CFG_3 |-> \h10020458,
    REG_DEBUG |-> \h10020460 ]
A_IMR_REGISTER(cpu, reg) == \h10020000 + cpu * \h2000 + reg
R_IMR ==
  [ INTERRUPT_DIAG |-> \h10, INTERRUPT_MASK |-> \h28, INTERRUPT_TRACE |-> \h38,
    INTERRUPT_SOURCE_STATUS |-> \h40, LDT_INTERRUPT_SET |-> \h48, LDT_INTERRUPT |-> \h18,
    LDT_INTERRUPT_CLR |-> \h20, MAILBOX_CPU |-> \hC0, ALIAS_MAILBOX_CPU |-> \h1000,
    MAILBOX_SET_CPU |-> \hC8, ALIAS_MAILBOX_SET_CPU |-> \h1008, MAILBOX_CLR_CPU |-> \hD0 ]
A_PERF_CNT ==
  [ CFG |-> \h100204C0, CNT_0 |-> \h100204D0, CNT_1 |-> \h100204D8, CNT_2 |-> \h100204E0,
    CNT_3 |-> \h100204E8 ]
A_BUS ==
  [ ERR_STATUS |-> \h10020880, ERR_DATA_0 |-> \h100208A0, ERR_DATA_1 |-> \h100208A8,
    ERR_DATA_2 |-> \h100208B0, ERR_DATA_3 |-> \h100208B8, L2_ERRORS |-> \h100208C0,
    MEM_IO_ERRORS |-> \h100208C8 ]
A_BUS_ERR_STATUS_DEBUG == \h100208D0
A_SCD_TRACE ==
  [ CFG |-> \h10020A00, READ |-> \h10020A08, EVENT_0 |-> \h10020A20, EVENT_1 |-> \h10020A28,
    EVENT_2 |-> \h10020A30, EVENT_3 |-> \h10020A38, SEQUENCE_0 |-> \h10020A40,
    SEQUENCE_1 |-> \h10020A48, SEQUENCE_2 |-> \h10020A50, SEQUENCE_3 |-> \h10020A58,
    EVENT_4 |-> \h10020A60, EVENT_5 |-> \h10020A68, EVENT_6 |-> \h10020A70,
    EVENT_7 |-> \h10020A78, SEQUENCE_4 |-> \h10020A80, SEQUENCE_5 |-> \h10020A88,
    SEQUENCE_6 |-> \h10020A90, SEQUENCE_7 |-> \h10020A98 ]
A_DM_REGISTER(idx, reg) == \h10020B00 + idx * \h20 + reg
R_DM == [DSCR_BASE |-> 0, DSCR_COUNT |-> 8, CUR_DSCR_ADDR |-> \h10, DSCR_BASE_DEBUG |-> \h18]
A_DM == <<\h10020B00, \h10020B20, \h10020B40, \h10020B60>>
A_DM_PARTIAL(idx) == \h10020BA0 + idx * 8
A_DM_PARTIAL_X == <<\h10020BA0, \h10020BA8, \h10020BB0, \h10020BB8>>
A_DM_CRC_REGISTER(idx, reg) == \h10020B80 + idx * \h10 + reg
R_DM_CRC == [CRC_DEF |-> 0, CTCP_DEF |-> 8]
A_DM_CRC == <<\h10020B80, \h10020B90>>
A_L2 ==
  [ READ_TAG |-> \h10040018, ECC_TAG |-> \h10040038, READ_MISC |-> \h10040058,
    WAY_DISABLE |-> \h10041000, CACHE_DISABLE |-> \h10042000, MISC_CONFIG |-> \h10043000 ]

-----------------------------------------------------------------------------
(* What the header gives for both families of chips (bcm1480_regs.h adds    *)
(* to it), and the rest of the BCM1250.                                     *)
CommonBlocks(Macs) ==
  MacBlocks(Macs) @@
  [ IO_EXT     |-> [x \in (0 .. 7) \X DOMAIN R_IO_EXT |->
                      A_IO_EXT_REG(R_IO_EXT_REG(x[1], R_IO_EXT[x[2]]))],
    IO         |-> A_IO,
    IO_DRIVE   |-> [x \in 0 .. 3 |-> A_IO_DRIVE(x)],
    GPIO       |-> A_GPIO,
    SMB        |-> Registers({0, 1}, R_SMB, A_SMB_REGISTER),
    WDOG       |-> Registers({0, 1}, R_SCD_WDOG, A_SCD_WDOG_REGISTER),
    TIMER      |-> Registers(0 .. 3, R_SCD_TIMER, A_SCD_TIMER_REGISTER),
    SCD        |-> A_SCD,
    ADDR_TRAP  |-> A_ADDR_TRAP,
    BUS        |-> A_BUS,
    TRACE      |-> A_SCD_TRACE,
    DM         |-> Registers(0 .. 3, R_DM, A_DM_REGISTER),
    DM_PARTIAL |-> [x \in 0 .. 3 |-> A_DM_PARTIAL(x)],
    DM_CRC     |-> Registers({0, 1}, R_DM_CRC, A_DM_CRC_REGISTER) ]

Blocks1250 ==
  CommonBlocks(0 .. 2) @@ SerBlocks({0, 1}) @@
  [ MC         |-> Registers({0, 1}, R_MC, A_MC_REGISTER),
    MC_CS      |-> [x \in {0, 1} \X (0 .. 3) \X DOMAIN R_MC_CSX |->
                      A_MC_REGISTER(x[1], MC_CSX(x[2], R_MC_CSX[x[3]]))],
    DUART      |-> Registers({0, 1}, R_DUART_CHAN, A_DUART_CHANREG),
    DUART_INT  |-> Registers({0, 1}, R_DUART_INT, A_DUART_INTREG),
    DUART_BOTH |-> A_DUART,
    SCRATCH    |-> [x \in {0} |-> A_SCD_SCRATCH],
    IMR        |-> Registers({0, 1}, R_IMR, A_IMR_REGISTER),
    IMR_STATUS |-> Table({0, 1}, A_IMR_REGISTER, \h100, 7),
    IMR_MAP    |-> Table({0, 1}, A_IMR_REGISTER, \h200, 64),
    PERF_CNT   |-> A_PERF_CNT,
    BUS_DEBUG  |-> [x \in {0} |-> A_BUS_ERR_STATUS_DEBUG],
    L2         |-> A_L2 ]

(* The bases that have a name, with those that the macros compute. *)
Bases(named, Address(_, _)) ==
  {<<named[i], Address(i - 1, 0)>> : i \in DOMAIN named}

CommonNames ==
  Pairs(A_SMB, R_SMB, A_SMB_REGISTER, 0) \union Pairs(A_SCD_WDOG, R_SCD_WDOG, A_SCD_WDOG_REGISTER, 0)
  \union Pairs(A_SCD_TIMER, R_SCD_TIMER, A_SCD_TIMER_REGISTER, 0)
  \union Bases(A_DM, A_DM_REGISTER) \union Bases(A_DM_CRC, A_DM_CRC_REGISTER)
  \union {<<A_DM_PARTIAL_X[i], A_DM_PARTIAL(i - 1)>> : i \in 1 .. 4}
  \union {<<A_IO_DRIVE_X[i], A_IO_DRIVE(i - 1)>> : i \in 1 .. 4}
  \union {<<A_IO[r], A_IO_EXT_REG(R_IO[r])>> : r \in DOMAIN R_IO}
  \union {<<A_IO_EXT_BASE[r], A_IO_EXT_REG(R_IO_EXT_REG(0, R_IO_EXT[r]))>> : r \in DOMAIN R_IO_EXT}
  \union {<<A_GPIO[r], A_GPIO_BASE + R_GPIO[r]>> : r \in DOMAIN R_GPIO}
  \union Bases(<<\h10064000, \h10065000, \h10066000>>, A_MAC_REGISTER)
  \union Pairs(A_DUART_CHAN, R_DUART_CHAN, A_DUART_CHANREG, 0)
  \union Pairs(A_DUART_INT, R_DUART_INT, A_DUART_INTREG, 0)
  \union {<<A_DUART[r], \h10060000 + R_DUART[r]>> : r \in DOMAIN R_DUART}

Names1250 ==
  CommonNames \union Bases(<<\h10051000, \h10052000>>, A_MC_REGISTER)
  \union Pairs(R_MC_CS, R_MC_CSX, MC_CSX, 0)
  \union Bases(<<\h10060400, \h10060800>>, A_SER_REGISTER)
  \union Pairs(R_SER_DMA_RX_TX, R_SER_DMA, SER_DMA, 0)
  \union Bases(<<\h10020000, \h10022000>>, A_IMR_REGISTER)
=============================================================================
