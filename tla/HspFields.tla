------------------------------ MODULE HspFields ------------------------------
(***************************************************************************)
(* The fields of the registers of a high-speed port of the BCM1480, from   *)
(* bcm1480_hsp.h: each register is a function from its fields, without the *)
(* prefix that they share, to their place.                                 *)
(***************************************************************************)
EXTENDS Fields

HspReceiver ==
  [ SPI4_CFG_0 |->
      [ PORT_RESET |-> B(0), PLL_DIV_4 |-> B(2), PLL_MULTIPLIER |-> F(5, 3),
        TRAIN_CYCLE_COUNT |-> F(8, 8), DIP4_ERR_CLEAR |-> F(4, 16),
        DIP4_ERR_LIMIT |-> F(4, 20), RSTAT_POLARITY |-> B(24), LINK_MODE |-> F(2, 62) ],
    SPI4_DESKEW |->
      [ DESKEW_PER_BIT |-> F(4, 0), STATIC_DESKEW_EN |-> B(4), DESKEW_DISA |-> B(5),
        RETRAIN_EN |-> B(8) ] ]

HspTransmitter ==
  [ SPI4_CFG_0 |->
      [ PORT_RESET |-> B(0), PLL_MULTIPLIER |-> F(5, 1), RST_TRAINCNT |-> F(16, 8),
        RST_STATCNT |-> F(4, 24), FORCE_ERR |-> B(32), TSTAT_SLOW_MODE |-> B(33),
        PLL_DIV_4 |-> B(34), DIP2_ERRLIMIT |-> F(4, 36), TSTAT_POLARITY |-> B(40),
        OFF |-> B(41) ],
    SPI4_TRAINING_FMT |->
      [ DATA_MAX_T |-> F(16, 0), PREFBURSTSZ |-> F(8, 32), MAXBURSTSZ |-> F(8, 40),
        NO_INTERLEAVE_MODE |-> B(48) ] ]

HspErrors ==
  [ RX_SPI4_PORT_INT |->
      [ PERVCERR |-> B(0), EOPABORT |-> B(1), SPI4PROTOERR |-> B(2),
        ESTOREOVERFLOW |-> B(3), ALPHATRAINERR |-> B(4), DIP4ERROR |-> B(5),
        HRERROR |-> B(6), INTOVERFLOW |-> B(7) ],
    RX_DIAG_CRC |-> [BAD_CRC_LANE |-> F(32, 0), EXPECTED_CRC_LANE |-> F(32, 32)],
    RX_DIAG_PACKET |->
      [ VC |-> F(8, 0), EOP |-> B(8), SOP |-> B(9), CONTROL |-> F(4, 10),
        STRADDLING_CMD |-> B(14), ERR_CODE_1 |-> F(4, 16), ERR_CODE_2 |-> F(4, 20) ],
    RX_DIAG_DETAIL |->
      [ PERVCERR |-> B(0), ALPHATRAINERR |-> B(2), SPI4PROTOERR |-> B(4),
        DIP4ERROR |-> B(6), ESTOREOVERFLOW |-> B(7), SPI4_DATANOSOP |-> B(32),
        SPI4_SOPAFTERSOP |-> B(33), SPI4_EOPNOSOP |-> B(34), SPI4_EOPABORT |-> B(35),
        SPI4_BADDATA |-> B(36), SPI4_RESCMD |-> B(37), SPI4_BADSOP |-> B(38),
        SPI4_BADEOP |-> B(39), SPI4_BADCTL |-> B(40), SPI4_BADIDLE |-> B(41),
        SPI4_BADTRAINING |-> B(42), SPI4_ALPHATRAINING |-> B(43),
        SPI4_DIP4IDLE |-> B(44), SPI4_DIP4EOP |-> B(45), SPI4_DIP4DEAD |-> B(46),
        SPI4_HRNOMATCH |-> B(47), SPI4_HRMULTMATCH |-> B(48), SPI4_ESTOREOVR |-> B(49),
        SPI4_INTOVR |-> B(51), STATUS |-> F(20, 32), PUSHPOP_DISTANCE |-> F(4, 56),
        ESTORE_DISTANCE |-> F(4, 60) ],
    TX_SPI4_PORT_INT |->
      [ TSTATTIMEOUT |-> B(0), DIP2RXERR |-> B(1), SPI4RESET |-> B(2) ] ]

HspReceiverRam ==
  [ PKT_RAMALLOC |->
      [ CEILING_0 |-> F(10, 0), FLOOR_0 |-> F(10, 16), CEILING_1 |-> F(10, 32),
        FLOOR_1 |-> F(10, 48) ],
    HT_RAMALLOC_0 |-> [NPC_CMD_CEILING |-> F(10, 0), NPC_CMD_FLOOR |-> F(10, 16)],
    HT_RAMALLOC_1 |->
      [ PC_CMD_CEILING |-> F(10, 0), PC_CMD_FLOOR |-> F(10, 16),
        PRB_CEILING |-> F(10, 32), PRB_FLOOR |-> F(10, 48) ],
    HT_RAMALLOC_2 |->
      [ ACK_CEILING |-> F(10, 0), ACK_FLOOR |-> F(10, 16), WB_CEILING |-> F(10, 32),
        WB_FLOOR |-> F(10, 48) ],
    HT_RAMALLOC_3 |->
      [ CFILL_CEILING |-> F(10, 0), CFILL_FLOOR |-> F(10, 16), CRD_CEILING |-> F(10, 32),
        CRD_FLOOR |-> F(10, 48) ],
    HT_RAMALLOC_4 |->
      [ NPC_DAT_CEILING |-> F(10, 0), NPC_DAT_FLOOR |-> F(10, 16),
        RSP_DAT_CEILING |-> F(10, 32), RSP_DAT_FLOOR |-> F(10, 48) ],
    HT_RAMALLOC_5 |-> [PC_DAT_CEILING |-> F(10, 0), PC_DAT_FLOOR |-> F(10, 16)] ]

HspTransmitterRam ==
  [ PKT_RAMALLOC |->
      [ CEILING_0 |-> F(8, 0), FLOOR_0 |-> F(8, 16), CEILING_1 |-> F(8, 32),
        FLOOR_1 |-> F(8, 48) ],
    NPC_RAMALLOC |-> [CEILING |-> F(8, 0), FLOOR |-> F(8, 16)],
    RSP_RAMALLOC |-> [CEILING |-> F(8, 0), FLOOR |-> F(8, 16)],
    PC_RAMALLOC |-> [CEILING |-> F(8, 0), FLOOR |-> F(8, 16)] ]

(* Twelve bits at each multiple of eight. *)
CALENDAR_X(c) == F(12, (c % 8) * 8)

HspChannels ==
  [ RX_SPI4_CFG_1 |->
      [ CALENDAR_LEN |-> F(8, 0), CALENDAR_M |-> F(8, 16), ALPHA |-> F(12, 40) ],
    RX_CALENDAR |-> [c \in 0 .. 7 |-> CALENDAR_X(c)],
    RX_SPI4_WATERMARK |->
      [ EMPTY_EVEN |-> F(10, 0), FULL_EVEN |-> F(10, 16), EMPTY_ODD |-> F(10, 32),
        FULL_ODD |-> F(10, 48) ],
    TX_SPI4_CFG_1 |->
      [ CALENDAR_LEN |-> F(8, 0), CALENDAR_M |-> F(8, 16), MAXBURST1 |-> F(8, 24),
        MAXBURST2 |-> F(8, 32), ALPHA |-> F(12, 40), ACTIVE_CHANNELS |-> F(8, 56) ],
    TX_CALENDAR |-> [c \in 0 .. 7 |-> CALENDAR_X(c)] ]

HspCounts ==
  [ RX_PKT_PHITCNT |->
      [ N0 |-> F(10, 0), N1 |-> F(10, 16), N2 |-> F(10, 32), N3 |-> F(10, 48) ],
    RX_HT_PHITCNT |->
      [ NPC_CMD_PHITCNT |-> F(8, 0), NPC_DAT_PHITCNT |-> F(8, 8),
        RSP_DAT_PHITCNT |-> F(8, 24), PC_CMD_PHITCNT |-> F(8, 32),
        PC_DAT_PHITCNT |-> F(8, 48) ],
    TX_HTCC_PHITCNT |->
      [ PRB_PHITCNT |-> F(8, 0), ACK_PHITCNT |-> F(8, 8), WB_PHITCNT |-> F(8, 24),
        CFILL_PHITCNT |-> F(8, 32), CRD_PHITCNT |-> F(8, 40) ],
    TX_PKT_PHITCNT |->
      [ N0 |-> F(8, 0), N1 |-> F(8, 16), N2 |-> F(8, 32), N3 |-> F(8, 48) ],
    TX_HTIO_PHITCNT |->
      [ NPC_PHITCNT |-> F(8, 0), RSP_PHITCNT |-> F(8, 24), PC_PHITCNT |-> F(8, 48) ],
    TX_NEXT_ADDR |-> [EVEN |-> F(32, 0), ODD |-> F(32, 32)] ]

HspClocks ==
  [ RX_PLLCNFG |->
      [ FREQF_SEL |-> F(4, 0), FDBK_SEL |-> F(4, 4), VCO_RANGE |-> F(2, 8),
        DIV4 |-> B(10), PLLOVERRIDE |-> B(12), VCOOVERRIDE |-> B(13),
        PLLTEST |-> F(2, 14), PLLCTRL |-> F(6, 16) ],
    TX_PLLCNFG |->
      [ FREQF_SEL |-> F(4, 0), FDBK_SEL |-> F(4, 4), VCO_RANGE |-> F(2, 8),
        DIV4 |-> B(10), ESTOREDEPTH8 |-> B(11), PLLOVERRIDE |-> B(12),
        VCOOVERRIDE |-> B(13), PLLTEST |-> F(2, 14), PLLCTRL |-> F(6, 16) ],
    CALIBRATION |->
      [ STARTCAL2 |-> B(0), PDTEST |-> B(1), CALFIN |-> B(2), S100M66M |-> B(3),
        NO_CALIB |-> B(4), BMODE |-> F(2, 5), CALSETP |-> F(4, 8), CALSETN |-> F(4, 12),
        CALPSTAT |-> F(4, 16), CALNSTAT |-> F(4, 20) ] ]

HspTests ==
  [ RX_TEST |->
      [ EWRAP |-> F(2, 1), RXDLL_FREEZE |-> B(4), TX_PLL_BYPASS |-> B(5),
        RX_PLL_BYPASS |-> B(6), DLL_CHRESET_ENABLE |-> B(7), RX_ICNTRL |-> F(12, 8),
        RX_RCNTRL |-> F(3, 20), RX_GCNTRL |-> F(3, 24), RX_OORCNTRL |-> F(2, 28),
        RX_CNTRL |-> F(3, 32), RX_LPBK_PHASE_SEL_RXA |-> F(3, 35),
        DIP4_CHECK_DISABLE |-> B(38), EBUF_WREN |-> B(40), DIGITAL_LOOPBACK |-> B(41),
        EBUF_BURST_MODE |-> B(42), RESET_STOP_STREAM |-> B(43), RX_BIAS |-> F(2, 44) ],
    TX_TEST |->
      [ CTL |-> F(3, 0), BIAS |-> F(4, 4), VCOM_CTL |-> F(4, 8), MUX_CTL |-> F(4, 12),
        SLEWP_CTL |-> F(2, 16), SLEWN_CTL |-> F(2, 18), CURR_CTL |-> F(2, 20) ] ]

HspVisibility ==
  [ RX_RAM |-> [RAM |-> F(3, 0), RAM_ADDR |-> F(16, 16)],
    RX_RF_RAM |-> [RAM |-> F(4, 0), RAM_ADDR |-> F(8, 8)],
    TX_RAM |-> [RAM |-> F(3, 0), RAM_ADDR |-> F(16, 16)],
    TX_RF_RAM |-> [RAM |-> F(4, 0), RAM_ADDR |-> F(8, 8)] ]
=============================================================================
