------------------------------ MODULE MacFields ------------------------------
(***************************************************************************)
(* The fields of the Ethernet MACs, from sb1250_mac.h, as in HspFields.    *)
(* What a chip has in place of what another has is in the table of each.   *)
(***************************************************************************)
EXTENDS Fields

MacCfg ==
  [ CFG |->
      [ RESERVED0 |-> B(0), TX_HOLD_SOP_EN |-> B(1), RETRY_EN |-> B(2),
        RET_DRPREQ_EN |-> B(3), RET_UFL_EN |-> B(4), BURST_EN |-> B(5),
        TX_PAUSE_CNT |-> F(3, 6), RESERVED1 |-> F(8, 9), AP_STAT_EN |-> B(17),
        TIMESTAMP |-> B(18), DRP_ERRPKT_EN |-> B(19), DRP_FCSERRPKT_EN |-> B(20),
        DRP_CODEERRPKT_EN |-> B(21), DRP_DRBLERRPKT_EN |-> B(22),
        DRP_RNTPKT_EN |-> B(23), DRP_OSZPKT_EN |-> B(24), DRP_LENERRPKT_EN |-> B(25),
        RESERVED3 |-> F(6, 26), BYPASS_SEL |-> B(32), HDX_EN |-> B(33),
        SPEED_SEL |-> F(2, 34), TX_CLK_EDGE_SEL |-> B(36), LOOPBACK_SEL |-> B(37),
        FAST_SYNC |-> B(38), SS_EN |-> B(39), BYPASS_CFG |-> F(2, 40),
        BYPASS_16 |-> B(42), BYPASS_FCS_CHK |-> B(43), RX_CH_SEL_MSB |-> B(44),
        SPLIT_CH_SEL |-> B(45), BYPASS_IFG |-> F(8, 46), FC_SEL |-> B(54),
        FC_CMD |-> F(2, 55), RX_CH_SEL |-> F(7, 57) ] ]

MacControl ==
  [ ENABLE |->
      [ RXDMA_EN0 |-> B(0), RXDMA_EN1 |-> B(1), TXDMA_EN0 |-> B(4), TXDMA_EN1 |-> B(5),
        PORT_RESET |-> B(8), RX_ENABLE |-> B(10), TX_ENABLE |-> B(11),
        BYP_RX_ENABLE |-> B(12), BYP_TX_ENABLE |-> B(13) ],
    RESET_INFO |->
      [ RX_CH0_PAUSE_ON |-> B(8), RX_CH1_PAUSE_ON |-> B(16), TX_CH0_PAUSE_ON |-> B(24),
        TX_CH1_PAUSE_ON |-> B(32) ],
    TXD_CTL |-> [WEIGHT0 |-> F(4, 0), WEIGHT1 |-> F(4, 4)],
    THRSH_CFG |->
      [ TX_WR_THRSH |-> F(7, 0), TX_RD_THRSH |-> F(7, 8), TX_RL_THRSH |-> F(4, 16),
        RX_PL_THRSH |-> F(6, 24), RX_RD_THRSH |-> F(6, 32), RX_RL_THRSH |-> F(6, 40),
        ENC_FC_THRSH |-> F(6, 56) ] ]

MacFrame ==
  [ FRAMECFG |->
      [ IFG_RX |-> F(6, 0), PRE_LEN |-> F(6, 0), IFG_TX |-> F(6, 6),
        IFG_THRSH |-> F(6, 12), BACKOFF_SEL |-> F(4, 18), LFSR_SEED |-> F(8, 22),
        SLOT_SIZE |-> F(10, 30), MIN_FRAMESZ |-> F(8, 40), MAX_FRAMESZ |-> F(16, 48) ],
    VLANTAG |->
      [ VLAN_TAG |-> F(32, 0), TX_PKT_OFFSET |-> F(8, 32), TX_CRC_OFFSET |-> F(8, 40),
        CH_BASE_FC_EN |-> B(48) ] ]

(* The interrupts of a DMA channel, and where those of channel ch, which     *)
(* receives if txrx is 0, are in the status.                               *)
MAC_INT ==
  [ CHANNEL |-> F(8, 0), EOP_COUNT |-> B(0), EOP_TIMER |-> B(1), EOP_SEEN |-> B(2),
    HWM |-> B(3), LWM |-> B(4), DSCR |-> B(5), ERR |-> B(6), DZERO |-> B(7),
    DROP |-> B(7) ]
S_MAC_STATUS_CH_OFFSET(ch, txrx) == (ch + 2 * txrx) * 8
MAC_STATUS(n, ch, txrx) ==
  LET f == MAC_INT[n] IN F(f.width, f.shift + S_MAC_STATUS_CH_OFFSET(ch, txrx))
MAC_STATUS_OTHER ==
  [ STATUS_OTHER_ERR |-> F(7, 40), RX_UNDRFL |-> B(40), RX_OVRFL |-> B(41),
    TX_UNDRFL |-> B(42), TX_OVRFL |-> B(43), LTCOL_ERR |-> B(44),
    EXCOL_ERR |-> B(45), CNTR_OVRFL_ERR |-> B(46), SPLIT_EN |-> B(47),
    COUNTER_ADDR |-> F(5, 47), TX_PAUSE_ON |-> B(52) ]
MacStatus ==
  [ STATUS |-> [x \in (DOMAIN MAC_INT) \X {0, 1} \X {0, 1} |-> MAC_STATUS(x[1], x[2], x[3])]
              @@ [x \in (DOMAIN MAC_STATUS_OTHER) \X {2} \X {2} |-> MAC_STATUS_OTHER[x[1]]] ]

(* G of the two pointers of the receiver takes the masks of the transmitter. *)
MacFifos ==
  [ FIFO_PTRS |->
      [ TX_WRPTR |-> F(6, 0), TX_RDPTR |-> F(6, 8),
        RX_WRPTR |-> [F(6, 16) EXCEPT !.get = 0],
        RX_RDPTR |-> [F(6, 24) EXCEPT !.get = 8] ],
    EOPCNT |-> [TX_EOP_COUNTER |-> F(6, 0), RX_EOP_COUNTER |-> F(6, 8)] ]

MacFilter ==
  [ PKT_TYPE |->
      [ TYPE0 |-> F(16, 0), TYPE1 |-> F(16, 0), TYPE2 |-> F(16, 0), TYPE3 |-> F(16, 0) ],
    ADFILTER_CFG |->
      [ ALLPKT_EN |-> B(0), UCAST_EN |-> B(1), UCAST_INV |-> B(2), MCAST_EN |-> B(3),
        MCAST_INV |-> B(4), BCAST_EN |-> B(5), DIRECT_INV |-> B(6), ALLMCAST_EN |-> B(7),
        IPHDR_OFFSET |-> F(8, 8), RX_CRC_OFFSET |-> F(8, 16), RX_PKT_OFFSET |-> F(8, 24),
        FWDPAUSE_EN |-> B(32), VLAN_DET_EN |-> B(33), RX_CH_MSN_SEL |-> F(8, 34) ],
    MDIO |->
      [ MDC |-> B(0), MDIO_DIR |-> B(1), MDIO_DIR_INPUT |-> B(1), MDIO_OUT |-> B(2),
        GENC |-> B(3), MDIO_IN |-> B(4) ] ]
=============================================================================
