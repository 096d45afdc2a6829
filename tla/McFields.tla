------------------------------ MODULE McFields -------------------------------
(***************************************************************************)
(* The fields of the memory controllers of the BCM1480, from bcm1480_mc.h, *)
(* as in HspFields. Fields with the same name and a number are a function  *)
(* of the number.                                                          *)
(***************************************************************************)
EXTENDS Fields

McMapping ==
  [ CONFIG |->
      [ INTLV0 |-> F(6, 0), INTLV1 |-> F(6, 8), INTLV2 |-> F(6, 16),
        CS_MODE |-> F(8, 32) ],
    CS_START |-> [k \in 0 .. 3 |-> F(12, 16 * k)],
    CS_END |-> [k \in 0 .. 3 |-> F(12, 16 * k)] ]

McRows ==
  [ ROW0 |-> [k \in 0 .. 7 |-> F(6, 8 * k)],
    ROW1 |-> [k \in 8 .. 14 |-> F(6, 8 * (k - 8))] ]

McColumns ==
  [ COL0 |-> [k \in 0 .. 7 |-> F(6, 8 * k)],
    COL1 |-> [k \in (8 .. 14) \ {10} |-> F(6, 8 * (k - 8))],
    CS01_BA |-> [k \in 0 .. 2 |-> F(6, 8 * k)],
    CS23_BA |-> [k \in 0 .. 2 |-> F(6, 8 * k)] ]

McMode ==
  [ DRAMCMD |->
      [ COMMAND |-> F(4, 0), CS0 |-> B(4), CS1 |-> B(5), CS2 |-> B(6), CS3 |-> B(7),
        CS4 |-> B(8), CS5 |-> B(9), CS6 |-> B(10), CS7 |-> B(11), CMD_ACTIVE |-> B(16) ],
    DRAMMODE |->
      [ EMODE |-> F(15, 0), MODE |-> F(15, 16), DRAM_TYPE |-> F(4, 32), GANGED |-> B(36),
        BY9_INTF |-> B(37), FORCE_ECC64 |-> B(38), ECC_DISABLE |-> B(39),
        PG_POLICY |-> F(2, 40) ],
    MCLK_CFG |-> [CLK_RATIO |-> F(6, 0), REF_RATE |-> F(8, 8)] ]

McDrive ==
  [ DLL_CFG |->
      [ ADDR_COARSE_ADJ |-> F(6, 0), ADDR_FINE_ADJ |-> F(4, 8),
        DQI_COARSE_ADJ |-> F(6, 16), DQI_FINE_ADJ |-> F(4, 24),
        DQO_COARSE_ADJ |-> F(6, 32), DQO_FINE_ADJ |-> F(4, 40), DLL_DEFAULT |-> F(6, 48),
        DLL_STEP_SIZE |-> F(4, 56), DLL_BYPASS |-> B(63) ],
    DRIVE_CFG |->
      [ RTT_BYP_PULLDOWN |-> F(3, 0), RTT_BYP_PULLUP |-> F(3, 6), RTT_BYPASS |-> B(8),
        RTT_COMP_MOV_AVG |-> B(9), PVT_BYP_C1_PULLDOWN |-> F(4, 10),
        PVT_BYP_C1_PULLUP |-> F(4, 15), PVT_BYP_C2_PULLDOWN |-> F(4, 20),
        PVT_BYP_C2_PULLUP |-> F(4, 25), PVT_BYPASS |-> B(30), PVT_COMP_MOV_AVG |-> B(31),
        CLK_CLASS |-> B(34), DATA_CLASS |-> B(35), ADDR_CLASS |-> B(36),
        DQ_ODT_75 |-> B(37), DQ_ODT_150 |-> B(38), DQS_ODT_75 |-> B(39),
        DQS_ODT_150 |-> B(40), DQS_DIFF |-> B(41) ] ]

McTiming ==
  [ TEST_DATA |-> [DATA_ECC_INVERT |-> F(64, 0)],
    TEST_ECC |-> [ECC_INVERT |-> F(8, 0)],
    TIMING1 |->
      [ tRCD |-> F(4, 0), tCL |-> F(4, 4), tCrDh |-> B(8), tWR |-> F(3, 9),
        tCwD |-> F(4, 12), tRP |-> F(4, 16), tRRD |-> F(4, 20), tRCw |-> F(5, 24),
        tRCr |-> F(5, 32), tRFC |-> F(6, 48), tFIFO |-> F(2, 56), tW2R |-> F(2, 58),
        tR2W |-> F(2, 60), tR2R |-> B(62) ] ]

McGlobal ==
  [ GLB_CONFIG |->
      [ BLK_SET_MARK |-> F(4, 8), BLK_CLR_MARK |-> F(4, 12), PKT_PRIORITY |-> B(16),
        MAX_AGE |-> F(4, 20), BERR_DISABLE |-> B(29), FORCE_SEQ |-> B(30),
        VGEN |-> B(32), SLEW |-> F(2, 33), SSTL_VOLTAGE |-> B(35) ],
    GLB_INTLV |-> [INTLV0 |-> F(6, 0), INTLV1 |-> F(6, 8), INTLV_MODE |-> F(3, 16)],
    GLB_ECC_STATUS |->
      [ ERR_ADDR |-> F(37, 0), MULT_ERR_DET |-> B(61), UERR_DET |-> B(62),
        CERR_DET |-> B(63) ],
    GLB_ECC_ADDR |-> [CORR_ADDR |-> F(37, 0)],
    GLB_ECC_CORRECT |-> [CORRECT |-> F(64, 0)],
    GLB_PERF_CNT_CONTROL |-> [CHANNEL_SELECT |-> F(4, 0)] ]
=============================================================================
