---------------------------- MODULE MCSbprofCpu ----------------------------
(* Instances of SbprofCpu.                                                  *)
EXTENDS SbprofCpu

MCCounters == {0, 1}
=============================================================================
