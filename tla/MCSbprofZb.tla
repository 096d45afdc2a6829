------------------------------ MODULE MCSbprofZb ------------------------------
(* SbprofZb with room for two traces; both for a program that uses          *)
(* interrupt 6 itself and for one that does not.                            *)
EXTENDS SbprofZb

MCCpuSize == 2
MCMaxTraces == 5
=============================================================================
