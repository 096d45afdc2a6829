------------------------------- MODULE MCExlib -------------------------------
(***************************************************************************)
(* The interrupt handlers use the caller-saved FP registers, the program's *)
(* own handler the MDMX accumulator too; the environment has two versions  *)
(* of its vectors, so that an old copy does not pass for a new one.        *)
(***************************************************************************)
EXTENDS Exlib

MCNeed == [c \in {"INT", "OTHER"} |->
             IF c = "INT" THEN {"CALLER"} ELSE {"CALLER", "MDMXACC"}]
=============================================================================
