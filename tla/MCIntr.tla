------------------------------- MODULE MCIntr -------------------------------
(***************************************************************************)
(* One software and one device interrupt.  The FP registers of the two     *)
(* handlers overlap; h1 also wants the MDMX accumulator.                   *)
(***************************************************************************)
EXTENDS Intr

CONSTANTS h1, h2

MCFPMask == [h \in Handlers |->
               IF h = h1 THEN {"CALLER", "MDMXACC"} ELSE {"CALLER", "FCSR"}]
WithMDMX == {"FCSR", "CALLER", "MDMXACC"}
WithoutMDMX == {"FCSR", "CALLER"}
\* Without the two that the others have as mirror images.
MostMainOps == {"set_ie", "clear_ie", "enable_int", "set_softint", "add",
                "remove", "init", "shutdown"}
=============================================================================
