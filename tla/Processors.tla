----------------------------- MODULE Processors -----------------------------
(***************************************************************************)
(* What the routines that several processors run at once have in common:   *)
(* the processors, and where each of them is in its routine.               *)
(***************************************************************************)
CONSTANT CPUs

VARIABLE pc
=============================================================================
