----------------------------- MODULE MCSemaphore -----------------------------
(***************************************************************************)
(* Three CPUs and a count of two, so that both a free and an exhausted     *)
(* semaphore are contended.  An int holds values up to four: with surplus  *)
(* releases the overflow trap is reached, without them it is not.          *)
(***************************************************************************)
EXTENDS Semaphore
=============================================================================
