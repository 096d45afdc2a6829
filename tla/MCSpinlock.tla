----------------------------- MODULE MCSpinlock -----------------------------
(***************************************************************************)
(* Three CPUs, so that a CPU can take the lock between the ll and the sc   *)
(* of a second while a third spins; two lock values, neither of them the 1 *)
(* that sc leaves in its register.                                         *)
(***************************************************************************)
EXTENDS Spinlock

MCLockVals == {2, 3}
=============================================================================
