---------------------------- MODULE AbstractLock ----------------------------
(***************************************************************************)
(* What spinlock.h promises its caller (lines 42-56): taking the lock is   *)
(* one atomic step that only a free lock allows, and it records the owner  *)
(* and the lock value; releasing it is one step of its owner.              *)
(***************************************************************************)
CONSTANTS CPUs, LockVals, NoOwner

VARIABLE owner   \* NoOwner, or the pair of the owning CPU and its lock value

Init == owner = NoOwner

Acquire(c, v) == owner = NoOwner /\ owner' = <<c, v>>

Release(c) == owner # NoOwner /\ owner[1] = c /\ owner' = NoOwner

Next == \E c \in CPUs : Release(c) \/ \E v \in LockVals : Acquire(c, v)

Spec == Init /\ [][Next]_owner
=============================================================================
