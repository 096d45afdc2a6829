-------------------------- MODULE AbstractSemaphore --------------------------
(***************************************************************************)
(* Dijkstra's counting semaphore as semaphore.h describes it (lines 46-60):*)
(* P checks for a non-zero value and decrements it in one step, V          *)
(* increments it in one step.  A V without a P before it (Surplus) is the  *)
(* caller's mistake that implementation note 3 is about.                   *)
(***************************************************************************)
EXTENDS Naturals

CONSTANTS CPUs, Limit, Surpluses

VARIABLES
  count,    \* the semaphore's value
  holding   \* the CPUs between their P and their V

vars == <<count, holding>>

Init == count = Limit /\ holding = {}

P(c) ==
  /\ count # 0
  /\ count' = count - 1
  /\ holding' = holding \union {c}

V(c) ==
  /\ c \in holding
  /\ count' = count + 1
  /\ holding' = holding \ {c}

Surplus(c) ==
  /\ Surpluses
  /\ c \notin holding
  /\ count' = count + 1
  /\ UNCHANGED holding

Next == \E c \in CPUs : P(c) \/ V(c) \/ Surplus(c)

Spec == Init /\ [][Next]_vars
=============================================================================
