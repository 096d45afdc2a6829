------------------------------ MODULE Semaphore ------------------------------
(***************************************************************************)
(* atomic-ops/semaphore.h: sem_take (P) and sem_release (V) on one counting *)
(* semaphore, one action per instruction that touches the shared word.     *)
(***************************************************************************)
EXTENDS Integers, FiniteSets, LoadLinked

CONSTANTS
  Limit,      \* the initial value of the semaphore
  MaxInt,     \* the largest value of an int: addi traps past it
  Surpluses   \* may a CPU release what it has not taken (note 3 of the header)

ASSUME SemaphoreAssumption ==
  /\ IsFiniteSet(CPUs)
  /\ MaxInt \in Nat
  /\ Limit \in 0..MaxInt
  /\ Surpluses \in BOOLEAN

VARIABLES
  sem,       \* *sem, the shared word
  tmp,       \* the register of each CPU
  surplus    \* history: releases completed by CPUs that held nothing

semVars == <<sem, linked, pc, tmp, surplus, lost>>

(* A surplus release runs the same instructions; its places are named      *)
(* apart so that the invariants can tell its CPU from a holder.            *)
Holding == {c \in CPUs : pc[c] \in {"in", "release", "releaseSC", "trap"}}
Taking  == {c \in CPUs : pc[c] \in {"take", "takeSC"}}

SemInit ==
  /\ sem = Limit
  /\ linked = {}
  /\ pc = [c \in CPUs |-> "out"]
  /\ tmp = [c \in CPUs |-> 0]
  /\ surplus = 0
  /\ lost = 0

(***************************************************************************)
(* Plausible mistakes in the assembly, for the mutation runs only.         *)
(***************************************************************************)
(* sw for sc in sem_take. *)
TakeSCPlainStore(c) ==
  /\ pc[c] = "takeSC"
  /\ Store(sem, tmp[c])
  /\ pc' = [pc EXCEPT ![c] = "in"]
  /\ UNCHANGED <<tmp, surplus>>

(* The beqz after the sc goes back to the sc and not to the ll. *)
SemSCFailNoReload(c) ==
  /\ pc[c] \in {"takeSC", "releaseSC", "surplusSC"}
  /\ StoreCondFail(c, sem)
  /\ UNCHANGED <<pc, tmp, surplus>>

(* The add traps one too early. *)
ReleaseLLEarlyTrap(c) ==
  /\ pc[c] \in {"release", "surplus"}
  /\ LoadLink(c, sem)
  /\ tmp' = [tmp EXCEPT ![c] = IF sem >= MaxInt - 1 THEN @ ELSE sem + 1]
  /\ pc' = [pc EXCEPT ![c] =
              IF sem >= MaxInt - 1
              THEN IF @ = "release" THEN "trap" ELSE "surplusTrap"
              ELSE IF @ = "release" THEN "releaseSC" ELSE "surplusSC"]
  /\ UNCHANGED surplus
-----------------------------------------------------------------------------
(* The caller starts a P, a V after its P, or a V it is not entitled to. *)
CallTake(c) ==
  /\ pc[c] = "out"
  /\ pc' = [pc EXCEPT ![c] = "take"]
  /\ UNCHANGED <<sem, linked, tmp, surplus, lost>>

CallRelease(c) ==
  /\ \/ pc[c] = "in" /\ pc' = [pc EXCEPT ![c] = "release"]
     \/ Surpluses /\ pc[c] = "out" /\ pc' = [pc EXCEPT ![c] = "surplus"]
  /\ UNCHANGED <<sem, linked, tmp, surplus, lost>>

(* ll; beqz back to the ll while the value is zero.  The addi of the delay *)
(* slot runs either way, and its result counts only if the sc is reached.  *)
TakeLL(c) ==
  /\ pc[c] = "take"
  /\ LoadLink(c, sem)
  /\ pc' = [pc EXCEPT ![c] = IF sem = 0 THEN "take" ELSE "takeSC"]
  /\ tmp' = [tmp EXCEPT ![c] = sem - 1]
  /\ UNCHANGED surplus

TakeSC(c) ==
  /\ pc[c] = "takeSC"
  /\ StoreCondOK(c, sem, tmp[c])
  /\ pc' = [pc EXCEPT ![c] = "in"]
  /\ UNCHANGED <<tmp, surplus>>

(* ll; addi, which traps instead of overflowing: nothing is stored then.   *)
ReleaseLL(c) ==
  /\ pc[c] \in {"release", "surplus"}
  /\ LoadLink(c, sem)
  /\ tmp' = [tmp EXCEPT ![c] = IF sem = MaxInt THEN @ ELSE sem + 1]
  /\ pc' = [pc EXCEPT ![c] =
              IF sem = MaxInt
              THEN IF @ = "release" THEN "trap" ELSE "surplusTrap"
              ELSE IF @ = "release" THEN "releaseSC" ELSE "surplusSC"]
  /\ UNCHANGED surplus

ReleaseSC(c) ==
  /\ pc[c] \in {"releaseSC", "surplusSC"}
  /\ StoreCondOK(c, sem, tmp[c])
  /\ pc' = [pc EXCEPT ![c] = "out"]
  /\ surplus' = IF pc[c] = "surplusSC" THEN surplus + 1 ELSE surplus
  /\ UNCHANGED tmp

(* The sc fails: beqz goes back to the ll. *)
LoopHead ==
  [takeSC |-> "take", releaseSC |-> "release", surplusSC |-> "surplus"]

SemSCFail(c) ==
  /\ pc[c] \in {"takeSC", "releaseSC", "surplusSC"}
  /\ StoreCondFail(c, sem)
  /\ pc' = [pc EXCEPT ![c] = LoopHead[@]]
  /\ UNCHANGED <<tmp, surplus>>

(* The environment closes a link between an ll and its sc. *)
SemLoseLink(c) ==
  /\ pc[c] \in {"takeSC", "releaseSC", "surplusSC"}
  /\ LoseLink(c, sem)
  /\ UNCHANGED <<pc, tmp, surplus>>

Instruction(c) ==
  TakeLL(c) \/ TakeSC(c) \/ ReleaseLL(c) \/ ReleaseSC(c) \/ SemSCFail(c)

SemNext == \E c \in CPUs :
  CallTake(c) \/ CallRelease(c) \/ Instruction(c) \/ SemLoseLink(c)

SemSpec == SemInit /\ [][SemNext]_semVars

(* A CPU inside a routine keeps executing instructions; nothing obliges a  *)
(* caller to take, or to release what it holds.                            *)
SemFairSpec == SemSpec /\ \A c \in CPUs : WF_semVars(Instruction(c))

-----------------------------------------------------------------------------
SemTypeOK ==
  /\ sem \in 0..MaxInt
  /\ linked \subseteq CPUs
  /\ pc \in [CPUs -> {"out", "take", "takeSC", "in", "release", "releaseSC",
                      "trap", "surplus", "surplusSC", "surplusTrap"}]
  /\ \A c \in CPUs :
       pc[c] \in {"surplus", "surplusSC", "surplusTrap"} => Surpluses
  /\ tmp \in [CPUs -> -1..MaxInt]
  /\ surplus \in Nat
  /\ lost \in Nat

(* What is taken and what is left always add up to the initial value and   *)
(* the surplus releases: no P or V is lost or counted twice, however the   *)
(* ll/sc sequences interleave (semaphore.h:90-125).                        *)
Conservation == sem + Cardinality(Holding) = Limit + surplus

(* "initialize a new semaphore to the number of threads of execution       *)
(* allowed in the critical section" (semaphore.h:59): never more of them.  *)
AtMostLimit == surplus = 0 => Cardinality(Holding) <= Limit

(* The trap of note 3 (semaphore.h:79-81) tells of the caller's mistake    *)
(* and of nothing else: it needs as many surplus releases as it takes to   *)
(* fill the int.                                                           *)
TrapOnlyOnOverflow ==
  (\E c \in CPUs : pc[c] \in {"trap", "surplusTrap"})
    => Limit + surplus >= MaxInt

(* What a CPU with an open link is about to store is computed from the     *)
(* value that is still there.                                              *)
SemLinkFresh ==
  \A c \in linked :
    /\ pc[c] = "takeSC" => sem # 0 /\ tmp[c] = sem - 1
    /\ pc[c] \in {"releaseSC", "surplusSC"} => tmp[c] = sem + 1

SemInv == SemTypeOK /\ Conservation /\ SemLinkFresh /\ TrapOnlyOnOverflow

(* The routines implement Dijkstra's atomic P and V.                       *)
AbsSem == INSTANCE AbstractSemaphore WITH count <- sem, holding <- Holding
ImplementsSemaphore == AbsSem!Spec

(* No livelock: while the count is non-zero and somebody spins in          *)
(* sem_take, the set of holders keeps changing; one CPU may starve.        *)
TakersProgress ==
  \A S \in SUBSET CPUs :
    (Holding = S /\ sem # 0 /\ Taking # {}) ~> Holding # S
=============================================================================
