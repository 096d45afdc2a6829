-------------------------- MODULE ProcessorsProofs --------------------------
(***************************************************************************)
(* Proofs about the three routines that several processors run at once:    *)
(* Spinlock, Semaphore and Cerr, for any processors and any other value of *)
(* their constants.  Each part states its component's inductive invariant, *)
(* proves it, and draws the component's properties from it.                *)
(***************************************************************************)
EXTENDS Spinlock, Semaphore, Cerr, FiniteSetTheorems, TLAPS

-----------------------------------------------------------------------------
(***************************************************************************)
(* Spinlock: mutual exclusion, the result of a trylock, and the            *)
(* implementation of AbstractLock, for any number of lost links.           *)
(***************************************************************************)

(* The initial state satisfies the invariant. *)
LEMMA LockInitInv == LockInit => LockInv
<1> SUFFICES ASSUME LockInit PROVE LockInv
  OBVIOUS
<1> USE LockValsAssumption
<1>1. LockTypeOK
  BY DEF LockInit, LockTypeOK
<1>2. Holders = {} /\ linked = {} /\ lock = 0
  BY DEF LockInit, Holders
<1> QED
  BY <1>1, <1>2 DEF LockInv, MutualExclusion, LockNamesHolder, LockLinkFresh

(* Every step preserves the types. *)
LEMMA LockStepTypeOK == LockTypeOK /\ [LockNext]_lockVars => LockTypeOK'
<1> SUFFICES ASSUME LockTypeOK, [LockNext]_lockVars PROVE LockTypeOK'
  OBVIOUS
<1> USE LockValsAssumption, MaxLostAssumption DEF LockTypeOK
<1>1. ASSUME NEW c \in CPUs, Call(c) PROVE LockTypeOK'
  BY <1>1 DEF Call
<1>2. ASSUME NEW c \in CPUs, LockLL(c) PROVE LockTypeOK'
  BY <1>2 DEF LockLL, LoadLink
<1>3. ASSUME NEW c \in CPUs, TrylockLL(c) PROVE LockTypeOK'
  BY <1>3 DEF TrylockLL, LoadLink
<1>4. ASSUME NEW c \in CPUs, LockSCOK(c) PROVE LockTypeOK'
  BY <1>4 DEF LockSCOK, StoreCondOK
<1>5. ASSUME NEW c \in CPUs, LockSCFail(c) PROVE LockTypeOK'
  BY <1>5 DEF LockSCFail, StoreCondFail
<1>6. ASSUME NEW c \in CPUs, Release(c) PROVE LockTypeOK'
  BY <1>6 DEF Release, Store
<1>7. ASSUME NEW c \in CPUs, LockLoseLink(c) PROVE LockTypeOK'
  BY <1>7 DEF LockLoseLink, LoseLink
<1>8. CASE UNCHANGED lockVars
  BY <1>8 DEF lockVars
<1> QED
  BY <1>1, <1>2, <1>3, <1>4, <1>5, <1>6, <1>7, <1>8 DEF LockNext, Acquire

(* Every step preserves the three facts that carry mutual exclusion.       *)
LEMMA LockStepInv == LockInv /\ [LockNext]_lockVars => LockInv'
<1> SUFFICES ASSUME LockInv, [LockNext]_lockVars PROVE LockInv'
  OBVIOUS
<1>0. LockTypeOK'
  BY LockStepTypeOK DEF LockInv
<1> DEFINE Excl == MutualExclusion /\ LockNamesHolder /\ LockLinkFresh
<1> USE LockValsAssumption
        DEF LockInv, LockTypeOK, MutualExclusion, LockNamesHolder, LockLinkFresh, Holders
<1>1. ASSUME NEW c \in CPUs, Call(c) PROVE Excl'
  BY <1>1 DEF Call
<1>2. ASSUME NEW c \in CPUs, LockLL(c) PROVE Excl'
  BY <1>2 DEF LockLL, LoadLink
<1>3. ASSUME NEW c \in CPUs, TrylockLL(c) PROVE Excl'
  BY <1>3 DEF TrylockLL, LoadLink
<1>4. ASSUME NEW c \in CPUs, LockSCOK(c) PROVE Excl'
  <2>1. lock = 0
    BY <1>4 DEF LockSCOK, StoreCondOK
  <2>2. \A d \in CPUs : pc[d] # "in"
    BY <2>1
  <2> QED
    BY <1>4, <2>2 DEF LockSCOK, StoreCondOK
<1>5. ASSUME NEW c \in CPUs, LockSCFail(c) PROVE Excl'
  BY <1>5 DEF LockSCFail, StoreCondFail
<1>6. ASSUME NEW c \in CPUs, Release(c) PROVE Excl'
  BY <1>6 DEF Release, Store
<1>7. ASSUME NEW c \in CPUs, LockLoseLink(c) PROVE Excl'
  BY <1>7 DEF LockLoseLink, LoseLink
<1>8. CASE UNCHANGED lockVars
  BY <1>8 DEF lockVars
<1>9. Excl'
  BY <1>1, <1>2, <1>3, <1>4, <1>5, <1>6, <1>7, <1>8 DEF LockNext, Acquire
<1> QED
  BY <1>0, <1>9

(* The inductive invariant holds in every reachable state.                 *)
THEOREM LockInvHolds == LockSpec => []LockInv
BY LockInitInv, LockStepInv, PTL DEF LockSpec

(* No two CPUs are between their acquiring sc and their release            *)
(* (spinlock.h:91-136), for any set of CPUs and any interleaving.          *)
THEOREM SpinlockMutualExclusion == LockSpec => []MutualExclusion
<1>1. LockInv => MutualExclusion
  BY DEF LockInv
<1> QED
  BY LockInvHolds, <1>1, PTL

(* Only the step of a CPU itself moves it, and a trylock that ends returns *)
(* zero exactly when it took the lock: the value that sends it out is a    *)
(* lock value, and no lock value is zero.                                  *)
LEMMA LockStepTellsTruth ==
  ASSUME LockTypeOK, [LockNext]_lockVars, NEW c \in CPUs,
         op[c] = "trylock", pc[c] \in {"ll", "sc"}, pc'[c] \in {"out", "in"}
  PROVE  (ret'[c] = 0) <=> (pc'[c] = "in")
<1> USE LockValsAssumption DEF LockTypeOK
<1>1. ASSUME NEW d \in CPUs, d # c,
             Call(d) \/ Acquire(d) \/ Release(d) \/ LockLoseLink(d)
      PROVE  pc'[c] = pc[c]
  BY <1>1 DEF Call, Acquire, LockLL, TrylockLL, LockSCOK, LockSCFail, Release, LockLoseLink
<1>2. \/ TrylockLL(c) /\ pc'[c] = "out"
      \/ LockSCOK(c) /\ pc'[c] = "in"
  <2>1. ~Call(c) /\ ~LockLL(c) /\ ~Release(c)
    BY DEF Call, LockLL, Release
  <2>2. LockSCFail(c) => pc'[c] = "ll"
    BY DEF LockSCFail
  <2>3. LockLoseLink(c) \/ UNCHANGED lockVars => pc'[c] = pc[c]
    BY DEF LockLoseLink, lockVars
  <2>4. LockSCOK(c) => pc'[c] = "in"
    BY DEF LockSCOK
  <2>5. TrylockLL(c) => pc'[c] \in {"out", "sc"}
    BY DEF TrylockLL
  <2> QED
    BY <1>1, <2>1, <2>2, <2>3, <2>4, <2>5 DEF LockNext, Acquire
<1>3. CASE TrylockLL(c) /\ pc'[c] = "out"
  <2>1. lock # 0 /\ ret'[c] = lock
    BY <1>3 DEF TrylockLL
  <2> QED
    BY <1>3, <2>1
<1>4. CASE LockSCOK(c) /\ pc'[c] = "in"
  BY <1>4 DEF LockSCOK
<1> QED
  BY <1>2, <1>3, <1>4

(* A trylock's result tells its caller whether it may enter, whatever the  *)
(* other CPUs do and whatever links are lost (spinlock.h:49-51).           *)
THEOREM SpinlockTrylockTellsTruth == LockSpec => TrylockTellsTruth
<1>1. LockInv /\ [LockNext]_lockVars =>
        [\A c \in CPUs :
           op[c] = "trylock" /\ pc[c] \in {"ll", "sc"} /\ pc'[c] \in {"out", "in"}
             => ((ret'[c] = 0) <=> (pc'[c] = "in"))]_lockVars
  BY LockStepTellsTruth DEF LockInv
<1> QED
  BY LockInvHolds, <1>1, PTL DEF LockSpec, TrylockTellsTruth

-----------------------------------------------------------------------------
(* With at most one holder, the refinement mapping names that holder.      *)
LEMMA OwnerIsHolder ==
  ASSUME LockInv, NEW c \in CPUs, pc[c] = "in"
  PROVE  owner = <<c, lockval[c]>>
<1>1. \A d \in CPUs : pc[d] = "in" => d = c
  BY DEF LockInv, MutualExclusion, Holders
<1>2. (CHOOSE d \in CPUs : pc[d] = "in") = c
  BY <1>1
<1>3. Holders # {}
  BY DEF Holders
<1> QED
  BY <1>2, <1>3 DEF owner

LEMMA NoHolderNoOwner == Holders = {} => owner = NoOwner
BY DEF owner

(* A step that leaves every CPU's place in or out of the critical section, *)
(* and the lock values, alone is invisible to the caller.                  *)
LEMMA SameHoldersSameOwner ==
  ASSUME LockInv, LockInv', \A c \in CPUs : (pc[c] = "in") <=> (pc'[c] = "in"),
         \A c \in CPUs : pc[c] = "in" => lockval'[c] = lockval[c]
  PROVE  owner' = owner
<1>1. CASE Holders = {}
  <2>1. Holders' = {}
    BY <1>1 DEF Holders
  <2> QED
    BY <1>1, <2>1 DEF owner
<1>2. CASE Holders # {}
  <2>1. PICK c \in CPUs : pc[c] = "in"
    BY <1>2 DEF Holders
  <2>2. owner = <<c, lockval[c]>>
    BY <2>1, OwnerIsHolder
  <2>3. \A d \in CPUs : pc'[d] = "in" => d = c
    BY <2>1 DEF LockInv, MutualExclusion, Holders
  <2>4. (CHOOSE d \in CPUs : pc'[d] = "in") = c
    BY <2>1, <2>3
  <2>5. Holders' # {}
    BY <2>1 DEF Holders
  <2>6. owner' = <<c, lockval'[c]>>
    BY <2>4, <2>5 DEF owner
  <2> QED
    BY <2>1, <2>2, <2>6
<1> QED
  BY <1>1, <1>2

(* Each step is an abstract acquire, an abstract release or a stutter.     *)
LEMMA LockStepRefines == LockInv /\ LockInv' /\ [LockNext]_lockVars => [AbsLock!Next]_owner
<1> SUFFICES ASSUME LockInv, LockInv', [LockNext]_lockVars PROVE [AbsLock!Next]_owner
  OBVIOUS
<1> USE DEF LockTypeOK
<1>1. ASSUME NEW c \in CPUs, Call(c) PROVE owner' = owner
  <2>1. /\ \A d \in CPUs : (pc[d] = "in") <=> (pc'[d] = "in")
        /\ \A d \in CPUs : pc[d] = "in" => lockval'[d] = lockval[d]
    BY <1>1 DEF Call, LockInv
  <2> QED
    BY <2>1, SameHoldersSameOwner
<1>2. ASSUME NEW c \in CPUs, LockLL(c) \/ TrylockLL(c) \/ LockSCFail(c)
      PROVE  owner' = owner
  <2>1. /\ \A d \in CPUs : (pc[d] = "in") <=> (pc'[d] = "in")
        /\ \A d \in CPUs : pc[d] = "in" => lockval'[d] = lockval[d]
    BY <1>2 DEF LockLL, TrylockLL, LockSCFail, LockInv
  <2> QED
    BY <2>1, SameHoldersSameOwner
<1>3. ASSUME NEW c \in CPUs, LockSCOK(c) PROVE AbsLock!Acquire(c, lockval[c])
  <2>1. lock = 0
    BY <1>3 DEF LockSCOK, StoreCondOK, LockInv, LockLinkFresh
  <2>2. Holders = {}
    BY <2>1, LockValsAssumption DEF LockInv, LockNamesHolder, Holders
  <2>3. owner = NoOwner
    BY <2>2, NoHolderNoOwner
  <2>4. /\ pc' = [pc EXCEPT ![c] = "in"]
        /\ lockval' = lockval
    BY <1>3 DEF LockSCOK
  <2>5. pc'[c] = "in" /\ \A d \in CPUs : pc'[d] = "in" => d = c
    BY <2>2, <2>4 DEF LockInv, Holders
  <2>6. (CHOOSE d \in CPUs : pc'[d] = "in") = c
    BY <2>5
  <2>7. Holders' # {}
    BY <2>5 DEF Holders
  <2>8. owner' = <<c, lockval[c]>>
    BY <2>4, <2>6, <2>7 DEF owner
  <2> QED
    BY <2>3, <2>8 DEF AbsLock!Acquire
<1>4. ASSUME NEW c \in CPUs, Release(c) PROVE AbsLock!Release(c)
  <2>1. owner = <<c, lockval[c]>>
    BY <1>4, OwnerIsHolder DEF Release
  <2>2. owner # NoOwner /\ owner[1] = c
    BY <2>1 DEF NoOwner
  <2>3. Holders' = {}
    BY <1>4 DEF Release, LockInv, MutualExclusion, Holders
  <2>4. owner' = NoOwner
    BY <2>3 DEF owner
  <2> QED
    BY <2>2, <2>4 DEF AbsLock!Release
<1>5. ASSUME NEW c \in CPUs, LockLoseLink(c) PROVE owner' = owner
  BY <1>5 DEF LockLoseLink, owner, Holders
<1>6. CASE UNCHANGED lockVars
  BY <1>6 DEF lockVars, owner, Holders
<1>7. \A c \in CPUs : lockval[c] \in LockVals
  BY DEF LockInv
<1> QED
  BY <1>1, <1>2, <1>3, <1>4, <1>5, <1>6, <1>7
     DEF LockNext, Acquire, AbsLock!Next

(* The assembly implements the atomic lock the header documents.           *)
THEOREM SpinlockImplementsLock == LockSpec => ImplementsLock
<1>1. LockInit => AbsLock!Init
  BY DEF LockInit, AbsLock!Init, owner, Holders
<1>2. LockInv /\ LockInv' /\ [LockNext]_lockVars => [AbsLock!Next]_owner
  BY LockStepRefines
<1> QED
  BY <1>1, <1>2, LockInvHolds, PTL DEF LockSpec, ImplementsLock, AbsLock!Spec

-----------------------------------------------------------------------------
(***************************************************************************)
(* Semaphore: conservation of units and the implementation of              *)
(* AbstractSemaphore, for any initial value and any size of an int, with   *)
(* and without surplus releases.                                           *)
(***************************************************************************)

LEMMA HoldingFinite == IsFiniteSet(Holding) /\ Cardinality(Holding) \in Nat
<1>1. Holding \subseteq CPUs
  BY DEF Holding
<1> QED
  BY <1>1, FS_Subset, FS_CardinalityType, SemaphoreAssumption

(* The initial state satisfies the invariant. *)
LEMMA SemInitInv == SemInit => SemInv
<1> SUFFICES ASSUME SemInit PROVE SemInv
  OBVIOUS
<1>1. Holding = {}
  BY DEF SemInit, Holding
<1>2. Cardinality(Holding) = 0
  BY <1>1, FS_EmptySet
<1>3. SemTypeOK /\ SemLinkFresh /\ TrapOnlyOnOverflow
  BY SemaphoreAssumption DEF SemInit, SemTypeOK, SemLinkFresh, TrapOnlyOnOverflow
<1> QED
  BY <1>2, <1>3, SemaphoreAssumption DEF SemInit, SemInv, Conservation

(* What a step does to the set of holders and to the word: nothing, or one *)
(* in for one unit less, or one out for one unit more, or a surplus unit.  *)
Enters(c) ==
  /\ c \notin Holding /\ Holding' = Holding \union {c}
  /\ sem # 0 /\ sem' = sem - 1 /\ surplus' = surplus
Leaves(c) ==
  /\ c \in Holding /\ Holding' = Holding \ {c}
  /\ sem' = sem + 1 /\ surplus' = surplus
AddsUnit(c) ==
  /\ c \notin Holding /\ Holding' = Holding
  /\ sem' = sem + 1 /\ surplus' = surplus + 1 /\ Surpluses
Stays == Holding' = Holding /\ sem' = sem /\ surplus' = surplus

LEMMA SemStepEffect ==
  ASSUME SemInv, [SemNext]_semVars
  PROVE  Stays \/ \E c \in CPUs : Enters(c) \/ Leaves(c) \/ AddsUnit(c)
<1> USE DEF SemInv, SemTypeOK, Holding
<1>1. ASSUME NEW c \in CPUs, CallTake(c) PROVE Stays
  BY <1>1 DEF CallTake, Stays
<1>2. ASSUME NEW c \in CPUs, CallRelease(c) PROVE Stays
  BY <1>2 DEF CallRelease, Stays
<1>3. ASSUME NEW c \in CPUs, TakeLL(c) PROVE Stays
  BY <1>3 DEF TakeLL, Stays, LoadLink
<1>4. ASSUME NEW c \in CPUs, TakeSC(c) PROVE Enters(c)
  <2>1. sem # 0 /\ tmp[c] = sem - 1
    BY <1>4 DEF TakeSC, StoreCondOK, SemLinkFresh
  <2> QED
    BY <1>4, <2>1 DEF TakeSC, StoreCondOK, Enters
<1>5. ASSUME NEW c \in CPUs, ReleaseLL(c) PROVE Stays
  BY <1>5 DEF ReleaseLL, Stays, LoadLink
<1>6. ASSUME NEW c \in CPUs, ReleaseSC(c) PROVE Leaves(c) \/ AddsUnit(c)
  <2>1. sem' = sem + 1
    BY <1>6 DEF ReleaseSC, StoreCondOK, SemLinkFresh
  <2>2. CASE pc[c] = "releaseSC"
    BY <1>6, <2>1, <2>2 DEF ReleaseSC, Leaves
  <2>3. CASE pc[c] = "surplusSC"
    BY <1>6, <2>1, <2>3 DEF ReleaseSC, AddsUnit
  <2> QED
    BY <1>6, <2>2, <2>3 DEF ReleaseSC
<1>7. ASSUME NEW c \in CPUs, SemSCFail(c) PROVE Stays
  BY <1>7 DEF SemSCFail, LoopHead, Stays, StoreCondFail
<1>8. ASSUME NEW c \in CPUs, SemLoseLink(c) PROVE Stays
  BY <1>8 DEF SemLoseLink, Stays, LoseLink
<1>9. CASE UNCHANGED semVars
  BY <1>9 DEF semVars, Stays
<1> QED
  BY <1>1, <1>2, <1>3, <1>4, <1>5, <1>6, <1>7, <1>8, <1>9
     DEF SemNext, Instruction

(* Each such effect keeps the balance of units and holders. *)
LEMMA SemStepConservation == SemInv /\ [SemNext]_semVars => Conservation'
<1> SUFFICES ASSUME SemInv, [SemNext]_semVars PROVE Conservation'
  OBVIOUS
<1> USE DEF Conservation
<1>1. Conservation /\ sem \in Int /\ surplus \in Int /\ Limit \in Int
  BY SemaphoreAssumption DEF SemInv, SemTypeOK
<1>2. IsFiniteSet(Holding) /\ Cardinality(Holding) \in Nat
  BY HoldingFinite
<1>3. CASE Stays
  BY <1>1, <1>3 DEF Stays
<1>4. ASSUME NEW c \in CPUs, Enters(c) PROVE Conservation'
  <2>1. Cardinality(Holding') = Cardinality(Holding) + 1
    BY <1>2, <1>4, FS_AddElement DEF Enters
  <2> QED
    BY <1>1, <1>2, <1>4, <2>1 DEF Enters
<1>5. ASSUME NEW c \in CPUs, Leaves(c) PROVE Conservation'
  <2>1. Cardinality(Holding') = Cardinality(Holding) - 1
    BY <1>2, <1>5, FS_RemoveElement DEF Leaves
  <2> QED
    BY <1>1, <1>2, <1>5, <2>1 DEF Leaves
<1>6. ASSUME NEW c \in CPUs, AddsUnit(c) PROVE Conservation'
  BY <1>1, <1>2, <1>6 DEF AddsUnit
<1> QED
  BY <1>3, <1>4, <1>5, <1>6, SemStepEffect

(* Types and freshness of the links; a trap needs a full int, which the    *)
(* balance turns into surplus releases.                                    *)
LEMMA SemStepTypeOK == SemInv /\ [SemNext]_semVars => SemTypeOK' /\ SemLinkFresh'
<1> SUFFICES ASSUME SemInv, [SemNext]_semVars PROVE SemTypeOK' /\ SemLinkFresh'
  OBVIOUS
<1> USE SemaphoreAssumption DEF SemInv, SemTypeOK, SemLinkFresh
<1>1. ASSUME NEW c \in CPUs, CallTake(c) PROVE SemTypeOK' /\ SemLinkFresh'
  BY <1>1 DEF CallTake
<1>2. ASSUME NEW c \in CPUs, CallRelease(c) PROVE SemTypeOK' /\ SemLinkFresh'
  BY <1>2 DEF CallRelease
<1>3. ASSUME NEW c \in CPUs, TakeLL(c) PROVE SemTypeOK' /\ SemLinkFresh'
  BY <1>3 DEF TakeLL, LoadLink
<1>4. ASSUME NEW c \in CPUs, TakeSC(c) PROVE SemTypeOK' /\ SemLinkFresh'
  BY <1>4 DEF TakeSC, StoreCondOK
<1>5. ASSUME NEW c \in CPUs, ReleaseLL(c) PROVE SemTypeOK' /\ SemLinkFresh'
  BY <1>5 DEF ReleaseLL, LoadLink
<1>6. ASSUME NEW c \in CPUs, ReleaseSC(c) PROVE SemTypeOK' /\ SemLinkFresh'
  BY <1>6 DEF ReleaseSC, StoreCondOK
<1>7. ASSUME NEW c \in CPUs, SemSCFail(c) PROVE SemTypeOK' /\ SemLinkFresh'
  BY <1>7 DEF SemSCFail, LoopHead, StoreCondFail
<1>8. ASSUME NEW c \in CPUs, SemLoseLink(c) PROVE SemTypeOK' /\ SemLinkFresh'
  BY <1>8 DEF SemLoseLink, LoseLink
<1>9. CASE UNCHANGED semVars
  BY <1>9 DEF semVars
<1> QED
  BY <1>1, <1>2, <1>3, <1>4, <1>5, <1>6, <1>7, <1>8, <1>9
     DEF SemNext, Instruction

LEMMA SemStepTrap == SemInv /\ [SemNext]_semVars => TrapOnlyOnOverflow'
<1> SUFFICES ASSUME SemInv, [SemNext]_semVars PROVE TrapOnlyOnOverflow'
  OBVIOUS
<1> DEFINE Trapped == \E c \in CPUs : pc[c] \in {"trap", "surplusTrap"}
<1>1. surplus' >= surplus /\ {surplus, surplus', Limit, MaxInt} \subseteq Int
  <2>1. surplus' = surplus \/ surplus' = surplus + 1
    BY SemStepEffect DEF Stays, Enters, Leaves, AddsUnit
  <2> QED
    BY <2>1, SemaphoreAssumption DEF SemInv, SemTypeOK
<1>2. CASE Trapped
  BY <1>1, <1>2 DEF SemInv, TrapOnlyOnOverflow
<1>3. ASSUME ~Trapped, Trapped' PROVE sem = MaxInt
  BY <1>3 DEF SemNext, Instruction, semVars, CallTake, CallRelease, TakeLL, TakeSC,
              ReleaseLL, ReleaseSC, SemSCFail, LoopHead, SemLoseLink, SemInv, SemTypeOK
<1>4. sem = MaxInt => Limit + surplus >= MaxInt
  BY HoldingFinite, SemaphoreAssumption DEF SemInv, Conservation, SemTypeOK
<1> QED
  BY <1>1, <1>2, <1>3, <1>4 DEF TrapOnlyOnOverflow

(* The inductive invariant holds in every reachable state.                 *)
THEOREM SemInvHolds == SemSpec => []SemInv
<1>1. SemInv /\ [SemNext]_semVars => SemInv'
  BY SemStepConservation, SemStepTypeOK, SemStepTrap DEF SemInv
<1> QED
  BY SemInitInv, <1>1, PTL DEF SemSpec

(* No P and no V is lost or counted twice: holders and units add up.       *)
THEOREM SemaphoreConservation == SemSpec => []Conservation
<1>1. SemInv => Conservation
  BY DEF SemInv
<1> QED
  BY SemInvHolds, <1>1, PTL

(* Without surplus releases at most Limit CPUs are past their P.           *)
THEOREM SemaphoreAtMostLimit == SemSpec => []AtMostLimit
<1>1. SemInv => AtMostLimit
  BY HoldingFinite, SemaphoreAssumption
     DEF SemInv, Conservation, AtMostLimit, SemTypeOK
<1> QED
  BY SemInvHolds, <1>1, PTL

(* An addi traps only once surplus releases have filled the int.           *)
THEOREM SemaphoreTrap == SemSpec => []TrapOnlyOnOverflow
<1>1. SemInv => TrapOnlyOnOverflow
  BY DEF SemInv
<1> QED
  BY SemInvHolds, <1>1, PTL

(* The assembly implements Dijkstra's atomic P and V.                      *)
THEOREM SemaphoreImplements == SemSpec => ImplementsSemaphore
<1>1. SemInit => AbsSem!Init
  BY DEF SemInit, AbsSem!Init, Holding
<1>2. SemInv /\ [SemNext]_semVars => [AbsSem!Next]_(AbsSem!vars)
  <2> SUFFICES ASSUME SemInv, [SemNext]_semVars PROVE [AbsSem!Next]_(AbsSem!vars)
    OBVIOUS
  <2>1. CASE Stays
    BY <2>1 DEF Stays, AbsSem!vars
  <2>2. ASSUME NEW c \in CPUs, Enters(c) PROVE AbsSem!P(c)
    BY <2>2 DEF Enters, AbsSem!P
  <2>3. ASSUME NEW c \in CPUs, Leaves(c) PROVE AbsSem!V(c)
    BY <2>3 DEF Leaves, AbsSem!V
  <2>4. ASSUME NEW c \in CPUs, AddsUnit(c) PROVE AbsSem!Surplus(c)
    BY <2>4 DEF AddsUnit, AbsSem!Surplus
  <2> QED
    BY <2>1, <2>2, <2>3, <2>4, SemStepEffect DEF AbsSem!Next
<1> QED
  BY <1>1, <1>2, SemInvHolds, PTL DEF SemSpec, ImplementsSemaphore, AbsSem!Spec
-----------------------------------------------------------------------------
(***************************************************************************)
(* Cerr: what the program finds in its registers, and what it may go on    *)
(* after, for any processors and any icache.  The slots of low memory are  *)
(* shared, so the first rests on who else is between save and restore; the *)
(* second is about each processor alone.                                   *)
(***************************************************************************)

CerrTypeOK ==
  /\ pc \in [CPUs -> Using \union {"program", "save_k0", "unrecoverable"}]
  /\ k0 \in [CPUs -> CPUs \union {"junk"}]
  /\ k1 \in [CPUs -> CPUs \union {"junk"}]
  /\ slot \in [{"k0", "k1"} -> CPUs \union {"junk"}]
  /\ errctl \in [CPUs -> ErrCtl]
  /\ cerr_i \in [CPUs -> [idx : Sets, external : BOOLEAN]]
  /\ locked \in [CPUs -> BOOLEAN]
  /\ bad \in [CPUs -> SUBSET (Sets \X Ways)]
  /\ alone \in [CPUs -> BOOLEAN]

(* A handler that is still alone is the only user of the slots, and finds  *)
(* there what it saved; one that is not finds some program's values.       *)
SlotsOwned ==
  \A c \in CPUs :
    /\ c \in Users => slot["k0"] \in CPUs /\ (alone[c] => Users = {c} /\ slot["k0"] = c)
    /\ c \in Users /\ pc[c] # "save_k1"
         => slot["k1"] \in CPUs /\ (alone[c] => slot["k1"] = c)

(* The registers themselves, before their save and after their restore.    *)
RegistersSaved ==
  \A c \in CPUs :
    /\ pc[c] = "save_k0" => k0[c] = c
    /\ pc[c] \in {"save_k0", "save_k1"} => k1[c] = c
    /\ pc[c] \in {"restore_k1", "program"}
         => k0[c] \in CPUs /\ (alone[c] => k0[c] = c)
    /\ pc[c] = "program" => k1[c] \in CPUs /\ (alone[c] => k1[c] = c)

(* What the hardware has recovered, and what the handler can.              *)
IcacheOnly(e) == "ICACHE" \in e /\ "DCACHE" \notin e
Recoverable(c) ==
  \/ "RECOVERABLE" \in errctl[c]
  \/ IcacheOnly(errctl[c]) /\ ~cerr_i[c].external

(* What is wrong with the caches is what ErrCtl and CacheErr-I say of the  *)
(* last error, and it is gone once the handler restores the registers.     *)
ErrorsReported ==
  \A c \in CPUs :
    /\ locked[c] => {"RECOVERABLE", "DCACHE"} \intersect errctl[c] # {}
    /\ bad[c] # {} => "ICACHE" \in errctl[c] /\ ~cerr_i[c].external
    /\ bad[c] \subseteq Invalidated(cerr_i[c].idx)
    /\ pc[c] = "dcache" => errctl[c] = {} \/ "RECOVERABLE" \in errctl[c]
    /\ pc[c] = "icache" => IcacheOnly(errctl[c]) /\ "RECOVERABLE" \notin errctl[c]
    /\ pc[c] \in {"restore_k0", "restore_k1", "program"}
         => /\ ~locked[c]
            /\ "RECOVERABLE" \in errctl[c] \/ bad[c] = {}
            /\ errctl[c] = {} \/ Recoverable(c)
    /\ pc[c] = "unrecoverable" => errctl[c] # {} /\ ~Recoverable(c)

CerrInv == CerrTypeOK /\ SlotsOwned /\ RegistersSaved /\ ErrorsReported

(* The initial state satisfies the invariant. *)
LEMMA CerrInitInv == CerrInit => CerrInv
<1> SUFFICES ASSUME CerrInit PROVE CerrInv
  OBVIOUS
<1>1. (CHOOSE i \in Sets : TRUE) \in Sets
  BY SetsAssumption
<1>2. CerrTypeOK
  BY <1>1 DEF CerrInit, CerrTypeOK, ErrCtl
<1>3. SlotsOwned /\ RegistersSaved
  BY DEF CerrInit, SlotsOwned, RegistersSaved, Users, Using
<1>4. ErrorsReported
  BY DEF CerrInit, ErrorsReported
<1> QED
  BY <1>2, <1>3, <1>4 DEF CerrInv

(* Every step preserves the types. *)
LEMMA CerrStepTypeOK == CerrTypeOK /\ [CerrNext]_cerrVars => CerrTypeOK'
<1> SUFFICES ASSUME CerrTypeOK, [CerrNext]_cerrVars PROVE CerrTypeOK'
  OBVIOUS
<1> USE DEF CerrTypeOK
<1>1. ASSUME NEW c \in CPUs, CacheError(c) PROVE CerrTypeOK'
  <2>1. PICK e \in ErrCtl, i \in Sets, x \in BOOLEAN :
          /\ "ICACHE" \notin e => x = cerr_i[c].external /\ i = cerr_i[c].idx
          /\ errctl' = [errctl EXCEPT ![c] = e]
          /\ cerr_i' = [cerr_i EXCEPT ![c] = [idx |-> i, external |-> x]]
          /\ locked' = [locked EXCEPT ![c] = @ \/ {"RECOVERABLE", "DCACHE"} \cap e # {}]
          /\ \E lines \in Faulty(e, i, x) : bad' = [bad EXCEPT ![c] = lines]
    BY <1>1 DEF CacheError
  <2>2. errctl' \in [CPUs -> ErrCtl] /\ cerr_i' \in [CPUs -> [idx : Sets, external : BOOLEAN]]
    BY <2>1
  <2>3. locked' \in [CPUs -> BOOLEAN]
    BY <2>1
  <2>4. PICK lines \in SUBSET (Sets \X Ways) : bad' = [bad EXCEPT ![c] = lines]
    <3>1. PICK lines \in Faulty(e, i, x) : bad' = [bad EXCEPT ![c] = lines]
      BY ONLY <2>1
    <3>2. lines \in SUBSET (Sets \X Ways)
      BY ONLY <3>1, i \in Sets DEF Faulty
    <3> QED
      BY ONLY <3>1, <3>2
  <2>5. bad' \in [CPUs -> SUBSET (Sets \X Ways)]
    BY <2>4
  <2> QED
    BY <1>1, <2>2, <2>3, <2>5 DEF CacheError
<1>2. ASSUME NEW c \in CPUs, SaveK0(c) PROVE CerrTypeOK'
  BY <1>2 DEF SaveK0, Using
<1>3. ASSUME NEW c \in CPUs, SaveK1(c) PROVE CerrTypeOK'
  BY <1>3 DEF SaveK1, Using
<1>4. ASSUME NEW c \in CPUs, Test(c) PROVE CerrTypeOK'
  BY <1>4 DEF Test, Verdict, Using
<1>5. ASSUME NEW c \in CPUs, Unlock(c) PROVE CerrTypeOK'
  BY <1>5 DEF Unlock, Using
<1>6. ASSUME NEW c \in CPUs, Invalidate(c) PROVE CerrTypeOK'
  BY <1>6 DEF Invalidate, Using
<1>7. ASSUME NEW c \in CPUs, RestoreK0(c) PROVE CerrTypeOK'
  BY <1>7 DEF RestoreK0, Using
<1>8. ASSUME NEW c \in CPUs, RestoreK1(c) PROVE CerrTypeOK'
  BY <1>8 DEF RestoreK1
<1>9. CASE UNCHANGED cerrVars
  BY <1>9 DEF cerrVars
<1> QED
  BY <1>1, <1>2, <1>3, <1>4, <1>5, <1>6, <1>7, <1>8, <1>9 DEF CerrNext, Handler

(* Every step preserves what the slots and the registers hold.             *)
LEMMA CerrStepRegisters ==
  ASSUME CerrInv, [CerrNext]_cerrVars
  PROVE  SlotsOwned' /\ RegistersSaved'
<1> DEFINE Kept == SlotsOwned /\ RegistersSaved
<1> USE DEF CerrInv, CerrTypeOK, SlotsOwned, RegistersSaved, Users
<1>1. ASSUME NEW c \in CPUs, CacheError(c) PROVE Kept'
  BY <1>1 DEF CacheError, Using
<1>2. ASSUME NEW c \in CPUs, SaveK0(c) PROVE Kept'
  <2>1. /\ slot' = [slot EXCEPT !["k0"] = c]
        /\ pc' = [pc EXCEPT ![c] = "save_k1"]
        /\ alone' = [d \in CPUs |-> IF d = c THEN Users = {} ELSE alone[d] /\ d \notin Users]
        /\ k0' = k0 /\ k1' = k1
    BY <1>2 DEF SaveK0
  <2>2. c \notin Users /\ Users' = Users \union {c}
    BY <1>2, <2>1 DEF SaveK0, Using
  <2>3. ASSUME NEW d \in CPUs, d \in Users'
        PROVE  /\ slot'["k0"] \in CPUs
               /\ alone'[d] => Users' = {d} /\ slot'["k0"] = d
    BY <2>1, <2>2, <2>3
  <2>4. ASSUME NEW d \in CPUs, d \in Users', pc'[d] # "save_k1"
        PROVE  slot'["k1"] \in CPUs /\ ~alone'[d]
    BY <2>1, <2>2, <2>4
  <2>5. SlotsOwned'
    BY <2>3, <2>4
  <2>6. RegistersSaved'
    BY <1>2, <2>1 DEF SaveK0, Using
  <2> QED
    BY <2>5, <2>6
<1>3. ASSUME NEW c \in CPUs, SaveK1(c) PROVE Kept'
  <2>1. Users' = Users /\ c \in Users
    BY <1>3 DEF SaveK1, Using
  <2>2. SlotsOwned'
    BY <1>3, <2>1 DEF SaveK1, Using
  <2> QED
    BY <1>3, <2>2 DEF SaveK1
<1>4. ASSUME NEW c \in CPUs, Test(c) PROVE Kept'
  BY <1>4 DEF Test, Verdict, Using
<1>5. ASSUME NEW c \in CPUs, Unlock(c) PROVE Kept'
  BY <1>5 DEF Unlock, Using
<1>6. ASSUME NEW c \in CPUs, Invalidate(c) PROVE Kept'
  BY <1>6 DEF Invalidate, Using
<1>7. ASSUME NEW c \in CPUs, RestoreK0(c) PROVE Kept'
  BY <1>7 DEF RestoreK0, Using
<1>8. ASSUME NEW c \in CPUs, RestoreK1(c) PROVE Kept'
  BY <1>8 DEF RestoreK1, Using
<1>9. CASE UNCHANGED cerrVars
  BY <1>9 DEF cerrVars
<1> QED
  BY <1>1, <1>2, <1>3, <1>4, <1>5, <1>6, <1>7, <1>8, <1>9 DEF CerrNext, Handler

(* Every step preserves the agreement of the caches with the registers     *)
(* that tell of their errors.                                              *)
LEMMA CerrStepErrors ==
  ASSUME CerrInv, [CerrNext]_cerrVars
  PROVE  ErrorsReported'
<1> USE DEF CerrInv, CerrTypeOK, ErrorsReported, Recoverable, Using
<1>1. ASSUME NEW c \in CPUs, CacheError(c) PROVE ErrorsReported'
  <2>1. PICK e \in ErrCtl, i \in Sets, x \in BOOLEAN :
          /\ "ICACHE" \notin e => x = cerr_i[c].external /\ i = cerr_i[c].idx
          /\ errctl' = [errctl EXCEPT ![c] = e]
          /\ cerr_i' = [cerr_i EXCEPT ![c] = [idx |-> i, external |-> x]]
          /\ locked' = [locked EXCEPT ![c] = @ \/ {"RECOVERABLE", "DCACHE"} \cap e # {}]
          /\ \E lines \in Faulty(e, i, x) : bad' = [bad EXCEPT ![c] = lines]
    BY <1>1 DEF CacheError
  <2>2. PICK lines : /\ bad' = [bad EXCEPT ![c] = lines]
                     /\ lines # {} => "ICACHE" \in e /\ ~x
                     /\ lines \subseteq Invalidated(i)
    BY ONLY <2>1 DEF Invalidated, Faulty
  <2>3. ~locked[c] /\ pc' = [pc EXCEPT ![c] = "save_k0"]
    BY <1>1 DEF CacheError
  <2> QED
    BY <2>1, <2>2, <2>3
<1>2. ASSUME NEW c \in CPUs, SaveK0(c) PROVE ErrorsReported'
  BY <1>2 DEF SaveK0
<1>3. ASSUME NEW c \in CPUs, SaveK1(c) PROVE ErrorsReported'
  BY <1>3 DEF SaveK1
<1>4. ASSUME NEW c \in CPUs, Test(c) PROVE ErrorsReported'
  <2>1. /\ pc' = [pc EXCEPT ![c] = Verdict(errctl[c])]
        /\ errctl' = errctl /\ cerr_i' = cerr_i /\ locked' = locked /\ bad' = bad
    BY <1>4 DEF Test
  <2>2. PICK e \in ErrCtl : e = errctl[c]
    OBVIOUS
  <2>3. /\ Verdict(e) \in {"dcache", "icache", "unrecoverable"}
        /\ Verdict(e) = "dcache" => e = {} \/ "RECOVERABLE" \in e
        /\ Verdict(e) = "icache" => IcacheOnly(e) /\ "RECOVERABLE" \notin e
        /\ Verdict(e) = "unrecoverable" =>
             e # {} /\ "RECOVERABLE" \notin e /\ ~IcacheOnly(e)
    BY ONLY e \in ErrCtl DEF Verdict, IcacheOnly
  <2>4. DOMAIN pc = CPUs
    OBVIOUS
  <2>5. pc'[c] = Verdict(e) /\ \A d \in CPUs : d # c => pc'[d] = pc[d]
    BY ONLY <2>1, <2>2, <2>4, c \in CPUs
  <2> QED
    BY <2>1, <2>2, <2>3, <2>5
<1>5. ASSUME NEW c \in CPUs, Unlock(c) PROVE ErrorsReported'
  BY <1>5 DEF Unlock
<1>6. ASSUME NEW c \in CPUs, Invalidate(c) PROVE ErrorsReported'
  <2>1. /\ bad[c] \ Invalidated(cerr_i[c].idx) = {} /\ ~locked[c]
        /\ "RECOVERABLE" \notin errctl[c] /\ IcacheOnly(errctl[c])
    BY <1>6 DEF Invalidate, IcacheOnly
  <2>2. CASE cerr_i[c].external
    <3>1. /\ pc' = [pc EXCEPT ![c] = "unrecoverable"]
          /\ errctl' = errctl /\ cerr_i' = cerr_i /\ locked' = locked /\ bad' = bad
      BY <1>6, <2>2 DEF Invalidate
    <3>2. DOMAIN pc = CPUs
      OBVIOUS
    <3>3. pc'[c] = "unrecoverable" /\ \A d \in CPUs : d # c => pc'[d] = pc[d]
      BY ONLY <3>1, <3>2, c \in CPUs
    <3>4. errctl[c] # {} /\ "RECOVERABLE" \notin errctl[c]
      BY ONLY <2>1 DEF IcacheOnly
    <3>5. ASSUME NEW d \in CPUs, d # c
          PROVE  /\ pc'[d] = pc[d] /\ errctl'[d] = errctl[d] /\ cerr_i'[d] = cerr_i[d]
                 /\ locked'[d] = locked[d] /\ bad'[d] = bad[d]
      BY ONLY <3>1, <3>3, <3>5
    <3>6. /\ pc'[c] = "unrecoverable" /\ errctl'[c] = errctl[c] /\ cerr_i'[c] = cerr_i[c]
          /\ locked'[c] = locked[c] /\ bad'[c] = bad[c]
      BY ONLY <3>1, <3>3
    <3>7. ~Recoverable(c)'
      BY ONLY <2>2, <3>4, <3>6 DEF Recoverable
    <3>8. ASSUME NEW d \in CPUs
          PROVE  /\ locked'[d] => {"RECOVERABLE", "DCACHE"} \intersect errctl'[d] # {}
                 /\ bad'[d] # {} => "ICACHE" \in errctl'[d] /\ ~cerr_i'[d].external
                 /\ bad'[d] \subseteq Invalidated(cerr_i'[d].idx)
      BY ONLY <3>1, d \in CPUs, ErrorsReported DEF ErrorsReported
    <3>9. ASSUME NEW d \in CPUs, d # c
          PROVE  /\ pc'[d] = "dcache" => errctl'[d] = {} \/ "RECOVERABLE" \in errctl'[d]
                 /\ pc'[d] = "icache" =>
                      IcacheOnly(errctl'[d]) /\ "RECOVERABLE" \notin errctl'[d]
                 /\ pc'[d] \in {"restore_k0", "restore_k1", "program"}
                      => /\ ~locked'[d]
                         /\ "RECOVERABLE" \in errctl'[d] \/ bad'[d] = {}
                         /\ errctl'[d] = {} \/ Recoverable(d)'
                 /\ pc'[d] = "unrecoverable" => errctl'[d] # {} /\ ~Recoverable(d)'
      BY ONLY <3>5, <3>9, d \in CPUs, ErrorsReported DEF ErrorsReported, Recoverable
    <3>10. errctl'[c] # {}
      BY ONLY <3>4, <3>6
    <3> QED
      BY ONLY <3>6, <3>7, <3>8, <3>9, <3>10 DEF ErrorsReported
  <2>3. CASE ~cerr_i[c].external
    <3>1. /\ pc' = [pc EXCEPT ![c] = "restore_k0"] /\ errctl' = errctl /\ cerr_i' = cerr_i
          /\ locked' = locked /\ bad' = [bad EXCEPT ![c] = @ \ Invalidated(cerr_i[c].idx)]
      BY <1>6, <2>3 DEF Invalidate
    <3>2. DOMAIN pc = CPUs /\ DOMAIN bad = CPUs
      OBVIOUS
    <3>3. pc'[c] = "restore_k0" /\ bad'[c] = {}
      BY ONLY <2>1, <3>1, <3>2, c \in CPUs
    <3>4. \A d \in CPUs : d # c => pc'[d] = pc[d] /\ bad'[d] = bad[d]
      BY ONLY <3>1, <3>2
    <3> QED
      BY <2>1, <2>3, <3>1, <3>3, <3>4
  <2> QED
    BY <2>2, <2>3
<1>7. ASSUME NEW c \in CPUs, RestoreK0(c) PROVE ErrorsReported'
  BY <1>7 DEF RestoreK0
<1>8. ASSUME NEW c \in CPUs, RestoreK1(c) PROVE ErrorsReported'
  BY <1>8 DEF RestoreK1
<1>9. CASE UNCHANGED cerrVars
  BY <1>9 DEF cerrVars
<1> QED
  BY <1>1, <1>2, <1>3, <1>4, <1>5, <1>6, <1>7, <1>8, <1>9 DEF CerrNext, Handler

(* The inductive invariant holds in every reachable state.                 *)
THEOREM CerrInvHolds == CerrSpec => []CerrInv
<1>1. CerrInv /\ [CerrNext]_cerrVars => CerrInv'
  BY CerrStepTypeOK, CerrStepRegisters, CerrStepErrors DEF CerrInv
<1> QED
  BY CerrInitInv, <1>1, PTL DEF CerrSpec

(* The program finds its own k0 and k1, unless another processor was       *)
(* between its save and its restore; then some program's, never the        *)
(* handler's (cerr.S, the slots at 0x170 and 0x178).                       *)
THEOREM CerrRegistersKept == CerrSpec => []RegistersKept
<1>1. CerrInv => RegistersKept
  BY DEF CerrInv, RegistersSaved, RegistersKept
<1> QED
  BY CerrInvHolds, <1>1, PTL

(* After an error that ErrCtl says something of, the program goes on only  *)
(* if the hardware recovered it or its icache line is invalidated, with    *)
(* CacheErr-D unlocked.  It also goes on when ErrCtl is zero, which the    *)
(* property leaves out and ReturnsIndicated, that TLC refutes, does not.   *)
THEOREM CerrReturnsRecovered == CerrSpec => []ReturnsRecovered
<1>1. CerrInv => ReturnsRecovered
  BY DEF CerrInv, ErrorsReported, Recoverable, IcacheOnly, ReturnsRecovered
<1> QED
  BY CerrInvHolds, <1>1, PTL

(* The handler gives up only on errors it has no cure for: neither         *)
(* recovered by the hardware nor in an icache line alone.                  *)
THEOREM CerrGivesUpJustified ==
  CerrSpec => [](\A c \in CPUs : pc[c] = "unrecoverable" => ~Recoverable(c))
<1>1. CerrInv => \A c \in CPUs : pc[c] = "unrecoverable" => ~Recoverable(c)
  BY DEF CerrInv, ErrorsReported
<1> QED
  BY CerrInvHolds, <1>1, PTL
=============================================================================
