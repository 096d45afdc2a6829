------------------------------ MODULE Spinlock ------------------------------
(***************************************************************************)
(* atomic-ops/spinlock.h: spinlock32_lock, spinlock32_trylock,             *)
(* spinlock32_release and their 64-bit twins, which differ only in the     *)
(* width of the word.  Every CPU runs the caller loop of the header's      *)
(* protocol: take the lock (spinning, or trying once), run its critical    *)
(* section, release.  One action per instruction that touches the shared   *)
(* word: the branches between them read only the register.                 *)
(***************************************************************************)
EXTENDS LoadLinked

CONSTANTS
  LockVals    \* the values that the processors store in the lock

(* "lockval" must be non-zero (spinlock.h:43): zero is the free lock. *)
ASSUME LockValsAssumption == LockVals \subseteq Nat \ {0}

VARIABLES
  lock,       \* *lock, the shared word
  op,         \* the routine it runs: "lock" or "trylock"
  lockval,    \* the routine's second argument
  ret         \* what its last trylock returned

lockVars == <<lock, linked, pc, op, lockval, ret, lost>>

LockInit ==
  /\ lock = 0
  /\ linked = {}
  /\ pc = [c \in CPUs |-> "out"]
  /\ op = [c \in CPUs |-> "lock"]
  /\ lockval \in [CPUs -> LockVals]
  /\ ret = [c \in CPUs |-> 0]
  /\ lost = 0

(***************************************************************************)
(* Plausible mistakes in the assembly.  They are no part of LockNext: the  *)
(* mutation runs put one in the place of the routine's step and expect a   *)
(* property to fail.                                                       *)
(***************************************************************************)
(* sw for sc: the store happens whether or not the link is open. *)
LockSCOKPlainStore(c) ==
  /\ pc[c] = "sc"
  /\ Store(lock, lockval[c])
  /\ pc' = [pc EXCEPT ![c] = "in"]
  /\ ret' = [ret EXCEPT ![c] = IF op[c] = "trylock" THEN 0 ELSE ret[c]]
  /\ UNCHANGED <<op, lockval>>

(* The move in the delay slot of line 125 is lost: trylock returns sc's 1. *)
LockSCOKReturnsFlag(c) ==
  /\ pc[c] = "sc"
  /\ StoreCondOK(c, lock, lockval[c])
  /\ pc' = [pc EXCEPT ![c] = "in"]
  /\ ret' = [ret EXCEPT ![c] = IF op[c] = "trylock" THEN 1 ELSE ret[c]]
  /\ UNCHANGED <<op, lockval>>

(* The beqz after the sc goes back to the sc and not to the ll. *)
LockSCFailNoReload(c) ==
  /\ pc[c] = "sc"
  /\ StoreCondFail(c, lock)
  /\ UNCHANGED <<pc, op, lockval, ret>>
-----------------------------------------------------------------------------
(* The caller enters one of the two acquiring routines. *)
Call(c) ==
  /\ pc[c] = "out"
  /\ pc' = [pc EXCEPT ![c] = "ll"]
  /\ \E o \in {"lock", "trylock"}, v \in LockVals :
       /\ op' = [op EXCEPT ![c] = o]
       /\ lockval' = [lockval EXCEPT ![c] = v]
  /\ UNCHANGED <<lock, linked, ret, lost>>

(* ll %0,(%1); bnez: a held lock sends spinlock_lock back to its ll. *)
LockLL(c) ==
  /\ pc[c] = "ll" /\ op[c] = "lock"
  /\ LoadLink(c, lock)
  /\ pc' = [pc EXCEPT ![c] = IF lock # 0 THEN "ll" ELSE "sc"]
  /\ UNCHANGED <<op, lockval, ret>>

(* ll %0,(%1); bnez: trylock gives up and returns the value it read. *)
TrylockLL(c) ==
  /\ pc[c] = "ll" /\ op[c] = "trylock"
  /\ LoadLink(c, lock)
  /\ pc' = [pc EXCEPT ![c] = IF lock # 0 THEN "out" ELSE "sc"]
  /\ ret' = [ret EXCEPT ![c] = IF lock # 0 THEN lock ELSE ret[c]]
  /\ UNCHANGED <<op, lockval>>

(* sc stores lockval: the routine is done, and a trylock returns zero. *)
LockSCOK(c) ==
  /\ pc[c] = "sc"
  /\ StoreCondOK(c, lock, lockval[c])
  /\ pc' = [pc EXCEPT ![c] = "in"]
  /\ ret' = [ret EXCEPT ![c] = IF op[c] = "trylock" THEN 0 ELSE ret[c]]
  /\ UNCHANGED <<op, lockval>>

(* sc fails: beqz goes back to the ll, in trylock as well. *)
LockSCFail(c) ==
  /\ pc[c] = "sc"
  /\ StoreCondFail(c, lock)
  /\ pc' = [pc EXCEPT ![c] = "ll"]
  /\ UNCHANGED <<op, lockval, ret>>

(* *lock = 0, by the CPU that is in the critical section. *)
Release(c) ==
  /\ pc[c] = "in"
  /\ Store(lock, 0)
  /\ pc' = [pc EXCEPT ![c] = "out"]
  /\ UNCHANGED <<op, lockval, ret>>

(* The environment closes a link between an ll and its sc. *)
LockLoseLink(c) ==
  /\ pc[c] = "sc"
  /\ LoseLink(c, lock)
  /\ UNCHANGED <<pc, op, lockval, ret>>

Acquire(c) == LockLL(c) \/ TrylockLL(c) \/ LockSCOK(c) \/ LockSCFail(c)

LockNext == \E c \in CPUs : Call(c) \/ Acquire(c) \/ Release(c) \/ LockLoseLink(c)

LockSpec == LockInit /\ [][LockNext]_lockVars

(* A CPU inside a routine keeps executing instructions, and a critical     *)
(* section ends; nothing obliges a caller to ask for the lock.             *)
LockFairness == \A c \in CPUs : WF_lockVars(Acquire(c)) /\ WF_lockVars(Release(c))

LockFairSpec == LockSpec /\ LockFairness

-----------------------------------------------------------------------------
LockTypeOK ==
  /\ lock \in LockVals \union {0}
  /\ linked \subseteq CPUs
  /\ pc \in [CPUs -> {"out", "ll", "sc", "in"}]
  /\ op \in [CPUs -> {"lock", "trylock"}]
  /\ lockval \in [CPUs -> LockVals]
  /\ ret \in [CPUs -> LockVals \union {0}]
  /\ lost \in Nat

Holders == {c \in CPUs : pc[c] = "in"}

(* The reason the header exists: between a successful lock or trylock and  *)
(* the release no other CPU gets past its sc (spinlock.h:91-136).          *)
MutualExclusion == \A c, d \in Holders : c = d

(* The word is the owner's lock value while the lock is held, so that it   *)
(* names the holder for debugging (spinlock.h:83-86), and zero otherwise.  *)
LockNamesHolder ==
  /\ \A c \in Holders : lock = lockval[c]
  /\ Holders = {} => lock = 0

(* An open link of a CPU about to sc is a promise: the zero it read is     *)
(* still there.                                                            *)
LockLinkFresh == \A c \in linked : pc[c] = "sc" => lock = 0

LockInv == LockTypeOK /\ MutualExclusion /\ LockNamesHolder /\ LockLinkFresh

(* A trylock never returns a zero for a lock it did not get, nor a value   *)
(* for one it got: the result tells the caller whether it may enter        *)
(* (spinlock.h:49-51).                                                     *)
TrylockTellsTruth ==
  [][\A c \in CPUs :
       op[c] = "trylock" /\ pc[c] \in {"ll", "sc"} /\ pc'[c] \in {"out", "in"}
         => ((ret'[c] = 0) <=> (pc'[c] = "in"))]_lockVars

(* The spinlock implements the abstract lock.                              *)
NoOwner == <<>>

owner ==
  IF Holders = {} THEN NoOwner
  ELSE LET c == CHOOSE c \in CPUs : pc[c] = "in" IN <<c, lockval[c]>>

AbsLock == INSTANCE AbstractLock
ImplementsLock == AbsLock!Spec

(* Lock freedom: while some CPU spins on the lock, somebody gets it over   *)
(* and over, whatever links are lost; an individual CPU may starve.        *)
SomebodyGetsIn ==
  (\E c \in CPUs : op[c] = "lock" /\ pc[c] \in {"ll", "sc"})
    ~> (\E c \in CPUs : pc[c] = "in")
=============================================================================
