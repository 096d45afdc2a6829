--------------------------------- MODULE Cerr ---------------------------------
(***************************************************************************)
(* cache-err/cerr.S, the fast path at the cache error vector, on several   *)
(* processors.  ERL is set: the handler takes no exception, but it shares  *)
(* its two save slots in low memory with the handlers of the other         *)
(* processors, instruction by instruction.                                 *)
(***************************************************************************)
EXTENDS Naturals, FiniteSets, Processors

CONSTANTS
  Sets,       \* sets of the four-way icache ("IDX")
  OtherBits   \* the bits of ErrCtl below 29: they only make it non-zero

ASSUME SetsAssumption == Sets # {}

Ways == 0 .. 3
(* Any combination of bits 31 to 29, which the handler tests.  The others  *)
(* matter where none of the three is set: they make ErrCtl non-zero.       *)
ErrCtl == SUBSET {"RECOVERABLE", "DCACHE", "ICACHE"} \union {OtherBits}

VARIABLES
  k0, k1,   \* whose program the value in the register is of, or "junk"
  slot,     \* the words at 0x170 ("k0") and 0x178 ("k1")
  errctl,   \* C0_ERRCTL of the last error
  cerr_i,   \* C0_CERR_I: index and whether the error is external
  locked,   \* CacheErr-D is locked
  bad,      \* icache lines that the last error is about: <<set, way>>
  alone     \* history: nobody else was between its save and its restore

cerrVars == <<pc, k0, k1, slot, errctl, cerr_i, locked, bad, alone>>

(* Where the slots are in use. *)
Using == {"save_k1", "test", "dcache", "icache", "restore_k0", "restore_k1"}
Users == {c \in CPUs : pc[c] \in Using}

CerrInit ==
  /\ pc = [c \in CPUs |-> "program"]
  /\ k0 = [c \in CPUs |-> c] /\ k1 = [c \in CPUs |-> c]
  /\ slot \in [{"k0", "k1"} -> {"junk"}]
  /\ errctl = [c \in CPUs |-> {}]
  /\ cerr_i = [c \in CPUs |-> [idx |-> CHOOSE i \in Sets : TRUE, external |-> FALSE]]
  /\ locked = [c \in CPUs |-> FALSE]
  /\ bad = [c \in CPUs |-> {}]
  /\ alone = [c \in CPUs |-> TRUE]

(* The icache lines that an error is about: one, in a set that has four.   *)
Faulty(e, i, x) == IF "ICACHE" \in e /\ ~x THEN {{<<i, w>>} : w \in Ways} ELSE {{}}

(* The processor sets the three registers.  An icache error that is not    *)
(* external has its index in CacheErr-I; no other error changes that.  The *)
(* program has its own values in k0 and k1 by then.                        *)
CacheError(c) ==
  /\ pc[c] = "program"
  /\ \E e \in ErrCtl, i \in Sets, x \in BOOLEAN :
       /\ "ICACHE" \notin e => x = cerr_i[c].external /\ i = cerr_i[c].idx
       /\ errctl' = [errctl EXCEPT ![c] = e]
       /\ cerr_i' = [cerr_i EXCEPT ![c] = [idx |-> i, external |-> x]]
       /\ locked' = [locked EXCEPT ![c] = @ \/ {"RECOVERABLE", "DCACHE"} \cap e # {}]
       /\ \E lines \in Faulty(e, i, x) : bad' = [bad EXCEPT ![c] = lines]
  /\ k0' = [k0 EXCEPT ![c] = c] /\ k1' = [k1 EXCEPT ![c] = c]
  /\ pc' = [pc EXCEPT ![c] = "save_k0"]
  /\ UNCHANGED <<slot, alone>>

SaveK0(c) ==
  /\ pc[c] = "save_k0"
  /\ slot' = [slot EXCEPT !["k0"] = k0[c]]
  /\ pc' = [pc EXCEPT ![c] = "save_k1"]
  /\ alone' = [d \in CPUs |-> IF d = c THEN Users = {}
                              ELSE alone[d] /\ d \notin Users]
  /\ UNCHANGED <<k0, k1, errctl, cerr_i, locked, bad>>

SaveK1(c) ==
  /\ pc[c] = "save_k1"
  /\ slot' = [slot EXCEPT !["k1"] = k1[c]]
  /\ pc' = [pc EXCEPT ![c] = "test"]
  /\ UNCHANGED <<k0, k1, errctl, cerr_i, locked, bad, alone>>

(* Mistake for a mutation run: bit 31 is not tested first. *)
NoFastPath(e) == IF e = {"ICACHE"} THEN "icache"
                 ELSE IF e = {} THEN "dcache" ELSE "unrecoverable"

(* Lines 104-134: bgtz is not taken when bit 31 is set, nor when ErrCtl is *)
(* zero; then bit 30, then bit 29.                                         *)
Verdict(e) == IF "RECOVERABLE" \in e \/ e = {} THEN "dcache"
              ELSE IF "DCACHE" \notin e /\ "ICACHE" \in e THEN "icache"
              ELSE "unrecoverable"

Test(c) ==
  /\ pc[c] = "test"
  /\ pc' = [pc EXCEPT ![c] = Verdict(errctl[c])]
  /\ k0' = [k0 EXCEPT ![c] = "junk"] /\ k1' = [k1 EXCEPT ![c] = "junk"]
  /\ UNCHANGED <<slot, errctl, cerr_i, locked, bad, alone>>

(* recovered_dcache *)
Unlock(c) ==
  /\ pc[c] = "dcache"
  /\ locked' = [locked EXCEPT ![c] = FALSE]
  /\ pc' = [pc EXCEPT ![c] = "restore_k0"]
  /\ UNCHANGED <<k0, k1, slot, errctl, cerr_i, bad, alone>>

(* Mistake for a mutation run: one of the four cache instructions is lost. *)
ThreeWays(i) == {<<i, w>> : w \in Ways \ {3}}

Invalidated(i) == {<<i, w>> : w \in Ways}

(* attempt_icache_recovery, lines 136-158 *)
Invalidate(c) ==
  /\ pc[c] = "icache"
  /\ IF cerr_i[c].external
     THEN pc' = [pc EXCEPT ![c] = "unrecoverable"] /\ UNCHANGED bad
     ELSE /\ pc' = [pc EXCEPT ![c] = "restore_k0"]
          /\ bad' = [bad EXCEPT ![c] = @ \ Invalidated(cerr_i[c].idx)]
  /\ UNCHANGED <<k0, k1, slot, errctl, cerr_i, locked, alone>>

RestoreK0(c) ==
  /\ pc[c] = "restore_k0"
  /\ k0' = [k0 EXCEPT ![c] = slot["k0"]]
  /\ pc' = [pc EXCEPT ![c] = "restore_k1"]
  /\ UNCHANGED <<k1, slot, errctl, cerr_i, locked, bad, alone>>

(* Mistake for a mutation run: k1 is loaded from k0's slot. *)
RestoreSwapped(c) ==
  /\ pc[c] = "restore_k1"
  /\ k1' = [k1 EXCEPT ![c] = "junk"]
  /\ pc' = [pc EXCEPT ![c] = "program"]
  /\ UNCHANGED <<k0, slot, errctl, cerr_i, locked, bad, alone>>

(* ... and eret. *)
RestoreK1(c) ==
  /\ pc[c] = "restore_k1"
  /\ k1' = [k1 EXCEPT ![c] = slot["k1"]]
  /\ pc' = [pc EXCEPT ![c] = "program"]
  /\ UNCHANGED <<k0, slot, errctl, cerr_i, locked, bad, alone>>

Handler(c) == \/ SaveK0(c) \/ SaveK1(c) \/ Test(c) \/ Unlock(c)
              \/ Invalidate(c) \/ RestoreK0(c) \/ RestoreK1(c)

CerrNext == \E c \in CPUs : CacheError(c) \/ Handler(c)

(* A processor in the handler executes it. *)
CerrFairness == \A c \in CPUs : WF_cerrVars(Handler(c))

CerrSpec == CerrInit /\ [][CerrNext]_cerrVars /\ CerrFairness

-----------------------------------------------------------------------------
(* The program goes on with its own k0 and k1, "without having dirtied any *)
(* registers", unless another processor was between save and restore at    *)
(* the same time; then it may have that program's value, never one of the  *)
(* handler's.                                                              *)
RegistersKept ==
  \A c \in CPUs : pc[c] = "program" =>
    /\ k0[c] \in CPUs /\ k1[c] \in CPUs
    /\ alone[c] => k0[c] = c /\ k1[c] = c

(* From an error that ErrCtl says something of the program goes on only if *)
(* its cause is gone: the hardware recovered it, or the faulty icache line *)
(* is invalidated, and CacheErr-D is unlocked. What happens to an ErrCtl of*)
(* zero is the subject of ReturnsIndicated.                                *)
ReturnsRecovered ==
  \A c \in CPUs : pc[c] = "program" /\ errctl[c] # {} =>
    /\ ~locked[c]
    /\ \/ "RECOVERABLE" \in errctl[c]
       \/ "ICACHE" \in errctl[c] /\ ~cerr_i[c].external /\ bad[c] = {}

(* "If an Icache error isn't indicated, I'm not sure why we got here.      *)
(* Consider that case "unrecoverable" for now" (129-133): the handler does *)
(* not begin to return if ErrCtl has neither RECOVERABLE nor IC. It does if*)
(* ErrCtl is zero: see the findings of README.md.                          *)
ReturnsIndicated ==
  \A c \in CPUs : pc[c] \in {"restore_k0", "restore_k1"} =>
    errctl[c] \intersect {"RECOVERABLE", "ICACHE"} # {}

(* A recoverable error is left, whatever the other processors do. *)
RecoverableReturns ==
  \A c \in CPUs :
    pc[c] = "save_k0" /\ ("RECOVERABLE" \in errctl[c]
      \/ (errctl[c] \intersect {"DCACHE", "ICACHE"} = {"ICACHE"}
          /\ ~cerr_i[c].external))
      ~> pc[c] = "program"
=============================================================================
