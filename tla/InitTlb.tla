------------------------------- MODULE InitTlb -------------------------------
(***************************************************************************)
(* tlb/tlb_utils.c: init_tlb and invalidate_tlb_entry, over the TLB access *)
(* routines of tlb/tlb.h.  Two entries that match one address stop the     *)
(* processor ("TLB Shutdown", tlb_inval.txt), even while neither is valid, *)
(* so the order of the writes is the whole point of the routine.           *)
(*                                                                         *)
(* Addresses are counted in units of 8 kB, what one entry with the minimum *)
(* page size maps.  An entry is modelled by the set of units it matches    *)
(* (its span): EntryHi's VPN2 field together with PageMask.                *)
(***************************************************************************)
EXTENDS Integers, FiniteSets

CONSTANTS
  Size,         \* tlb_size ()
  Base,         \* invalid_range_base
  ASIDs,        \* address space identifiers
  InitialTLBs   \* contents the TLB may have when the program gets control

Slots == 0 .. Size - 1
InvalidASID == 0    \* TLB_INVALID_ASID

(* vpn: VPN2 as tlbr reads it back, some unit of the span; valid: is the V *)
(* bit of either half set.                                                 *)
Entry == [vpn : Nat, span : SUBSET Nat, asid : ASIDs, global : BOOLEAN,
          valid : BOOLEAN]

(* The entry answers a lookup or a probe of unit p in address space a. *)
Matches(e, p, a) == p \in e.span /\ (e.global \/ e.asid = a)

(* Some lookup would match both entries. *)
Conflict(e, f) ==
  /\ e.span \intersect f.span # {}
  /\ e.global \/ f.global \/ e.asid = f.asid

NoConflictIn(t) == \A j, k \in Slots : j # k => ~Conflict(t[j], t[k])

(* A TLB that init_tlb may be asked to reset with safe = 0: nothing sits   *)
(* where another entry is about to be written (lines 95-98).               *)
Compatible(t) ==
  \A j, k \in Slots : j # k => ~Matches(t[j], Base + k, InvalidASID)

ASSUME TlbAssumption ==
  /\ Size \in Nat \ {0}
  /\ Base \in Nat
  /\ Base >= 2 * Size        \* lines 111-114: there is room below the base
  /\ InvalidASID \in ASIDs

(* Whatever had the processor before left a TLB that works. *)
ASSUME InitialTlbAssumption ==
  \A t \in InitialTLBs :
    /\ t \in [Slots -> Entry]
    /\ \A j \in Slots : t[j].vpn \in t[j].span
    /\ NoConflictIn(t)

VARIABLES
  tlb,        \* the TLB: one entry per slot
  pc,         \* the next statement of init_tlb
  i,          \* its loop counter
  safeaddr,   \* where the next entry is moved to
  covering,   \* covering_index
  skipped     \* history: slots found exactly at some safeaddr of this call

vars == <<tlb, pc, i, safeaddr, covering, skipped>>

Init ==
  /\ tlb \in InitialTLBs
  /\ pc = "idle"
  /\ i = 0
  /\ safeaddr = 0
  /\ covering = -1
  /\ skipped = {}

Hit(t, p) == \E j \in Slots : Matches(t[j], p, InvalidASID)

(* tlb_probe: the slot that matches, or a negative number. *)
tlb_probe(t, p) ==
  IF Hit(t, p) THEN CHOOSE j \in Slots : Matches(t[j], p, InvalidASID) ELSE -1

(* An entry of the minimum page size with V = 0 in both halves, at unit p. *)
InvalidEntry(p) ==
  [vpn |-> p, span |-> {p}, asid |-> InvalidASID, global |-> FALSE,
   valid |-> FALSE]

(* pagemask = 0: the entry keeps its VPN2 and everything else. *)
Shrunk(e) == [e EXCEPT !.span = {e.vpn}]

(***************************************************************************)
(* Plausible mistakes, for the mutation runs only.                         *)
(***************************************************************************)
(* The entry is not written back after its page size was changed. *)
ShrinkNoWrite ==
  /\ pc = "shrink"
  /\ safeaddr' = safeaddr
  /\ pc' = "move"
  /\ UNCHANGED <<tlb, i, covering, skipped>>

(* After an entry exactly at safeaddr the loop starts over from there. *)
ShrinkNoSkip ==
  /\ pc = "shrink"
  /\ tlb' = [tlb EXCEPT ![covering] = Shrunk(@)]
  /\ covering' = tlb_probe(tlb', safeaddr)
  /\ pc' = IF covering' >= 0 THEN "probe" ELSE "move"
  /\ UNCHANGED <<i, safeaddr, skipped>>

(* Skipping an entry also gives up the slot: safeaddr moves on twice. *)
ShrinkSkipTwice ==
  /\ pc = "shrink"
  /\ tlb' = [tlb EXCEPT ![covering] = Shrunk(@)]
  /\ covering' = tlb_probe(tlb', safeaddr)
  /\ IF covering' >= 0
     THEN safeaddr' = safeaddr + 2 /\ pc' = "probe"
          /\ skipped' = skipped \union {covering'}
     ELSE pc' = "move" /\ UNCHANGED <<safeaddr, skipped>>
  /\ UNCHANGED i

(* The last slot is left out of the final loop. *)
InvalidateAllButLast ==
  /\ pc = "invalidate"
  /\ tlb' = IF i + 1 < Size THEN [tlb EXCEPT ![i] = InvalidEntry(Base + i)]
                            ELSE tlb
  /\ IF i + 1 < Size
     THEN i' = i + 1 /\ UNCHANGED pc
     ELSE i' = 0 /\ pc' = "idle"
  /\ UNCHANGED <<safeaddr, covering, skipped>>
-----------------------------------------------------------------------------
(* init_tlb is called; lines 87-117.  safe = 0 is for a compatible TLB.    *)
Call(safe) ==
  /\ pc = "idle"
  /\ safe \/ Compatible(tlb)
  /\ pc' = IF safe THEN "probe" ELSE "invalidate"
  /\ safeaddr' = IF safe THEN Base - 2 * Size ELSE safeaddr
  /\ i' = 0
  /\ skipped' = {}
  /\ UNCHANGED <<tlb, covering>>

(* Lines 122-123: is something mapped at safeaddr? *)
Probe ==
  /\ pc = "probe"
  /\ covering' = tlb_probe(tlb, safeaddr)
  /\ pc' = IF covering' >= 0 THEN "shrink" ELSE "move"
  /\ UNCHANGED <<tlb, i, safeaddr, skipped>>

(* Lines 128-139: shrink the covering entry and probe again.  What still   *)
(* matches is mapped exactly at safeaddr, which is then skipped.           *)
Shrink ==
  /\ pc = "shrink"
  /\ tlb' = [tlb EXCEPT ![covering] = Shrunk(@)]
  /\ covering' = tlb_probe(tlb', safeaddr)
  /\ IF covering' >= 0
     THEN safeaddr' = safeaddr + 1 /\ pc' = "probe"
          /\ skipped' = skipped \union {covering'}
     ELSE pc' = "move" /\ UNCHANGED <<safeaddr, skipped>>
  /\ UNCHANGED i

(* Lines 143-151: the coast is clear, entry i moves to safeaddr.           *)
Move ==
  /\ pc = "move"
  /\ tlb' = [tlb EXCEPT ![i] = InvalidEntry(safeaddr)]
  /\ safeaddr' = safeaddr + 1
  /\ IF i + 1 < Size
     THEN i' = i + 1 /\ pc' = "probe"
     ELSE i' = 0 /\ pc' = "invalidate"
  /\ UNCHANGED <<covering, skipped>>

(* Lines 157-158 and invalidate_tlb_entry: entry i goes to its own place.  *)
Invalidate ==
  /\ pc = "invalidate"
  /\ tlb' = [tlb EXCEPT ![i] = InvalidEntry(Base + i)]
  /\ IF i + 1 < Size
     THEN i' = i + 1 /\ UNCHANGED pc
     ELSE i' = 0 /\ pc' = "idle"
  /\ UNCHANGED <<safeaddr, covering, skipped>>

Run == Probe \/ Shrink \/ Move \/ Invalidate

Next == Run \/ \E safe \in BOOLEAN : Call(safe)

Spec == Init /\ [][Next]_vars

(* A call, once made, runs. *)
FairSpec == Spec /\ WF_vars(Run)

-----------------------------------------------------------------------------
TypeOK ==
  /\ tlb \in [Slots -> Entry]
  /\ pc \in {"idle", "probe", "shrink", "move", "invalidate"}
  /\ i \in Slots
  /\ safeaddr \in Nat
  /\ covering \in Slots \union {-1}
  /\ skipped \subseteq Slots

(* No TLB Shutdown: after each single write no address matches two entries *)
(* (tlb_utils.c:107-110, tlb_utils.h:42-45).                               *)
NoShutdown == NoConflictIn(tlb)

(* The 2 * size units below the base are enough (tlb_utils.c:111-114): the *)
(* loop may skip units, but never so many that it reaches the base, where  *)
(* the final loop is going to write.                                       *)
SafeRangeSuffices == pc = "move" => safeaddr < Base

(* A finished call leaves nothing valid and the entries where a later      *)
(* init_tlb (0) may rewrite them (tlb_utils.c:155-158).                    *)
ResetComplete ==
  [][pc = "invalidate" /\ pc' = "idle" =>
       Compatible(tlb') /\ \A j \in Slots : ~tlb'[j].valid]_vars

(* The loop that skips and retries ends.                                   *)
Terminates == pc # "idle" ~> pc = "idle"

-----------------------------------------------------------------------------
(* The strengthening that makes NoShutdown inductive. *)

(* Slots already moved, and slots once found exactly at a safeaddr, lie    *)
(* below the current one; as no slot can be found there twice, there are   *)
(* at most Size skips.                                                     *)
MovedBelow ==
  pc \in {"probe", "shrink", "move"} =>
    /\ safeaddr = Base - 2 * Size + i + Cardinality(skipped)
    /\ \A j \in skipped \union (0 .. i - 1) :
         \A p \in tlb[j].span : p < safeaddr
    /\ \A j \in 0 .. i - 1 : ~tlb[j].valid

CoveringMatches ==
  /\ pc = "shrink" => covering # -1 /\ Matches(tlb[covering], safeaddr, InvalidASID)
  /\ pc = "move" => ~Hit(tlb, safeaddr)

(* In the final loop the slots not yet written are out of the way, and the *)
(* others are in their places.                                             *)
FinalLoop ==
  pc = "invalidate" =>
    /\ \A j \in i .. Size - 1 : \A k \in Slots :
         j # k => ~Matches(tlb[j], Base + k, InvalidASID)
    /\ \A j \in 0 .. i - 1 : tlb[j] = InvalidEntry(Base + j)

Inv ==
  /\ TypeOK
  /\ \A j \in Slots : tlb[j].vpn \in tlb[j].span
  /\ NoShutdown
  /\ MovedBelow
  /\ CoveringMatches
  /\ FinalLoop
=============================================================================
