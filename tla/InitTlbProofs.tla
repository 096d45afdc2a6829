---------------------------- MODULE InitTlbProofs ----------------------------
(***************************************************************************)
(* Proofs about InitTlb for every TLB size, every base with room below it  *)
(* and every conflict-free initial contents.                               *)
(***************************************************************************)
EXTENDS InitTlb, FiniteSetTheorems, TLAPS

LEMMA SlotsFinite == IsFiniteSet(Slots) /\ Cardinality(Slots) = Size
BY FS_Interval, TlbAssumption DEF Slots

(* A probe returns a matching slot if there is one and -1 otherwise. *)
LEMMA ProbeResult ==
  ASSUME NEW t, NEW p
  PROVE  /\ Hit(t, p) => /\ tlb_probe(t, p) \in Slots
                         /\ Matches(t[tlb_probe(t, p)], p, InvalidASID)
         /\ ~Hit(t, p) => tlb_probe(t, p) = -1
BY DEF Hit, tlb_probe

LEMMA ProbeSign ==
  ASSUME NEW t, NEW p
  PROVE  tlb_probe(t, p) >= 0 <=> Hit(t, p)
BY ProbeResult, TlbAssumption DEF Slots

LEMMA InvalidEntryType ==
  ASSUME NEW p \in Nat
  PROVE  /\ InvalidEntry(p) \in Entry
         /\ InvalidEntry(p).vpn = p
         /\ InvalidEntry(p).span = {p}
         /\ InvalidEntry(p).asid = InvalidASID
         /\ ~InvalidEntry(p).global
         /\ ~InvalidEntry(p).valid
BY TlbAssumption DEF InvalidEntry, Entry

LEMMA ShrunkType ==
  ASSUME NEW e \in Entry, e.vpn \in e.span
  PROVE  /\ Shrunk(e) \in Entry
         /\ Shrunk(e).vpn = e.vpn
         /\ Shrunk(e).span = {e.vpn}
         /\ Shrunk(e).span \subseteq e.span
         /\ Shrunk(e).asid = e.asid
         /\ Shrunk(e).global = e.global
         /\ Shrunk(e).valid = e.valid
BY DEF Shrunk, Entry

(* An entry written where nothing else matches conflicts with nothing.     *)
LEMMA WriteInvalidSafe ==
  ASSUME NEW t \in [Slots -> Entry], NoConflictIn(t),
         NEW j \in Slots, NEW p \in Nat,
         \A k \in Slots : k # j => ~Matches(t[k], p, InvalidASID)
  PROVE  NoConflictIn([t EXCEPT ![j] = InvalidEntry(p)])
<1> DEFINE u == [t EXCEPT ![j] = InvalidEntry(p)]
<1>1. \A k \in Slots : k # j => u[k] = t[k]
  OBVIOUS
<1>2. u[j] = InvalidEntry(p)
  OBVIOUS
<1>3. ASSUME NEW k \in Slots, k # j
      PROVE  ~Conflict(u[j], u[k]) /\ ~Conflict(u[k], u[j])
  <2>1. ~(p \in t[k].span /\ (t[k].global \/ t[k].asid = InvalidASID))
    BY <1>3 DEF Matches
  <2> QED
    BY <1>1, <1>2, <1>3, <2>1, InvalidEntryType DEF Conflict
<1> QED
  BY <1>1, <1>3 DEF NoConflictIn

(* Shrinking an entry cannot create a conflict.                            *)
LEMMA ShrinkSafe ==
  ASSUME NEW t \in [Slots -> Entry], NoConflictIn(t),
         NEW j \in Slots, t[j].vpn \in t[j].span
  PROVE  NoConflictIn([t EXCEPT ![j] = Shrunk(@)])
<1> DEFINE u == [t EXCEPT ![j] = Shrunk(@)]
<1>1. \A k \in Slots : k # j => u[k] = t[k]
  OBVIOUS
<1>2. u[j] = Shrunk(t[j]) /\ t[j] \in Entry
  OBVIOUS
<1>3. /\ u[j].span \subseteq t[j].span
      /\ u[j].asid = t[j].asid /\ u[j].global = t[j].global
  BY <1>2, ShrunkType
<1>4. \A k, l \in Slots : Conflict(u[k], u[l]) => Conflict(t[k], t[l])
  BY <1>1, <1>3 DEF Conflict
<1> QED
  BY <1>4 DEF NoConflictIn

LEMMA InitInv == Init => Inv
<1> SUFFICES ASSUME Init PROVE Inv
  OBVIOUS
<1>1. /\ tlb \in [Slots -> Entry]
      /\ \A j \in Slots : tlb[j].vpn \in tlb[j].span
      /\ NoConflictIn(tlb)
  BY InitialTlbAssumption DEF Init
<1>2. 0 \in Slots
  BY TlbAssumption DEF Slots
<1> QED
  BY <1>1, <1>2
     DEF Init, Inv, TypeOK, NoShutdown, MovedBelow, CoveringMatches, FinalLoop

-----------------------------------------------------------------------------
(* At most Size slots are ever skipped, so the loop stays below the base.  *)
LEMMA SkipBound ==
  ASSUME Inv
  PROVE  /\ IsFiniteSet(skipped)
         /\ Cardinality(skipped) \in Nat
         /\ Cardinality(skipped) <= Size
BY SlotsFinite, FS_Subset, FS_CardinalityType DEF Inv, TypeOK

LEMMA MoveBelowBase == Inv => SafeRangeSuffices
<1> SUFFICES ASSUME Inv, pc = "move" PROVE safeaddr < Base
  BY DEF SafeRangeSuffices
<1>1. safeaddr = Base - 2 * Size + i + Cardinality(skipped)
  BY DEF Inv, MovedBelow
<1>2. i \in 0 .. Size - 1
  BY DEF Inv, TypeOK, Slots
<1>3. Cardinality(skipped) \in Nat /\ Cardinality(skipped) <= Size
  BY SkipBound
<1> QED
  BY <1>1, <1>2, <1>3, TlbAssumption

(* The slots that MovedBelow speaks of are slots. *)
LEMMA SeenInSlots ==
  ASSUME NEW s \in SUBSET Slots, NEW n \in Slots
  PROVE  s \union (0 .. n - 1) \subseteq Slots
  BY TlbAssumption DEF Slots

(* The slot just found at safeaddr was never skipped before and has not    *)
(* been moved yet: those lie below safeaddr.                               *)
LEMMA StepInv == Inv /\ [Next]_vars => Inv'
<1> SUFFICES ASSUME Inv, [Next]_vars PROVE Inv'
  OBVIOUS
<1> USE TlbAssumption DEF Slots
<1>0. /\ TypeOK
      /\ tlb \in [Slots -> Entry]
      /\ \A j \in Slots : tlb[j].vpn \in tlb[j].span
      /\ NoConflictIn(tlb)
      /\ i \in 0 .. Size - 1 /\ safeaddr \in Nat /\ skipped \subseteq Slots
  BY DEF Inv, TypeOK, NoShutdown
<1>1. ASSUME NEW safe \in BOOLEAN, Call(safe) PROVE Inv'
  <2>1. TypeOK' /\ tlb' = tlb /\ i' = 0 /\ skipped' = {}
    BY <1>0, <1>1 DEF Call, TypeOK
  <2>2. MovedBelow'
    BY <1>1, <2>1, FS_EmptySet DEF Call, MovedBelow
  <2>3. CoveringMatches'
    BY <1>1 DEF Call, CoveringMatches
  <2>4. FinalLoop'
    BY <1>1, <2>1 DEF Call, FinalLoop, Compatible, Matches
  <2> QED
    BY <1>0, <2>1, <2>2, <2>3, <2>4 DEF Inv, NoShutdown
<1>2. CASE Probe
  <2>1. covering' \in Slots \union {-1}
    BY <1>2, ProbeResult DEF Probe
  <2>2. TypeOK' /\ tlb' = tlb
    BY <1>0, <1>2, <2>1 DEF Probe, TypeOK
  <2>3. MovedBelow'
    BY <1>2 DEF Probe, MovedBelow, Inv
  <2>4. CoveringMatches'
    <3>1. covering' = tlb_probe(tlb, safeaddr) /\ safeaddr' = safeaddr
      BY <1>2 DEF Probe
    <3>2. CASE Hit(tlb, safeaddr)
      <4>1. pc' = "shrink" /\ covering' # -1
        BY <1>2, <3>1, <3>2, ProbeSign DEF Probe
      <4> QED
        BY <2>2, <3>1, <3>2, <4>1, ProbeResult DEF CoveringMatches
    <3>3. CASE ~Hit(tlb, safeaddr)
      <4>1. pc' = "move"
        BY <1>2, <3>1, <3>3, ProbeSign DEF Probe
      <4> QED
        BY <2>2, <3>1, <3>3, <4>1 DEF CoveringMatches, Hit
    <3> QED
      BY <3>2, <3>3
  <2>5. FinalLoop'
    BY <1>2, <2>1 DEF Probe, FinalLoop
  <2> QED
    BY <1>0, <2>2, <2>3, <2>4, <2>5 DEF Inv, NoShutdown
<1>3. CASE Shrink
  <2> DEFINE k == covering'
  <2>1. covering \in Slots /\ Matches(tlb[covering], safeaddr, InvalidASID)
    BY <1>3 DEF Shrink, Inv, TypeOK, CoveringMatches
  <2>2. /\ tlb' = [tlb EXCEPT ![covering] = Shrunk(@)]
        /\ k = tlb_probe(tlb', safeaddr)
        /\ i' = i
    BY <1>3 DEF Shrink
  <2>3. tlb' \in [Slots -> Entry]
    BY <1>0, <2>1, <2>2, ShrunkType
  <2>4. \A j \in Slots : /\ tlb'[j].vpn = tlb[j].vpn
                         /\ tlb'[j].vpn \in tlb'[j].span
                         /\ tlb'[j].span \subseteq tlb[j].span
                         /\ tlb'[j].valid = tlb[j].valid
    <3> SUFFICES ASSUME NEW j \in Slots
                 PROVE  /\ tlb'[j].vpn = tlb[j].vpn
                        /\ tlb'[j].vpn \in tlb'[j].span
                        /\ tlb'[j].span \subseteq tlb[j].span
                        /\ tlb'[j].valid = tlb[j].valid
      OBVIOUS
    <3>1. tlb[j] \in Entry /\ tlb[j].vpn \in tlb[j].span
      BY <1>0
    <3>2. tlb'[j] = tlb[j] \/ tlb'[j] = Shrunk(tlb[j])
      BY <1>0, <2>1, <2>2
    <3> QED
      BY <3>1, <3>2, ShrunkType
  <2>5. NoConflictIn(tlb')
    BY <1>0, <2>1, <2>2, ShrinkSafe
  <2>6. k \in Slots \union {-1}
    BY <2>2, ProbeResult
  <2>7. MovedBelow
    BY DEF Inv
  <2>8. /\ safeaddr = Base - 2 * Size + i + Cardinality(skipped)
        /\ \A j \in skipped \union (0 .. i - 1) :
             \A p \in tlb[j].span : p < safeaddr
        /\ \A j \in 0 .. i - 1 : ~tlb[j].valid
    BY <1>3, <2>7 DEF Shrink, MovedBelow
  <2>9. CASE Hit(tlb', safeaddr)
    <3>1. /\ k \in Slots /\ Matches(tlb'[k], safeaddr, InvalidASID)
          /\ safeaddr' = safeaddr + 1 /\ pc' = "probe"
          /\ skipped' = skipped \union {k}
      <4>1. /\ k >= 0
            /\ IF k >= 0 THEN safeaddr' = safeaddr + 1 /\ pc' = "probe"
                              /\ skipped' = skipped \union {k}
               ELSE pc' = "move" /\ UNCHANGED <<safeaddr, skipped>>
        <5>1. k >= 0
          BY <2>2, <2>9, ProbeSign
        <5> QED
          BY ONLY <1>3, <5>1 DEF Shrink
      <4>2. k \in Slots /\ Matches(tlb'[k], safeaddr, InvalidASID)
        <5>1. /\ tlb_probe(tlb', safeaddr) \in Slots
              /\ Matches(tlb'[tlb_probe(tlb', safeaddr)], safeaddr, InvalidASID)
          BY ONLY <2>9, ProbeResult
        <5>2. k = tlb_probe(tlb', safeaddr)
          BY <2>2, Zenon
        <5> HIDE DEF k
        <5> QED
          BY ONLY <5>1, <5>2
      <4> QED
        BY <4>1, <4>2, Zenon
    <3>2. k = covering
      <4>1. safeaddr \in tlb'[k].span /\ safeaddr \in tlb[k].span
        BY <2>4, <3>1 DEF Matches
      <4>2. Matches(tlb[k], safeaddr, InvalidASID)
        BY <1>0, <2>1, <2>2, <3>1, <4>1, ShrunkType DEF Matches
      <4>3. k # covering => Conflict(tlb[k], tlb[covering])
        BY <2>1, <4>2 DEF Conflict, Matches
      <4> QED
        BY <1>0, <2>1, <3>1, <4>3 DEF NoConflictIn
    <3>3. k \notin skipped
      <4>1. safeaddr \in tlb[k].span
        BY <2>1, <3>2 DEF Matches
      <4>2. ASSUME k \in skipped PROVE FALSE
        <5>1. safeaddr < safeaddr
          BY <2>8, <4>1, <4>2
        <5> QED
          BY <1>0, <5>1
      <4> QED
        BY <4>2
    <3>4. Cardinality(skipped') = Cardinality(skipped) + 1
      BY <3>1, <3>3, SkipBound, FS_AddElement
    <3>5. tlb'[k].span = {tlb[k].vpn} /\ tlb[k].vpn = safeaddr
      <4>1. tlb'[k] = Shrunk(tlb[k]) /\ tlb[k] \in Entry
        BY <1>0, <2>1, <2>2, <3>2
      <4>2. tlb'[k].span = {tlb[k].vpn}
        BY <1>0, <3>1, <4>1, ShrunkType
      <4> QED
        BY <3>1, <4>2 DEF Matches
    <3>6. MovedBelow'
      <4>1. safeaddr' = Base - 2 * Size + i' + Cardinality(skipped')
        BY <1>0, <2>2, <2>8, <3>1, <3>4, SkipBound
      <4>2. ASSUME NEW j \in skipped' \union (0 .. i' - 1),
                   NEW p \in tlb'[j].span
            PROVE  p < safeaddr'
        <5>1. CASE j = k
          BY <1>0, <3>1, <3>5, <4>2, <5>1
        <5>2. CASE j # k
          <6>1. j \in skipped \union (0 .. i - 1)
            BY <2>2, <3>1, <4>2, <5>2
          <6>2. j \in Slots
            BY <1>0, <6>1, SeenInSlots
          <6>3. p \in tlb[j].span /\ p \in Nat
            BY <1>0, <2>4, <4>2, <6>2 DEF Entry
          <6>4. p < safeaddr
            BY <2>8, <6>1, <6>3
          <6> QED
            BY <1>0, <3>1, <6>3, <6>4
        <5> QED
          BY <5>1, <5>2
      <4>3. \A j \in 0 .. i' - 1 : ~tlb'[j].valid
        BY <1>0, <2>2, <2>4, <2>8
      <4> QED
        BY <4>1, <4>2, <4>3 DEF MovedBelow
    <3>7. TypeOK' /\ CoveringMatches' /\ FinalLoop'
      <4>1. skipped' \subseteq Slots /\ safeaddr' \in Nat
        <5>1. k \in Slots /\ skipped' = skipped \union {k}
          BY <3>1
        <5>2. safeaddr' = safeaddr + 1
          BY <3>1
        <5> HIDE DEF k
        <5> QED
          BY <1>0, <5>1, <5>2
      <4>2. i' = i
        BY <2>2
      <4>3. i' \in Slots
        BY <1>0, <4>2
      <4>4. TypeOK'
        BY <2>3, <2>6, <3>1, <4>1, <4>3 DEF TypeOK
      <4>5. CoveringMatches' /\ FinalLoop'
        BY <3>1, Zenon DEF CoveringMatches, FinalLoop
      <4> QED
        BY <4>4, <4>5
    <3> QED
      BY <2>4, <2>5, <3>6, <3>7 DEF Inv, NoShutdown
  <2>10. CASE ~Hit(tlb', safeaddr)
    <3>1. pc' = "move" /\ safeaddr' = safeaddr /\ skipped' = skipped
      BY <1>3, <2>2, <2>10, ProbeSign DEF Shrink
    <3>2. TypeOK' /\ CoveringMatches' /\ FinalLoop'
      BY <1>0, <2>2, <2>3, <2>6, <2>10, <3>1
         DEF TypeOK, CoveringMatches, FinalLoop, Hit
    <3>3. MovedBelow'
      <4>1. ASSUME NEW j \in skipped \union (0 .. i - 1),
                   NEW p \in tlb'[j].span
            PROVE  p < safeaddr
        <5>1. j \in Slots
          BY <1>0, <4>1, SeenInSlots
        <5> QED
          BY <2>4, <2>8, <4>1, <5>1
      <4>2. \A j \in 0 .. i - 1 : ~tlb'[j].valid
        BY <1>0, <2>4, <2>8
      <4> QED
        BY <2>2, <2>8, <3>1, <4>1, <4>2 DEF MovedBelow
    <3> QED
      BY <2>4, <2>5, <3>2, <3>3 DEF Inv, NoShutdown
  <2> QED
    BY <2>9, <2>10
<1>4. CASE Move
  <2>1. /\ tlb' = [tlb EXCEPT ![i] = InvalidEntry(safeaddr)]
        /\ safeaddr' = safeaddr + 1
        /\ skipped' = skipped /\ covering' = covering
    BY <1>4 DEF Move
  <2>2. \A j \in Slots : ~Matches(tlb[j], safeaddr, InvalidASID)
    BY <1>4 DEF Move, Inv, CoveringMatches, Hit
  <2>3. NoConflictIn(tlb')
    BY <1>0, <2>1, <2>2, WriteInvalidSafe
  <2>4. tlb' \in [Slots -> Entry]
    BY <1>0, <2>1, InvalidEntryType
  <2>5. /\ \A j \in Slots : j # i => tlb'[j] = tlb[j]
        /\ tlb'[i] = InvalidEntry(safeaddr)
    BY <1>0, <2>1
  <2>6. \A j \in Slots : tlb'[j].vpn \in tlb'[j].span
    BY <1>0, <2>5, InvalidEntryType
  <2>7. /\ safeaddr = Base - 2 * Size + i + Cardinality(skipped)
        /\ \A j \in skipped \union (0 .. i - 1) :
             \A p \in tlb[j].span : p < safeaddr
        /\ \A j \in 0 .. i - 1 : ~tlb[j].valid
    BY <1>4 DEF Move, Inv, MovedBelow
  <2>8. safeaddr < Base
    BY <1>4, MoveBelowBase DEF Move, SafeRangeSuffices
  <2>9. ASSUME NEW j \in skipped \union (0 .. i), NEW p \in tlb'[j].span
        PROVE  p < safeaddr + 1
    <3>1. CASE j = i
      BY <1>0, <2>5, <2>9, <3>1, InvalidEntryType
    <3>2. CASE j # i
      <4>1. j \in skipped \union (0 .. i - 1) /\ j \in Slots
        <5>1. j \in skipped \union (0 .. i - 1)
          <6>1. j \in 0 .. i => j \in 0 .. i - 1
            BY <1>0, <3>2
          <6> QED
            BY <2>9, <6>1
        <5> QED
          BY <1>0, <5>1, SeenInSlots
      <4>2. p \in tlb[j].span /\ p \in Nat
        BY <1>0, <2>5, <2>9, <3>2, <4>1 DEF Entry
      <4>3. p < safeaddr
        BY <2>7, <4>1, <4>2
      <4> QED
        BY <1>0, <4>2, <4>3
    <3> QED
      BY <3>1, <3>2
  <2>10. CASE i + 1 < Size
    <3>1. i' = i + 1 /\ pc' = "probe"
      BY <1>4, <2>10 DEF Move
    <3>2. TypeOK' /\ CoveringMatches' /\ FinalLoop'
      BY <1>0, <2>1, <2>4, <2>10, <3>1
         DEF TypeOK, CoveringMatches, FinalLoop
    <3>3. safeaddr' = Base - 2 * Size + i' + Cardinality(skipped')
      BY <1>0, <2>1, <2>7, <3>1, SkipBound
    <3>4. \A j \in 0 .. i' - 1 : ~tlb'[j].valid
      BY <1>0, <2>5, <2>7, <3>1, InvalidEntryType
    <3>5. 0 .. i' - 1 = 0 .. i
      BY <1>0, <3>1
    <3>6. MovedBelow'
      BY <2>1, <2>9, <3>1, <3>3, <3>4, <3>5 DEF MovedBelow
    <3> QED
      BY <2>3, <2>6, <3>2, <3>6 DEF Inv, NoShutdown
  <2>11. CASE ~(i + 1 < Size)
    <3>1. i' = 0 /\ pc' = "invalidate" /\ i = Size - 1
      BY <1>0, <1>4, <2>11 DEF Move
    <3>2. TypeOK' /\ CoveringMatches' /\ MovedBelow'
      BY <1>0, <2>1, <2>4, <3>1 DEF TypeOK, CoveringMatches, MovedBelow
    <3>3. \A j \in Slots : \A p \in tlb'[j].span : p < Base
      <4> SUFFICES ASSUME NEW j \in Slots, NEW p \in tlb'[j].span
                   PROVE  p < Base
        OBVIOUS
      <4>1. p < safeaddr + 1
        BY <1>0, <2>9, <3>1
      <4>2. p \in Nat
        BY <2>4 DEF Entry
      <4> QED
        BY <1>0, <2>8, <4>1, <4>2
    <3>4. FinalLoop'
      <4>1. \A j, k \in Slots : ~Matches(tlb'[j], Base + k, InvalidASID)
        BY <3>3 DEF Matches
      <4> QED
        BY <3>1, <4>1 DEF FinalLoop
    <3> QED
      BY <2>3, <2>6, <3>2, <3>4 DEF Inv, NoShutdown
  <2> QED
    BY <2>10, <2>11
<1>5. CASE Invalidate
  <2>1. /\ tlb' = [tlb EXCEPT ![i] = InvalidEntry(Base + i)]
        /\ safeaddr' = safeaddr
        /\ skipped' = skipped /\ covering' = covering
    BY <1>5 DEF Invalidate
  <2>2. /\ \A j \in i .. Size - 1 : \A k \in Slots :
             j # k => ~Matches(tlb[j], Base + k, InvalidASID)
        /\ \A j \in 0 .. i - 1 : tlb[j] = InvalidEntry(Base + j)
    BY <1>5 DEF Invalidate, Inv, FinalLoop
  <2>3. \A j \in Slots : j # i => ~Matches(tlb[j], Base + i, InvalidASID)
    <3> SUFFICES ASSUME NEW j \in Slots, j # i
                 PROVE  ~Matches(tlb[j], Base + i, InvalidASID)
      OBVIOUS
    <3>1. CASE j \in i .. Size - 1
      BY <1>0, <2>2, <3>1
    <3>2. CASE j \in 0 .. i - 1
      <4>1. tlb[j].span = {Base + j}
        BY <1>0, <2>2, <3>2, InvalidEntryType
      <4> QED
        BY <1>0, <4>1 DEF Matches
    <3> QED
      BY <1>0, <3>1, <3>2
  <2>4. Base + i \in Nat
    BY <1>0
  <2>5. NoConflictIn(tlb')
    BY <1>0, <2>1, <2>3, <2>4, WriteInvalidSafe
  <2>6. tlb' \in [Slots -> Entry]
    BY <1>0, <2>1, <2>4, InvalidEntryType
  <2>7. /\ \A j \in Slots : j # i => tlb'[j] = tlb[j]
        /\ tlb'[i] = InvalidEntry(Base + i)
    BY <1>0, <2>1
  <2>8. \A j \in Slots : tlb'[j].vpn \in tlb'[j].span
    BY <1>0, <2>4, <2>7, InvalidEntryType
  <2>9. CASE i + 1 < Size
    <3>1. i' = i + 1 /\ pc' = "invalidate"
      BY <1>5, <2>9 DEF Invalidate
    <3>2. TypeOK' /\ CoveringMatches' /\ MovedBelow'
      BY <1>0, <2>1, <2>6, <2>9, <3>1
         DEF TypeOK, CoveringMatches, MovedBelow
    <3>3. FinalLoop'
      <4>1. ASSUME NEW j \in i' .. Size - 1, NEW m \in Slots, j # m
            PROVE  ~Matches(tlb'[j], Base + m, InvalidASID)
        <5>1. j \in Slots /\ j # i /\ j \in i .. Size - 1
          BY <1>0, <3>1, <4>1
        <5> QED
          BY <2>2, <2>7, <4>1, <5>1
      <4>2. ASSUME NEW j \in 0 .. i' - 1
            PROVE  tlb'[j] = InvalidEntry(Base + j)
        <5>1. j \in Slots /\ (j = i \/ j \in 0 .. i - 1)
          BY <1>0, <3>1, <4>2
        <5> QED
          BY <1>0, <2>2, <2>7, <5>1
      <4> QED
        BY <4>1, <4>2 DEF FinalLoop
    <3> QED
      BY <2>5, <2>8, <3>2, <3>3 DEF Inv, NoShutdown
  <2>10. CASE ~(i + 1 < Size)
    <3>1. i' = 0 /\ pc' = "idle"
      BY <1>5, <2>10 DEF Invalidate
    <3>2. TypeOK' /\ CoveringMatches' /\ MovedBelow' /\ FinalLoop'
      BY <1>0, <2>1, <2>6, <3>1
         DEF TypeOK, CoveringMatches, MovedBelow, FinalLoop
    <3> QED
      BY <2>5, <2>8, <3>2 DEF Inv, NoShutdown
  <2> QED
    BY <2>9, <2>10
<1>6. CASE UNCHANGED vars
  BY <1>6 DEF vars, Inv, TypeOK, NoShutdown, NoConflictIn, MovedBelow,
              CoveringMatches, FinalLoop, Hit
<1> QED
  BY <1>1, <1>2, <1>3, <1>4, <1>5, <1>6 DEF Next, Run

(* The inductive invariant holds in every reachable state.                 *)
THEOREM InvHolds == Spec => []Inv
BY InitInv, StepInv, PTL DEF Spec

(* init_tlb never makes two entries overlap, whatever the firmware left,   *)
(* whatever the size of the TLB, and after each single write.              *)
THEOREM InitTlbNoShutdown == Spec => []NoShutdown
<1>1. Inv => NoShutdown
  BY DEF Inv
<1> QED
  BY InvHolds, <1>1, PTL

(* The documented room of 2 * size units below the base always suffices.   *)
THEOREM InitTlbRangeSuffices == Spec => []SafeRangeSuffices
BY InvHolds, MoveBelowBase, PTL

(* Only the last write of the final loop ends a call, and by then each slot *)
(* has its own place above the base.                                       *)
LEMMA StepResets ==
  ASSUME Inv, [Next]_vars, pc = "invalidate", pc' = "idle"
  PROVE  Compatible(tlb') /\ \A j \in Slots : ~tlb'[j].valid
<1> USE TlbAssumption DEF Slots
<1>1. Invalidate /\ ~(i + 1 < Size)
  BY DEF Next, Run, Probe, Shrink, Move, Call, Invalidate, vars
<1>2. tlb \in [Slots -> Entry] /\ i \in Slots
  BY DEF Inv, TypeOK
<1>3. i + 1 = Size
  BY <1>1, <1>2
<1>4. \A j \in Slots : tlb'[j] = InvalidEntry(Base + j)
  <2>1. tlb' = [tlb EXCEPT ![i] = InvalidEntry(Base + i)]
    BY <1>1 DEF Invalidate
  <2>2. \A j \in 0 .. i - 1 : tlb[j] = InvalidEntry(Base + j)
    BY DEF Inv, FinalLoop
  <2> QED
    BY <2>1, <2>2, <1>2, <1>3
<1>5. \A j \in Slots : Base + j \in Nat
  OBVIOUS
<1>6. \A j \in Slots : tlb'[j].span = {Base + j} /\ ~tlb'[j].valid
  BY <1>4, <1>5, InvalidEntryType
<1>7. ASSUME NEW j \in Slots, NEW k \in Slots, j # k
      PROVE  Base + k \notin tlb'[j].span
  BY <1>6, <1>7
<1> QED
  BY <1>6, <1>7 DEF Compatible, Matches

(* Each call of init_tlb leaves every entry invalid, and in a place where  *)
(* init_tlb (0) may rewrite it, for any TLB it may start from              *)
(* (tlb_utils.c:155-158).                                                  *)
THEOREM InitTlbResetComplete == Spec => ResetComplete
<1>1. Inv /\ [Next]_vars =>
        [pc = "invalidate" /\ pc' = "idle" =>
           Compatible(tlb') /\ \A j \in Slots : ~tlb'[j].valid]_vars
  BY StepResets
<1> QED
  BY InvHolds, <1>1, PTL DEF Spec, ResetComplete

-----------------------------------------------------------------------------
(* How many steps init_tlb has left at most: three for each unit of the    *)
(* safe range that it has not used, and one for each slot of the last loop. *)
Left ==
  CASE pc = "probe" -> 3 * (Base - safeaddr) + 2 + Size + 1
    [] pc = "shrink" -> 3 * (Base - safeaddr) + 1 + Size + 1
    [] pc = "move" -> 3 * (Base - safeaddr) + Size + 1
    [] pc = "invalidate" -> Size - i
    [] pc = "idle" -> 0

LEMMA StepCountsDown ==
  ASSUME Inv, Inv', Run
  PROVE  Left \in Nat /\ Left' \in Nat /\ Left' < Left
<1>1. /\ Size \in Nat /\ Base \in Nat /\ Size > 0
      /\ safeaddr \in Nat /\ safeaddr' \in Nat
      /\ i \in 0 .. Size - 1 /\ i' \in 0 .. Size - 1
  BY TlbAssumption DEF Inv, TypeOK, Slots
<1>2. pc \in {"probe", "shrink", "move"} => safeaddr <= Base
  <2>1. Cardinality(skipped) \in Nat /\ Cardinality(skipped) <= Size
    BY SkipBound
  <2> QED
    BY <1>1, <2>1 DEF Inv, MovedBelow
<1>3. pc' \in {"probe", "shrink", "move"} => safeaddr' <= Base
  <2>1. skipped' \subseteq Slots
    BY DEF Inv, TypeOK
  <2>2. Cardinality(skipped') \in Nat /\ Cardinality(skipped') <= Size
    BY <2>1, SlotsFinite, FS_Subset, FS_CardinalityType
  <2>3. pc' \in {"probe", "shrink", "move"} =>
          safeaddr' = Base - 2 * Size + i' + Cardinality(skipped')
    BY DEF Inv, MovedBelow
  <2> QED
    BY <1>1, <2>2, <2>3
<1>4. CASE Probe
  <2>1. pc = "probe" /\ pc' \in {"shrink", "move"} /\ safeaddr' = safeaddr
    BY <1>4 DEF Probe
  <2> QED
    BY <2>1, <1>1, <1>2 DEF Left
<1>5. CASE Shrink
  <2>1. /\ pc = "shrink"
        /\ \/ pc' = "probe" /\ safeaddr' = safeaddr + 1
           \/ pc' = "move" /\ safeaddr' = safeaddr
    BY <1>5 DEF Shrink
  <2> QED
    BY <2>1, <1>1, <1>2, <1>3 DEF Left
<1>6. CASE Move
  <2>1. /\ pc = "move" /\ safeaddr' = safeaddr + 1
        /\ \/ pc' = "probe"
           \/ pc' = "invalidate" /\ i' = 0
    BY <1>6, <1>1 DEF Move
  <2> QED
    BY <2>1, <1>1, <1>2, <1>3 DEF Left
<1>7. CASE Invalidate
  <2>1. /\ pc = "invalidate"
        /\ \/ pc' = "invalidate" /\ i' = i + 1
           \/ pc' = "idle"
    BY <1>7 DEF Invalidate
  <2> QED
    BY <2>1, <1>1 DEF Left
<1> QED
  BY <1>4, <1>5, <1>6, <1>7 DEF Run

(* The loop that skips and retries ends: every step of init_tlb lowers a   *)
(* bound that is never below zero, so that a call that goes on is over     *)
(* after at most 7 * Size + 3 of them (tlb_utils.c:118-158).               *)
THEOREM InitTlbCountsDown ==
  Spec => [][Run => Left \in Nat /\ Left' \in Nat /\ Left' < Left]_vars
<1>1. Inv /\ Inv' /\ [Next]_vars =>
        [Run => Left \in Nat /\ Left' \in Nat /\ Left' < Left]_vars
  BY StepCountsDown
<1> QED
  BY InvHolds, <1>1, PTL DEF Spec
=============================================================================
