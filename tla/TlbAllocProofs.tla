-------------------------- MODULE TlbAllocProofs --------------------------
(* Proofs about TlbAlloc: for any memory map, program and build, no two     *)
(* entries match one address, no two of those at multiples of their page    *)
(* size map one page, and what sbrk gives is mapped.                        *)
EXTENDS TlbAlloc, SequenceTheorems, TLAPS

LEMMA Constants ==
  /\ VaLimit \in Nat /\ VaLimit > 1 /\ MaxPage \in Nat /\ MaxPage >= 2
  /\ \A s \in Starts : s \in Nat /\ 0 < s /\ s < VaLimit /\ s % 2 = 0
  /\ \A q \in Pairs : VaLimit % q = 0 /\ q \in Nat /\ 2 <= q /\ q % 2 = 0
  /\ 2 \in Pairs
  BY TlbAllocAssumption DEF Pairs

------------------------------------------------------------------------------
(* Arithmetic.                                                              *)

LEMMA DivMod ==
  ASSUME NEW k \in Nat, NEW m \in Nat, 0 < m
  PROVE  k = m * (k \div m) + (k % m) /\ k \div m \in Nat /\ k % m \in 0..m - 1
  OBVIOUS

\* The next multiple of a size that divides the limit is not beyond it.
LEMMA NextMultiple ==
  ASSUME NEW q \in Nat, NEW n \in Nat, NEW limit \in Nat, 0 < q,
         n % q = 0, limit % q = 0, n < limit
  PROVE  n + q <= limit
<1> DEFINE a == n \div q  b == limit \div q
<1>1. n = q * a /\ limit = q * b /\ a \in Nat /\ b \in Nat
  BY DivMod
<1> HIDE DEF a, b
<1>2. a < b
  <2> SUFFICES ASSUME a >= b PROVE FALSE
    BY <1>1
  <2>1. q * a >= q * b
    BY <1>1, SMT
  <2> QED
    BY <2>1, <1>1
<1>3. a + 1 <= b
  BY <1>1, <1>2
<1>4. q * (a + 1) <= q * b /\ q * (a + 1) = q * a + q
  BY <1>1, <1>3, SMT
<1> QED
  BY <1>1, <1>4

\* A number up to the limit is its own remainder, and the limit's is zero.
LEMMA Wrap ==
  ASSUME NEW n \in Nat, NEW limit \in Nat, 0 < limit, n <= limit
  PROVE  n % limit = IF n = limit THEN 0 ELSE n
  BY SMT

\* The size chosen for the next entry divides its address, and there is memory
\* for it.
LEMMA PairFits ==
  ASSUME va \in Nat, va % 2 = 0
  PROVE  Pair \in Pairs /\ va % Pair = 0 /\ (Pair <= mem_left \/ Pair = 2)
<1> DEFINE S == {q \in Pairs : va % q = 0 /\ (q <= mem_left \/ q = 2)}
<1>1. 2 \in S
  BY Constants
<1>2. S \subseteq {2, 8, 32, 128, 512, 2048, 8192}
  BY DEF Pairs
<1> HIDE DEF S
<1>3. \E x \in S : \A y \in S : x >= y
  <2>1. CASE 8192 \in S
    BY <2>1, <1>2
  <2>2. CASE 8192 \notin S /\ 2048 \in S
    BY <2>2, <1>2
  <2>3. CASE 8192 \notin S /\ 2048 \notin S /\ 512 \in S
    BY <2>3, <1>2
  <2>4. CASE 8192 \notin S /\ 2048 \notin S /\ 512 \notin S /\ 128 \in S
    BY <2>4, <1>2
  <2>5. CASE 8192 \notin S /\ 2048 \notin S /\ 512 \notin S /\ 128 \notin S
    BY <2>5, <1>1, <1>2
  <2> QED
    BY <2>1, <2>2, <2>3, <2>4, <2>5
<1>4. Max(S) \in S
  BY <1>3 DEF Max
<1>5. Pair = Max(S)
  BY DEF Pair, S
<1> QED
  BY <1>4, <1>5 DEF S

------------------------------------------------------------------------------
(* The inductive invariant: entries lie one behind the other, the last one  *)
(* ends where the next address is or at the limit.  What the physical       *)
(* addresses are does not matter.                                           *)

AnyEntry(P) == [va : Nat, pair : Pairs, pa : P, valid : BOOLEAN]

Typed ==
  /\ va \in Nat /\ va < VaLimit /\ va % 2 = 0 /\ prev_va \in Nat /\ 0 < prev_va
  /\ \E P : pa \in P /\ tlb \in Seq(AnyEntry(P))

EndOf(j) == tlb[j].va + tlb[j].pair

Ordered ==
  /\ \A j \in 1..Len(tlb) : tlb[j].va % tlb[j].pair = 0
  /\ \A j, k \in 1..Len(tlb) : j < k => EndOf(j) <= tlb[k].va
  /\ prev_va <= va => \A j \in 1..Len(tlb) : EndOf(j) <= va

IInv == Typed /\ Ordered

LEMMA EntriesTyped ==
  ASSUME NEW P, NEW s \in Seq(AnyEntry(P))
  PROVE  \A j \in 1..Len(s) : s[j].va \in Nat /\ s[j].pair \in Nat
<1> SUFFICES ASSUME NEW j \in 1..Len(s) PROVE s[j].va \in Nat /\ s[j].pair \in Nat
  OBVIOUS
<1>1. s[j] \in AnyEntry(P)
  OBVIOUS
<1>2. s[j].va \in Nat /\ s[j].pair \in Pairs
  BY <1>1 DEF AnyEntry
<1> QED
  BY <1>2, Constants

LEMMA InitIInv == Init => IInv
<1> SUFFICES ASSUME Init PROVE IInv
  OBVIOUS
<1>1. va \in Nat /\ va < VaLimit /\ va % 2 = 0 /\ prev_va \in Nat /\ 0 < prev_va
  BY Constants DEF Init
<1>2. pa \in {0} /\ tlb = <<>> /\ tlb \in Seq(AnyEntry({0}))
  BY DEF Init
<1> QED
  BY <1>1, <1>2 DEF IInv, Typed, Ordered

\* What a step that maps an entry does to the addresses and to the TLB.
LEMMA EntryMapped ==
  ASSUME IInv, MapEntry
  PROVE  LET e == [va |-> va, pair |-> Pair, pa |-> pa, valid |-> ~(mem_left = 1)]
             n == Len(tlb)
         IN  /\ Pair \in Pairs /\ va % Pair = 0 /\ Pair \in Nat /\ 2 <= Pair
             /\ Pair <= mem_left \/ Pair = 2
             /\ va + Pair <= VaLimit
             /\ va' = IF va + Pair = VaLimit THEN 0 ELSE va + Pair
             /\ prev_va' = va /\ prev_va <= va
             /\ Typed'
             /\ n \in Nat /\ Len(tlb') = n + 1 /\ tlb'[n + 1] = e
             /\ \A j \in 1..n : tlb'[j] = tlb[j]
<1> DEFINE e == [va |-> va, pair |-> Pair, pa |-> pa, valid |-> ~(mem_left = 1)]
           n == Len(tlb)
<1>1. PICK P : pa \in P /\ tlb \in Seq(AnyEntry(P))
  BY DEF IInv, Typed
<1>2. va \in Nat /\ va < VaLimit /\ va % 2 = 0 /\ prev_va \in Nat /\ 0 < prev_va
  BY DEF IInv, Typed
<1>3. Pair \in Pairs /\ va % Pair = 0 /\ Pair \in Nat /\ 2 <= Pair /\ VaLimit % Pair = 0
      /\ (Pair <= mem_left \/ Pair = 2)
  BY <1>2, PairFits, Constants
<1>4. va + Pair <= VaLimit
  <2> DEFINE q == Pair
  <2>1. q \in Nat /\ 0 < q /\ va % q = 0 /\ VaLimit % q = 0 /\ VaLimit \in Nat
    BY <1>3, Constants
  <2> HIDE DEF q
  <2>2. va + q <= VaLimit
    BY <1>2, <2>1, NextMultiple
  <2> QED
    BY <2>2 DEF q
<1>5. /\ tlb' = Append(tlb, e) /\ pa' = pa + Pair /\ prev_va' = va
      /\ va' = (va + Pair) % VaLimit /\ prev_va <= va
  BY DEF MapEntry, MoreToMap
<1>6. va' = IF va + Pair = VaLimit THEN 0 ELSE va + Pair
  <2> DEFINE s == va + Pair
  <2>1. s \in Nat /\ s <= VaLimit
    BY <1>2, <1>3, <1>4
  <2>2. va' = s % VaLimit
    BY <1>5
  <2> HIDE DEF s
  <2>3. va' = IF s = VaLimit THEN 0 ELSE s
    BY <2>1, <2>2, Wrap, Constants
  <2> QED
    BY <2>3 DEF s
<1>7. Typed'
  <2> DEFINE Q == P \cup {pa'}
  <2>1. e \in AnyEntry(Q)
    BY <1>1, <1>2, <1>3 DEF AnyEntry
  <2>2. tlb \in Seq(AnyEntry(Q))
    <3>1. AnyEntry(P) \subseteq AnyEntry(Q)
      BY DEF AnyEntry
    <3> HIDE DEF Q
    <3> QED
      BY <1>1, <3>1
  <2>3. tlb' \in Seq(AnyEntry(Q)) /\ pa' \in Q
    <3> HIDE DEF e, Q
    <3>1. Append(tlb, e) \in Seq(AnyEntry(Q))
      BY <2>1, <2>2, AppendProperties
    <3> QED
      BY <3>1, <1>5 DEF Q
  <2>4. va' \in Nat /\ va' < VaLimit /\ va' % 2 = 0
    BY <1>2, <1>3, <1>4, <1>6, Constants
  <2>5. prev_va' \in Nat /\ 0 < prev_va'
    BY <1>2, <1>5
  <2> QED
    BY <2>3, <2>4, <2>5 DEF Typed
<1>8. n \in Nat /\ Len(tlb') = n + 1 /\ tlb'[n + 1] = e
      /\ \A j \in 1..n : tlb'[j] = tlb[j]
  <2> DEFINE S == AnyEntry(P) \cup {e}
  <2>1. e \in S /\ tlb \in Seq(S)
    <3>1. AnyEntry(P) \subseteq S
      OBVIOUS
    <3> HIDE DEF S, e
    <3>2. tlb \in Seq(S)
      BY <1>1, <3>1
    <3> QED
      BY <3>2 DEF S
  <2> HIDE DEF S, e
  <2> QED
    BY <2>1, <1>5, AppendProperties
<1> QED
  BY <1>3, <1>4, <1>5, <1>6, <1>7, <1>8 DEF e, n

LEMMA NextIInv == IInv /\ [Next]_vars => IInv'
<1> SUFFICES ASSUME IInv, [Next]_vars PROVE IInv'
  OBVIOUS
<1>1. CASE MapEntry
  <2> DEFINE e == [va |-> va, pair |-> Pair, pa |-> pa, valid |-> ~(mem_left = 1)]
             n == Len(tlb)
  <2>1. PICK P : pa \in P /\ tlb \in Seq(AnyEntry(P))
    BY DEF IInv, Typed
  <2>2. va \in Nat /\ va < VaLimit /\ va % 2 = 0 /\ prev_va \in Nat /\ 0 < prev_va
    BY DEF IInv, Typed
  <2>3. Pair \in Pairs /\ va % Pair = 0 /\ Pair \in Nat /\ 2 <= Pair
    BY <1>1, EntryMapped
  <2>5. prev_va' = va /\ prev_va <= va
    BY <1>1, EntryMapped
  <2>6. va' = IF va + Pair = VaLimit THEN 0 ELSE va + Pair
    BY <1>1, EntryMapped
  <2>7. Typed'
    BY <1>1, EntryMapped
  <2>8. n \in Nat /\ Len(tlb') = n + 1 /\ tlb'[n + 1] = e
        /\ \A j \in 1..n : tlb'[j] = tlb[j]
    BY <1>1, EntryMapped
  <2>9. \A j \in 1..n : tlb[j].va \in Nat /\ tlb[j].pair \in Nat
    BY <2>1, EntriesTyped
  <2>10. \A j \in 1..n : EndOf(j) <= va
    BY <2>5 DEF IInv, Ordered
  <2>11. tlb'[n + 1].va = va /\ tlb'[n + 1].pair = Pair
    BY <2>8
  <2> HIDE DEF e, n
  <2>12. \A j \in 1..n + 1 : tlb'[j].va % tlb'[j].pair = 0
    BY <2>3, <2>8, <2>11 DEF IInv, Ordered, n
  <2>13. ASSUME NEW j \in 1..n + 1, NEW k \in 1..n + 1, j < k
         PROVE  tlb'[j].va + tlb'[j].pair <= tlb'[k].va
    <3>1. j \in 1..n
      BY <2>8, <2>13
    <3>2. CASE k = n + 1
      BY <3>1, <3>2, <2>8, <2>10, <2>11 DEF EndOf
    <3>3. CASE k # n + 1
      BY <3>1, <3>3, <2>8, <2>13 DEF EndOf, IInv, Ordered, n
    <3> QED
      BY <3>2, <3>3
  <2>14. prev_va' <= va' => \A j \in 1..n + 1 : tlb'[j].va + tlb'[j].pair <= va'
    <3> SUFFICES ASSUME prev_va' <= va', NEW j \in 1..n + 1
                 PROVE  tlb'[j].va + tlb'[j].pair <= va'
      OBVIOUS
    <3>1. va' = va + Pair
      BY <2>2, <2>5, <2>6
    <3>2. CASE j = n + 1
      BY <3>1, <3>2, <2>2, <2>3, <2>11
    <3>3. CASE j # n + 1
      <4>1. j \in 1..n
        BY <3>3, <2>8
      <4>2. tlb[j].va + tlb[j].pair <= va
        BY <4>1, <2>10 DEF EndOf
      <4>3. tlb'[j] = tlb[j] /\ tlb[j].va \in Nat /\ tlb[j].pair \in Nat
        BY <4>1, <2>8, <2>9
      <4> QED
        BY <3>1, <4>2, <4>3, <2>2, <2>3
    <3> QED
      BY <3>2, <3>3
  <2> QED
    BY <2>7, <2>8, <2>12, <2>13, <2>14 DEF IInv, Ordered, EndOf
<1>2. CASE Begin \/ NextRegion
  <2>1. va' = va /\ prev_va' = prev_va /\ tlb' = tlb
    BY <1>2 DEF Begin, NextRegion
  <2>2. PICK P : pa \in P /\ tlb \in Seq(AnyEntry(P))
    BY DEF IInv, Typed
  <2>3. tlb \in Seq(AnyEntry(P \cup {pa'}))
    <3> DEFINE Q == P \cup {pa'}
    <3>1. AnyEntry(P) \subseteq AnyEntry(Q)
      BY DEF AnyEntry
    <3> HIDE DEF Q
    <3>2. tlb \in Seq(AnyEntry(Q))
      BY <2>2, <3>1
    <3> QED
      BY <3>2 DEF Q
  <2> QED
    BY <2>1, <2>3 DEF IInv, Typed, Ordered, EndOf
<1>3. CASE UNCHANGED mapping
  BY <1>3 DEF IInv, Typed, Ordered, EndOf, mapping
<1>4. CASE Enumerate \/ Overrun \/ Finish \/ UNCHANGED vars \/ \E n \in Increments : sbrk(n)
  BY <1>3, <1>4 DEF Enumerate, Overrun, Finish, sbrk, vars
<1> QED
  BY <1>1, <1>2, <1>4 DEF Next

\* No two entries ever match one address, and each is aligned to its size, for
\* any memory map, page size and start, up to the wrap at the segment's end.
THEOREM TlbAllocEntriesApart == Spec => []EntriesApart
<1>1. IInv => EntriesApart
  <2> SUFFICES ASSUME IInv PROVE EntriesApart
    OBVIOUS
  <2>1. PICK P : tlb \in Seq(AnyEntry(P))
    BY DEF IInv, Typed
  <2>2. /\ DOMAIN tlb = 1..Len(tlb) /\ Len(tlb) \in Nat
        /\ \A j \in 1..Len(tlb) : tlb[j].va \in Nat /\ tlb[j].pair \in Nat
    BY <2>1, EntriesTyped
  <2>3. ASSUME NEW j \in 1..Len(tlb), NEW k \in 1..Len(tlb), j < k
        PROVE  Covered(tlb[j]) \cap Covered(tlb[k]) = {}
    BY <2>2, <2>3 DEF IInv, Ordered, EndOf, Covered
  <2> QED
    BY <2>2, <2>3 DEF EntriesApart, IInv, Ordered
<1> QED
  BY <1>1, InitIInv, NextIInv, PTL DEF Spec

------------------------------------------------------------------------------
(* sbrk: nothing is handed out before the heap's end is known, and whatever *)
(* is refused changes nothing.                                              *)

HInv ==
  /\ start \in Starts /\ heap_start \in Int /\ heap_limit \in Int /\ heap_end \in Int
  /\ pc # "run" => heap_limit = heap_start
  /\ half_entry => Len(tlb) > 0
  /\ SbrkInHeap

LEMMA InitHInv == Init => HInv
  BY Constants DEF Init, HInv, SbrkInHeap

\* The heap's end is a number.
LEMMA EndOfHeapTyped == IInv /\ HInv => EndOfHeap \in Int
<1> SUFFICES ASSUME IInv, HInv PROVE EndOfHeap \in Int
  OBVIOUS
<1>1. PICK P : tlb \in Seq(AnyEntry(P))
  BY DEF IInv, Typed
<1>2. va \in Nat
  BY DEF IInv, Typed
<1>3. CASE half_entry
  <2>1. tlb[Len(tlb)].pair \in Nat
    BY <1>1, <1>3, EntriesTyped DEF HInv
  <2> QED
    BY <1>2, <1>3, <2>1 DEF EndOfHeap
<1>4. CASE ~half_entry
  BY <1>2, <1>4 DEF EndOfHeap
<1> QED
  BY <1>3, <1>4

LEMMA NextHInv == IInv /\ HInv /\ [Next]_vars => HInv'
<1> SUFFICES ASSUME IInv, HInv, [Next]_vars PROVE HInv'
  OBVIOUS
<1> USE DEF HInv, SbrkInHeap
<1>1. CASE Enumerate \/ Overrun \/ NextRegion
  BY <1>1 DEF Enumerate, Overrun, NextRegion, given, mapping, heap
<1>2. CASE Begin
  <2>1. /\ heap_start' = start /\ heap_limit' = start /\ start \in Int
        /\ pc' = "map" /\ heap_end' = heap_end
    BY <1>2, Constants DEF Begin
  <2>2. start' = start /\ half_entry' = half_entry /\ tlb' = tlb
    BY <1>2 DEF Begin, given
  <2> QED
    BY <2>1, <2>2
<1>3. CASE MapEntry
  <2> DEFINE e == [va |-> va, pair |-> Pair, pa |-> pa, valid |-> ~(mem_left = 1)]
  <2>1. PICK P : tlb \in Seq(AnyEntry(P))
    BY DEF IInv, Typed
  <2>2. tlb' = Append(tlb, e)
    BY <1>3 DEF MapEntry
  <2> HIDE DEF e
  <2>3. Len(tlb') = Len(tlb) + 1 /\ Len(tlb) \in Nat
    BY <2>1, <2>2
  <2>4. pc # "run" /\ pc' = pc /\ UNCHANGED <<start, heap>>
    BY <1>3 DEF MapEntry, given
  <2> QED
    BY <2>3, <2>4 DEF heap
<1>4. CASE Finish
  BY <1>4, EndOfHeapTyped DEF Finish, given, mapping
<1>5. CASE \E n \in Increments : sbrk(n)
  <2>1. PICK n \in Increments : sbrk(n)
    BY <1>5
  <2>2. n \in Int
    BY <2>1, TlbAllocAssumption
  <2> QED
    BY <2>1, <2>2 DEF sbrk, Refused, given, mapping
<1>6. CASE UNCHANGED vars
  BY <1>6 DEF vars, given, mapping, heap
<1> QED
  BY <1>1, <1>2, <1>3, <1>4, <1>5, <1>6 DEF Next

\* Whatever the memory map, and whatever calls of sbrk succeed, the blocks that it
\* returned lie between heap_start and heap_end.
THEOREM TlbAllocSbrkInHeap == Spec => []SbrkInHeap
<1>1. HInv => SbrkInHeap
  BY DEF HInv
<1> QED
  BY <1>1, InitIInv, NextIInv, InitHInv, NextHInv, PTL DEF Spec

------------------------------------------------------------------------------
(* What is mapped: as long as addresses have not wrapped, the entries cover *)
(* what lies between the start and the next address, and nothing else.      *)

Covers(x) == \E j \in 1..Len(tlb) : tlb[j].va <= x /\ x < EndOf(j)

AllMapped ==
  /\ ~half_entry
  /\ \A j \in 1..Len(tlb) : tlb[j].valid
  /\ prev_va <= va => start <= va /\ \A x \in Int : (start <= x /\ x < va) <=> Covers(x)
  /\ pc \in {"map", "run"} => heap_start = start
  /\ pc = "run" => heap_end = va

CInv == start \in Starts /\ wasted \in WastedSizes /\ (wasted > 1 => AllMapped)

LEMMA InitCInv == Init => CInv
<1> SUFFICES ASSUME Init PROVE CInv
  OBVIOUS
<1>1. start \in Starts /\ wasted \in WastedSizes /\ tlb = <<>> /\ va = start /\ start \in Int
  BY Constants DEF Init
<1>2. \A x \in Int : (start <= x /\ x < va) <=> Covers(x)
  BY <1>1 DEF Covers
<1> QED
  BY <1>1, <1>2 DEF Init, CInv, AllMapped

LEMMA NextCInv == IInv /\ CInv /\ [Next]_vars => CInv'
<1> SUFFICES ASSUME IInv, CInv, [Next]_vars PROVE CInv'
  OBVIOUS
<1>0. start \in Nat /\ wasted \in Nat /\ va \in Nat /\ start' = start /\ wasted' = wasted
  <2>1. UNCHANGED given
    BY DEF Next, Enumerate, Overrun, Begin, MapEntry, NextRegion, Finish, sbrk, vars
  <2> QED
    BY <2>1, Constants, TlbAllocAssumption DEF given, CInv, IInv, Typed
<1> SUFFICES ASSUME wasted > 1 PROVE AllMapped'
  BY <1>0 DEF CInv
<1>a. AllMapped
  BY DEF CInv
<1>1. CASE MapEntry
  <2> DEFINE n == Len(tlb)
  <2>1. /\ Pair \in Nat /\ 2 <= Pair /\ prev_va' = va /\ prev_va <= va
        /\ va' = IF va + Pair = VaLimit THEN 0 ELSE va + Pair
        /\ n \in Nat /\ Len(tlb') = n + 1 /\ \A j \in 1..n : tlb'[j] = tlb[j]
    BY <1>1, EntryMapped
  <2>2. tlb'[n + 1] = [va |-> va, pair |-> Pair, pa |-> pa, valid |-> ~(mem_left = 1)]
    BY <1>1, EntryMapped
  <2>3. mem_left # 1 /\ half_entry' = (half_entry \/ mem_left = 1)
    BY <1>0, <1>1 DEF MapEntry, MoreToMap
  <2>4. tlb'[n + 1].valid /\ tlb'[n + 1].va = va /\ tlb'[n + 1].pair = Pair
    <3> DEFINE e == [va |-> va, pair |-> Pair, pa |-> pa, valid |-> ~(mem_left = 1)]
    <3>1. e.valid = ~(mem_left = 1) /\ e.va = va /\ e.pair = Pair
      OBVIOUS
    <3>2. e.valid
      BY <2>3, <3>1, Zenon
    <3>3. tlb'[n + 1] = e
      BY <2>2
    <3> HIDE DEF e
    <3> QED
      BY <3>1, <3>2, <3>3
  <2>5. pc = "map" /\ pc' = pc /\ heap_start' = heap_start
    BY <1>1 DEF MapEntry, heap
  <2>6. \A j \in 1..n + 1 : tlb'[j].valid
    BY <1>a, <2>1, <2>4 DEF AllMapped
  <2>7. ASSUME prev_va' <= va'
        PROVE  start <= va' /\ \A x \in Int : (start <= x /\ x < va') <=> Covers(x)'
    <3>1. va' = va + Pair /\ start <= va
      BY <1>0, <1>a, <2>1, <2>7 DEF AllMapped, IInv, Typed
    <3>2. ASSUME NEW x \in Int
          PROVE  Covers(x)' <=> Covers(x) \/ (va <= x /\ x < va + Pair)
      <4>1. \A j \in 1..n : tlb'[j].va = tlb[j].va /\ tlb'[j].pair = tlb[j].pair
        BY <2>1
      <4>2. ASSUME NEW j \in 1..n, tlb[j].va <= x, x < EndOf(j) PROVE Covers(x)'
        <5>1. j \in 1..Len(tlb') /\ tlb'[j].va <= x /\ x < tlb'[j].va + tlb'[j].pair
          BY <2>1, <4>1, <4>2 DEF EndOf
        <5> QED
          BY <5>1 DEF Covers, EndOf
      <4>3. ASSUME va <= x, x < va + Pair PROVE Covers(x)'
        <5>1. n + 1 \in 1..Len(tlb') /\ tlb'[n + 1].va <= x /\ x < tlb'[n + 1].va + tlb'[n + 1].pair
          BY <2>1, <2>4, <4>3
        <5> QED
          BY <5>1 DEF Covers, EndOf
      <4>4. ASSUME NEW j \in 1..n + 1, tlb'[j].va <= x, x < tlb'[j].va + tlb'[j].pair
            PROVE  Covers(x) \/ (va <= x /\ x < va + Pair)
        <5>1. CASE j = n + 1
          BY <2>4, <4>4, <5>1
        <5>2. CASE j \in 1..n
          BY <4>1, <4>4, <5>2 DEF Covers, EndOf
        <5> QED
          BY <2>1, <5>1, <5>2
      <4>5. Covers(x) => Covers(x)'
        <5>1. Len(tlb) = n
          BY <2>1
        <5> QED
          BY ONLY <4>2, <5>1 DEF Covers
      <4>6. Covers(x)' => \E j \in 1..n + 1 : tlb'[j].va <= x /\ x < tlb'[j].va + tlb'[j].pair
        <5>1. Len(tlb') = n + 1
          BY <2>1
        <5> QED
          BY ONLY <5>1 DEF Covers, EndOf
      <4> QED
        BY <4>3, <4>4, <4>5, <4>6, Zenon
    <3>3. \A x \in Int : (start <= x /\ x < va) <=> Covers(x)
      BY <1>a, <2>1 DEF AllMapped
    <3>4. va \in Int /\ start \in Int /\ Pair \in Nat
      BY <1>0, <2>1
    <3>5. ASSUME NEW x \in Int
          PROVE  (start <= x /\ x < va + Pair) <=> (start <= x /\ x < va) \/ (va <= x /\ x < va + Pair)
      BY ONLY <3>1, <3>4, x \in Int
    <3>6. ASSUME NEW x \in Int
          PROVE  (start <= x /\ x < va') <=> Covers(x)'
      <4>1. va' = va + Pair
        BY <3>1
      <4> QED
        BY ONLY <3>2, <3>3, <3>5, <4>1, x \in Int, Zenon
    <3>7. start <= va'
      BY ONLY <3>1, <3>4
    <3> QED
      BY <3>6, <3>7, Zenon
  <2> QED
    BY <1>0, <1>a, <2>1, <2>3, <2>5, <2>6, <2>7 DEF AllMapped
<1>2. CASE Enumerate \/ NextRegion \/ Begin
  <2>1. UNCHANGED <<va, prev_va, tlb, half_entry>> /\ (pc' = pc \/ Begin) /\ pc' # "run"
    BY <1>2 DEF Enumerate, NextRegion, Begin, mapping
  <2>2. heap_start' = heap_start \/ heap_start' = start
    BY <1>2 DEF Enumerate, NextRegion, Begin, heap
  <2>3. pc' # "enumerate" => heap_start' = start
    BY <1>2, <1>a, <1>0, <2>1, <2>2 DEF Enumerate, NextRegion, Begin, heap, AllMapped
  <2> QED
    BY <1>0, <1>a, <2>1, <2>3 DEF AllMapped, Covers, EndOf
<1>3. CASE Finish
  <2>1. UNCHANGED <<va, prev_va, tlb, half_entry, heap_start>> /\ pc = "map" /\ pc' = "run"
    BY <1>3 DEF Finish, mapping
  <2>2. heap_end' = va
    BY <1>3, <1>a DEF Finish, EndOfHeap, AllMapped
  <2> QED
    BY <1>0, <1>a, <2>1, <2>2 DEF AllMapped, Covers, EndOf
<1>5. CASE Overrun
  <2>1. UNCHANGED <<va, prev_va, tlb, half_entry, heap_start>> /\ pc' = "overrun"
    BY <1>5 DEF Overrun, mapping, heap
  <2> QED
    BY <1>0, <1>a, <2>1 DEF AllMapped, Covers, EndOf
<1>4. CASE UNCHANGED vars \/ \E k \in Increments : sbrk(k)
  <2>1. UNCHANGED <<va, prev_va, tlb, half_entry, heap_start, heap_end, pc>>
    BY <1>4 DEF sbrk, vars, mapping, heap
  <2> QED
    BY <1>0, <1>a, <2>1 DEF AllMapped, Covers, EndOf
<1> QED
  BY <1>1, <1>2, <1>3, <1>4, <1>5 DEF Next

\* Whatever the memory map and whatever calls of sbrk succeed: what lies between
\* the heap's start and its end is what valid entries map, if addresses do not
\* wrap and no single pages are used, and the blocks of sbrk are in there.
THEOREM TlbAllocHeapGivesMapped == Spec => []HeapGivesMapped
<1>1. IInv /\ CInv => HeapIsMapped
  <2> SUFFICES ASSUME IInv, CInv, pc = "run", prev_va <= va, wasted > 1
               PROVE  heap_start..heap_end - 1
                        = UNION {Covered(tlb[j]) : j \in {k \in DOMAIN tlb : tlb[k].valid}}
    BY DEF HeapIsMapped
  <2>1. heap_start = start /\ heap_end = va /\ start \in Int /\ va \in Int
    BY Constants DEF CInv, AllMapped, IInv, Typed
  <2>2. \A x \in Int : (start <= x /\ x < va) <=> Covers(x)
    BY DEF CInv, AllMapped
  <2>3. DOMAIN tlb = 1..Len(tlb) /\ \A j \in 1..Len(tlb) : tlb[j].va \in Nat /\ tlb[j].pair \in Nat
    BY EntriesTyped DEF IInv, Typed
  <2>4. {k \in DOMAIN tlb : tlb[k].valid} = 1..Len(tlb)
    BY <2>3 DEF CInv, AllMapped
  <2>5. ASSUME NEW x, NEW j \in 1..Len(tlb)
        PROVE  x \in Covered(tlb[j]) <=> x \in Int /\ tlb[j].va <= x /\ x < EndOf(j)
    BY <2>3 DEF Covered, EndOf
  <2>6. \A x : x \in heap_start..heap_end - 1 <=> x \in Int /\ Covers(x)
    BY <2>1, <2>2
  <2> QED
    BY <2>4, <2>5, <2>6 DEF Covers
<1>2. HInv => SbrkInHeap
  BY DEF HInv
<1> QED
  BY <1>1, <1>2, InitIInv, NextIInv, InitHInv, NextHInv, InitCInv, NextCInv, PTL
  DEF Spec, HeapGivesMapped

------------------------------------------------------------------------------
(* The physical memory.  First, what the program keeps of its bank.         *)

LEMMA KeptHolds ==
  ASSUME NEW p \in Programs, wasted \in WastedSizes
  PROVE  Kept(p) \in Nat /\ p <= Kept(p)
<1> DEFINE S == {s \in Sizes : p <= s}
<1>1. p \in Nat /\ p <= 131072 /\ wasted \in Nat /\ wasted >= 1
  BY TlbAllocAssumption, MachineAssumption
<1>2. \A s \in S : s \in Nat /\ p <= s
  BY <1>1 DEF Sizes
<1>3. \E x \in S : \A y \in S : x <= y
  <2> DEFINE s(f) == wasted * f
             Least(f) == p <= s(f) /\ \A y \in S : s(f) <= y
  <2>1. /\ Sizes = {s(1), s(4), s(16), s(64), s(256), s(1024), s(4096), s(16384),
                    s(65536), s(262144)}
        /\ s(1) <= s(4) /\ s(4) <= s(16) /\ s(16) <= s(64) /\ s(64) <= s(256)
        /\ s(256) <= s(1024) /\ s(1024) <= s(4096) /\ s(4096) <= s(16384)
        /\ s(16384) <= s(65536) /\ s(65536) <= s(262144) /\ p <= s(262144)
    BY <1>1 DEF Sizes
  <2>2. \A f \in Nat : s(f) \in Nat
    BY <1>1
  <2> HIDE DEF s
  <2>3. Least(1) \/ Least(4) \/ Least(16) \/ Least(64) \/ Least(256) \/ Least(1024)
        \/ Least(4096) \/ Least(16384) \/ Least(65536) \/ Least(262144)
    BY <1>1, <2>1, <2>2
  <2> QED
    BY <2>1, <2>3
<1> HIDE DEF S
<1>4. Min(S) \in S
  BY <1>3 DEF Min
<1>5. Kept(p) = Min(S)
  BY DEF Kept, S
<1> QED
  BY <1>2, <1>4, <1>5

\* The start of the bank of a place behind a bank's start is not before it.
LEMMA BankStart ==
  ASSUME NEW p \in Nat, NEW top \in Nat, (p \div Bank) * Bank <= top
  PROVE  (p \div Bank) * Bank <= (top \div Bank) * Bank /\ (top \div Bank) * Bank <= top
<1> DEFINE b == p \div Bank  c == top \div Bank
<1>1. /\ Bank \in Nat /\ 0 < Bank /\ b \in Nat /\ c \in Nat
      /\ top = Bank * c + (top % Bank) /\ top % Bank \in 0..Bank - 1
  <2>1. Bank \in Nat /\ 0 < Bank
    BY TlbAllocAssumption
  <2> QED
    BY <2>1, DivMod
<1> HIDE DEF b, c
<1>2. b * Bank <= top
  BY DEF b
<1>3. b <= c
  <2> SUFFICES ASSUME b >= c + 1 PROVE FALSE
    BY <1>1
  <2>1. b * Bank >= (c + 1) * Bank /\ (c + 1) * Bank = Bank * c + Bank
    BY <1>1, SMT
  <2> QED
    BY <1>1, <1>2, <2>1
<1>4. b * Bank <= c * Bank /\ c * Bank <= top
  BY <1>1, <1>3, SMT
<1> QED
  BY <1>4 DEF b, c

------------------------------------------------------------------------------
(* Regions are parts of available regions of the map, apart from each other *)
(* and from the program; and entries take their memory from them, each      *)
(* behind the one before.                                                   *)

Known == [pa : Nat, size : Nat]
Seen(a) == a \in DOMAIN map /\ (pc = "enumerate" => a < i)
Holder(a) == HoldsProgram(map[a], program)

RegionsApart ==
  /\ regions \in Seq(Known)
  /\ \A k \in 1..Len(regions) : \E a \in DOMAIN map :
       Seen(a) /\ map[a].available /\ Pages(regions[k]) \subseteq Pages(map[a])
  /\ \A j, k \in 1..Len(regions) : j # k => Pages(regions[j]) \cap Pages(regions[k]) = {}

ProgramApart ==
  /\ stack_top \in Nat
  /\ \/ stack_top = program
     \/ \E a \in DOMAIN map : Seen(a) /\ Holder(a) /\ stack_top = map[a].pa + Kept(program)
  /\ \A a \in DOMAIN map : Holder(a) =>
       /\ stack_top <= map[a].pa + Kept(program)
       /\ \A k \in 1..Len(regions) : Pages(regions[k]) \cap (map[a].pa..stack_top) = {}

Progress ==
  /\ i \in Nat /\ pa \in Nat /\ mem_left \in Nat
  /\ pc = "enumerate" => i >= 1 /\ tlb = <<>> /\ mem_left = 0
  /\ pc \in {"map", "run"} => i <= Len(regions)
  /\ pc \in {"map", "run"} /\ mem_left > 0 =>
       i >= 1 /\ regions[i].pa <= pa /\ pa + mem_left <= regions[i].pa + regions[i].size

\* The physical pages that an entry names: those it maps, if straight.
Meant(e) == e.pa..e.pa + e.pair - 1

TakenFrom(j, k) ==
  Meant(tlb[j]) \subseteq Pages(regions[k]) /\ (k = i => tlb[j].pa + tlb[j].pair <= pa)

EntriesInRegions ==
  /\ \A j \in 1..Len(tlb) : tlb[j].pa \in Nat
  /\ \A j \in 1..Len(tlb) : tlb[j].valid =>
       \E k \in 1..Len(regions) : i <= k /\ TakenFrom(j, k)
  /\ \A j, k \in 1..Len(tlb) : j < k /\ tlb[j].valid /\ tlb[k].valid =>
       Meant(tlb[j]) \cap Meant(tlb[k]) = {}

Given == map \in Maps /\ program \in Programs /\ wasted \in WastedSizes
MInv == Given /\ (ProgramFits => RegionsApart /\ ProgramApart /\ Progress /\ EntriesInRegions)

\* The regions of the map are typed and do not meet; the program's has room.
LEMMA MapTyped ==
  ASSUME Given
  PROVE  /\ DOMAIN map = 1..Len(map) /\ Len(map) \in Nat
         /\ \A a \in DOMAIN map : map[a].pa \in Nat /\ map[a].size \in Nat
         /\ \A a, b \in DOMAIN map : a # b =>
              map[a].pa \notin Pages(map[b]) /\ Pages(map[a]) \cap Pages(map[b]) = {}
         /\ program \in Nat /\ Kept(program) \in Nat /\ program <= Kept(program)
<1>1. map \in Seq([pa : Nat, size : Nat, available : BOOLEAN])
  BY TlbAllocAssumption DEF Given
<1>2. \A a \in DOMAIN map : map[a].pa \in Nat /\ map[a].size \in Nat
  <2> SUFFICES ASSUME NEW a \in DOMAIN map PROVE map[a].pa \in Nat /\ map[a].size \in Nat
    OBVIOUS
  <2> DEFINE R == [pa : Nat, size : Nat, available : BOOLEAN]
  <2>1. map \in Seq(R)
    BY <1>1
  <2> HIDE DEF R
  <2>2. map[a] \in R
    BY <2>1
  <2> QED
    BY <2>2 DEF R
<1>3. \A a, b \in DOMAIN map : a # b => map[a].pa \notin Pages(map[b])
  BY MachineAssumption DEF Given, Pages
<1>4. \A a, b \in DOMAIN map : a # b => Pages(map[a]) \cap Pages(map[b]) = {}
  BY <1>2, <1>3 DEF Pages
<1> QED
  BY <1>1, <1>2, <1>3, <1>4, KeptHolds, TlbAllocAssumption DEF Given

LEMMA HolderFits ==
  ASSUME Given, ProgramFits, NEW a \in DOMAIN map, Holder(a)
  PROVE  /\ map[a].size > Kept(program) /\ map[a].pa = (program \div Bank) * Bank
         /\ \A b \in DOMAIN map : Holder(b) => b = a
<1>1. \A b \in DOMAIN map : Holder(b) =>
        map[b].size > Kept(program) /\ map[b].pa = (program \div Bank) * Bank
  BY DEF ProgramFits, Holder, HoldsProgram, Range
<1>2. ASSUME NEW b \in DOMAIN map, Holder(b), b # a PROVE FALSE
  <2>1. map[a].pa \in Pages(map[b])
    BY <1>1, <1>2, MapTyped DEF Pages
  <2> QED
    BY <1>2, <2>1, MapTyped
<1> QED
  BY <1>1, <1>2

LEMMA InitMInv == Init => MInv
<1> SUFFICES ASSUME Init PROVE MInv
  OBVIOUS
<1>1. Given
  BY DEF Init, Given
<1>2. regions = <<>> /\ regions \in Seq(Known) /\ stack_top = program /\ tlb = <<>>
      /\ pc = "enumerate" /\ i = 1 /\ pa = 0 /\ mem_left = 0
  BY DEF Init
<1>3. RegionsApart /\ Progress /\ EntriesInRegions
  BY <1>2 DEF RegionsApart, Progress, EntriesInRegions
<1>4. ProgramApart
  BY <1>1, <1>2, MapTyped DEF ProgramApart
<1> QED
  BY <1>1, <1>3, <1>4 DEF MInv

\* A region that is noted is a part of the one of the map at hand.
LEMMA RegionNoted ==
  ASSUME Given, RegionsApart, pc = "enumerate", pc' = pc, i \in Nat, i' = i + 1, map' = map,
         i \in DOMAIN map, map[i].available,
         NEW r \in Known, Pages(r) \subseteq Pages(map[i]), regions' = Append(regions, r)
  PROVE  /\ RegionsApart' /\ Len(regions') = Len(regions) + 1 /\ Len(regions) \in Nat
         /\ regions'[Len(regions) + 1] = r
         /\ \A k \in 1..Len(regions) :
              /\ regions'[k] = regions[k]
              /\ Pages(regions[k]) \cap Pages(map[i]) = {}
<1> DEFINE n == Len(regions)
<1>1. /\ regions' \in Seq(Known) /\ n \in Nat /\ Len(regions') = n + 1 /\ regions'[n + 1] = r
      /\ \A k \in 1..n : regions'[k] = regions[k]
  BY AppendProperties DEF RegionsApart
<1>2. \A k \in 1..n : \E a \in DOMAIN map :
        a < i /\ map[a].available /\ Pages(regions[k]) \subseteq Pages(map[a])
  BY DEF RegionsApart, Seen
<1>3. \A k \in 1..n : Pages(regions[k]) \cap Pages(map[i]) = {}
  <2> SUFFICES ASSUME NEW k \in 1..n PROVE Pages(regions[k]) \cap Pages(map[i]) = {}
    OBVIOUS
  <2>1. PICK a \in DOMAIN map : a < i /\ Pages(regions[k]) \subseteq Pages(map[a])
    BY <1>2
  <2>2. Pages(map[a]) \cap Pages(map[i]) = {}
    BY <2>1, MapTyped
  <2> QED
    BY <2>1, <2>2
<1>0. n \in Nat
  BY <1>1
<1> HIDE DEF n
<1>4. ASSUME NEW k \in 1..n + 1
      PROVE  \E a \in DOMAIN map : Seen(a)' /\ map[a].available /\ Pages(regions'[k]) \subseteq Pages(map[a])
  <2>1. CASE k = n + 1
    <3>1. PICK a \in DOMAIN map : a = i
      OBVIOUS
    <3>2. Seen(a)' /\ Pages(regions'[k]) \subseteq Pages(map[a])
      BY <1>1, <2>1, <3>1 DEF Seen
    <3> QED
      BY <3>1, <3>2
  <2>2. CASE k \in 1..n
    <3>1. PICK a \in DOMAIN map : a < i /\ map[a].available /\ Pages(regions[k]) \subseteq Pages(map[a])
      BY <1>2, <2>2
    <3>2. Seen(a)'
      BY <3>1, MapTyped DEF Seen
    <3> QED
      BY <1>1, <2>2, <3>1, <3>2
  <2> QED
    BY <1>1, <2>1, <2>2
<1>5. ASSUME NEW j \in 1..n + 1, NEW k \in 1..n + 1, j # k
      PROVE  Pages(regions'[j]) \cap Pages(regions'[k]) = {}
  <2>1. CASE j \in 1..n /\ k \in 1..n
    BY <1>1, <1>5, <2>1 DEF RegionsApart, n
  <2>2. CASE j \in 1..n /\ k = n + 1
    BY <1>1, <1>3, <2>2
  <2>3. CASE j = n + 1 /\ k \in 1..n
    BY <1>1, <1>3, <2>3
  <2>4. (j \in 1..n \/ j = n + 1) /\ (k \in 1..n \/ k = n + 1)
    BY <1>0
  <2> QED
    BY <1>0, <1>5, <2>1, <2>2, <2>3, <2>4, Zenon
<1>6. RegionsApart'
  <2>1. \A k \in 1..Len(regions') : \E a \in DOMAIN map' :
          Seen(a)' /\ map'[a].available /\ Pages(regions'[k]) \subseteq Pages(map'[a])
    BY <1>1, <1>4
  <2>2. \A j, k \in 1..Len(regions') : j # k => Pages(regions'[j]) \cap Pages(regions'[k]) = {}
    BY <1>1, <1>5
  <2> QED
    BY <1>1, <2>1, <2>2 DEF RegionsApart, Pages
<1> QED
  BY <1>1, <1>3, <1>6 DEF n

\* The program is found in its bank's region alone.
LEMMA ProgramFound ==
  ASSUME Given, ProgramFits, ProgramApart, pc = "enumerate", i \in Nat, i \in DOMAIN map
  PROVE  /\ HoldsProgram(map[i], stack_top) => stack_top = program
         /\ Holder(i) => HoldsProgram(map[i], stack_top)
<1>1. ASSUME stack_top # program
      PROVE  ~HoldsProgram(map[i], stack_top) /\ ~Holder(i)
  <2>1. PICK a \in DOMAIN map : a < i /\ Holder(a) /\ stack_top = map[a].pa + Kept(program)
    BY <1>1 DEF ProgramApart, Seen
  <2>2. map[a].size > Kept(program) /\ map[a].pa = (program \div Bank) * Bank /\ ~Holder(i)
    BY <2>1, HolderFits, MapTyped
  <2>3. map[a].pa <= (stack_top \div Bank) * Bank /\ (stack_top \div Bank) * Bank <= stack_top
    BY <2>1, <2>2, BankStart, MapTyped DEF ProgramApart
  <2>4. ASSUME HoldsProgram(map[i], stack_top) PROVE FALSE
    <3>1. map[i].pa \in Nat /\ map[a].pa <= map[i].pa /\ map[i].pa <= stack_top
      BY <2>3, <2>4, MapTyped DEF HoldsProgram
    <3>2. map[i].pa \in Pages(map[a])
      BY <2>1, <2>2, <3>1, MapTyped DEF Pages
    <3> QED
      BY <2>1, <3>2, MapTyped
  <2> QED
    BY <2>2, <2>4
<1> QED
  BY <1>1 DEF Holder

LEMMA EnumerateMInv ==
  ASSUME MInv, ProgramFits, Enumerate
  PROVE  RegionsApart' /\ ProgramApart' /\ Progress' /\ EntriesInRegions'
<1>1. Given /\ RegionsApart /\ ProgramApart /\ Progress /\ EntriesInRegions
  BY DEF MInv
<1>2. /\ pc = "enumerate" /\ pc' = pc /\ i \in Nat /\ i >= 1 /\ i' = i + 1 /\ i <= Len(map)
      /\ UNCHANGED <<map, program, wasted, pa, mem_left, tlb>> /\ tlb = <<>>
  BY <1>1 DEF Enumerate, given, mapping, Progress
<1>3. i \in DOMAIN map /\ DOMAIN map = 1..Len(map)
  BY <1>1, <1>2, MapTyped
<1>4. Progress' /\ EntriesInRegions'
  BY <1>1, <1>2 DEF Progress, EntriesInRegions
<1>5. \A a \in DOMAIN map : Holder(a)' = Holder(a) /\ (Seen(a) => Seen(a)')
  BY <1>2, <1>3 DEF Holder, HoldsProgram, Seen
<1>6. Kept(program)' = Kept(program) /\ Kept(program) \in Nat
  BY <1>1, <1>2, MapTyped DEF Kept, Sizes
<1>7. CASE ~map[i].available
  <2>1. UNCHANGED <<regions, stack_top>>
    BY <1>7 DEF Enumerate
  <2> QED
    BY <1>1, <1>2, <1>4, <1>5, <1>6, <2>1 DEF RegionsApart, ProgramApart, Pages
<1>8. CASE map[i].available /\ HoldsProgram(map[i], stack_top)
  <2> DEFINE kept == Kept(program)
             r == [pa |-> map[i].pa + kept + 1, size |-> map[i].size - kept - 1]
  <2>1. stack_top = program /\ Holder(i)
    BY <1>1, <1>2, <1>3, <1>8, ProgramFound DEF Holder
  <2>2. map[i].size > kept /\ map[i].pa \in Nat /\ map[i].size \in Nat /\ kept \in Nat
    BY <1>1, <1>3, <2>1, HolderFits, MapTyped
  <2>3. r \in Known /\ Pages(r) \subseteq Pages(map[i])
    BY <2>2 DEF Known, Pages
  <2>4. Unsigned(map[i].size - kept - 1) = map[i].size - kept - 1
    BY <2>2 DEF Unsigned
  <2>5. stack_top' = map[i].pa + kept /\ regions' = Append(regions, r)
    BY <1>8, <2>1, <2>4 DEF Enumerate
  <2>6. /\ RegionsApart' /\ Len(regions') = Len(regions) + 1 /\ Len(regions) \in Nat
        /\ regions'[Len(regions) + 1] = r
        /\ \A k \in 1..Len(regions) :
             regions'[k] = regions[k] /\ Pages(regions[k]) \cap Pages(map[i]) = {}
    <3> HIDE DEF r
    <3> QED
      BY <1>1, <1>2, <1>3, <1>8, <2>3, <2>5, RegionNoted
  <2>7. (map[i].pa..stack_top') \subseteq Pages(map[i]) /\ Pages(r) \cap (map[i].pa..stack_top') = {}
    <3> DEFINE at == map[i].pa
               size == map[i].size
    <3>1. at \in Nat /\ size \in Nat /\ kept \in Nat /\ size > kept /\ stack_top' = at + kept
      BY <2>2, <2>5
    <3>2. r.pa = at + kept + 1
      OBVIOUS
    <3>3. Pages(map[i]) = at..at + size - 1 /\ Pages(r) = r.pa..r.pa + r.size - 1
      BY DEF Pages
    <3> HIDE DEF at, size, r, kept
    <3>4. at..stack_top' \subseteq at..at + size - 1
      BY <3>1
    <3>5. \A x \in Pages(r) : x >= at + kept + 1
      BY <3>2, <3>3
    <3>6. Pages(r) \cap (at..stack_top') = {}
      BY <3>1, <3>5
    <3> QED
      BY <3>3, <3>4, <3>6 DEF at
  <2> HIDE DEF r, kept
  <2>8. ASSUME NEW a \in DOMAIN map, Holder(a)
        PROVE  /\ stack_top' <= map[a].pa + kept
               /\ \A k \in 1..Len(regions') : Pages(regions'[k]) \cap (map[a].pa..stack_top') = {}
    <3>1. a = i
      BY <1>1, <1>3, <2>1, <2>8, HolderFits
    <3>2. stack_top' <= map[a].pa + kept
      BY <2>2, <2>5, <3>1
    <3>3. ASSUME NEW k \in 1..Len(regions') PROVE Pages(regions'[k]) \cap (map[i].pa..stack_top') = {}
      <4>1. CASE k = Len(regions) + 1
        BY <2>6, <2>7, <4>1
      <4>2. CASE k \in 1..Len(regions)
        BY <2>6, <2>7, <4>2
      <4> QED
        BY <2>6, <4>1, <4>2
    <3> QED
      BY <3>1, <3>2, <3>3
  <2>9. PICK b \in DOMAIN map : b = i
    BY <1>3
  <2>10. Seen(b)' /\ Holder(b)' /\ stack_top' = map[b].pa + kept /\ stack_top' \in Nat
    BY <1>2, <1>3, <1>5, <2>1, <2>2, <2>5, <2>9 DEF Seen
  <2>11. ProgramApart'
    BY <1>2, <1>5, <1>6, <2>8, <2>10 DEF ProgramApart, Pages, kept
  <2> QED
    BY <1>4, <2>6, <2>11
<1>9. CASE map[i].available /\ ~HoldsProgram(map[i], stack_top)
  <2> DEFINE r == [pa |-> map[i].pa, size |-> map[i].size]
  <2>1. stack_top' = stack_top /\ regions' = Append(regions, r)
    BY <1>9 DEF Enumerate
  <2>2. r \in Known /\ Pages(r) = Pages(map[i])
    BY <1>1, <1>3, MapTyped DEF Known, Pages
  <2> HIDE DEF r
  <2>3. /\ RegionsApart' /\ Len(regions') = Len(regions) + 1 /\ Len(regions) \in Nat
        /\ regions'[Len(regions) + 1] = r
        /\ \A k \in 1..Len(regions) : regions'[k] = regions[k]
    BY <1>1, <1>2, <1>3, <1>9, <2>1, <2>2, RegionNoted
  <2>4. ~Holder(i)
    BY <1>1, <1>2, <1>3, <1>9, ProgramFound
  <2>5. ASSUME NEW a \in DOMAIN map, Holder(a), NEW k \in 1..Len(regions')
        PROVE  Pages(regions'[k]) \cap (map[a].pa..stack_top) = {}
    <3>1. CASE k = Len(regions) + 1
      <4>1. a # i /\ map[a].size > Kept(program) /\ stack_top <= map[a].pa + Kept(program)
        BY <1>1, <2>4, <2>5, HolderFits DEF ProgramApart
      <4>2. (map[a].pa..stack_top) \subseteq Pages(map[a])
        BY <1>1, <1>6, <4>1, MapTyped DEF Pages, ProgramApart
      <4>3. Pages(map[a]) \cap Pages(map[i]) = {}
        BY <1>1, <1>3, <4>1, MapTyped
      <4> QED
        BY <2>2, <2>3, <3>1, <4>2, <4>3
    <3>2. CASE k \in 1..Len(regions)
      BY <1>1, <2>3, <2>5, <3>2 DEF ProgramApart
    <3> QED
      BY <2>3, <3>1, <3>2
  <2>6. ProgramApart'
    BY <1>1, <1>2, <1>5, <1>6, <2>1, <2>5 DEF ProgramApart, Pages
  <2> QED
    BY <1>4, <2>3, <2>6
<1> QED
  BY <1>7, <1>8, <1>9

\* A step that leaves the regions alone leaves what is known of them.
LEMMA RegionsStay ==
  ASSUME Given, RegionsApart, ProgramApart, UNCHANGED <<given, regions, stack_top>>,
         pc' # "enumerate" \/ UNCHANGED <<pc, i>>
  PROVE  RegionsApart' /\ ProgramApart'
<1>1. UNCHANGED <<program, wasted, map, regions, stack_top>>
  BY DEF given
<1>2. \A a \in DOMAIN map : Holder(a)' = Holder(a) /\ (Seen(a) => Seen(a)')
  BY <1>1 DEF Holder, HoldsProgram, Seen
<1>3. Kept(program)' = Kept(program)
  BY <1>1 DEF Kept, Sizes
<1> QED
  BY <1>1, <1>2, <1>3 DEF RegionsApart, ProgramApart, Pages

\* What is known of the region at hand.
LEMMA RegionTyped ==
  ASSUME RegionsApart, NEW k \in 1..Len(regions)
  PROVE  regions[k].pa \in Nat /\ regions[k].size \in Nat
<1>1. regions[k] \in Known
  <2>1. regions \in Seq(Known)
    BY DEF RegionsApart
  <2> QED
    BY <2>1
<1> QED
  BY <1>1 DEF Known

LEMMA MapEntryMInv ==
  ASSUME IInv, MInv, ProgramFits, MapEntry
  PROVE  RegionsApart' /\ ProgramApart' /\ Progress' /\ EntriesInRegions'
<1> DEFINE n == Len(tlb)
           e == [va |-> va, pair |-> Pair, pa |-> pa, valid |-> ~(mem_left = 1)]
<1>1. Given /\ RegionsApart /\ ProgramApart /\ Progress /\ EntriesInRegions
  BY DEF MInv
<1>2. /\ pc = "map" /\ pc' = pc /\ i' = i /\ UNCHANGED <<given, regions, stack_top>>
      /\ pa' = pa + Pair /\ mem_left >= wasted
      /\ mem_left' = IF mem_left = 1 THEN 0 ELSE Unsigned(mem_left - Pair)
  BY DEF MapEntry, MoreToMap
<1>3. RegionsApart' /\ ProgramApart'
  BY <1>1, <1>2, RegionsStay
<1>4. /\ Pair \in Nat /\ 2 <= Pair /\ (Pair <= mem_left \/ Pair = 2)
      /\ n \in Nat /\ Len(tlb') = n + 1 /\ tlb'[n + 1] = e
      /\ \A j \in 1..n : tlb'[j] = tlb[j]
  BY EntryMapped
<1>5. mem_left \in Nat /\ pa \in Nat /\ i \in Nat /\ wasted \in Nat /\ wasted >= 1
  BY <1>1, TlbAllocAssumption DEF Progress, Given
<1>6. /\ i \in 1..Len(regions) /\ regions[i].pa <= pa
      /\ pa + mem_left <= regions[i].pa + regions[i].size
      /\ Len(regions) \in Nat
  BY <1>1, <1>2, <1>5 DEF Progress, RegionsApart
<1>7. regions[i].pa \in Nat /\ regions[i].size \in Nat
  BY <1>1, <1>6, RegionTyped
<1>8. e.pa = pa /\ e.pair = Pair /\ e.valid = (mem_left # 1)
  OBVIOUS
<1> HIDE DEF e, n
<1>9. mem_left # 1 => mem_left' = mem_left - Pair /\ Pair <= mem_left /\ mem_left >= 2
  BY <1>2, <1>4, <1>5 DEF Unsigned
<1>10. Progress'
  BY <1>2, <1>4, <1>5, <1>6, <1>7, <1>9 DEF Progress
<1>11. /\ \A j \in 1..n : tlb[j].pa \in Nat
       /\ \A j \in 1..n : tlb[j].valid => \E k \in 1..Len(regions) : i <= k /\ TakenFrom(j, k)
       /\ \A j, k \in 1..n : j < k /\ tlb[j].valid /\ tlb[k].valid =>
            Meant(tlb[j]) \cap Meant(tlb[k]) = {}
       /\ \A j \in 1..n : tlb[j].pair \in Nat
  BY <1>1, EntriesTyped DEF EntriesInRegions, IInv, Typed, n
<1>12. ASSUME NEW j \in 1..n, tlb[j].valid
       PROVE  \E k \in 1..Len(regions) : i <= k /\ TakenFrom(j, k)'
  <2>1. PICK k \in 1..Len(regions) : i <= k /\ TakenFrom(j, k)
    BY <1>11, <1>12
  <2>2. TakenFrom(j, k)'
    BY <1>2, <1>4, <1>5, <1>11, <2>1 DEF TakenFrom, Meant, Pages
  <2> QED
    BY <2>1, <2>2
<1>13. ASSUME mem_left # 1
       PROVE  Meant(e) \subseteq Pages(regions[i]) /\ e.pa + e.pair <= pa'
  <2> DEFINE from == regions[i].pa
             upto == regions[i].pa + regions[i].size
  <2>1. from \in Nat /\ upto \in Nat /\ from <= pa /\ pa + Pair <= upto
    BY <1>4, <1>5, <1>6, <1>7, <1>9, <1>13
  <2>2. Meant(e) = pa..pa + Pair - 1
    BY <1>8 DEF Meant
  <2>3. Pages(regions[i]) = from..upto - 1
    BY <1>7 DEF Pages
  <2> HIDE DEF from, upto
  <2>4. pa..pa + Pair - 1 \subseteq from..upto - 1
    BY <2>1, <1>4, <1>5
  <2>5. e.pa + e.pair <= pa'
    BY <1>2, <1>4, <1>5, <1>8
  <2> QED
    BY <2>2, <2>3, <2>4, <2>5
<1>14. ASSUME NEW j \in 1..n, tlb[j].valid, mem_left # 1
       PROVE  Meant(tlb[j]) \cap Meant(e) = {}
  <2>1. PICK k \in 1..Len(regions) : TakenFrom(j, k)
    BY <1>11, <1>14
  <2>2. CASE k = i
    <3>1. tlb[j].pa + tlb[j].pair <= pa
      BY <2>1, <2>2 DEF TakenFrom
    <3>2. tlb[j].pa \in Nat /\ tlb[j].pair \in Nat
      BY <1>11, <1>14
    <3>3. Meant(tlb[j]) = tlb[j].pa..tlb[j].pa + tlb[j].pair - 1 /\ Meant(e) = pa..pa + Pair - 1
      BY <1>8 DEF Meant
    <3>4. \A x \in Meant(tlb[j]) : x < pa
      BY <1>5, <3>1, <3>2, <3>3
    <3>5. \A x \in Meant(e) : x >= pa /\ x \in Int
      BY <1>4, <1>5, <3>3
    <3> QED
      BY <1>5, <3>4, <3>5
  <2>3. CASE k # i
    <3>1. Pages(regions[k]) \cap Pages(regions[i]) = {}
      BY <1>1, <1>6, <2>3 DEF RegionsApart
    <3> QED
      BY <1>13, <1>14, <2>1, <3>1 DEF TakenFrom
  <2> QED
    BY <2>2, <2>3
<1>15. EntriesInRegions'
  <2>1. \A j \in 1..n + 1 : tlb'[j].pa \in Nat
    BY <1>4, <1>5, <1>8, <1>11
  <2>2. ASSUME NEW j \in 1..n + 1, tlb'[j].valid
        PROVE  \E k \in 1..Len(regions') : i' <= k /\ TakenFrom(j, k)'
    <3>1. CASE j \in 1..n
      BY <1>2, <1>4, <1>12, <2>2, <3>1
    <3>2. CASE j = n + 1
      <4>1. tlb'[j] = e /\ mem_left # 1
        BY <1>4, <1>8, <2>2, <3>2
      <4>2. PICK k \in 1..Len(regions) : k = i
        BY <1>6
      <4>3. TakenFrom(j, k)'
        BY <1>2, <1>13, <4>1, <4>2 DEF TakenFrom, Meant, Pages
      <4> QED
        BY <1>2, <1>5, <4>2, <4>3
    <3> QED
      BY <1>4, <3>1, <3>2
  <2>3. ASSUME NEW j \in 1..n + 1, NEW k \in 1..n + 1, j < k, tlb'[j].valid, tlb'[k].valid
        PROVE  Meant(tlb'[j]) \cap Meant(tlb'[k]) = {}
    <3>1. j \in 1..n
      BY <1>4, <2>3
    <3>2. CASE k \in 1..n
      BY <1>4, <1>11, <2>3, <3>1, <3>2
    <3>3. CASE k = n + 1
      BY <1>4, <1>8, <1>14, <2>3, <3>1, <3>3
    <3> QED
      BY <1>4, <3>2, <3>3
  <2> QED
    BY <1>4, <2>1, <2>2, <2>3 DEF EntriesInRegions, Meant
<1> QED
  BY <1>3, <1>10, <1>15

LEMMA NextMInv == IInv /\ MInv /\ [Next]_vars => MInv'
<1> SUFFICES ASSUME IInv, MInv, [Next]_vars PROVE MInv'
  OBVIOUS
<1>1. UNCHANGED given
  BY DEF Next, Enumerate, Overrun, Begin, MapEntry, NextRegion, Finish, sbrk, vars
<1>2. Given /\ Given' /\ ProgramFits' = ProgramFits
  BY <1>1 DEF MInv, Given, given, ProgramFits, HoldsProgram, Kept, Sizes, Range
<1> SUFFICES ASSUME ProgramFits PROVE RegionsApart' /\ ProgramApart' /\ Progress' /\ EntriesInRegions'
  BY <1>2 DEF MInv
<1>3. RegionsApart /\ ProgramApart /\ Progress /\ EntriesInRegions
  BY DEF MInv
<1>4. CASE Enumerate
  BY <1>4, EnumerateMInv
<1>5. CASE MapEntry
  BY <1>5, MapEntryMInv
<1>6. CASE Begin
  <2>1. /\ pc = "enumerate" /\ pc' = "map" /\ i' = Len(regions)
        /\ UNCHANGED <<regions, stack_top, tlb>> /\ tlb = <<>>
    BY <1>3, <1>6 DEF Begin, Progress
  <2>2. RegionsApart' /\ ProgramApart'
    BY <1>1, <1>2, <1>3, <2>1, RegionsStay
  <2>3. Progress'
    <3>1. Len(regions) \in Nat /\ regions \in Seq(Known)
      BY <1>3 DEF RegionsApart
    <3>2. CASE regions = <<>>
      BY <1>3, <1>6, <2>1, <3>2 DEF Begin, Progress
    <3>3. CASE regions # <<>>
      <4>1. Len(regions) \in 1..Len(regions)
        BY <3>1, <3>3
      <4>2. pa' = regions[Len(regions)].pa /\ mem_left' = regions[Len(regions)].size
        BY <1>6, <2>1, <3>3 DEF Begin
      <4>3. pa' \in Nat /\ mem_left' \in Nat
        BY <1>3, <4>1, <4>2, RegionTyped
      <4> QED
        BY <2>1, <3>1, <4>1, <4>2, <4>3 DEF Progress
    <3> QED
      BY <3>2, <3>3
  <2> QED
    BY <2>1, <2>2, <2>3 DEF EntriesInRegions
<1>7. CASE NextRegion
  <2>1. /\ pc = "map" /\ pc' = pc /\ i > 1 /\ i' = i - 1 /\ UNCHANGED <<regions, stack_top, tlb>>
        /\ pa' = regions[i - 1].pa /\ mem_left' = regions[i - 1].size
    BY <1>7 DEF NextRegion
  <2>2. RegionsApart' /\ ProgramApart'
    BY <1>1, <1>2, <1>3, <2>1, RegionsStay
  <2>3. i \in Nat /\ i - 1 \in 1..Len(regions)
    BY <1>3, <2>1 DEF Progress, RegionsApart
  <2>4. regions[i - 1].pa \in Nat /\ regions[i - 1].size \in Nat
    BY <1>3, <2>3, RegionTyped
  <2>5. Progress'
    BY <1>3, <2>1, <2>3, <2>4 DEF Progress, RegionsApart
  <2>6. ASSUME NEW j \in 1..Len(tlb), tlb[j].valid
        PROVE  \E k \in 1..Len(regions) : i - 1 <= k /\ TakenFrom(j, k)'
    <3>1. PICK k \in 1..Len(regions) : i <= k /\ TakenFrom(j, k)
      BY <1>3, <2>6 DEF EntriesInRegions
    <3>2. k # i - 1 /\ i - 1 <= k
      BY <2>3, <3>1
    <3>3. TakenFrom(j, k)'
      BY <2>1, <3>1, <3>2 DEF TakenFrom, Meant, Pages
    <3> QED
      BY <3>2, <3>3
  <2>7. EntriesInRegions'
    BY <1>3, <2>1, <2>6 DEF EntriesInRegions, Meant
  <2> QED
    BY <2>2, <2>5, <2>7
<1>8. CASE Overrun \/ Finish \/ UNCHANGED vars \/ \E n \in Increments : sbrk(n)
  <2>1. /\ UNCHANGED <<i, regions, stack_top, pa, mem_left, tlb>>
        /\ pc' = pc \/ (pc = "map" /\ pc' = "run") \/ (pc = "enumerate" /\ pc' = "overrun")
    BY <1>8 DEF Overrun, Finish, sbrk, vars, mapping
  <2>2. RegionsApart' /\ ProgramApart'
    BY <1>1, <1>2, <1>3, <2>1, RegionsStay
  <2> QED
    BY <1>3, <2>1, <2>2 DEF Progress, EntriesInRegions, TakenFrom, Meant, Pages
<1> QED
  BY <1>4, <1>5, <1>6, <1>7, <1>8 DEF Next

\* What a straight entry maps is what it names.
LEMMA StraightMapped ==
  ASSUME NEW e, e.pa \in Nat, Straight(e)
  PROVE  Mapped(e) = Meant(e)
<1> DEFINE low == e.pa % PageSize(e)
<1>1. low = 0 /\ Mapped(e) = (e.pa - low)..(e.pa - low) + e.pair - 1
  BY DEF Straight, Mapped
<1> HIDE DEF low
<1>2. e.pa - low = e.pa
  BY <1>1
<1> QED
  BY <1>1, <1>2 DEF Meant

\* Whatever the machine's memory, if the program's bank has room for what the
\* program keeps of it: a valid entry at a physical address that is a multiple of its
\* page size maps memory that the firmware reported as available, none of the
\* program's and none that another such entry maps.
THEOREM TlbAllocMemoryMappedOnce == Spec => []MemoryMappedOnce
<1>1. IInv /\ MInv => MemoryMappedOnce
  <2> SUFFICES ASSUME IInv, MInv, NEW j \in DOMAIN tlb, ProgramFits, tlb[j].valid, Straight(tlb[j])
               PROVE  /\ \E r \in Range(map) : r.available /\ Mapped(tlb[j]) \subseteq Pages(r)
                      /\ OutsideProgram(tlb[j])
                      /\ \A k \in 1..j - 1 : tlb[k].valid /\ Straight(tlb[k]) =>
                           Mapped(tlb[j]) \cap Mapped(tlb[k]) = {}
    BY DEF MemoryMappedOnce
  <2>1. RegionsApart /\ ProgramApart /\ EntriesInRegions
    BY DEF MInv
  <2>2. DOMAIN tlb = 1..Len(tlb) /\ Len(tlb) \in Nat
    BY DEF IInv, Typed
  <2>0. \A h \in 1..Len(tlb) : Straight(tlb[h]) => Mapped(tlb[h]) = Meant(tlb[h])
    BY <2>1, StraightMapped DEF EntriesInRegions
  <2>3. PICK k \in 1..Len(regions) : Meant(tlb[j]) \subseteq Pages(regions[k])
    BY <2>1, <2>2 DEF EntriesInRegions, TakenFrom
  <2>4. \E r \in Range(map) : r.available /\ Meant(tlb[j]) \subseteq Pages(r)
    <3>1. PICK a \in DOMAIN map : map[a].available /\ Pages(regions[k]) \subseteq Pages(map[a])
      BY <2>1 DEF RegionsApart
    <3> QED
      BY <2>3, <3>1 DEF Range
  <2>5. ASSUME NEW a \in DOMAIN map, HoldsProgram(map[a], program)
        PROVE  Meant(tlb[j]) \cap (map[a].pa..stack_top) = {}
    BY <2>1, <2>3, <2>5 DEF ProgramApart, Holder
  <2>6. ASSUME NEW h \in 1..j - 1, tlb[h].valid
        PROVE  Meant(tlb[j]) \cap Meant(tlb[h]) = {}
    BY <2>1, <2>2, <2>6 DEF EntriesInRegions
  <2>7. Mapped(tlb[j]) = Meant(tlb[j])
    BY <2>0, <2>2
  <2>8. OutsideProgram(tlb[j])
    BY <2>5, <2>7 DEF OutsideProgram, Range
  <2>9. ASSUME NEW h \in 1..j - 1, tlb[h].valid, Straight(tlb[h])
        PROVE  Mapped(tlb[j]) \cap Mapped(tlb[h]) = {}
    <3>1. h \in 1..Len(tlb)
      BY <2>2
    <3> QED
      BY <2>0, <2>6, <2>7, <2>9, <3>1
  <2> QED
    BY <2>4, <2>7, <2>8, <2>9
<1> QED
  BY <1>1, InitIInv, NextIInv, InitMInv, NextMInv, PTL DEF Spec
=============================================================================
