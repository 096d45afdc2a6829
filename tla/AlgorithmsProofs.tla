--------------------------- MODULE AlgorithmsProofs ---------------------------
(***************************************************************************)
(* What the algorithms compute, for every call: a theorem of this module   *)
(* takes an arbitrary call where the runs of MCAlgorithms take those of    *)
(* its sets.                                                               *)
(***************************************************************************)
EXTENDS MCAlgorithms, TLAPS, WellFoundedInduction

(***************************************************************************)
(* Division.                                                               *)
(***************************************************************************)
LEMMA DivisionIs ==
  ASSUME NEW n \in Nat \ {0}, NEW q \in Int, NEW r \in 0 .. n - 1, NEW x, x = q * n + r
  PROVE  x \div n = q /\ x % n = r
OBVIOUS

LEMMA Division ==
  ASSUME NEW n \in Nat \ {0}, NEW x \in Int
  PROVE  x \div n \in Int /\ x % n \in 0 .. n - 1 /\ x = (x \div n) * n + (x % n)
OBVIOUS

(***************************************************************************)
(* Induction, over the set of the numbers for which something holds, and   *)
(* recursive sums: d[1], ..., d[n] added onto c one after the other.       *)
(***************************************************************************)
LEMMA Induction ==
  ASSUME NEW n \in Nat, NEW S, 0 \in S, \A k \in 1 .. n : k - 1 \in S => k \in S
  PROVE  \A k \in 0 .. n : k \in S
<1> DEFINE wrong == {k \in 0 .. n : k \notin S}
           less  == OpToRel(<, Nat)
<1>1. SUFFICES ASSUME wrong # {}
      PROVE  FALSE
  OBVIOUS
<1>2. IsWellFoundedOn(less, Nat) /\ \A x, y \in Nat : <<y, x>> \in less <=> y < x
  BY NatLessThanWellFounded DEF OpToRel
<1> HIDE DEF less
<1>3. PICK k \in wrong : \A y \in wrong : <<y, k>> \notin less
  <2>1. wrong \subseteq Nat
    OBVIOUS
  <2> HIDE DEF wrong
  <2> QED
    BY <1>1, <1>2, <2>1, WFMin
<1>4. k \in Nat /\ k <= n /\ k # 0
  OBVIOUS
<1>5. k - 1 \in 0 .. n /\ k \in 1 .. n /\ k - 1 < k /\ k - 1 \in Nat
  BY <1>4
<1>6. k - 1 \in S
  BY <1>2, <1>3, <1>4, <1>5
<1> QED
  BY <1>3, <1>5, <1>6

Adds(f, c, d, n) == f = [k \in 0 .. n |-> IF k = 0 THEN c ELSE f[k - 1] + d[k]]
Added(c, d, n) == \E f : Adds(f, c, d, n)

LEMMA AddsTo ==
  ASSUME NEW n \in Nat, NEW c, NEW d, NEW f, Adds(f, c, d, n)
  PROVE  f[0] = c /\ \A k \in 1 .. n : f[k] = f[k - 1] + d[k]
BY DEF Adds

LEMMA AddsExist ==
  ASSUME NEW n \in Nat, NEW c, NEW d
  PROVE  Added(c, d, n)
<1> DEFINE S == {k \in Nat : Added(c, d, k)}
<1>1. 0 \in S
  <2> DEFINE g == [k \in 0 .. 0 |-> c]
  <2>1. \A k \in 0 .. 0 : k = 0
    OBVIOUS
  <2>2. g = [k \in 0 .. 0 |-> IF k = 0 THEN c ELSE g[k - 1] + d[k]]
    BY <2>1
  <2> QED
    BY <2>2 DEF Added, Adds
<1>2. ASSUME NEW k \in 1 .. n, k - 1 \in S
      PROVE  k \in S
  <2>1. PICK f : Adds(f, c, d, k - 1)
    BY <1>2 DEF Added
  <2> DEFINE g == [i \in 0 .. k |-> IF i = k THEN f[k - 1] + d[k] ELSE f[i]]
  <2>2. ASSUME NEW i \in 0 .. k
        PROVE  g[i] = IF i = 0 THEN c ELSE g[i - 1] + d[i]
    <3>1. f[0] = c /\ \A j \in 1 .. k - 1 : f[j] = f[j - 1] + d[j]
      BY <2>1, AddsTo
    <3>2. CASE i = 0
      BY <3>1, <3>2
    <3>3. CASE i = k
      <4>1. i # 0 /\ k - 1 \in 0 .. k /\ k - 1 # k
        BY <3>3
      <4> QED
        BY <3>3, <4>1
    <3>4. CASE i # 0 /\ i # k
      <4>1. i \in 1 .. k - 1 /\ i - 1 \in 0 .. k /\ i - 1 # k
        BY <3>4
      <4> QED
        BY <3>1, <3>4, <4>1
    <3> QED
      BY <3>2, <3>3, <3>4
  <2>3. g = [i \in 0 .. k |-> g[i]]
    OBVIOUS
  <2> HIDE DEF g
  <2>4. Adds(g, c, d, k)
    BY <2>2, <2>3 DEF Adds
  <2> QED
    BY <2>4 DEF Added
<1> HIDE DEF S
<1>3. n \in S
  <2>1. n \in 0 .. n
    OBVIOUS
  <2> QED
    BY <1>1, <1>2, <2>1, Induction
<1> QED
  BY <1>3 DEF S

(***************************************************************************)
(* tlbconvert.  The pages that it accepts are of 4 KB or of an even        *)
(* multiple of that; which one, the rest of the proof need not know.       *)
(***************************************************************************)
LEMMA PageSizes ==
  ASSUME NEW page_shift, NEW cca, NEW asid, T!Accepts(page_shift, cca, asid),
         NEW k, k = T!page_size(page_shift) \div 4096
  PROVE  /\ T!page_size(page_shift) = 4096 * k /\ k \in Nat /\ 1 <= k /\ k <= 16384
         /\ (k = 1) <=> (page_shift = 12)
         /\ (k = 1) \/ (k % 2 = 0)
<1>1. page_shift \in {12, 14, 16, 18, 20, 22, 24, 26}
  <2>1. page_shift \in 12 .. 26 /\ page_shift % 2 = 0
    BY DEF T!Accepts, T!MIN_PAGESIZE_INDEX, T!MAX_PAGESIZE_INDEX
  <2> QED
    BY <2>1
<1>2. /\ T!page_size(12) = 4096 /\ T!page_size(14) = 16384 /\ T!page_size(16) = 65536
      /\ T!page_size(18) = 262144 /\ T!page_size(20) = 1048576
      /\ T!page_size(22) = 4194304 /\ T!page_size(24) = 16777216
      /\ T!page_size(26) = 67108864
  BY SMT DEF T!page_size
<1> QED
  BY <1>1, <1>2, SMT

(* The addresses whose fields hold them: frames of 4 KB have numbers of 28 *)
(* bits, and pairs of virtual pages have numbers of 31 bits.               *)
FrameNumbers == 2^28
PhysicalSpace == FrameNumbers * 4096
PairNumbers == 2^31
VirtualSpace == PairNumbers * 8192

LEMMA FrameNumbersIs == FrameNumbers \in Nat \ {0} /\ PairNumbers \in Nat \ {0}
BY SMT DEF FrameNumbers, PairNumbers

(* An EntryLo shows the page and the attributes that it was made of, and  *)
(* a frame of 28 bits is not cut.                                          *)
LEMMA EntryLoShows ==
  ASSUME NEW pfn \in 0 .. FrameNumbers - 1, NEW cca \in 0 .. 7, NEW d \in 0 .. 1, NEW v \in 0 .. 1,
         NEW g \in 0 .. 1,
         NEW pa, pfn * 4096 = pa, NEW lo, lo = T!C0_TLBLO_REG(pfn, cca, d, v, g)
  PROVE  /\ lo \in Nat /\ (lo \div 64) * 4096 = pa /\ lo % 2 = g
         /\ T!Page(lo) = [pa |-> pa, cca |-> cca, d |-> d, v |-> v]
<1>0. FrameNumbers \in Nat \ {0} /\ pfn \in Nat
  BY FrameNumbersIs
<1>1. lo = pfn * 64 + (cca * 8 + d * 4 + v * 2 + g)
  BY <1>0, SMT DEF T!C0_TLBLO_REG, T!S_TLBLO_PFNMASK, T!S_TLBLO_CALG
<1>2. lo \in Nat /\ lo \div 64 = pfn
  BY <1>0, <1>1, SMT
<1>3. (lo \div 8) % 8 = cca /\ (lo \div 4) % 2 = d /\ (lo \div 2) % 2 = v /\ lo % 2 = g
  <2>1. /\ lo \div 8 = pfn * 8 + cca /\ lo \div 4 = pfn * 16 + cca * 2 + d
        /\ lo \div 2 = pfn * 32 + cca * 4 + d * 2 + v
    BY <1>0, <1>1, SMT
  <2>2. (lo \div 8) % 8 = cca
    BY <1>0, <2>1, SMT
  <2>3. (lo \div 4) % 2 = d /\ (lo \div 2) % 2 = v
    BY <1>0, <2>1, SMT
  <2>4. lo % 2 = g
    BY <1>0, <1>1, SMT
  <2> QED
    BY <2>2, <2>3, <2>4
<1>4. pfn % FrameNumbers = pfn
  BY <1>0, SMT
<1>5. /\ T!Field(lo, 6, 28) = pfn /\ T!Field(lo, 3, 3) = cca /\ T!Field(lo, 2, 1) = d
      /\ T!Field(lo, 1, 1) = v
  <2>1. 2^6 = 64 /\ 2^3 = 8 /\ 2^2 = 4 /\ 2^1 = 2
    BY SMT
  <2>2. T!Field(lo, 6, 28) = (lo \div 64) % FrameNumbers
    BY <2>1, Zenon DEF T!Field, FrameNumbers
  <2>3. /\ T!Field(lo, 3, 3) = (lo \div 8) % 8 /\ T!Field(lo, 2, 1) = (lo \div 4) % 2
        /\ T!Field(lo, 1, 1) = (lo \div 2) % 2
    BY <2>1, Zenon DEF T!Field
  <2> QED
    BY <1>2, <1>3, <1>4, <2>2, <2>3, Zenon
<1>6. 2^12 = 4096
  BY SMT
<1>7. T!Page(lo) = [pa |-> pa, cca |-> cca, d |-> d, v |-> v]
  BY <1>5, <1>6, SMT
     DEF T!Page, T!S_TLBLO_PFNMASK, T!S_TLBLO_CALG, T!MIN_PAGESIZE_INDEX
<1> QED
  BY <1>2, <1>3, <1>7

(* An address is its aligned address and an offset, and the aligned one    *)
(* stays when it is aligned again.                                         *)
LEMMA Aligned ==
  ASSUME NEW x \in Nat, NEW size \in Nat \ {0}, NEW q, q = x \div size
  PROVE  /\ q \in Nat /\ T!AlignDown(x, size) = q * size /\ q * size \in Nat
         /\ q * size <= x /\ x < q * size + size
         /\ T!AlignDown(q * size, size) = q * size
<1>1. q \in Int /\ x % size \in 0 .. size - 1 /\ x = q * size + (x % size)
  BY Division
<1>2. q \in Nat
  BY <1>1
<1>3. q * size \in Nat
  BY <1>2
<1>4. (q * size) \div size = q
  BY <1>2, DivisionIs
<1> QED
  BY <1>1, <1>2, <1>3, <1>4 DEF T!AlignDown

(* An aligned address is a number of frames.                               *)
LEMMA Frames ==
  ASSUME NEW q \in Nat, NEW k \in Nat, NEW n \in Nat \ {0}
  PROVE  (q * (n * k)) \div n = q * k
<1>1. q * k \in Int /\ q * (n * k) = (q * k) * n + 0
  OBVIOUS
<1> QED
  BY <1>1, DivisionIs

(* The mask of a page of k frames of 4 KB, and what is shown of it.        *)
LEMMA MaskShows ==
  ASSUME NEW k \in Nat, 1 <= k, k <= 16384, (k = 1) \/ (k % 2 = 0), NEW size, size = 4096 * k,
         NEW mask, mask = T!PGSIZE_TO_PGMASK(size)
  PROVE  /\ mask \in Nat /\ T!Field(mask, 13, 14) = k - 1
         /\ T!PGMASK_TO_PGSIZE(mask) = IF k = 1 THEN 2 * size ELSE size
<1>1. (size - 1) \div 4096 = k - 1
  OBVIOUS
<1>2. mask = (k - 1) * 8192
  BY <1>1, SMT DEF T!PGSIZE_TO_PGMASK, T!MIN_PAGESIZE_INDEX, T!S_TLB_PGMSK
<1>3. mask \in Nat /\ (mask \div 8192) % 16384 = k - 1
  BY <1>2
<1>4. T!Field(mask, 13, 14) = k - 1
  BY <1>3, SMT DEF T!Field
<1>5. (T!AlignDown(k - 1, 2) + 2) * 4096 = IF k = 1 THEN 2 * size ELSE size
  <2>1. CASE k = 1
    BY <2>1 DEF T!AlignDown
  <2>2. CASE k # 1 /\ k % 2 = 0
    <3>1. (k - 1) \div 2 = (k \div 2) - 1 /\ k = (k \div 2) * 2
      BY <2>2
    <3>2. T!AlignDown(k - 1, 2) = k - 2
      BY <3>1, <2>2 DEF T!AlignDown
    <3> QED
      BY <2>2, <3>2
  <2> QED
    BY <2>1, <2>2
<1>6. 2^12 = 4096
  BY SMT
<1> QED
  BY <1>3, <1>4, <1>5, <1>6 DEF T!PGMASK_TO_PGSIZE, T!MIN_PAGESIZE_INDEX, T!S_TLB_PGMSK

(* Offsets in the two pages of an entry, by the page and by the pair.      *)
LEMMA PairOfPages ==
  ASSUME NEW size \in Nat \ {0}, NEW v \in Nat, NEW off \in 0 .. size - 1
  PROVE  /\ (v * (2 * size) + off) \div size = 2 * v
         /\ (v * (2 * size) + off) % size = off
         /\ (v * (2 * size) + size + off) \div size = 2 * v + 1
         /\ (v * (2 * size) + size + off) % size = off
         /\ (v * (2 * size) + off) \div (2 * size) = v
         /\ (v * (2 * size) + size + off) \div (2 * size) = v
         /\ (v * (2 * size) + 2 * size) \div (2 * size) = v + 1
         /\ (v * (2 * size)) \div (2 * size) = v
<1>1. ASSUME NEW q \in Int, NEW x, x = q * size + off
      PROVE  x \div size = q /\ x % size = off
  BY <1>1, DivisionIs
<1>2. /\ 2 * v \in Int /\ v * (2 * size) + off = (2 * v) * size + off
      /\ 2 * v + 1 \in Int /\ v * (2 * size) + size + off = (2 * v + 1) * size + off
  OBVIOUS
<1>3. ASSUME NEW two \in Nat \ {0}, NEW q \in Int, NEW r \in 0 .. two - 1
      PROVE  (q * two + r) \div two = q
  BY <1>3, DivisionIs
<1>4. /\ 2 * size \in Nat \ {0} /\ v \in Int /\ v + 1 \in Int
      /\ off \in 0 .. (2 * size) - 1 /\ size + off \in 0 .. (2 * size) - 1
      /\ 0 \in 0 .. (2 * size) - 1
  OBVIOUS
<1>5. /\ v * (2 * size) + size + off = v * (2 * size) + (size + off)
      /\ v * (2 * size) + 2 * size = (v + 1) * (2 * size) + 0
      /\ v * (2 * size) = v * (2 * size) + 0
  OBVIOUS
<1>6. /\ (v * (2 * size) + off) \div (2 * size) = v
      /\ (v * (2 * size) + (size + off)) \div (2 * size) = v
      /\ ((v + 1) * (2 * size) + 0) \div (2 * size) = v + 1
      /\ (v * (2 * size) + 0) \div (2 * size) = v
  BY <1>3, <1>4, Zenon
<1>7. /\ (v * (2 * size) + off) \div size = 2 * v
      /\ (v * (2 * size) + off) % size = off
      /\ (v * (2 * size) + size + off) \div size = 2 * v + 1
      /\ (v * (2 * size) + size + off) % size = off
  BY <1>1, <1>2, Zenon
<1> QED
  BY <1>5, <1>6, <1>7, Zenon

(* An entry is for two pages, from first and from second on, and the       *)
(* addresses from start on.                                                *)
IsEntry(e, size, start, first, second) ==
  /\ (T!Field(e.pagemask, 13, 14) + 1) * 4096 = size
  /\ (e.entryhi \div 8192) * 8192 = start
  /\ (e.entrylo0 \div 64) * 4096 = first
  /\ (e.entrylo1 \div 64) * 4096 = second

(* The processor finds the even page of an entry, the odd page behind it,  *)
(* and nothing behind that.                                                *)
LEMMA EntryMaps ==
  ASSUME NEW size \in Nat \ {0}, NEW off \in 0 .. size - 1, NEW start \in Nat, NEW first, NEW second,
         T!AlignDown(start, 2 * size) = start,
         T!AlignDown(first, size) = first, T!AlignDown(second, size) = second,
         NEW e, IsEntry(e, size, start, first, second)
  PROVE  /\ Mapped(e, start + off) = first + off
         /\ Mapped(e, start + size + off) = second + off
         /\ Mapped(e, start + 2 * size) = None
<1> DEFINE v == start \div (2 * size)
<1>0. v \in Nat /\ start = v * (2 * size)
  <2>1. 2 * size \in Nat \ {0}
    OBVIOUS
  <2> QED
    BY <2>1, Aligned DEF T!AlignDown
<1> HIDE DEF v
<1> DEFINE even == start + off
           odd  == start + size + off
           next == start + 2 * size
<1>1. even \div size = 2 * v /\ even % size = off /\ even \div (2 * size) = v
  BY <1>0, PairOfPages
<1>2. odd \div size = 2 * v + 1 /\ odd % size = off /\ odd \div (2 * size) = v
  BY <1>0, PairOfPages
<1>3. next \div (2 * size) = v + 1 /\ start \div (2 * size) = v
  BY <1>0, PairOfPages
<1>4. (2 * v) % 2 = 0 /\ (2 * v + 1) % 2 = 1 /\ v # v + 1
  BY <1>0
<1> HIDE DEF even, odd, next
<1>5. Mapped(e, even) = first + off
  BY <1>1, <1>3, <1>4 DEF Mapped, IsEntry
<1>6. Mapped(e, odd) = second + off
  BY <1>2, <1>3, <1>4 DEF Mapped, IsEntry
<1>7. Mapped(e, next) = None
  BY <1>3, <1>4 DEF Mapped, IsEntry
<1> QED
  BY <1>5, <1>6, <1>7 DEF even, odd, next

(* What encode makes of its arguments once it has rounded the addresses.   *)
LEMMA EncodeIs ==
  ASSUME NEW va, NEW pa0, NEW pa1, NEW page_shift, NEW cca, NEW asid, NEW dirty, NEW global,
         NEW valid, NEW size, size = T!page_size(page_shift),
         NEW first, first = T!AlignDown(pa0, size),
         NEW second, second = IF pa1 = None THEN first + size ELSE T!AlignDown(pa1, size),
         NEW e, e = T!encode(va, pa0, pa1, page_shift, cca, asid, dirty, global, valid)
  PROVE  /\ e.entryhi = T!C0_TLBHI_REG(T!AlignDown(va, 2 * size) \div 8192, asid)
         /\ e.entrylo0 = T!C0_TLBLO_REG(first \div 4096, cca, dirty, valid, global)
         /\ e.entrylo1 = T!C0_TLBLO_REG(second \div 4096, cca, dirty, valid, global)
         /\ e.pagemask = T!PGSIZE_TO_PGMASK(size)
<1>1. 2^12 = 4096 /\ 2^13 = 8192
  BY SMT
<1> QED
  BY <1>1 DEF T!encode, T!MIN_PAGESIZE_INDEX, T!S_TLBHI_VPN2

(* Whatever arguments tlbconvert accepts, addresses and attributes of any  *)
(* value that their fields hold: the entry maps the two pages asked for,   *)
(* and shows again the addresses and the attributes that it was made of,   *)
(* and the size of its pages unless they are the smallest (tlbconvert.c,   *)
(* encode and main).                                                       *)
THEOREM EncodeMaps ==
  ASSUME NEW va \in 0 .. VirtualSpace - 1, NEW pa0 \in 0 .. PhysicalSpace - 1,
         NEW pa1 \in (0 .. PhysicalSpace - 1) \union {None},
         NEW page_shift, NEW cca, NEW asid,
         NEW dirty \in 0 .. 1, NEW global \in 0 .. 1, NEW valid \in 0 .. 1,
         pa1 = None => pa0 + T!page_size(page_shift) < PhysicalSpace,
         job = [op |-> "encode", page_shift |-> page_shift, va |-> va, pa0 |-> pa0, pa1 |-> pa1,
                cca |-> cca, asid |-> asid, dirty |-> dirty, global |-> global, valid |-> valid]
  PROVE  EncodedMaps
<1> DEFINE size   == T!page_size(page_shift)
           first  == T!AlignDown(pa0, size)
           second == IF pa1 = None THEN first + size ELSE T!AlignDown(pa1, size)
           start  == T!AlignDown(va, 2 * size)
           e      == T!encode(va, pa0, pa1, page_shift, cca, asid, dirty, global, valid)
           shown  == T!dump_tlb_entry(T!decode(e.entryhi, e.entrylo0, e.entrylo1, e.pagemask))
<1>0. SUFFICES ASSUME T!Accepts(page_shift, cca, asid)
      PROVE  /\ \A off \in {0, 1, size - 1} :
                   Mapped(e, start + off) = first + off /\ Mapped(e, start + size + off) = second + off
             /\ Mapped(e, start + 2 * size) = None
             /\ shown.va = start /\ shown.asid = asid /\ shown.g = global
             /\ shown.page0 = [pa |-> first, cca |-> cca, d |-> dirty, v |-> valid]
             /\ shown.page1 = [pa |-> second, cca |-> cca, d |-> dirty, v |-> valid]
             /\ page_shift > 12 => shown.pgsize = size
  <2> HIDE DEF start
  <2> QED
    BY DEF EncodedMaps, start
<1> DEFINE k  == size \div 4096
           v  == va \div (2 * size)
           q0 == pa0 \div size
           q1 == IF pa1 = None THEN q0 + 1 ELSE pa1 \div size
<1>1. /\ size = 4096 * k /\ k \in Nat /\ 1 <= k /\ k <= 16384
      /\ (k = 1) <=> (page_shift = 12)
      /\ (k = 1) \/ (k % 2 = 0)
  BY <1>0, PageSizes
<1>2. cca \in 0 .. 7 /\ asid \in 0 .. 255
  BY <1>0 DEF T!Accepts
<1> HIDE DEF k, size, e, shown
<1>3. size \in Nat \ {0} /\ 2 * size \in Nat \ {0} /\ k \in Nat \ {0}
  BY <1>1
<1>4. PhysicalSpace \in Nat /\ FrameNumbers \in Nat /\ PhysicalSpace = FrameNumbers * 4096
  BY FrameNumbersIs, SMT DEF PhysicalSpace
<1>5. v \in Nat /\ start = v * (2 * size)
  <2>1. va \in Nat
    BY FrameNumbersIs, SMT DEF VirtualSpace
  <2> QED
    BY <1>3, <2>1, Aligned
<1>6. /\ q0 \in Nat /\ first = q0 * size /\ first <= pa0 /\ first \in Nat
  <2>1. pa0 \in Nat
    BY <1>4
  <2> QED
    BY <1>3, <2>1, Aligned
<1>7. q1 \in Nat /\ second = q1 * size /\ second < PhysicalSpace
  <2>1. CASE pa1 = None
    <3> HIDE DEF q0
    <3>1. q1 = q0 + 1 /\ second = first + size
      BY <2>1
    <3>2. second = q1 * size
      BY <1>3, <1>6, <3>1
    <3>3. pa0 + size < PhysicalSpace /\ pa0 \in Nat
      BY <1>4, <2>1 DEF size
    <3> QED
      BY <1>3, <1>4, <1>6, <3>1, <3>2, <3>3
  <2>2. CASE pa1 # None
    <3>1. pa1 \in Nat /\ pa1 < PhysicalSpace
      BY <1>4, <2>2
    <3>2. q1 = pa1 \div size /\ second = T!AlignDown(pa1, size)
      BY <2>2
    <3> HIDE DEF q1
    <3>3. \A q \in {pa1 \div size} :
            q \in Nat /\ T!AlignDown(pa1, size) = q * size /\ q * size <= pa1 /\ q * size \in Nat
      BY <1>3, <3>1, Aligned
    <3>4. q1 \in Nat /\ second = q1 * size /\ second <= pa1 /\ second \in Nat
      BY <3>2, <3>3
    <3> QED
      BY <1>4, <3>1, <3>4
  <2> QED
    BY <2>1, <2>2
<1> HIDE DEF v, q0, q1
<1> DEFINE f0 == first \div 4096
           f1 == second \div 4096
           n  == start \div 8192
<1>8. ASSUME NEW q \in Nat, NEW pa, pa = q * size, pa < PhysicalSpace
      PROVE  pa \div 4096 \in 0 .. FrameNumbers - 1 /\ (pa \div 4096) * 4096 = pa
  <2>1. pa = q * (4096 * k) /\ (q * k) * 4096 = pa
    BY <1>1, <1>8
  <2>2. 4096 \in Nat \ {0}
    OBVIOUS
  <2>3. pa \div 4096 = q * k
    BY <1>3, <2>1, <2>2, Frames
  <2>4. q * k \in Nat /\ q * k < FrameNumbers
    BY <1>3, <1>4, <1>8, <2>1
  <2> QED
    BY <1>4, <2>1, <2>3, <2>4
<1>9. f0 \in 0 .. FrameNumbers - 1 /\ f0 * 4096 = first
  <2>1. first < PhysicalSpace
    BY <1>4, <1>6
  <2> QED
    BY <1>6, <1>8, <2>1
<1>10. f1 \in 0 .. FrameNumbers - 1 /\ f1 * 4096 = second
  BY <1>7, <1>8
<1>11. n \in Nat /\ n * 8192 = start
  <2>1. start = v * (8192 * k) /\ v * k \in Nat /\ (v * k) * 8192 = start
    BY <1>1, <1>3, <1>5
  <2>2. 8192 \in Nat \ {0}
    OBVIOUS
  <2>3. n = v * k
    BY <1>3, <1>5, <2>1, <2>2, Frames
  <2> QED
    BY <2>1, <2>3
<1>12. /\ e.entryhi = T!C0_TLBHI_REG(n, asid)
       /\ e.entrylo0 = T!C0_TLBLO_REG(f0, cca, dirty, valid, global)
       /\ e.entrylo1 = T!C0_TLBLO_REG(f1, cca, dirty, valid, global)
       /\ e.pagemask = T!PGSIZE_TO_PGMASK(size)
  BY EncodeIs DEF size, e
<1> HIDE DEF f0, f1, n, first, second, start
<1>13. /\ e.entryhi \in Nat /\ (e.entryhi \div 8192) * 8192 = start
       /\ T!Field(e.entryhi, 0, 8) = asid
  <2>1. e.entryhi = n * 8192 + asid
    BY <1>12, SMT DEF T!C0_TLBHI_REG, T!S_TLBHI_VPN2
  <2>2. e.entryhi \in Nat /\ e.entryhi \div 8192 = n /\ (e.entryhi \div 1) % 256 = asid
    BY <1>2, <1>11, <2>1
  <2>3. T!Field(e.entryhi, 0, 8) = asid
    BY <2>2, SMT DEF T!Field
  <2> QED
    BY <1>11, <2>2, <2>3
<1>14. /\ (e.entrylo0 \div 64) * 4096 = first /\ e.entrylo0 % 2 = global
       /\ T!Page(e.entrylo0) = [pa |-> first, cca |-> cca, d |-> dirty, v |-> valid]
  BY <1>2, <1>9, <1>12, EntryLoShows
<1>15. /\ (e.entrylo1 \div 64) * 4096 = second /\ e.entrylo1 % 2 = global
       /\ T!Page(e.entrylo1) = [pa |-> second, cca |-> cca, d |-> dirty, v |-> valid]
  BY <1>2, <1>10, <1>12, EntryLoShows
<1>16. /\ e.pagemask \in Nat /\ (T!Field(e.pagemask, 13, 14) + 1) * 4096 = size
       /\ T!PGMASK_TO_PGSIZE(e.pagemask) = IF k = 1 THEN 2 * size ELSE size
  <2>1. ASSUME NEW mask, mask = T!PGSIZE_TO_PGMASK(size)
        PROVE  /\ mask \in Nat /\ T!Field(mask, 13, 14) = k - 1
               /\ T!PGMASK_TO_PGSIZE(mask) = IF k = 1 THEN 2 * size ELSE size
    BY <1>1, <2>1, MaskShows
  <2>2. /\ e.pagemask \in Nat /\ T!Field(e.pagemask, 13, 14) = k - 1
        /\ T!PGMASK_TO_PGSIZE(e.pagemask) = IF k = 1 THEN 2 * size ELSE size
    BY <1>12, <2>1
  <2> QED
    BY <1>1, <2>2
<1>17. ASSUME NEW off \in 0 .. size - 1
       PROVE  /\ Mapped(e, start + off) = first + off
              /\ Mapped(e, start + size + off) = second + off
              /\ Mapped(e, start + 2 * size) = None
  <2>1. IsEntry(e, size, start, first, second)
    BY <1>13, <1>14, <1>15, <1>16 DEF IsEntry
  <2>2. ASSUME NEW n0 \in Nat \ {0}, NEW q \in Nat, NEW x, x = q * n0
        PROVE  T!AlignDown(x, n0) = x /\ x \in Nat
    BY <2>2, DivisionIs DEF T!AlignDown
  <2>3. /\ T!AlignDown(start, 2 * size) = start /\ start \in Nat
        /\ T!AlignDown(first, size) = first /\ T!AlignDown(second, size) = second
    BY <1>3, <1>5, <1>6, <1>7, <2>2
  <2> QED
    BY <1>3, <2>1, <2>3, EntryMaps
<1>18. /\ 0 \in 0 .. size - 1 /\ 1 \in 0 .. size - 1 /\ size - 1 \in 0 .. size - 1
  BY <1>1
<1>19. T!decode(e.entryhi, e.entrylo0, e.entrylo1, e.pagemask)
         = [entryhi |-> e.entryhi, entrylo0 |-> e.entrylo0, entrylo1 |-> e.entrylo1,
            pagemask |-> e.pagemask]
  BY <1>16, NoneAssumption DEF T!decode
<1>20. /\ shown.va = start /\ shown.asid = asid /\ shown.g = global
       /\ shown.page0 = T!Page(e.entrylo0) /\ shown.page1 = T!Page(e.entrylo1)
       /\ shown.pgsize = T!PGMASK_TO_PGSIZE(e.pagemask)
  <2>1. 2^13 = 8192
    BY SMT
  <2> QED
    BY <1>13, <1>14, <1>15, <1>19, <2>1 DEF shown, T!dump_tlb_entry, T!S_TLBHI_VPN2
<1>21. /\ \A off \in {0, 1, size - 1} :
             Mapped(e, start + off) = first + off /\ Mapped(e, start + size + off) = second + off
       /\ Mapped(e, start + 2 * size) = None
  BY <1>17, <1>18
<1>22. page_shift > 12 => shown.pgsize = size
  BY <1>1, <1>16, <1>20
<1>23. /\ shown.page0 = [pa |-> first, cca |-> cca, d |-> dirty, v |-> valid]
       /\ shown.page1 = [pa |-> second, cca |-> cca, d |-> dirty, v |-> valid]
  BY <1>14, <1>15, <1>20
<1> QED
  BY <1>20, <1>21, <1>22, <1>23

(***************************************************************************)
(* Recursive functions.  Where two functions begin alike, and are alike    *)
(* after every number if they are alike before it, they are alike.         *)
(***************************************************************************)
LEMMA Alike ==
  ASSUME NEW n \in Nat, NEW f, NEW g, f[0] = g[0],
         \A k \in 1 .. n : f[k - 1] = g[k - 1] => f[k] = g[k]
  PROVE  \A k \in 0 .. n : f[k] = g[k]
<1> DEFINE wrong == {k \in 0 .. n : f[k] # g[k]}
           less  == OpToRel(<, Nat)
<1>1. SUFFICES ASSUME wrong # {}
      PROVE  FALSE
  OBVIOUS
<1>2. IsWellFoundedOn(less, Nat) /\ \A x, y \in Nat : <<y, x>> \in less <=> y < x
  BY NatLessThanWellFounded DEF OpToRel
<1> HIDE DEF less
<1>3. PICK k \in wrong : \A y \in wrong : <<y, k>> \notin less
  <2>1. wrong \subseteq Nat
    OBVIOUS
  <2> HIDE DEF wrong
  <2> QED
    BY <1>1, <1>2, <2>1, WFMin
<1>4. k \in Nat /\ k <= n /\ k # 0
  OBVIOUS
<1>5. k - 1 \in 0 .. n /\ k \in 1 .. n /\ k - 1 < k /\ k - 1 \in Nat
  BY <1>4
<1>6. f[k - 1] = g[k - 1]
  BY <1>2, <1>3, <1>4, <1>5
<1> QED
  BY <1>3, <1>5, <1>6

(***************************************************************************)
(* memcpy.  The state when k bytes have been copied.                       *)
(***************************************************************************)
Copied(d, s, l, k) ==
  [mem |-> [a \in 0 .. s + l + 8 |-> IF a \in d .. d + k - 1 THEN s + (a - d) ELSE a],
   dst |-> d + k, src |-> s + k, len |-> l - k, written |-> d .. d + k - 1]

(* A state is what its fields are.                                         *)
LEMMA StateIs ==
  ASSUME NEW u, u = [mem |-> u.mem, dst |-> u.dst, src |-> u.src, len |-> u.len, written |-> u.written],
         NEW t \in [mem : {u.mem}, dst : {u.dst}, src : {u.src}, len : {u.len}, written : {u.written}]
  PROVE  t = u
OBVIOUS

(* A step that copies n bytes when k have been copied.                     *)
LEMMA CopyMore ==
  ASSUME NEW d \in Nat, NEW s \in Nat, NEW l \in Nat, d + l <= s,
         NEW k \in Nat, NEW n \in Nat, k + n <= l
  PROVE  Mem!Copy(Copied(d, s, l, k), n) = Copied(d, s, l, k + n)
<1> DEFINE t == Copied(d, s, l, k)
           u == Copied(d, s, l, k + n)
<1>1. /\ t.dst = d + k /\ t.src = s + k /\ t.len = l - k /\ t.written = d .. d + k - 1
      /\ DOMAIN t.mem = 0 .. s + l + 8
      /\ \A a \in 0 .. s + l + 8 : t.mem[a] = IF a \in d .. d + k - 1 THEN s + (a - d) ELSE a
  BY DEF Copied
<1>2. [a \in DOMAIN t.mem |-> IF a \in t.dst .. t.dst + n - 1 THEN t.mem[t.src + (a - t.dst)] ELSE t.mem[a]]
      = u.mem
  <2>1. ASSUME NEW a \in 0 .. s + l + 8
        PROVE  (IF a \in t.dst .. t.dst + n - 1 THEN t.mem[t.src + (a - t.dst)] ELSE t.mem[a])
               = IF a \in d .. d + (k + n) - 1 THEN s + (a - d) ELSE a
    <3> HIDE DEF t
    <3>1. CASE a \in d + k .. (d + k) + n - 1
      <4>1. /\ (s + k) + (a - (d + k)) = s + (a - d) /\ s + (a - d) \in 0 .. s + l + 8
            /\ s + (a - d) \notin d .. d + k - 1 /\ a \in d .. d + (k + n) - 1
        BY <3>1
      <4> QED
        BY <1>1, <3>1, <4>1
    <3>2. CASE a \notin d + k .. (d + k) + n - 1
      <4>1. a \in d .. d + k - 1 <=> a \in d .. d + (k + n) - 1
        BY <3>2
      <4> QED
        BY <1>1, <3>2, <4>1
    <3> QED
      BY <3>1, <3>2
  <2> HIDE DEF t
  <2> QED
    BY <1>1, <2>1 DEF Copied
<1>3. t.written \union (t.dst .. t.dst + n - 1) = u.written
  BY DEF Copied
<1>4. t.dst + n = u.dst /\ t.src + n = u.src /\ t.len - n = u.len
  BY DEF Copied
<1>5. /\ t = [mem |-> t.mem, dst |-> t.dst, src |-> t.src, len |-> t.len, written |-> t.written]
      /\ u = [mem |-> u.mem, dst |-> u.dst, src |-> u.src, len |-> u.len, written |-> u.written]
  BY DEF Copied
<1> HIDE DEF t, u
<1>6. [[t EXCEPT !.mem = u.mem, !.written = u.written]
          EXCEPT !.dst = u.dst, !.src = u.src, !.len = u.len]
      \in [mem : {u.mem}, dst : {u.dst}, src : {u.src}, len : {u.len}, written : {u.written}]
  <2>1. ASSUME NEW x1, NEW x2, NEW x3, NEW x4, NEW x5
        PROVE  [[t EXCEPT !.mem = x1, !.written = x5] EXCEPT !.dst = x2, !.src = x3, !.len = x4]
               \in [mem : {x1}, dst : {x2}, src : {x3}, len : {x4}, written : {x5}]
    BY <1>5
  <2> QED
    BY <2>1
<1>7. Mem!Copy(t, n) = [[t EXCEPT !.mem = u.mem, !.written = u.written]
                          EXCEPT !.dst = u.dst, !.src = u.src, !.len = u.len]
  BY <1>2, <1>3, <1>4 DEF Mem!Copy, Mem!Advance
<1> HIDE DEF t
<1>8. Mem!Copy(t, n) = u
  BY <1>5, <1>6, <1>7, StateIs
<1> QED
  BY <1>8 DEF t, u

(* A loop that copies n bytes a turn, from x on.                           *)
Turns(f, x, count, n) ==
  f = [i \in 0 .. count |-> IF i = 0 THEN x ELSE Mem!Copy(f[i - 1], n)]

Runs(x, count, n) == \E f : Turns(f, x, count, n)

LEMMA TurnsAre ==
  ASSUME NEW f, NEW x, NEW count \in Nat, NEW n, Turns(f, x, count, n)
  PROVE  f[0] = x /\ \A i \in 1 .. count : f[i] = Mem!Copy(f[i - 1], n)
BY DEF Turns

(* The loop exists, and its last state is that of count * n more bytes.    *)
LEMMA LoopCopies ==
  ASSUME NEW d \in Nat, NEW s \in Nat, NEW l \in Nat, d + l <= s,
         NEW k \in Nat, NEW n \in Nat, NEW count \in Nat, k + count * n <= l
  PROVE  /\ Runs(Copied(d, s, l, k), count, n)
         /\ \A f : Turns(f, Copied(d, s, l, k), count, n)
                   => f[count] = Copied(d, s, l, k + count * n)
<1> DEFINE g == [i \in 0 .. count |-> Copied(d, s, l, k + i * n)]
           x == Copied(d, s, l, k)
<1>1. ASSUME NEW i \in 1 .. count
      PROVE  Mem!Copy(Copied(d, s, l, k + (i - 1) * n), n) = Copied(d, s, l, k + i * n)
  <2>1. /\ k + (i - 1) * n \in Nat /\ (k + (i - 1) * n) + n <= l
        /\ (k + (i - 1) * n) + n = k + i * n
    <3>1. i * n <= count * n /\ (i - 1) * n \in Nat /\ (i - 1) * n + n = i * n
      OBVIOUS
    <3> QED
      BY <3>1
  <2> QED
    BY <2>1, CopyMore
<1>2. g[0] = x /\ g[count] = Copied(d, s, l, k + count * n)
  OBVIOUS
<1>3. \A i \in 1 .. count : g[i] = Mem!Copy(g[i - 1], n)
  <2>1. ASSUME NEW i \in 1 .. count
        PROVE  g[i] = Mem!Copy(g[i - 1], n)
    <3>1. i - 1 \in 0 .. count /\ i \in 0 .. count
      OBVIOUS
    <3> QED
      BY <1>1, <3>1
  <2> QED
    BY <2>1
<1>4. DOMAIN g = 0 .. count /\ g = [i \in 0 .. count |-> g[i]]
  OBVIOUS
<1> HIDE DEF g, x
<1>5. Turns(g, x, count, n)
  <2>1. \A i \in 0 .. count : g[i] = IF i = 0 THEN x ELSE Mem!Copy(g[i - 1], n)
    <3>1. \A i \in 0 .. count : i = 0 \/ i \in 1 .. count
      OBVIOUS
    <3> QED
      BY <1>2, <1>3, <3>1
  <2> QED
    BY <1>4, <2>1 DEF Turns
<1>6. ASSUME NEW f, Turns(f, x, count, n)
      PROVE  f[count] = g[count]
  <2>1. f[0] = x /\ \A i \in 1 .. count : f[i] = Mem!Copy(f[i - 1], n)
    BY <1>6, TurnsAre
  <2>2. \A i \in 1 .. count : f[i - 1] = g[i - 1] => f[i] = g[i]
    BY <1>3, <2>1
  <2>3. f[0] = g[0]
    BY <1>2, <2>1
  <2>4. \A i \in 0 .. count : f[i] = g[i]
    BY <2>2, <2>3, Alike
  <2> QED
    BY <2>4
<1> QED
  BY <1>2, <1>5, <1>6 DEF x, Runs

(* CopyUnits is such a loop of units.                                      *)
LEMMA CopyUnitsCopies ==
  ASSUME NEW d \in Nat, NEW s \in Nat, NEW l \in Nat, d + l <= s,
         NEW n \in Nat, n = job.nbytes,
         NEW k \in Nat, NEW count \in Nat, k + count * n <= l
  PROVE  Mem!CopyUnits(Copied(d, s, l, k), count) = Copied(d, s, l, k + count * n)
<1> DEFINE x == Copied(d, s, l, k)
           after == CHOOSE f : Turns(f, x, count, n)
<1>0. /\ Runs(x, count, n)
      /\ \A f : Turns(f, x, count, n) => f[count] = Copied(d, s, l, k + count * n)
  <2>1. /\ d \in Nat /\ s \in Nat /\ l \in Nat /\ d + l <= s
        /\ k \in Nat /\ n \in Nat /\ count \in Nat /\ k + count * n <= l
    OBVIOUS
  <2> QED
    BY ONLY <2>1, LoopCopies
<1> HIDE DEF x
<1>1. after[count] = Copied(d, s, l, k + count * n)
  BY <1>0 DEF Runs
<1>2. Mem!CopyUnits(x, count) = after[count]
  BY DEF Mem!CopyUnits, Turns
<1> QED
  BY <1>1, <1>2 DEF x

(* CopyBytes is such a loop of bytes, to the end.                          *)
LEMMA CopyBytesCopies ==
  ASSUME NEW d \in Nat, NEW s \in Nat, NEW l \in Nat, d + l <= s, NEW k \in Nat, k <= l
  PROVE  Mem!CopyBytes(Copied(d, s, l, k)) = Copied(d, s, l, l)
<1> DEFINE x == Copied(d, s, l, k)
           after == CHOOSE f : Turns(f, x, x.len, 1)
<1>1. x.len = l - k /\ l - k \in Nat /\ k + (l - k) * 1 = l
  BY DEF Copied
<1>0. /\ Runs(x, l - k, 1)
      /\ \A f : Turns(f, x, l - k, 1) => f[l - k] = Copied(d, s, l, k + (l - k) * 1)
  <2>1. k + (l - k) * 1 <= l /\ 1 \in Nat
    BY <1>1
  <2> QED
    BY <1>1, <2>1, LoopCopies
<1> HIDE DEF x
<1>2. after[x.len] = Copied(d, s, l, l)
  BY <1>0, <1>1 DEF Runs
<1>3. Mem!CopyBytes(x) = after[x.len]
  BY Zenon DEF Mem!CopyBytes, Turns
<1> QED
  BY <1>2, <1>3 DEF x

(* What fits in whole groups of c units of n bytes.                        *)
LEMMA Quotient ==
  ASSUME NEW r \in Nat, NEW u \in Nat \ {0}
  PROVE  r \div u \in Nat /\ (r \div u) * u <= r /\ r - (r \div u) * u < u
<1>1. r \div u \in Int /\ r = (r \div u) * u + (r % u) /\ r % u \in 0 .. u - 1
  BY Division
<1>2. r \div u \in Nat
  BY <1>1
<1> QED
  BY <1>1, <1>2

LEMMA WholeUnits ==
  ASSUME NEW r \in Nat, NEW n \in Nat \ {0}, NEW c \in Nat \ {0}
  PROVE  /\ c * (r \div (c * n)) \in Nat
         /\ (c * (r \div (c * n))) * n <= r
         /\ r - (c * (r \div (c * n))) * n < c * n
<1> DEFINE u == c * n
           q == r \div u
<1>1. u \in Nat \ {0}
  OBVIOUS
<1> HIDE DEF u
<1>2. q \in Nat /\ q * u <= r /\ r - q * u < u
  BY <1>1, Quotient
<1> HIDE DEF q
<1>3. (c * q) * n = q * (c * n) /\ c * q \in Nat
  BY <1>2
<1>4. c * q \in Nat /\ (c * q) * n <= r /\ r - (c * q) * n < c * n
  BY <1>2, <1>3 DEF u
<1> QED
  BY <1>4 DEF q, u

(* When memcpy is done: the bytes are those of src, and it has written     *)
(* them and perhaps the unit of the last byte.                             *)
LastUnit(d, s, l, n, t) ==
  \E k \in Nat : /\ k < l /\ l < k + n /\ (d + k) % n = 0
                 /\ l >= n /\ d % n = s % n
                 /\ t.written = (d .. d + l - 1) \union (d + k .. d + k + n - 1)
Finished(d, s, l, n, t) ==
  /\ t.mem = Copied(d, s, l, l).mem
  /\ t.written = (d .. d + l - 1) \/ LastUnit(d, s, l, n, t)

(* The masked unit at the end, when less than a unit is left.              *)
LEMMA MaskedFinishes ==
  ASSUME NEW d \in Nat, NEW s \in Nat, NEW l \in Nat, d + l <= s, NEW n \in {4, 8}, n = job.nbytes,
         NEW k \in Nat, k <= l, l < k + n, (d + k) % n = 0, l >= n, d % n = s % n
  PROVE  Finished(d, s, l, n, Mem!CopyMasked(Copied(d, s, l, k)))
<1> DEFINE x == Copied(d, s, l, k)
           y == Copied(d, s, l, l)
<1>1. x.len = l - k /\ x.dst = d + k /\ x.written = d .. d + k - 1 /\ y.written = d .. d + l - 1
  BY DEF Copied
<1>2. CASE k = l
  <2>1. Mem!CopyMasked(x) = y
    BY <1>1, <1>2 DEF Mem!CopyMasked
  <2> QED
    BY <1>1, <2>1 DEF Finished
<1>3. CASE k # l
  <2>1. Mem!Copy(x, l - k) = y
    <3>1. l - k \in Nat /\ k + (l - k) <= l /\ k + (l - k) = l
      OBVIOUS
    <3> QED
      BY <3>1, CopyMore
  <2> HIDE DEF x
  <2>2. Mem!CopyMasked(x) = [y EXCEPT !.written = x.written \union (d + k .. d + k + n - 1)]
    <3>1. x.len # 0
      BY <1>1, <1>3
    <3>2. Mem!CopyMasked(x) = [Mem!Copy(x, x.len) EXCEPT
                                 !.written = x.written \union (x.dst .. x.dst + n - 1)]
      BY <3>1, Zenon DEF Mem!CopyMasked
    <3> QED
      BY <1>1, <2>1, <3>2, Zenon
  <2>3. Mem!CopyMasked(x).mem = y.mem
        /\ Mem!CopyMasked(x).written = (d .. d + k - 1) \union (d + k .. d + k + n - 1)
    BY <1>1, <2>2 DEF Copied
  <2>4. (d .. d + k - 1) \union (d + k .. d + k + n - 1)
        = (d .. d + l - 1) \union (d + k .. d + k + n - 1)
    OBVIOUS
  <2> HIDE DEF y
  <2>5. k < l
    BY <1>3
  <2> QED
    BY <2>3, <2>4, <2>5 DEF Finished, LastUnit, x, y
<1> QED
  BY <1>2, <1>3

(* Whole units later an address is aligned as before.                      *)
LEMMA AlignedOn ==
  ASSUME NEW n \in {4, 8}, NEW x \in Nat, NEW m \in Nat
  PROVE  (x + m * n) % n = x % n
<1>1. CASE n = 4
  BY <1>1
<1>2. CASE n = 8
  BY <1>2
<1> QED
  BY <1>1, <1>2

(* both_aligned from a unit's boundary on.                                 *)
LEMMA BothAlignedFinishes ==
  ASSUME NEW d \in Nat, NEW s \in Nat, NEW l \in Nat, d + l <= s, NEW n \in {4, 8}, n = job.nbytes,
         NEW k \in Nat, k <= l, (d + k) % n = 0, l >= n, d % n = s % n
  PROVE  Finished(d, s, l, n, Mem!both_aligned(Copied(d, s, l, k)))
<1>1. PICK m \in Nat : m = 8 * ((l - k) \div (8 * n)) /\ m * n <= l - k
  <2>1. l - k \in Nat /\ n \in Nat \ {0} /\ 8 \in Nat \ {0}
    OBVIOUS
  <2> QED
    BY <2>1, WholeUnits
<1> DEFINE k1 == k + m * n
<1>2. /\ k1 \in Nat /\ k1 <= l /\ (d + k1) % n = 0
      /\ Mem!CopyUnits(Copied(d, s, l, k), m) = Copied(d, s, l, k1)
  <2>1. k1 \in Nat /\ k1 <= l
    BY <1>1
  <2>2. (d + k1) % n = 0
    BY AlignedOn
  <2>3. Mem!CopyUnits(Copied(d, s, l, k), m) = Copied(d, s, l, k1)
    <3>1. /\ d \in Nat /\ s \in Nat /\ l \in Nat /\ d + l <= s /\ n \in Nat /\ n = job.nbytes
          /\ k \in Nat /\ m \in Nat /\ k + m * n <= l
      BY <1>1, <2>1
    <3> QED
      BY ONLY <3>1, CopyUnitsCopies
  <2> QED
    BY <2>1, <2>2, <2>3
<1> DEFINE four == IF l - k1 >= 4 * n THEN 4 ELSE 0
           k2 == k1 + four * n
<1> HIDE DEF k1
<1>3. /\ k2 \in Nat /\ k2 <= l /\ (d + k2) % n = 0
      /\ Mem!CopyFour(Copied(d, s, l, k1)) = Copied(d, s, l, k2)
  <2>1. four \in Nat /\ four * n <= l - k1
    BY <1>2
  <2> HIDE DEF four
  <2>2. k2 \in Nat /\ k2 <= l /\ (d + k2) % n = 0
    <3>1. d + k1 \in Nat /\ (d + k1) + four * n = d + k2 /\ k2 \in Nat /\ k2 <= l
      <4>1. ASSUME NEW fn \in Nat, fn <= l - k1
            PROVE  d + k1 \in Nat /\ (d + k1) + fn = d + (k1 + fn) /\ k1 + fn \in Nat /\ k1 + fn <= l
        BY <1>2, <4>1
      <4>2. four * n \in Nat
        BY <2>1
      <4> QED
        BY <2>1, <4>1, <4>2
    <3>2. ((d + k1) + four * n) % n = (d + k1) % n
      BY <2>1, <3>1, AlignedOn
    <3> QED
      BY <1>2, <3>1, <3>2
  <2>3. Copied(d, s, l, k1).len = l - k1
    BY DEF Copied
  <2>4. Mem!CopyUnits(Copied(d, s, l, k1), four) = Copied(d, s, l, k2)
    <3>1. /\ d \in Nat /\ s \in Nat /\ l \in Nat /\ d + l <= s /\ n \in Nat /\ n = job.nbytes
          /\ k1 \in Nat /\ four \in Nat /\ k1 + four * n <= l
      BY <1>2, <2>1, <2>2
    <3> QED
      BY ONLY <3>1, CopyUnitsCopies
  <2>5. ~(l - k1 >= 4 * n) => k2 = k1
    BY <1>2 DEF four
  <2>6. l - k1 >= 4 * n => four = 4
    BY DEF four
  <2> HIDE DEF k2
  <2> QED
    BY <2>2, <2>3, <2>4, <2>5, <2>6 DEF Mem!CopyFour
<1> HIDE DEF k2
<1>4. PICK r \in Nat : r = (l - k2) \div n /\ r * n <= l - k2 /\ (l - k2) - r * n < n
  <2>1. l - k2 \in Nat /\ n \in Nat \ {0}
    BY <1>3
  <2> QED
    BY <2>1, Quotient
<1> DEFINE k3 == k2 + r * n
<1>5. /\ k3 \in Nat /\ k3 <= l /\ l < k3 + n /\ (d + k3) % n = 0
      /\ Mem!CopyUnits(Copied(d, s, l, k2), r) = Copied(d, s, l, k3)
  <2>1. k3 \in Nat /\ k3 <= l /\ l < k3 + n
    BY <1>3, <1>4
  <2>2. (d + k3) % n = 0
    BY <1>3, AlignedOn
  <2>3. Mem!CopyUnits(Copied(d, s, l, k2), r) = Copied(d, s, l, k2 + r * n)
    <3>1. /\ d \in Nat /\ s \in Nat /\ l \in Nat /\ d + l <= s /\ n \in Nat /\ n = job.nbytes
          /\ k2 \in Nat /\ r \in Nat /\ k2 + r * n <= l
      BY <1>3, <1>4, <2>1
    <3> QED
      BY ONLY <3>1, CopyUnitsCopies
  <2> QED
    BY <2>1, <2>2, <2>3
<1> HIDE DEF k3
<1>6. Copied(d, s, l, k).len = l - k /\ Copied(d, s, l, k2).len = l - k2
  BY DEF Copied
<1>7. Mem!both_aligned(Copied(d, s, l, k)) = Mem!CopyMasked(Copied(d, s, l, k3))
  BY <1>1, <1>2, <1>3, <1>4, <1>5, <1>6 DEF Mem!both_aligned
<1> QED
  <2>1. /\ d \in Nat /\ s \in Nat /\ l \in Nat /\ d + l <= s /\ n \in {4, 8} /\ n = job.nbytes
        /\ k3 \in Nat /\ k3 <= l /\ l < k3 + n /\ (d + k3) % n = 0 /\ l >= n /\ d % n = s % n
    BY <1>5, Zenon
  <2>2. Finished(d, s, l, n, Mem!CopyMasked(Copied(d, s, l, k3)))
    BY ONLY <2>1, MaskedFinishes
  <2> QED
    BY ONLY <1>7, <2>2

(* src_unaligned_dst_aligned writes the buffer and nothing beside it.      *)
LEMMA SrcUnalignedCopies ==
  ASSUME NEW d \in Nat, NEW s \in Nat, NEW l \in Nat, d + l <= s, NEW n \in {4, 8}, n = job.nbytes,
         NEW k \in Nat, k <= l
  PROVE  Mem!src_unaligned_dst_aligned(Copied(d, s, l, k)) = Copied(d, s, l, l)
<1>1. PICK m \in Nat : m = 4 * ((l - k) \div (4 * n)) /\ m * n <= l - k
  <2>1. l - k \in Nat /\ n \in Nat \ {0} /\ 4 \in Nat \ {0}
    OBVIOUS
  <2> QED
    BY <2>1, WholeUnits
<1> DEFINE k1 == k + m * n
<1>2. k1 \in Nat /\ k1 <= l /\ Mem!CopyUnits(Copied(d, s, l, k), m) = Copied(d, s, l, k1)
  <2>1. k1 \in Nat /\ k1 <= l
    BY <1>1
  <2>2. Mem!CopyUnits(Copied(d, s, l, k), m) = Copied(d, s, l, k1)
    <3>1. /\ d \in Nat /\ s \in Nat /\ l \in Nat /\ d + l <= s /\ n \in Nat /\ n = job.nbytes
          /\ k \in Nat /\ m \in Nat /\ k + m * n <= l
      BY <1>1, <2>1
    <3> QED
      BY ONLY <3>1, CopyUnitsCopies
  <2> QED
    BY <2>1, <2>2
<1> HIDE DEF k1
<1>3. PICK r \in Nat : r = (l - k1) \div n /\ r * n <= l - k1
  <2>1. l - k1 \in Nat /\ n \in Nat \ {0}
    BY <1>2
  <2> QED
    BY <2>1, Quotient
<1> DEFINE k2 == k1 + r * n
<1>4. k2 \in Nat /\ k2 <= l /\ Mem!CopyUnits(Copied(d, s, l, k1), r) = Copied(d, s, l, k2)
  <2>1. k2 \in Nat /\ k2 <= l
    BY <1>2, <1>3
  <2>2. Mem!CopyUnits(Copied(d, s, l, k1), r) = Copied(d, s, l, k2)
    <3>1. /\ d \in Nat /\ s \in Nat /\ l \in Nat /\ d + l <= s /\ n \in Nat /\ n = job.nbytes
          /\ k1 \in Nat /\ r \in Nat /\ k1 + r * n <= l
      BY <1>2, <1>3, <2>1
    <3> QED
      BY ONLY <3>1, CopyUnitsCopies
  <2> QED
    BY <2>1, <2>2
<1> HIDE DEF k2
<1>5. Mem!CopyBytes(Copied(d, s, l, k2)) = Copied(d, s, l, l)
  BY <1>4, CopyBytesCopies
<1>6. Copied(d, s, l, k).len = l - k /\ Copied(d, s, l, k1).len = l - k1
  BY DEF Copied
<1> QED
  BY <1>1, <1>2, <1>3, <1>4, <1>5, <1>6 DEF Mem!src_unaligned_dst_aligned

LEMMA CopiedFinishes ==
  ASSUME NEW d \in Nat, NEW s \in Nat, NEW l \in Nat, NEW n
  PROVE  Finished(d, s, l, n, Copied(d, s, l, l))
BY DEF Finished, Copied

(* dst_unaligned comes to a boundary of dst first.                         *)
LEMMA DstUnalignedFinishes ==
  ASSUME NEW d \in Nat, NEW s \in Nat, NEW l \in Nat, d + l <= s, NEW n \in {4, 8}, n = job.nbytes,
         l >= n
  PROVE  Finished(d, s, l, n, Mem!dst_unaligned(Copied(d, s, l, 0)))
<1> DEFINE k == n - (d % n)
<1>1. /\ k \in Nat /\ k <= l /\ 0 + k = k /\ (d + k) % n = 0
      /\ (s + k) % n = 0 <=> s % n = d % n
  <2>1. CASE n = 4
    BY <2>1
  <2>2. CASE n = 8
    BY <2>2
  <2> QED
    BY <2>1, <2>2
<1>2. Mem!Copy(Copied(d, s, l, 0), k) = Copied(d, s, l, k)
  <2> HIDE DEF k
  <2>1. Mem!Copy(Copied(d, s, l, 0), k) = Copied(d, s, l, 0 + k)
    BY <1>1, CopyMore
  <2> QED
    BY <1>1, <2>1
<1>3. Copied(d, s, l, 0).dst % n = d % n /\ Copied(d, s, l, 0).src % n = s % n
  BY DEF Copied
<1>4. s % n = d % n => Finished(d, s, l, n, Mem!both_aligned(Copied(d, s, l, k)))
  <2> HIDE DEF k
  <2> QED
    BY <1>1, BothAlignedFinishes
<1>5. Finished(d, s, l, n, Mem!src_unaligned_dst_aligned(Copied(d, s, l, k)))
  <2> HIDE DEF k
  <2> QED
    BY <1>1, SrcUnalignedCopies, CopiedFinishes
<1> QED
  BY <1>2, <1>3, <1>4, <1>5 DEF Mem!dst_unaligned

(* The cases of memcpy.                                                    *)
LEMMA MemcpyFinishes ==
  ASSUME NEW d \in Nat, NEW s \in Nat, NEW l \in Nat, d + l <= s, NEW n \in {4, 8}, n = job.nbytes
  PROVE  Finished(d, s, l, n, Mem!memcpy(Memory(s + l + 8), d, s, l))
<1> DEFINE x == Copied(d, s, l, 0)
<1>1. x = [mem |-> Memory(s + l + 8), dst |-> d, src |-> s, len |-> l, written |-> {}]
  <2>1. x.mem = Memory(s + l + 8)
    BY DEF Copied, Memory
  <2>2. x.dst = d /\ x.src = s /\ x.len = l /\ x.written = {}
    BY DEF Copied
  <2>3. x = [mem |-> x.mem, dst |-> x.dst, src |-> x.src, len |-> x.len, written |-> x.written]
    BY DEF Copied
  <2> HIDE DEF x
  <2> QED
    BY <2>1, <2>2, <2>3
<1>2. Mem!CopyBytes(x) = Copied(d, s, l, l) /\ Mem!src_unaligned_dst_aligned(x) = Copied(d, s, l, l)
  BY CopyBytesCopies, SrcUnalignedCopies
<1>3. l >= n => Finished(d, s, l, n, Mem!dst_unaligned(x))
  BY DstUnalignedFinishes
<1>4. l >= n /\ d % n = 0 /\ s % n = 0 => Finished(d, s, l, n, Mem!both_aligned(x))
  <2>1. d + 0 = d
    OBVIOUS
  <2> QED
    BY <2>1, BothAlignedFinishes
<1>5. Finished(d, s, l, n, Copied(d, s, l, l))
  BY CopiedFinishes
<1> HIDE DEF x
<1> QED
  BY <1>1, <1>2, <1>3, <1>4, <1>5 DEF Mem!memcpy

(* What MemcpyCopies says of a state r. *)
Right(d, s, l, n, r) ==
  \A beside \in {r.written \ (d .. d + l - 1)} :
     /\ \A a \in DOMAIN r.mem : r.mem[a] = IF a \in d .. d + l - 1 THEN s + (a - d) ELSE a
     /\ d .. d + l - 1 \subseteq r.written
     /\ beside # {} => d % n = s % n /\ l >= n
     /\ \A a \in beside : a > d + l - 1 /\ a \div n = (d + l - 1) \div n

(* Such a state is right: the unit of the last byte is the one beside it.  *)
LEMMA FinishedIsRight ==
  ASSUME NEW d \in Nat, NEW s \in Nat, NEW l \in Nat, d + l <= s, NEW n \in {4, 8},
         NEW r, Finished(d, s, l, n, r)
  PROVE  Right(d, s, l, n, r)
<1> DEFINE buffer == d .. d + l - 1
<1>1. \A a \in DOMAIN r.mem : r.mem[a] = IF a \in buffer THEN s + (a - d) ELSE a
  BY DEF Finished, Copied
<1>2. CASE r.written = buffer
  BY <1>1, <1>2 DEF Right
<1>3. CASE LastUnit(d, s, l, n, r)
  <2>1. PICK k \in Nat : /\ k < l /\ l < k + n /\ (d + k) % n = 0
                         /\ l >= n /\ d % n = s % n
                         /\ r.written = (d .. d + l - 1) \union (d + k .. d + k + n - 1)
    BY <1>3 DEF LastUnit
  <2>2. ASSUME NEW a \in d + k .. d + k + n - 1
        PROVE  a \div n = (d + k) \div n
    <3>1. CASE n = 4
      BY <2>1, <3>1
    <3>2. CASE n = 8
      BY <2>1, <3>2
    <3> QED
      BY <3>1, <3>2
  <2>3. d + l - 1 \in d + k .. d + k + n - 1
    BY <2>1
  <2>4. ASSUME NEW a \in r.written \ buffer
        PROVE  a > d + l - 1 /\ a \div n = (d + l - 1) \div n
    <3>1. a \in d + k .. d + k + n - 1 /\ a > d + l - 1
      BY <2>1, <2>4
    <3> QED
      BY <2>2, <2>3, <3>1
  <2> QED
    BY <1>1, <2>1, <2>4 DEF Right
<1> QED
  BY <1>2, <1>3 DEF Finished

(* memcpy, with a register of four or eight bytes, of any length between   *)
(* buffers that do not overlap, src behind dst, wherever they begin        *)
(* (memcpy.S): every path through the file, the loops of units and of      *)
(* bytes and the masked unit at the end, copies the buffer.                *)
THEOREM MemcpyIsRight ==
  ASSUME job.dst \in Nat, job.src \in Nat, job.len \in Nat, job.dst + job.len <= job.src,
         job.nbytes \in {4, 8}
  PROVE  MemcpyCopies
<1> DEFINE r(d, s, l) == Mem!memcpy(Memory(s + l + 8), d, s, l)
<1>1. PICK d \in Nat, s \in Nat, l \in Nat, n \in {4, 8} :
        job.dst = d /\ job.src = s /\ job.len = l /\ n = job.nbytes /\ d + l <= s
  OBVIOUS
<1>2. Finished(d, s, l, n, r(d, s, l))
  BY <1>1, MemcpyFinishes, Zenon
<1>3. MemcpyCopies <=> (Called("memcpy") => Right(d, s, l, n, r(d, s, l)))
  BY <1>1, Zenon DEF MemcpyCopies, Right, r
<1> HIDE DEF r
<1> QED
  BY <1>1, <1>2, <1>3, FinishedIsRight

(***************************************************************************)
(* memset.  The state when k bytes have been set, of a register x.         *)
(***************************************************************************)
Filled(d, l, v, x, k) ==
  [mem |-> [a \in 0 .. d + l + 8 |-> IF a \in d .. d + k - 1 THEN v ELSE a],
   dst |-> d + k, len |-> l - k, written |-> d .. d + k - 1, val |-> x]

(* Every byte of the register is v. *)
AllBytes(x, v, n) == \A e \in 0 .. n - 1 : (x \div Mem!Weight(e)) % Byte = v

Put(t, mem, dst, len, written) ==
  [t EXCEPT !.dst = dst, !.len = len, !.mem = mem, !.written = written]

(* A state is what its fields are.                                         *)
LEMMA PutIs ==
  ASSUME NEW y1, NEW y2, NEW y3, NEW y4, NEW x, NEW x1, NEW x2, NEW x3, NEW x4,
         NEW t, t = [mem |-> y1, dst |-> y2, len |-> y3, written |-> y4, val |-> x]
  PROVE  Put(t, x1, x2, x3, x4) = [mem |-> x1, dst |-> x2, len |-> x3, written |-> x4, val |-> x]
<1>1. Put(t, x1, x2, x3, x4)
      \in [mem : {x1}, dst : {x2}, len : {x3}, written : {x4}, val : {x}]
  BY DEF Put
<1> QED
  BY <1>1

(* A step that sets m bytes when k have been set.                          *)
LEMMA FillMore ==
  ASSUME NEW d \in Nat, NEW l \in Nat, NEW v, NEW x, NEW n \in Nat \ {0}, n = job.nbytes,
         AllBytes(x, v, n),
         NEW k \in Nat, NEW m \in Nat, k + m <= l, m <= n, NEW lowest \in BOOLEAN
  PROVE  Mem!Fill(Filled(d, l, v, x, k), m, lowest) = Filled(d, l, v, x, k + m)
<1> DEFINE t == Filled(d, l, v, x, k)
           u == Filled(d, l, v, x, k + m)
           value(a) == (t.val \div Mem!Weight(IF lowest THEN 0 ELSE n - 1 - (a - t.dst))) % Byte
<1>1. /\ t.dst = d + k /\ t.len = l - k /\ t.written = d .. d + k - 1 /\ t.val = x
      /\ DOMAIN t.mem = 0 .. d + l + 8
      /\ \A a \in 0 .. d + l + 8 : t.mem[a] = IF a \in d .. d + k - 1 THEN v ELSE a
  BY DEF Filled
<1>2. [a \in DOMAIN t.mem |-> IF a \in t.dst .. t.dst + m - 1 THEN value(a) ELSE t.mem[a]] = u.mem
  <2>1. ASSUME NEW a \in 0 .. d + l + 8
        PROVE  (IF a \in t.dst .. t.dst + m - 1 THEN value(a) ELSE t.mem[a])
               = IF a \in d .. d + (k + m) - 1 THEN v ELSE a
    <3> HIDE DEF t
    <3>1. CASE a \in d + k .. (d + k) + m - 1
      <4>1. a \in d .. d + (k + m) - 1 /\ n - 1 - (a - (d + k)) \in 0 .. n - 1 /\ 0 \in 0 .. n - 1
        BY <3>1
      <4>2. value(a) = v
        BY <1>1, <4>1 DEF AllBytes
      <4> QED
        BY <1>1, <3>1, <4>1, <4>2
    <3>2. CASE a \notin d + k .. (d + k) + m - 1
      <4>1. a \in d .. d + k - 1 <=> a \in d .. d + (k + m) - 1
        BY <3>2
      <4> QED
        BY <1>1, <3>2, <4>1
    <3> QED
      BY <3>1, <3>2
  <2> HIDE DEF t, value
  <2> QED
    BY <1>1, <2>1 DEF Filled
<1>3. t.written \union (t.dst .. t.dst + m - 1) = u.written
  BY DEF Filled
<1>4. t.dst + m = u.dst /\ t.len - m = u.len /\ u.val = x
  BY DEF Filled
<1>5. /\ t = [mem |-> t.mem, dst |-> t.dst, len |-> t.len, written |-> t.written, val |-> x]
      /\ u = [mem |-> u.mem, dst |-> u.dst, len |-> u.len, written |-> u.written, val |-> x]
  BY DEF Filled
<1> HIDE DEF t, u
<1>6. Put(t, u.mem, u.dst, u.len, u.written) = u
  BY <1>5, PutIs
<1>7. Mem!Fill(t, m, lowest) = Put(t, u.mem, u.dst, u.len, u.written)
  BY <1>2, <1>3, <1>4 DEF Mem!Fill, value, Put
<1> QED
  BY <1>6, <1>7 DEF t, u

(* A loop that sets m bytes a turn, from y on.                             *)
Stores(f, y, count, m, lowest) ==
  f = [i \in 0 .. count |-> IF i = 0 THEN y ELSE Mem!Fill(f[i - 1], m, lowest)]
Stored(y, count, m, lowest) == \E f : Stores(f, y, count, m, lowest)
StoresUpTo(y, count, m, lowest, z) ==
  Stored(y, count, m, lowest) /\ \A f : Stores(f, y, count, m, lowest) => f[count] = z

(* The loop exists, and its last state is that of count * m more bytes.    *)
LEMMA LoopFills ==
  ASSUME NEW d \in Nat, NEW l \in Nat, NEW v, NEW x, NEW n \in Nat \ {0}, n = job.nbytes,
         AllBytes(x, v, n),
         NEW k \in Nat, NEW m \in Nat, m <= n, NEW count \in Nat, k + count * m <= l,
         NEW lowest \in BOOLEAN
  PROVE  StoresUpTo(Filled(d, l, v, x, k), count, m, lowest, Filled(d, l, v, x, k + count * m))
<1> DEFINE g == [i \in 0 .. count |-> Filled(d, l, v, x, k + i * m)]
           y == Filled(d, l, v, x, k)
<1>1. ASSUME NEW i \in 1 .. count
      PROVE  Mem!Fill(Filled(d, l, v, x, k + (i - 1) * m), m, lowest) = Filled(d, l, v, x, k + i * m)
  <2>1. /\ k + (i - 1) * m \in Nat /\ (k + (i - 1) * m) + m <= l
        /\ (k + (i - 1) * m) + m = k + i * m
    <3>1. i * m <= count * m /\ (i - 1) * m \in Nat /\ (i - 1) * m + m = i * m
      OBVIOUS
    <3> QED
      BY <3>1
  <2> QED
    BY <2>1, FillMore
<1>2. g[0] = y /\ g[count] = Filled(d, l, v, x, k + count * m)
  OBVIOUS
<1>3. \A i \in 1 .. count : g[i] = Mem!Fill(g[i - 1], m, lowest)
  <2>1. ASSUME NEW i \in 1 .. count
        PROVE  g[i] = Mem!Fill(g[i - 1], m, lowest)
    <3>1. i - 1 \in 0 .. count /\ i \in 0 .. count
      OBVIOUS
    <3> QED
      BY <1>1, <3>1
  <2> QED
    BY <2>1
<1>4. DOMAIN g = 0 .. count /\ g = [i \in 0 .. count |-> g[i]]
  OBVIOUS
<1> HIDE DEF g, y
<1>5. Stores(g, y, count, m, lowest)
  <2>1. \A i \in 0 .. count : g[i] = IF i = 0 THEN y ELSE Mem!Fill(g[i - 1], m, lowest)
    <3>1. \A i \in 0 .. count : i = 0 \/ i \in 1 .. count
      OBVIOUS
    <3> QED
      BY <1>2, <1>3, <3>1
  <2> QED
    BY <1>4, <2>1 DEF Stores
<1>6. ASSUME NEW f, Stores(f, y, count, m, lowest)
      PROVE  f[count] = g[count]
  <2>1. f[0] = y /\ \A i \in 1 .. count : f[i] = Mem!Fill(f[i - 1], m, lowest)
    BY <1>6 DEF Stores
  <2>2. \A i \in 1 .. count : f[i - 1] = g[i - 1] => f[i] = g[i]
    BY <1>3, <2>1
  <2>3. f[0] = g[0]
    BY <1>2, <2>1
  <2>4. \A i \in 0 .. count : f[i] = g[i]
    BY <2>2, <2>3, Alike
  <2> QED
    BY <2>4
<1> QED
  BY <1>2, <1>5, <1>6 DEF y, Stored, StoresUpTo

(* FillUnits is such a loop of units.                                      *)
LEMMA FillUnitsFills ==
  ASSUME NEW d \in Nat, NEW l \in Nat, NEW v, NEW x, NEW n \in Nat \ {0}, n = job.nbytes,
         AllBytes(x, v, n), NEW k \in Nat, NEW count \in Nat, k + count * n <= l
  PROVE  Mem!FillUnits(Filled(d, l, v, x, k), count) = Filled(d, l, v, x, k + count * n)
<1> DEFINE y == Filled(d, l, v, x, k)
<1>0. PICK lowest \in BOOLEAN : lowest = FALSE
  OBVIOUS
<1> DEFINE after == CHOOSE f : Stores(f, y, count, n, lowest)
<1>1. StoresUpTo(y, count, n, lowest, Filled(d, l, v, x, k + count * n))
  <2>1. /\ d \in Nat /\ l \in Nat /\ n \in Nat \ {0} /\ n = job.nbytes /\ AllBytes(x, v, n)
        /\ k \in Nat /\ n \in Nat /\ n <= n /\ count \in Nat /\ k + count * n <= l
        /\ lowest \in BOOLEAN
    OBVIOUS
  <2> QED
    BY ONLY <2>1, LoopFills
<1> HIDE DEF y
<1>2. after[count] = Filled(d, l, v, x, k + count * n)
  BY <1>1 DEF Stored, StoresUpTo
<1>3. Mem!FillUnits(y, count) = after[count]
  BY <1>0, Zenon DEF Mem!FillUnits, Stores
<1> QED
  BY <1>2, <1>3 DEF y

(* FillBytes is such a loop of bytes, to the end.                          *)
LEMMA FillBytesFills ==
  ASSUME NEW d \in Nat, NEW l \in Nat, NEW v, NEW x, NEW n \in Nat \ {0}, n = job.nbytes,
         AllBytes(x, v, n), NEW k \in Nat, k <= l
  PROVE  Mem!FillBytes(Filled(d, l, v, x, k)) = Filled(d, l, v, x, l)
<1> DEFINE y == Filled(d, l, v, x, k)
<1>0. PICK lowest \in BOOLEAN : lowest = TRUE
  OBVIOUS
<1> DEFINE after == CHOOSE f : Stores(f, y, y.len, 1, lowest)
<1>1. y.len = l - k /\ l - k \in Nat /\ k + (l - k) * 1 = l
  BY DEF Filled
<1>2. StoresUpTo(y, l - k, 1, lowest, Filled(d, l, v, x, k + (l - k) * 1))
  <2>1. k + (l - k) * 1 <= l /\ 1 \in Nat /\ 1 <= n
    BY <1>1
  <2> QED
    <3>1. /\ d \in Nat /\ l \in Nat /\ n \in Nat \ {0} /\ n = job.nbytes /\ AllBytes(x, v, n)
          /\ k \in Nat /\ 1 \in Nat /\ 1 <= n /\ l - k \in Nat /\ k + (l - k) * 1 <= l
          /\ lowest \in BOOLEAN
      BY <1>1, <2>1
    <3> QED
      BY ONLY <3>1, LoopFills
<1> HIDE DEF y
<1>3. after[y.len] = Filled(d, l, v, x, l)
  BY <1>1, <1>2 DEF Stored, StoresUpTo
<1>4. Mem!FillBytes(y) = after[y.len]
  BY <1>0, Zenon DEF Mem!FillBytes, Stores
<1> QED
  BY <1>3, <1>4 DEF y

(* aligned sets what is left.                                              *)
LEMMA AlignedFills ==
  ASSUME NEW d \in Nat, NEW l \in Nat, NEW v, NEW x, NEW n \in {4, 8}, n = job.nbytes,
         AllBytes(x, v, n), NEW k \in Nat, k <= l
  PROVE  Mem!aligned(Filled(d, l, v, x, k)) = Filled(d, l, v, x, l)
<1>0. n \in Nat \ {0}
  OBVIOUS
<1>1. PICK m \in Nat : m = 16 * ((l - k) \div (16 * n)) /\ m * n <= l - k
  <2>1. l - k \in Nat /\ n \in Nat \ {0} /\ 16 \in Nat \ {0}
    OBVIOUS
  <2> QED
    BY <2>1, WholeUnits
<1> DEFINE k1 == k + m * n
<1>2. k1 \in Nat /\ k1 <= l /\ Mem!FillUnits(Filled(d, l, v, x, k), m) = Filled(d, l, v, x, k1)
  <2>1. k1 \in Nat /\ k1 <= l
    BY <1>1
  <2> QED
    <3>1. /\ d \in Nat /\ l \in Nat /\ n \in Nat \ {0} /\ n = job.nbytes /\ AllBytes(x, v, n)
          /\ k \in Nat /\ m \in Nat /\ k + m * n <= l
      BY <1>0, <1>1, <2>1
    <3>2. Mem!FillUnits(Filled(d, l, v, x, k), m) = Filled(d, l, v, x, k1)
      BY ONLY <3>1, FillUnitsFills
    <3> QED
      BY <2>1, <3>2
<1> HIDE DEF k1
<1>3. PICK r \in Nat : r = (l - k1) \div n /\ r * n <= l - k1
  <2>1. l - k1 \in Nat /\ n \in Nat \ {0}
    BY <1>2
  <2> QED
    BY <2>1, Quotient
<1> DEFINE k2 == k1 + r * n
<1>4. k2 \in Nat /\ k2 <= l /\ Mem!FillUnits(Filled(d, l, v, x, k1), r) = Filled(d, l, v, x, k2)
  <2>1. k2 \in Nat /\ k2 <= l
    BY <1>2, <1>3
  <2> QED
    <3>1. /\ d \in Nat /\ l \in Nat /\ n \in Nat \ {0} /\ n = job.nbytes /\ AllBytes(x, v, n)
          /\ k1 \in Nat /\ r \in Nat /\ k1 + r * n <= l
      BY <1>0, <1>2, <1>3, <2>1
    <3>2. Mem!FillUnits(Filled(d, l, v, x, k1), r) = Filled(d, l, v, x, k2)
      BY ONLY <3>1, FillUnitsFills
    <3> QED
      BY <2>1, <3>2
<1> HIDE DEF k2
<1>5. Mem!FillBytes(Filled(d, l, v, x, k2)) = Filled(d, l, v, x, l)
  BY <1>0, <1>4, FillBytesFills
<1>6. Filled(d, l, v, x, k).len = l - k /\ Filled(d, l, v, x, k1).len = l - k1
  BY DEF Filled
<1> QED
  BY <1>1, <1>2, <1>3, <1>4, <1>5, <1>6 DEF Mem!aligned

(* The digits of a replicated byte, in base 8 and in base 256.             *)
LEMMA Digits8 ==
  ASSUME Byte = 8, NEW v \in 0 .. 7, NEW f, f = (v * 8 + v) * 8^2 + (v * 8 + v),
         NEW z, z = f * 8^4 + f
  PROVE  AllBytes(f, v, 4) /\ AllBytes(z, v, 8)
<1>1. /\ Mem!Weight(0) = 1 /\ Mem!Weight(1) = 8 /\ Mem!Weight(2) = 8^2
      /\ Mem!Weight(3) = 8^3 /\ Mem!Weight(4) = 8^4 /\ Mem!Weight(5) = 8 * 8^4
      /\ Mem!Weight(6) = 8^2 * 8^4 /\ Mem!Weight(7) = 8^3 * 8^4
  BY SMT DEF Mem!Weight
<1>2. /\ (f \div 1) % 8 = v /\ (f \div 8) % 8 = v /\ (f \div 8^2) % 8 = v
      /\ (f \div 8^3) % 8 = v /\ f \in 0 .. 8^4 - 1
  BY SMT
<1>3. /\ (z \div 1) % 8 = (f \div 1) % 8 /\ (z \div 8) % 8 = (f \div 8) % 8
      /\ (z \div 8^2) % 8 = (f \div 8^2) % 8 /\ (z \div 8^3) % 8 = (f \div 8^3) % 8
  BY <1>2, SMT
<1>4. /\ z \div 8^4 = f \div 1 /\ z \div (8 * 8^4) = f \div 8
      /\ z \div (8^2 * 8^4) = f \div 8^2 /\ z \div (8^3 * 8^4) = f \div 8^3
  BY <1>2, SMT
<1>5. /\ (f \div Mem!Weight(0)) % 8 = v /\ (f \div Mem!Weight(1)) % 8 = v
      /\ (f \div Mem!Weight(2)) % 8 = v /\ (f \div Mem!Weight(3)) % 8 = v
  BY <1>1, <1>2, Zenon
<1>6. /\ (z \div Mem!Weight(0)) % 8 = v /\ (z \div Mem!Weight(1)) % 8 = v
      /\ (z \div Mem!Weight(2)) % 8 = v /\ (z \div Mem!Weight(3)) % 8 = v
  BY <1>1, <1>2, <1>3, Zenon
<1>7. /\ (z \div Mem!Weight(4)) % 8 = v /\ (z \div Mem!Weight(5)) % 8 = v
      /\ (z \div Mem!Weight(6)) % 8 = v /\ (z \div Mem!Weight(7)) % 8 = v
  BY <1>1, <1>2, <1>4, Zenon
<1>8. /\ \A e \in 0 .. 3 : e \in {0, 1, 2, 3}
      /\ \A e \in 0 .. 7 : e \in {0, 1, 2, 3, 4, 5, 6, 7}
  BY SMT
<1>9. 4 - 1 = 3 /\ 8 - 1 = 7
  BY SMT
<1>10. /\ \A e \in 0 .. 3 : (f \div Mem!Weight(e)) % Byte = v
       /\ \A e \in 0 .. 7 : (z \div Mem!Weight(e)) % Byte = v
  BY <1>5, <1>6, <1>7, <1>8, Zenon
<1> QED
  BY <1>9, <1>10, Zenon DEF AllBytes

LEMMA Digits256 ==
  ASSUME Byte = 256, NEW v \in 0 .. 255, NEW f, f = (v * 256 + v) * 256^2 + (v * 256 + v),
         NEW z, z = f * 256^4 + f
  PROVE  AllBytes(f, v, 4) /\ AllBytes(z, v, 8)
<1>1. /\ Mem!Weight(0) = 1 /\ Mem!Weight(1) = 256 /\ Mem!Weight(2) = 256^2
      /\ Mem!Weight(3) = 256^3 /\ Mem!Weight(4) = 256^4 /\ Mem!Weight(5) = 256 * 256^4
      /\ Mem!Weight(6) = 256^2 * 256^4 /\ Mem!Weight(7) = 256^3 * 256^4
  BY SMT DEF Mem!Weight
<1>2. /\ (f \div 1) % 256 = v /\ (f \div 256) % 256 = v /\ (f \div 256^2) % 256 = v
      /\ (f \div 256^3) % 256 = v /\ f \in 0 .. 256^4 - 1
  BY SMT
<1>3. /\ (z \div 1) % 256 = (f \div 1) % 256 /\ (z \div 256) % 256 = (f \div 256) % 256
      /\ (z \div 256^2) % 256 = (f \div 256^2) % 256 /\ (z \div 256^3) % 256 = (f \div 256^3) % 256
  BY <1>2, SMT
<1>4. /\ z \div 256^4 = f \div 1 /\ z \div (256 * 256^4) = f \div 256
      /\ z \div (256^2 * 256^4) = f \div 256^2 /\ z \div (256^3 * 256^4) = f \div 256^3
  BY <1>2, SMT
<1>5. /\ (f \div Mem!Weight(0)) % 256 = v /\ (f \div Mem!Weight(1)) % 256 = v
      /\ (f \div Mem!Weight(2)) % 256 = v /\ (f \div Mem!Weight(3)) % 256 = v
  BY <1>1, <1>2, SMT
<1>6. /\ (z \div Mem!Weight(0)) % 256 = v /\ (z \div Mem!Weight(1)) % 256 = v
      /\ (z \div Mem!Weight(2)) % 256 = v /\ (z \div Mem!Weight(3)) % 256 = v
  BY <1>1, <1>2, <1>3, SMT
<1>7. /\ (z \div Mem!Weight(4)) % 256 = v /\ (z \div Mem!Weight(5)) % 256 = v
      /\ (z \div Mem!Weight(6)) % 256 = v /\ (z \div Mem!Weight(7)) % 256 = v
  BY <1>1, <1>2, <1>4, SMT
<1>8. /\ \A e \in 0 .. 3 : e \in {0, 1, 2, 3}
      /\ \A e \in 0 .. 7 : e \in {0, 1, 2, 3, 4, 5, 6, 7}
  BY SMT
<1>9. 4 - 1 = 3 /\ 8 - 1 = 7
  BY SMT
<1>10. /\ \A e \in 0 .. 3 : (f \div Mem!Weight(e)) % Byte = v
       /\ \A e \in 0 .. 7 : (z \div Mem!Weight(e)) % Byte = v
  BY <1>5, <1>6, <1>7, <1>8, SMT
<1> QED
  BY <1>9, <1>10, SMT DEF AllBytes

(* The register that memset makes of a byte holds it in each of its bytes. *)
LEMMA Replicated ==
  ASSUME NEW v \in 0 .. Byte - 1, NEW n \in {4, 8}, n = job.nbytes
  PROVE  AllBytes(IF v = 0 THEN 0 ELSE Mem!replicate_byte(v), v, n)
<1> DEFINE x == IF v = 0 THEN 0 ELSE Mem!replicate_byte(v)
<1>1. CASE Byte = 8
  <2> DEFINE f == (v * 8 + v) * 8^2 + (v * 8 + v)
             z == f * 8^4 + f
  <2>0. v \in 0 .. 7
    BY <1>1
  <2>1. AllBytes(f, v, 4) /\ AllBytes(z, v, 8)
    BY <1>1, <2>0, Digits8
  <2>2. x = IF n = 8 THEN z ELSE f
    <3>1. v = 0 => z = 0 /\ f = 0
      BY SMT
    <3>2. Mem!replicate_byte(v) = IF n = 8 THEN z ELSE f
      BY <1>1 DEF Mem!replicate_byte
    <3> QED
      BY <3>1, <3>2
  <2>5. (n = 8 => x = z) /\ (n = 4 => x = f)
    BY <2>2
  <2> HIDE DEF f, z
  <2>3. CASE n = 4
    BY <2>1, <2>5, <2>3, Zenon
  <2>4. CASE n = 8
    BY <2>1, <2>5, <2>4, Zenon
  <2> QED
    BY <2>3, <2>4
<1>2. CASE Byte = 256
  <2> DEFINE f == (v * 256 + v) * 256^2 + (v * 256 + v)
             z == f * 256^4 + f
  <2>0. v \in 0 .. 255
    BY <1>2
  <2>1. AllBytes(f, v, 4) /\ AllBytes(z, v, 8)
    BY <1>2, <2>0, Digits256
  <2>2. x = IF n = 8 THEN z ELSE f
    <3>1. v = 0 => z = 0 /\ f = 0
      BY SMT
    <3>2. Mem!replicate_byte(v) = IF n = 8 THEN z ELSE f
      BY <1>2 DEF Mem!replicate_byte
    <3> QED
      BY <3>1, <3>2
  <2>5. (n = 8 => x = z) /\ (n = 4 => x = f)
    BY <2>2
  <2> HIDE DEF f, z
  <2>3. CASE n = 4
    BY <2>1, <2>5, <2>3, Zenon
  <2>4. CASE n = 8
    BY <2>1, <2>5, <2>4, Zenon
  <2> QED
    BY <2>3, <2>4
<1> QED
  BY <1>1, <1>2, ByteAssumption

(* What memset leaves. *)
AllSet(d, l, v, r) ==
  /\ r.written = d .. d + l - 1
  /\ r.mem = [a \in 0 .. d + l + 8 |-> IF a \in d .. d + l - 1 THEN v ELSE a]

(* The cases of memset.                                                    *)
LEMMA MemsetFinishes ==
  ASSUME NEW d \in Nat, NEW l \in Nat, NEW v \in 0 .. Byte - 1, NEW n \in {4, 8}, n = job.nbytes
  PROVE  AllSet(d, l, v, Mem!memset(Memory(d + l + 8), d, v, l))
<1> DEFINE x == IF v = 0 THEN 0 ELSE Mem!replicate_byte(v)
           y == Filled(d, l, v, x, 0)
           z == Filled(d, l, v, x, l)
           k == n - (d % n)
<1>1. AllBytes(x, v, n)
  BY Replicated
<1> HIDE DEF x
<1>2. y = [mem |-> Memory(d + l + 8), dst |-> d, len |-> l, written |-> {}, val |-> x]
  <2>1. y.mem = Memory(d + l + 8)
    BY DEF Filled, Memory
  <2>2. y.dst = d /\ y.len = l /\ y.written = {} /\ y.val = x
    BY DEF Filled
  <2>3. y = [mem |-> y.mem, dst |-> y.dst, len |-> y.len, written |-> y.written, val |-> y.val]
    BY DEF Filled
  <2> HIDE DEF y
  <2> QED
    BY <2>1, <2>2, <2>3
<1>3. Mem!aligned(y) = z /\ Mem!FillBytes(y) = z
  <2>1. n \in Nat \ {0} /\ 0 \in Nat /\ 0 <= l
    OBVIOUS
  <2> QED
    BY <1>1, <2>1, AlignedFills, FillBytesFills
<1>4. l >= n => Mem!aligned(Mem!Fill(y, k, FALSE)) = z
  <2>1. SUFFICES ASSUME l >= n
        PROVE  Mem!aligned(Mem!Fill(y, k, FALSE)) = z
    OBVIOUS
  <2>2. k \in Nat /\ k <= n /\ k <= l /\ 0 + k = k
    <3>1. CASE n = 4
      BY <2>1, <3>1
    <3>2. CASE n = 8
      BY <2>1, <3>2
    <3> QED
      BY <3>1, <3>2
  <2> HIDE DEF k
  <2>3. PICK lowest \in BOOLEAN : lowest = FALSE
    OBVIOUS
  <2>4. Mem!Fill(y, k, lowest) = Filled(d, l, v, x, 0 + k)
    <3>1. n \in Nat \ {0} /\ 0 \in Nat /\ 0 + k <= l
      BY <2>2
    <3> QED
      BY <1>1, <2>2, <3>1, FillMore
  <2>5. Mem!aligned(Filled(d, l, v, x, k)) = z
    BY <1>1, <2>2, AlignedFills
  <2> HIDE DEF y, z
  <2> QED
    BY <2>2, <2>3, <2>4, <2>5, Zenon
<1>5. z.written = d .. d + l - 1
      /\ z.mem = [a \in 0 .. d + l + 8 |-> IF a \in d .. d + l - 1 THEN v ELSE a]
  BY DEF Filled
<1> HIDE DEF y, z
<1>6. Mem!memset(Memory(d + l + 8), d, v, l) = z
  <2> DEFINE s == [mem |-> Memory(d + l + 8), dst |-> d, len |-> l, written |-> {}, val |-> x]
  <2>1. s = y
    BY <1>2
  <2>2. Mem!memset(Memory(d + l + 8), d, v, l)
        = IF d % n = 0 THEN Mem!aligned(s)
          ELSE IF l < n THEN Mem!FillBytes(s) ELSE Mem!aligned(Mem!Fill(s, k, FALSE))
    BY Zenon DEF Mem!memset, x
  <2>3. l < n \/ l >= n
    OBVIOUS
  <2> HIDE DEF s, k
  <2> QED
    BY <1>3, <1>4, <2>1, <2>2, <2>3, Zenon
<1> QED
  BY <1>5, <1>6, Zenon DEF AllSet

(* memset, with a register of four or eight bytes, of a buffer that begins *)
(* anywhere and has any length, to any byte (memset.S).                    *)
THEOREM MemsetIsRight ==
  ASSUME job.dst \in Nat, job.len \in Nat, job.val \in 0 .. Byte - 1, job.nbytes \in {4, 8}
  PROVE  MemsetFills
<1> DEFINE r(d, v, l) == Mem!memset(Memory(d + l + 8), d, v, l)
<1>1. PICK d \in Nat, l \in Nat, v \in 0 .. Byte - 1, n \in {4, 8} :
        job.dst = d /\ job.len = l /\ job.val = v /\ n = job.nbytes
  OBVIOUS
<1>2. AllSet(d, l, v, r(d, v, l))
  BY <1>1, MemsetFinishes, Zenon
<1> HIDE DEF r
<1>3. MemsetFills <=> (Called("memset") =>
        /\ r(d, v, l).written = d .. d + l - 1
        /\ \A a \in DOMAIN r(d, v, l).mem :
             r(d, v, l).mem[a] = IF a \in d .. d + l - 1 THEN v ELSE a)
  BY <1>1, Zenon DEF MemsetFills, r
<1> QED
  BY <1>2, <1>3 DEF AllSet

(***************************************************************************)
(* A search: a recursive function that goes on from i to i + 1 until it is *)
(* in a set S, where it returns v[i].                                      *)
(***************************************************************************)
Searches(f, S, v) == f = [i \in Nat |-> IF i \in S THEN v[i] ELSE f[i + 1]]

Searched(S, v) == \E f : Searches(f, S, v)

(* A set of numbers has a first one from i on, or none. *)
FirstFrom(S, i, j) == j \in S /\ j >= i /\ \A k \in S : k >= i => j <= k

(* The first one exists if there is any.                                   *)
LEMMA FirstExists ==
  ASSUME NEW S \in SUBSET Nat, NEW i \in Nat, NEW m \in S, m >= i
  PROVE  \E j \in S : FirstFrom(S, i, j)
<1> DEFINE later == {k \in S : k >= i}
           less == OpToRel(<, Nat)
<1>1. IsWellFoundedOn(less, Nat) /\ \A x, y \in Nat : <<y, x>> \in less <=> y < x
  BY NatLessThanWellFounded DEF OpToRel
<1> HIDE DEF less
<1>2. later # {} /\ later \subseteq Nat
  OBVIOUS
<1>3. PICK j \in later : \A y \in later : <<y, j>> \notin less
  <2> HIDE DEF later
  <2> QED
    BY <1>1, <1>2, WFMin
<1>4. \A y \in later : ~(y < j)
  BY <1>1, <1>3
<1>5. \A y \in later : j <= y
  BY <1>4
<1> QED
  BY <1>3, <1>5 DEF FirstFrom

(* Such a function exists, whatever S is: where nothing is found, it is 0. *)
LEMMA SearchExists ==
  ASSUME NEW S \in SUBSET Nat, NEW v
  PROVE  Searched(S, v)
<1> DEFINE Found(i) == \E j \in S : j >= i
           first(i) == CHOOSE j \in S : FirstFrom(S, i, j)
           g == [i \in Nat |-> IF Found(i) THEN v[first(i)] ELSE 0]
<1>1. ASSUME NEW i \in Nat
      PROVE  g[i] = IF i \in S THEN v[i] ELSE g[i + 1]
  <2>1. CASE i \in S
    <3>1. FirstFrom(S, i, i) /\ Found(i)
      BY <2>1 DEF FirstFrom
    <3>2. first(i) \in S /\ FirstFrom(S, i, first(i))
      BY <2>1, <3>1
    <3>3. first(i) = i
      <4> HIDE DEF first
      <4>1. PICK j \in Nat : j = first(i) /\ FirstFrom(S, i, j)
        BY <3>2
      <4>2. j >= i /\ j <= i
        BY <2>1, <4>1 DEF FirstFrom
      <4> QED
        BY <4>1, <4>2
    <3> QED
      BY <2>1, <3>1, <3>3
  <2>2. CASE i \notin S
    <3>1. \A j \in S : j >= i <=> j >= i + 1
      BY <2>2
    <3>2. Found(i) <=> Found(i + 1)
      BY <3>1
    <3>3. \A j : j \in S /\ FirstFrom(S, i, j) <=> j \in S /\ FirstFrom(S, i + 1, j)
      BY <3>1 DEF FirstFrom
    <3>4. ASSUME Found(i)
          PROVE  first(i) = first(i + 1)
      <4>1. first(i) \in S /\ FirstFrom(S, i, first(i))
        BY <3>4, FirstExists
      <4>2. first(i + 1) \in S /\ FirstFrom(S, i + 1, first(i + 1))
        BY <3>4, <3>2, FirstExists
      <4> HIDE DEF first
      <4>3. FirstFrom(S, i, first(i + 1))
        BY <3>3, <4>2
      <4>4. PICK j \in S, k \in S : /\ j = first(i) /\ FirstFrom(S, i, j) /\ FirstFrom(S, i + 1, j)
                                   /\ k = first(i + 1) /\ FirstFrom(S, i, k)
        BY <3>3, <4>1, <4>2, <4>3
      <4>5. j <= k /\ k <= j
        BY <4>4 DEF FirstFrom
      <4> QED
        BY <4>4, <4>5
    <3> HIDE DEF Found, first
    <3>5. i + 1 \in Nat
      OBVIOUS
    <3> QED
      BY <2>2, <3>2, <3>4, <3>5
  <2> QED
    BY <2>1, <2>2
<1>2. g = [i \in Nat |-> g[i]]
  OBVIOUS
<1> HIDE DEF g
<1>3. g = [i \in Nat |-> IF i \in S THEN v[i] ELSE g[i + 1]]
  BY <1>1, <1>2
<1> QED
  BY <1>3 DEF Searched, Searches

(* Started at 0, the search returns what belongs to the first number in S. *)
LEMMA SearchFinds ==
  ASSUME NEW S, NEW v, NEW f, Searches(f, S, v), NEW e \in S, e \in Nat,
         \A k \in 0 .. e - 1 : k \notin S
  PROVE  f[0] = v[e]
<1> DEFINE less == OpToRel(<, Nat)
           wrong == {k \in 0 .. e : f[e - k] # v[e]}
<1>1. IsWellFoundedOn(less, Nat) /\ \A x, y \in Nat : <<y, x>> \in less <=> y < x
  BY NatLessThanWellFounded DEF OpToRel
<1> HIDE DEF less
<1>2. SUFFICES ASSUME wrong # {}
      PROVE  FALSE
  <2>1. wrong = {} => f[e - e] = v[e]
    <3>1. e \in 0 .. e
      OBVIOUS
    <3> QED
      BY <3>1
  <2>2. e - e = 0
    OBVIOUS
  <2> QED
    BY <2>1, <2>2
<1>3. PICK k \in wrong : \A y \in wrong : <<y, k>> \notin less
  <2>1. wrong \subseteq Nat
    OBVIOUS
  <2> HIDE DEF wrong
  <2> QED
    BY <1>1, <1>2, <2>1, WFMin
<1>4. k \in 0 .. e /\ f[e - k] # v[e]
  OBVIOUS
<1>5. \A i \in Nat : f[i] = IF i \in S THEN v[i] ELSE f[i + 1]
  BY DEF Searches
<1>6. k # 0
  BY <1>4, <1>5
<1>7. k - 1 \in 0 .. e /\ k - 1 < k /\ e - k \in 0 .. e - 1 /\ (e - k) + 1 = e - (k - 1) /\ e - k \in Nat
  BY <1>4, <1>6
<1>8. f[e - k] = f[e - (k - 1)]
  BY <1>5, <1>7
<1>9. k - 1 \in wrong
  BY <1>4, <1>7, <1>8
<1>10. <<k - 1, k>> \in less
  BY <1>1, <1>4, <1>7
<1> QED
  BY <1>3, <1>9, <1>10

(***************************************************************************)
(* strcmp.  Strings that begin at a and b agree before e, and end or       *)
(* differ there.                                                           *)
(***************************************************************************)
Ends(s, t, a, b, i) == s[a + i] # t[b + i] \/ s[a + i] = 0

EndAt(s, t, a, b, e) == Ends(s, t, a, b, e) /\ \A k \in 0 .. e - 1 : ~Ends(s, t, a, b, k)

Order(x, y) == IF x = y THEN 0 ELSE Str!Sign(x, y)

Bytewise(f, s, t, a, b) ==
  f = [i \in Nat |-> IF s[a + i] # t[b + i] THEN Str!Sign(s[a + i], t[b + i])
                     ELSE IF s[a + i] = 0 THEN 0
                     ELSE f[i + 1]]

(* unaligned_loop orders the strings by the bytes at their end.            *)
LEMMA UnalignedFinds ==
  ASSUME NEW s, NEW t, NEW a \in Nat, NEW b \in Nat, NEW e \in Nat, EndAt(s, t, a, b, e)
  PROVE  Str!unaligned_loop(s, t, a, b) = Order(s[a + e], t[b + e])
<1> DEFINE S == {i \in Nat : Ends(s, t, a, b, i)}
           v == [i \in Nat |-> Order(s[a + i], t[b + i])]
           at == CHOOSE f : Bytewise(f, s, t, a, b)
<1>1. ASSUME NEW f
      PROVE  Bytewise(f, s, t, a, b) <=> Searches(f, S, v)
  <2>1. ASSUME NEW i \in Nat
        PROVE  (IF s[a + i] # t[b + i] THEN Str!Sign(s[a + i], t[b + i])
                ELSE IF s[a + i] = 0 THEN 0 ELSE f[i + 1])
               = IF i \in S THEN v[i] ELSE f[i + 1]
    BY DEF Ends, Order
  <2> HIDE DEF S, v
  <2> QED
    BY <2>1 DEF Bytewise, Searches
<1>2. e \in S /\ S \in SUBSET Nat /\ \A k \in 0 .. e - 1 : k \notin S
  BY DEF EndAt
<1>3. v[e] = Order(s[a + e], t[b + e])
  OBVIOUS
<1> HIDE DEF S, v
<1>4. Bytewise(at, s, t, a, b)
  <2>1. \E f : Bytewise(f, s, t, a, b)
    BY <1>1, <1>2, SearchExists DEF Searched
  <2> QED
    BY <2>1
<1>5. at[0] = v[e]
  BY <1>1, <1>2, <1>4, SearchFinds
<1>6. Str!unaligned_loop(s, t, a, b) = at[0]
  BY Zenon DEF Str!unaligned_loop, Bytewise
<1> QED
  BY <1>3, <1>5, <1>6

(***************************************************************************)
(* Words of four bytes, the lowest first.                                  *)
(***************************************************************************)
Word(d0, d1, d2, d3) == d0 + d1 * Byte + d2 * Byte^2 + d3 * Byte^3

(* The bytes of a word are its digits.                                     *)
LEMMA WordDigits ==
  ASSUME NEW d0 \in 0 .. Byte - 1, NEW d1 \in 0 .. Byte - 1, NEW d2 \in 0 .. Byte - 1,
         NEW d3 \in 0 .. Byte - 1
  PROVE  /\ Word(d0, d1, d2, d3) \in Nat
         /\ Str!Digit(Word(d0, d1, d2, d3), 0) = d0 /\ Str!Digit(Word(d0, d1, d2, d3), 1) = d1
         /\ Str!Digit(Word(d0, d1, d2, d3), 2) = d2 /\ Str!Digit(Word(d0, d1, d2, d3), 3) = d3
<1>1. CASE Byte = 8
  <2>1. d0 \in 0 .. 7 /\ d1 \in 0 .. 7 /\ d2 \in 0 .. 7 /\ d3 \in 0 .. 7
    BY <1>1
  <2>2. Word(d0, d1, d2, d3) = d0 + d1 * 8 + d2 * 8^2 + d3 * 8^3
    BY <1>1, Zenon DEF Word
  <2>3. ASSUME NEW w, w = d0 + d1 * 8 + d2 * 8^2 + d3 * 8^3
        PROVE  /\ w \in Nat /\ (w \div 8^0) % 8 = d0 /\ (w \div 8^1) % 8 = d1
               /\ (w \div 8^2) % 8 = d2 /\ (w \div 8^3) % 8 = d3
    BY <2>1, <2>3, SMT
  <2> QED
    BY <1>1, <2>2, <2>3, Zenon DEF Str!Digit
<1>2. CASE Byte = 256
  <2>1. d0 \in 0 .. 255 /\ d1 \in 0 .. 255 /\ d2 \in 0 .. 255 /\ d3 \in 0 .. 255
    BY <1>2
  <2>2. Word(d0, d1, d2, d3) = d0 + d1 * 256 + d2 * 256^2 + d3 * 256^3
    BY <1>2, SMT DEF Word
  <2>3. ASSUME NEW w, w = d0 + d1 * 256 + d2 * 256^2 + d3 * 256^3
        PROVE  /\ w \in Nat /\ (w \div 256^0) % 256 = d0 /\ (w \div 256^1) % 256 = d1
               /\ (w \div 256^2) % 256 = d2 /\ (w \div 256^3) % 256 = d3
    <3>1. w \in Nat /\ w \div 256^0 = d0 + 256 * (d1 + d2 * 256 + d3 * 256^2)
      BY <2>1, <2>3, SMT
    <3>2. w \div 256^1 = d1 + 256 * (d2 + d3 * 256)
      BY <2>1, <2>3, SMT
    <3>3. w \div 256^2 = d2 + 256 * d3 /\ w \div 256^3 = d3
      BY <2>1, <2>3, SMT
    <3>4. (w \div 256^0) % 256 = d0
      BY <2>1, <3>1, SMT
    <3>5. (w \div 256^1) % 256 = d1
      BY <2>1, <3>2, SMT
    <3>6. (w \div 256^2) % 256 = d2 /\ (w \div 256^3) % 256 = d3
      BY <2>1, <3>3, SMT
    <3> QED
      BY <3>1, <3>4, <3>5, <3>6
  <2> QED
    BY <1>2, <2>2, <2>3, SMT DEF Str!Digit
<1> QED
  BY <1>1, <1>2, ByteAssumption

(* A sum of four numbers, as a recursive function makes it. *)
Sums(f, w) == f = [i \in 0 .. 4 |-> IF i = 0 THEN 0 ELSE f[i - 1] + w[i]]

Summed(w) == \E f : Sums(f, w)

(* The sum exists.                                                         *)
LEMMA SumExists ==
  ASSUME NEW w
  PROVE  Summed(w)
<1>1. 4 \in Nat
  OBVIOUS
<1>2. Added(0, w, 4)
  BY <1>1, AddsExist
<1> QED
  BY <1>2 DEF Summed, Sums, Added, Adds

(* It is the sum of all four.                                              *)
LEMMA SumIs ==
  ASSUME NEW w, NEW f, Sums(f, w), w[1] \in Nat, w[2] \in Nat, w[3] \in Nat, w[4] \in Nat
  PROVE  f[4] = w[1] + w[2] + w[3] + w[4]
<1>1. \A i \in 0 .. 4 : f[i] = IF i = 0 THEN 0 ELSE f[i - 1] + w[i]
  BY DEF Sums
<1>2. f[0] = 0 /\ f[1] = f[0] + w[1] /\ f[2] = f[1] + w[2] /\ f[3] = f[2] + w[3] /\ f[4] = f[3] + w[4]
  BY <1>1
<1> QED
  BY <1>2

(* The recursive functions of const2, LOAD and the loops, by themselves.    *)
Borrows(f) == f = [i \in 0 .. 4 |-> IF i = 0 THEN 0 ELSE f[i - 1] + Byte^(i - 1)]

(* const2 takes one from every byte.                                       *)
LEMMA Const2Is == Str!const2 = Byte^4 - Word(1, 1, 1, 1)
<1> DEFINE w == [i \in 1 .. 4 |-> Byte^(i - 1)]
           sum == CHOOSE f : Borrows(f)
<1>1. ASSUME NEW f
      PROVE  Sums(f, w) <=> Borrows(f)
  <2>1. \A i \in 0 .. 4 : (IF i = 0 THEN 0 ELSE f[i - 1] + w[i]) = IF i = 0 THEN 0 ELSE f[i - 1] + Byte^(i - 1)
    <3>1. \A i \in 0 .. 4 : i = 0 \/ i \in 1 .. 4
      OBVIOUS
    <3>2. \A i \in 1 .. 4 : w[i] = Byte^(i - 1)
      BY Zenon
    <3> HIDE DEF w
    <3> QED
      BY <3>1, <3>2, Zenon
  <2> HIDE DEF w
  <2> QED
    BY <2>1 DEF Sums, Borrows
<1>2. w[1] = 1 /\ w[2] = Byte /\ w[3] = Byte^2 /\ w[4] = Byte^3 /\ Byte^2 \in Nat /\ Byte^3 \in Nat
  <2>1. CASE Byte = 8
    BY <2>1, SMT
  <2>2. CASE Byte = 256
    BY <2>2, SMT
  <2> QED
    BY <2>1, <2>2, ByteAssumption
<1>3. w[1] \in Nat /\ w[2] \in Nat /\ w[3] \in Nat /\ w[4] \in Nat
  BY <1>2, ByteAssumption, SMT
<1> HIDE DEF w
<1>4. Sums(sum, w)
  <2>1. \E f : Borrows(f)
    BY <1>1, SumExists DEF Summed
  <2> QED
    BY <1>1, <2>1
<1>5. sum[4] = w[1] + w[2] + w[3] + w[4]
  BY <1>3, <1>4, SumIs
<1>6. sum[4] = Word(1, 1, 1, 1)
  <2> HIDE DEF sum
  <2>1. 1 * Byte = Byte /\ 1 * Byte^2 = Byte^2 /\ 1 * Byte^3 = Byte^3
    <3>1. \A x \in Nat : 1 * x = x
      OBVIOUS
    <3> QED
      BY <1>2, <3>1, ByteAssumption
  <2> QED
    BY <1>2, <1>5, <2>1, Zenon DEF Word
<1> QED
  BY <1>6, Zenon DEF Str!const2, Str!Wrap, Borrows

Loads(f, mem, a) ==
  f = [i \in 0 .. 4 |-> IF i = 0 THEN 0 ELSE f[i - 1] + Str!Weight(i - 1) * mem[a + i - 1]]

(* A loaded word has the bytes in their order, or in the opposite one.     *)
LEMMA LoadIs ==
  ASSUME NEW mem, NEW a \in Nat, job.little \in BOOLEAN,
         NEW m0 \in 0 .. Byte - 1, NEW m1 \in 0 .. Byte - 1, NEW m2 \in 0 .. Byte - 1,
         NEW m3 \in 0 .. Byte - 1,
         mem[a] = m0, mem[a + 1] = m1, mem[a + 2] = m2, mem[a + 3] = m3
  PROVE  Str!LOAD(mem, a) = IF job.little THEN Word(m0, m1, m2, m3) ELSE Word(m3, m2, m1, m0)
<1> DEFINE w == [i \in 1 .. 4 |-> Str!Weight(i - 1) * mem[a + i - 1]]
           read == CHOOSE f : Loads(f, mem, a)
<1>1. ASSUME NEW f
      PROVE  Sums(f, w) <=> Loads(f, mem, a)
  <2>1. \A i \in 0 .. 4 : (IF i = 0 THEN 0 ELSE f[i - 1] + w[i])
                          = IF i = 0 THEN 0 ELSE f[i - 1] + Str!Weight(i - 1) * mem[a + i - 1]
    <3>1. \A i \in 0 .. 4 : i = 0 \/ i \in 1 .. 4
      OBVIOUS
    <3>2. \A i \in 1 .. 4 : w[i] = Str!Weight(i - 1) * mem[a + i - 1]
      BY Zenon
    <3> HIDE DEF w
    <3> QED
      BY <3>1, <3>2, Zenon
  <2> HIDE DEF w
  <2> QED
    BY <2>1 DEF Sums, Loads
<1>2. /\ w[1] = Str!Weight(0) * m0 /\ w[2] = Str!Weight(1) * m1
      /\ w[3] = Str!Weight(2) * m2 /\ w[4] = Str!Weight(3) * m3
  <2>1. /\ 1 - 1 = 0 /\ 2 - 1 = 1 /\ 3 - 1 = 2 /\ 4 - 1 = 3
        /\ 1 \in 1 .. 4 /\ 2 \in 1 .. 4 /\ 3 \in 1 .. 4 /\ 4 \in 1 .. 4
        /\ a + 1 - 1 = a /\ a + 2 - 1 = a + 1 /\ a + 3 - 1 = a + 2 /\ a + 4 - 1 = a + 3
    BY SMT
  <2> QED
    BY <2>1, Zenon
<1> HIDE DEF w
<1>3. /\ job.little => /\ Str!Weight(0) = 1 /\ Str!Weight(1) = Byte
                       /\ Str!Weight(2) = Byte^2 /\ Str!Weight(3) = Byte^3
      /\ ~job.little => /\ Str!Weight(3) = 1 /\ Str!Weight(2) = Byte
                        /\ Str!Weight(1) = Byte^2 /\ Str!Weight(0) = Byte^3
  <2>1. Byte^0 = 1 /\ Byte^1 = Byte
    <3>1. CASE Byte = 8
      BY <3>1, SMT
    <3>2. CASE Byte = 256
      BY <3>2, SMT
    <3> QED
      BY <3>1, <3>2, ByteAssumption
  <2>2. 4 - 1 - 0 = 3 /\ 4 - 1 - 1 = 2 /\ 4 - 1 - 2 = 1 /\ 4 - 1 - 3 = 0
    BY SMT
  <2> QED
    BY <2>1, <2>2, Zenon DEF Str!Weight
<1>4. Byte \in Nat /\ Byte^2 \in Nat /\ Byte^3 \in Nat
  <2>1. CASE Byte = 8
    BY <2>1, SMT
  <2>2. CASE Byte = 256
    BY <2>2, SMT
  <2> QED
    BY <2>1, <2>2, ByteAssumption
<1>5. Sums(read, w)
  <2>1. \E f : Loads(f, mem, a)
    BY <1>1, SumExists DEF Summed
  <2> QED
    BY <1>1, <2>1
<1> HIDE DEF read
<1>6. ASSUME NEW c2 \in Nat, NEW c3 \in Nat, NEW x \in Nat, NEW y \in Nat, NEW z \in Nat,
             NEW u \in Nat, NEW b \in Nat
      PROVE  /\ 1 * x + b * y + c2 * z + c3 * u = x + y * b + z * c2 + u * c3
             /\ c3 * x + c2 * y + b * z + 1 * u = u + z * b + y * c2 + x * c3
             /\ x * c2 \in Nat /\ c2 * x \in Nat
  OBVIOUS
<1>7. m0 \in Nat /\ m1 \in Nat /\ m2 \in Nat /\ m3 \in Nat
  BY ByteAssumption
<1>8. w[1] \in Nat /\ w[2] \in Nat /\ w[3] \in Nat /\ w[4] \in Nat
  <2>1. Str!Weight(0) \in Nat /\ Str!Weight(1) \in Nat /\ Str!Weight(2) \in Nat /\ Str!Weight(3) \in Nat
    BY <1>3, <1>4
  <2> QED
    BY <1>2, <1>6, <1>7, <2>1
<1>13. PICK b \in Nat, c2 \in Nat, c3 \in Nat : b = Byte /\ c2 = Byte^2 /\ c3 = Byte^3
  BY <1>4
<1>14. /\ 1 * m0 + b * m1 + c2 * m2 + c3 * m3 = m0 + m1 * b + m2 * c2 + m3 * c3
       /\ c3 * m0 + c2 * m1 + b * m2 + 1 * m3 = m3 + m2 * b + m1 * c2 + m0 * c3
  BY <1>6, <1>7
<1>9. read[4] = w[1] + w[2] + w[3] + w[4]
  BY <1>5, <1>8, SumIs
<1>10. Str!LOAD(mem, a) = read[4]
  BY Zenon DEF Str!LOAD, Loads, read
<1>11. CASE job.little
  <2>1. w[1] + w[2] + w[3] + w[4] = 1 * m0 + Byte * m1 + Byte^2 * m2 + Byte^3 * m3
    BY <1>2, <1>3, <1>11, Zenon
  <2>2. 1 * m0 + Byte * m1 + Byte^2 * m2 + Byte^3 * m3 = Word(m0, m1, m2, m3)
    BY <1>13, <1>14, Zenon DEF Word
  <2> QED
    BY <1>9, <1>10, <1>11, <2>1, <2>2, Zenon
<1>12. CASE ~job.little
  <2>1. w[1] + w[2] + w[3] + w[4] = Byte^3 * m0 + Byte^2 * m1 + Byte * m2 + 1 * m3
    BY <1>2, <1>3, <1>12, Zenon
  <2>2. Byte^3 * m0 + Byte^2 * m1 + Byte * m2 + 1 * m3 = Word(m3, m2, m1, m0)
    BY <1>13, <1>14, Zenon DEF Word
  <2> QED
    BY <1>9, <1>10, <1>12, <2>1, <2>2, Zenon
<1> QED
  BY <1>11, <1>12

(* The trick of const1 and const2 sees a zero byte wherever it is, and     *)
(* never another.                                                          *)
LEMMA ZeroSeenIs ==
  ASSUME NEW d0 \in 0 .. Byte - 1, NEW d1 \in 0 .. Byte - 1, NEW d2 \in 0 .. Byte - 1,
         NEW d3 \in 0 .. Byte - 1
  PROVE  Str!ZeroSeen(Word(d0, d1, d2, d3)) <=> d0 = 0 \/ d1 = 0 \/ d2 = 0 \/ d3 = 0
<1> DEFINE y == (Word(d0, d1, d2, d3) + Str!const2) % Str!Wrap
<1>1. \A i \in 0 .. 3 : i \in {0, 1, 2, 3}
  BY SMT
<1>2. 4 - 1 = 3 /\ 0 \in 0 .. 3 /\ 1 \in 0 .. 3 /\ 2 \in 0 .. 3 /\ 3 \in 0 .. 3
  BY SMT
<1>3. Str!ZeroSeen(Word(d0, d1, d2, d3))
      <=> \/ Str!High(Str!Digit(y, 0)) /\ ~Str!High(d0)
          \/ Str!High(Str!Digit(y, 1)) /\ ~Str!High(d1)
          \/ Str!High(Str!Digit(y, 2)) /\ ~Str!High(d2)
          \/ Str!High(Str!Digit(y, 3)) /\ ~Str!High(d3)
  <2> HIDE DEF y
  <2>1. /\ Str!Digit(Word(d0, d1, d2, d3), 0) = d0 /\ Str!Digit(Word(d0, d1, d2, d3), 1) = d1
        /\ Str!Digit(Word(d0, d1, d2, d3), 2) = d2 /\ Str!Digit(Word(d0, d1, d2, d3), 3) = d3
    BY WordDigits
  <2> QED
    BY <1>1, <1>2, <2>1, Zenon DEF Str!ZeroSeen, y
<1>4. y = (Word(d0, d1, d2, d3) + (Byte^4 - Word(1, 1, 1, 1))) % Byte^4
  BY Const2Is, Zenon DEF Str!Wrap
<1> HIDE DEF y
<1>5. CASE Byte = 8
  BY <1>3, <1>4, <1>5, SMTT(60) DEF Word, Str!Digit, Str!High
<1>6. CASE Byte = 256
  <2>1. d0 \in 0 .. 255 /\ d1 \in 0 .. 255 /\ d2 \in 0 .. 255 /\ d3 \in 0 .. 255
    BY <1>6
  <2>2. y = (d0 + d1 * 256 + d2 * 256^2 + d3 * 256^3
             + (256^4 - (1 + 1 * 256 + 1 * 256^2 + 1 * 256^3))) % 256^4
    BY <1>4, <1>6, SMT DEF Word
  <2>3. CASE d0 # 0 /\ d1 # 0 /\ d2 # 0 /\ d3 # 0
    <3>1. y = (d0 - 1) + (d1 - 1) * 256 + (d2 - 1) * 256^2 + (d3 - 1) * 256^3
      BY <2>1, <2>2, <2>3, SMT
    <3>2. /\ (y \div 256^0) % 256 = d0 - 1 /\ (y \div 256^1) % 256 = d1 - 1
          /\ (y \div 256^2) % 256 = d2 - 1 /\ (y \div 256^3) % 256 = d3 - 1
      <4>1. y = Word(d0 - 1, d1 - 1, d2 - 1, d3 - 1)
        BY <1>6, <3>1, SMT DEF Word
      <4>2. d0 - 1 \in 0 .. Byte - 1 /\ d1 - 1 \in 0 .. Byte - 1 /\ d2 - 1 \in 0 .. Byte - 1
            /\ d3 - 1 \in 0 .. Byte - 1
        BY <1>6, <2>1, <2>3
      <4>3. /\ Str!Digit(y, 0) = d0 - 1 /\ Str!Digit(y, 1) = d1 - 1
            /\ Str!Digit(y, 2) = d2 - 1 /\ Str!Digit(y, 3) = d3 - 1
        BY <4>1, <4>2, WordDigits
      <4> QED
        BY <1>6, <4>3, SMT DEF Str!Digit
    <3> QED
      BY <1>3, <1>6, <2>1, <2>3, <3>2, SMT DEF Str!Digit, Str!High
  <2>4. CASE d0 = 0
    <3>1. (y \div 256^0) % 256 = 255
      <4>1. \E c \in {0, 1} : y = 255 + 256 * (d1 + d2 * 256 + d3 * 256^2 + 16711422 - c * 256^3)
        BY <2>1, <2>2, <2>4, SMT
      <4>2. \E q \in Int : y = q * 256 + 255
        <5>1. PICK c \in {0, 1} : y = 255 + 256 * (d1 + d2 * 256 + d3 * 256^2 + 16711422 - c * 256^3)
          BY <4>1
        <5> DEFINE q == d1 + d2 * 256 + d3 * 256^2 + 16711422 - c * 256^3
        <5>2. q \in Int
          BY <2>1, <5>1, SMT
        <5>3. y = 255 + 256 * q
          BY <5>1, SMT
        <5> HIDE DEF q
        <5>4. y = q * 256 + 255
          BY <5>2, <5>3, SMT
        <5> QED
          BY <5>2, <5>4
      <4> QED
        BY <4>2, SMT
    <3> QED
      BY <1>3, <1>6, <2>4, <3>1, SMT DEF Str!Digit, Str!High
  <2>5. CASE d0 # 0 /\ d1 = 0
    <3>1. (y \div 256^1) % 256 = 255
      <4>1. \E c \in {0, 1} : y = d0 - 1 + 256 * (255 + 256 * (d2 + d3 * 256 + 65278 - c * 256^2))
        BY <2>1, <2>2, <2>5, SMT
      <4>2. \E q \in Int : y = (d0 - 1) + 256 * (255 + 256 * q)
        <5>1. PICK c \in {0, 1} : y = d0 - 1 + 256 * (255 + 256 * (d2 + d3 * 256 + 65278 - c * 256^2))
          BY <4>1
        <5> DEFINE q == d2 + d3 * 256 + 65278 - c * 256^2
        <5>2. q \in Int
          BY <2>1, <5>1, SMT
        <5>3. y = (d0 - 1) + 256 * (255 + 256 * q)
          BY <5>1, SMT
        <5> HIDE DEF q
        <5> QED
          BY <5>2, <5>3, SMT
      <4>3. d0 - 1 \in 0 .. 255
        BY <2>1, <2>5
      <4> QED
        BY <4>2, <4>3, SMT
    <3> QED
      BY <1>3, <1>6, <2>5, <3>1, SMT DEF Str!Digit, Str!High
  <2>6. CASE d0 # 0 /\ d1 # 0 /\ d2 = 0
    <3>1. (y \div 256^2) % 256 = 255
      <4>1. PICK c \in {0, 1} :
              y = d0 - 1 + 256 * (d1 - 1 + 256 * (255 + 256 * (d3 - 1 + 256 * (1 - c) - 1)))
        BY <2>1, <2>2, <2>6, SMT
      <4> DEFINE q == d3 - 1 + 256 * (1 - c) - 1
      <4>2. q \in Int
        BY <2>1, <4>1, SMT
      <4>3. y = d0 - 1 + 256 * (d1 - 1) + 256^2 * (255 + 256 * q)
        BY <4>1, SMT
      <4>4. PICK z \in Nat : z = d0 - 1 + 256 * (d1 - 1) /\ z < 256^2
        BY <2>1, <2>6, SMT
      <4> HIDE DEF q
      <4>5. y \div 256^2 = 255 + 256 * q
        BY <4>2, <4>3, <4>4, SMT
      <4> QED
        BY <4>2, <4>5, SMT
    <3> QED
      BY <1>3, <1>6, <2>6, <3>1, SMT DEF Str!Digit, Str!High
  <2>7. CASE d0 # 0 /\ d1 # 0 /\ d2 # 0 /\ d3 = 0
    <3>1. (y \div 256^3) % 256 = 255
      BY <2>1, <2>2, <2>7, SMT
    <3> QED
      BY <1>3, <1>6, <2>7, <3>1, SMT DEF Str!Digit, Str!High
  <2> QED
    BY <2>3, <2>4, <2>5, <2>6, <2>7
<1> QED
  BY <1>5, <1>6, ByteAssumption

(* A unit of each string.  Whether it ends or differs, its word tells.     *)
Readable(s, a) == \A j \in 0 .. 3 : s[a + j] \in 0 .. Byte - 1

LEMMA UnitShows ==
  ASSUME NEW s, NEW t, NEW a \in Nat, NEW b \in Nat, Readable(s, a), Readable(t, b),
         job.little \in BOOLEAN
  PROVE  /\ Str!LOAD(s, a) = Str!LOAD(t, b) <=> \A j \in 0 .. 3 : s[a + j] = t[b + j]
         /\ Str!ZeroSeen(Str!LOAD(s, a)) <=> \E j \in 0 .. 3 : s[a + j] = 0
         /\ ~job.little => (Str!LOAD(s, a) < Str!LOAD(t, b)
              <=> \E j \in 0 .. 3 : s[a + j] < t[b + j] /\ \A i \in 0 .. j - 1 : s[a + i] = t[b + i])
<1>1. /\ s[a] \in 0 .. Byte - 1 /\ s[a + 1] \in 0 .. Byte - 1
      /\ s[a + 2] \in 0 .. Byte - 1 /\ s[a + 3] \in 0 .. Byte - 1
  BY DEF Readable
<1>2. /\ t[b] \in 0 .. Byte - 1 /\ t[b + 1] \in 0 .. Byte - 1
      /\ t[b + 2] \in 0 .. Byte - 1 /\ t[b + 3] \in 0 .. Byte - 1
  BY DEF Readable
<1>3. PICK d0 \in 0 .. Byte - 1, d1 \in 0 .. Byte - 1, d2 \in 0 .. Byte - 1, d3 \in 0 .. Byte - 1 :
        s[a] = d0 /\ s[a + 1] = d1 /\ s[a + 2] = d2 /\ s[a + 3] = d3
  BY <1>1
<1>4. PICK e0 \in 0 .. Byte - 1, e1 \in 0 .. Byte - 1, e2 \in 0 .. Byte - 1, e3 \in 0 .. Byte - 1 :
        t[b] = e0 /\ t[b + 1] = e1 /\ t[b + 2] = e2 /\ t[b + 3] = e3
  BY <1>2
<1>5. Str!LOAD(s, a) = IF job.little THEN Word(d0, d1, d2, d3) ELSE Word(d3, d2, d1, d0)
  BY <1>3, LoadIs
<1>6. Str!LOAD(t, b) = IF job.little THEN Word(e0, e1, e2, e3) ELSE Word(e3, e2, e1, e0)
  BY <1>4, LoadIs
<1>7. \A j : j \in 0 .. 3 <=> j = 0 \/ j = 1 \/ j = 2 \/ j = 3
  OBVIOUS
<1>8. a + 0 = a /\ b + 0 = b
  OBVIOUS
<1>9. Str!LOAD(s, a) = Str!LOAD(t, b) <=> d0 = e0 /\ d1 = e1 /\ d2 = e2 /\ d3 = e3
  <2>1. /\ Word(d0, d1, d2, d3) = Word(e0, e1, e2, e3) <=> d0 = e0 /\ d1 = e1 /\ d2 = e2 /\ d3 = e3
        /\ Word(d3, d2, d1, d0) = Word(e3, e2, e1, e0) <=> d0 = e0 /\ d1 = e1 /\ d2 = e2 /\ d3 = e3
    <3>1. CASE Byte = 8
      BY <3>1, SMT DEF Word
    <3>2. CASE Byte = 256
      BY <3>2, SMT DEF Word
    <3> QED
      BY <3>1, <3>2, ByteAssumption
  <2> QED
    BY <1>5, <1>6, <2>1, Zenon
<1>10. Str!ZeroSeen(Str!LOAD(s, a)) <=> d0 = 0 \/ d1 = 0 \/ d2 = 0 \/ d3 = 0
  BY <1>5, ZeroSeenIs
<1>11. ~job.little => (Str!LOAD(s, a) < Str!LOAD(t, b)
         <=> \/ d0 < e0
             \/ d0 = e0 /\ d1 < e1
             \/ d0 = e0 /\ d1 = e1 /\ d2 < e2
             \/ d0 = e0 /\ d1 = e1 /\ d2 = e2 /\ d3 < e3)
  <2>1. Word(d3, d2, d1, d0) < Word(e3, e2, e1, e0)
        <=> \/ d0 < e0
            \/ d0 = e0 /\ d1 < e1
            \/ d0 = e0 /\ d1 = e1 /\ d2 < e2
            \/ d0 = e0 /\ d1 = e1 /\ d2 = e2 /\ d3 < e3
    <3>1. CASE Byte = 8
      BY <3>1, SMT DEF Word
    <3>2. CASE Byte = 256
      BY <3>2, SMT DEF Word
    <3> QED
      BY <3>1, <3>2, ByteAssumption
  <2> QED
    BY <1>5, <1>6, <2>1, Zenon
<1>12. Str!LOAD(s, a) = Str!LOAD(t, b) <=> \A j \in 0 .. 3 : s[a + j] = t[b + j]
  <2>1. (\A j \in 0 .. 3 : s[a + j] = t[b + j])
        <=> s[a + 0] = t[b + 0] /\ s[a + 1] = t[b + 1] /\ s[a + 2] = t[b + 2] /\ s[a + 3] = t[b + 3]
    BY <1>7
  <2> QED
    BY <1>3, <1>4, <1>8, <1>9, <2>1
<1>13. Str!ZeroSeen(Str!LOAD(s, a)) <=> \E j \in 0 .. 3 : s[a + j] = 0
  BY <1>3, <1>7, <1>8, <1>10, Zenon
<1>14. (\E j \in 0 .. 3 : s[a + j] < t[b + j] /\ \A i \in 0 .. j - 1 : s[a + i] = t[b + i])
       <=> \/ d0 < e0
           \/ d0 = e0 /\ d1 < e1
           \/ d0 = e0 /\ d1 = e1 /\ d2 < e2
           \/ d0 = e0 /\ d1 = e1 /\ d2 = e2 /\ d3 < e3
  <2>1. /\ \A i : i \notin 0 .. 0 - 1
        /\ \A i : i \in 0 .. 1 - 1 <=> i = 0
        /\ \A i : i \in 0 .. 2 - 1 <=> i = 0 \/ i = 1
        /\ \A i : i \in 0 .. 3 - 1 <=> i = 0 \/ i = 1 \/ i = 2
    OBVIOUS
  <2> DEFINE Less(j) == s[a + j] < t[b + j]
             Same(j) == s[a + j] = t[b + j]
  <2>2. /\ Less(0) = (d0 < e0) /\ Less(1) = (d1 < e1) /\ Less(2) = (d2 < e2) /\ Less(3) = (d3 < e3)
        /\ Same(0) = (d0 = e0) /\ Same(1) = (d1 = e1) /\ Same(2) = (d2 = e2)
    BY <1>3, <1>4, <1>8
  <2> HIDE DEF Less, Same
  <2>3. (\E j \in 0 .. 3 : Less(j) /\ \A i \in 0 .. j - 1 : Same(i))
        <=> \/ Less(0)
            \/ Same(0) /\ Less(1)
            \/ Same(0) /\ Same(1) /\ Less(2)
            \/ Same(0) /\ Same(1) /\ Same(2) /\ Less(3)
    BY <1>7, <2>1
  <2> QED
    BY <2>2, <2>3, Zenon DEF Less, Same
<1> QED
  BY <1>11, <1>12, <1>13, <1>14

(* What is done in a unit with the end in it orders the strings.           *)
LEMMA UnitDecides ==
  ASSUME NEW s, NEW t, NEW a \in Nat, NEW b \in Nat, Readable(s, a), Readable(t, b),
         job.little \in BOOLEAN, NEW e \in 0 .. 3, EndAt(s, t, a, b, e)
  PROVE  /\ Str!zero_detected(s, t, a, b) = Order(s[a + e], t[b + e])
         /\ ~job.little /\ Str!LOAD(s, a) # Str!LOAD(t, b) /\ ~Str!ZeroSeen(Str!LOAD(s, a))
              => Str!Sign(Str!LOAD(s, a), Str!LOAD(t, b)) = Order(s[a + e], t[b + e])
<1>1. Str!LOAD(s, a) = Str!LOAD(t, b) => Order(s[a + e], t[b + e]) = 0
  BY UnitShows DEF Order
<1>2. Str!unaligned_loop(s, t, a, b) = Order(s[a + e], t[b + e])
  <2>1. e \in Nat
    OBVIOUS
  <2> QED
    BY <2>1, UnalignedFinds
<1>3. Str!zero_detected(s, t, a, b) = Order(s[a + e], t[b + e])
  BY <1>1, <1>2, Zenon DEF Str!zero_detected
<1>4. ASSUME ~job.little, ~Str!ZeroSeen(Str!LOAD(s, a))
      PROVE  Str!Sign(Str!LOAD(s, a), Str!LOAD(t, b)) = Order(s[a + e], t[b + e])
  <2>1. s[a + e] # 0 /\ s[a + e] # t[b + e] /\ \A k \in 0 .. e - 1 : s[a + k] = t[b + k]
    BY <1>4, UnitShows DEF EndAt, Ends
  <2>2. s[a + e] \in Int /\ t[b + e] \in Int /\ \A j \in 0 .. 3 : s[a + j] \in Int /\ t[b + j] \in Int
    BY ByteAssumption DEF Readable
  <2>3. (\E j \in 0 .. 3 : s[a + j] < t[b + j] /\ \A i \in 0 .. j - 1 : s[a + i] = t[b + i])
        <=> s[a + e] < t[b + e]
    <3>1. ASSUME NEW j \in 0 .. 3, s[a + j] < t[b + j], \A i \in 0 .. j - 1 : s[a + i] = t[b + i]
          PROVE  j = e
      <4>1. ~(e \in 0 .. j - 1) /\ ~(j \in 0 .. e - 1)
        BY <2>1, <2>2, <3>1
      <4> QED
        BY <4>1
    <3> QED
      BY <2>1, <3>1
  <2>4. Str!LOAD(s, a) < Str!LOAD(t, b) <=> s[a + e] < t[b + e]
    BY <1>4, <2>3, UnitShows
  <2> QED
    BY <2>1, <2>4, Zenon DEF Order, Str!Sign
<1> QED
  BY <1>3, <1>4

(* What a turn of aligned_loop returns of a unit with the end in it. *)
Outcome(s, t, a, b, k) ==
  IF Str!LOAD(s, a) # Str!LOAD(t, b) /\ ~(Str!Third(k) /\ ~job.little)
  THEN Str!early_mismatch(s, t, a, b)
  ELSE IF Str!ZeroSeen(Str!LOAD(s, a)) THEN Str!zero_detected(s, t, a, b)
  ELSE Str!Sign(Str!LOAD(s, a), Str!LOAD(t, b))

(* The turn of the end stops the loop, and its outcome is right.           *)
LEMMA OutcomeIs ==
  ASSUME NEW s, NEW t, NEW a \in Nat, NEW b \in Nat, Readable(s, a), Readable(t, b),
         job.little \in BOOLEAN, NEW e \in 0 .. 3, EndAt(s, t, a, b, e), NEW k
  PROVE  /\ Str!LOAD(s, a) # Str!LOAD(t, b) \/ Str!ZeroSeen(Str!LOAD(s, a))
         /\ Outcome(s, t, a, b, k) = Order(s[a + e], t[b + e])
<1>1. Str!LOAD(s, a) # Str!LOAD(t, b) \/ Str!ZeroSeen(Str!LOAD(s, a))
  BY UnitShows DEF EndAt, Ends
<1>2. /\ Str!zero_detected(s, t, a, b) = Order(s[a + e], t[b + e])
      /\ ~job.little /\ Str!LOAD(s, a) # Str!LOAD(t, b) /\ ~Str!ZeroSeen(Str!LOAD(s, a))
           => Str!Sign(Str!LOAD(s, a), Str!LOAD(t, b)) = Order(s[a + e], t[b + e])
  BY UnitDecides
<1> QED
  BY <1>1, <1>2, Zenon DEF Outcome, Str!early_mismatch

Wordwise(f, s, t, a, b) ==
  f = [k \in Nat |->
         IF Str!LOAD(s, a + k * 4) # Str!LOAD(t, b + k * 4) /\ ~(Str!Third(k) /\ ~job.little)
         THEN Str!early_mismatch(s, t, a + k * 4, b + k * 4)
         ELSE IF Str!ZeroSeen(Str!LOAD(s, a + k * 4))
              THEN Str!zero_detected(s, t, a + k * 4, b + k * 4)
         ELSE IF Str!LOAD(s, a + k * 4) # Str!LOAD(t, b + k * 4)
              THEN Str!Sign(Str!LOAD(s, a + k * 4), Str!LOAD(t, b + k * 4))
         ELSE f[k + 1]]

(* What aligned_loop reads are bytes, up to the end of the unit of the end. *)
Legible(s, t, a, b, e) ==
  \A k \in 0 .. e + 3 : s[a + k] \in 0 .. Byte - 1 /\ t[b + k] \in 0 .. Byte - 1

(* aligned_loop orders the strings by the bytes at their end.              *)
LEMMA AlignedFinds ==
  ASSUME NEW s, NEW t, NEW a \in Nat, NEW b \in Nat, NEW e \in Nat, EndAt(s, t, a, b, e),
         job.little \in BOOLEAN, Legible(s, t, a, b, e)
  PROVE  Str!aligned_loop(s, t, a, b) = Order(s[a + e], t[b + e])
<1> DEFINE Stop(k) == \/ Str!LOAD(s, a + k * 4) # Str!LOAD(t, b + k * 4)
                      \/ Str!ZeroSeen(Str!LOAD(s, a + k * 4))
           S == {k \in Nat : Stop(k)}
           v == [k \in Nat |-> Outcome(s, t, a + k * 4, b + k * 4, k)]
           turn == CHOOSE f : Wordwise(f, s, t, a, b)
           last == e \div 4
           r == e - last * 4
<1>1. last \in Nat /\ r \in 0 .. 3 /\ e = last * 4 + r
  OBVIOUS
<1> HIDE DEF last
<1>2. ASSUME NEW f
      PROVE  Wordwise(f, s, t, a, b) <=> Searches(f, S, v)
  <2>1. ASSUME NEW k \in Nat
        PROVE  (IF Str!LOAD(s, a + k * 4) # Str!LOAD(t, b + k * 4) /\ ~(Str!Third(k) /\ ~job.little)
                THEN Str!early_mismatch(s, t, a + k * 4, b + k * 4)
                ELSE IF Str!ZeroSeen(Str!LOAD(s, a + k * 4))
                     THEN Str!zero_detected(s, t, a + k * 4, b + k * 4)
                ELSE IF Str!LOAD(s, a + k * 4) # Str!LOAD(t, b + k * 4)
                     THEN Str!Sign(Str!LOAD(s, a + k * 4), Str!LOAD(t, b + k * 4))
                ELSE f[k + 1])
               = IF k \in S THEN v[k] ELSE f[k + 1]
    <3>1. v[k] = Outcome(s, t, a + k * 4, b + k * 4, k) /\ (k \in S <=> Stop(k))
      OBVIOUS
    <3> HIDE DEF S, v
    <3> QED
      BY <3>1, Zenon DEF Outcome
  <2> HIDE DEF S, v
  <2> QED
    BY <2>1 DEF Wordwise, Searches
<1>3. ASSUME NEW k \in Nat, k <= last
      PROVE  a + k * 4 \in Nat /\ b + k * 4 \in Nat /\ Readable(s, a + k * 4) /\ Readable(t, b + k * 4)
  <2>1. ASSUME NEW j \in 0 .. 3
        PROVE  k * 4 + j \in 0 .. e + 3 /\ (a + k * 4) + j = a + (k * 4 + j) /\ (b + k * 4) + j = b + (k * 4 + j)
    BY <1>1, <1>3
  <2> QED
    BY <2>1 DEF Readable, Legible
<1>4. ASSUME NEW k \in 0 .. last - 1
      PROVE  k \notin S
  <2>1. k \in Nat /\ k <= last
    BY <1>1
  <2>2. ASSUME NEW j \in 0 .. 3
        PROVE  s[(a + k * 4) + j] = t[(b + k * 4) + j] /\ s[(a + k * 4) + j] # 0
    <3>1. k * 4 + j \in 0 .. e - 1 /\ (a + k * 4) + j = a + (k * 4 + j) /\ (b + k * 4) + j = b + (k * 4 + j)
      BY <1>1
    <3> QED
      BY <3>1 DEF EndAt, Ends
  <2>3. ~Stop(k)
    BY <1>3, <2>1, <2>2, UnitShows
  <2> QED
    BY <2>3
<1>5. /\ last \in S
      /\ v[last] = Order(s[a + e], t[b + e])
  <2>1. EndAt(s, t, a + last * 4, b + last * 4, r)
    <3>1. ASSUME NEW j \in 0 .. r
          PROVE  last * 4 + j \in 0 .. e /\ (j # r => last * 4 + j \in 0 .. e - 1)
                 /\ (a + last * 4) + j = a + (last * 4 + j) /\ (b + last * 4) + j = b + (last * 4 + j)
      BY <1>1, <3>1
    <3>2. \A j \in 0 .. r - 1 : j \in 0 .. r /\ j # r
      BY <1>1
    <3>3. r \in 0 .. r
      BY <1>1
    <3> HIDE DEF r
    <3> QED
      BY <1>1, <3>1, <3>2, <3>3 DEF EndAt, Ends
  <2>2. (a + last * 4) + r = a + e /\ (b + last * 4) + r = b + e
    BY <1>1
  <2> HIDE DEF r
  <2>3. Stop(last) /\ Outcome(s, t, a + last * 4, b + last * 4, last) = Order(s[a + e], t[b + e])
    <3>1. PICK a1 \in Nat, b1 \in Nat :
            /\ a1 = a + last * 4 /\ b1 = b + last * 4 /\ Readable(s, a1) /\ Readable(t, b1)
            /\ EndAt(s, t, a1, b1, r) /\ a1 + r = a + e /\ b1 + r = b + e
      BY <1>1, <1>3, <2>1, <2>2
    <3>2. (Str!LOAD(s, a1) # Str!LOAD(t, b1) \/ Str!ZeroSeen(Str!LOAD(s, a1)))
          /\ Outcome(s, t, a1, b1, last) = Order(s[a1 + r], t[b1 + r])
      BY <1>1, <3>1, OutcomeIs
    <3> QED
      BY <3>1, <3>2
  <2> QED
    BY <1>1, <2>3
<1>6. S \in SUBSET Nat
  OBVIOUS
<1> HIDE DEF S, v
<1>7. Wordwise(turn, s, t, a, b)
  <2>1. \E f : Wordwise(f, s, t, a, b)
    BY <1>2, <1>6, SearchExists DEF Searched
  <2> QED
    BY <2>1
<1>8. turn[0] = v[last]
  BY <1>1, <1>2, <1>4, <1>5, <1>7, SearchFinds
<1>9. Str!aligned_loop(s, t, a, b) = turn[0]
  BY Zenon DEF Str!aligned_loop, Wordwise
<1> QED
  BY <1>5, <1>8, <1>9

(* strcmp does, for any strings, not only for those of StringAt.           *)
LEMMA StrcmpFinds ==
  ASSUME NEW s, NEW t, NEW a \in Nat, NEW b \in Nat, NEW e \in Nat, EndAt(s, t, a, b, e),
         job.little \in BOOLEAN,
         a % 4 = 0 /\ b % 4 = 0 => Legible(s, t, a, b, e)
  PROVE  Str!strcmp(s, t, a, b) = Order(s[a + e], t[b + e])
<1>1. Str!unaligned_loop(s, t, a, b) = Order(s[a + e], t[b + e])
  BY UnalignedFinds
<1>2. ASSUME a % 4 = 0 /\ b % 4 = 0
      PROVE  Str!aligned_loop(s, t, a, b) = Order(s[a + e], t[b + e])
  BY <1>2, AlignedFinds
<1> QED
  BY <1>1, <1>2, Zenon DEF Str!strcmp

(* StringAt is of bytes, and zero far enough.                              *)
LEMMA StringIs ==
  ASSUME job.same \in 0 .. 20, job.common \in 0 .. Byte - 1, NEW a \in 0 .. 3,
         NEW next \in 0 .. Byte - 1, NEW rest \in 0 .. Byte - 1
  PROVE  /\ \A i \in 0 .. 31 : StringAt(job, a, next, rest)[i] \in 0 .. Byte - 1
         /\ StringAt(job, a, next, rest)[a + 24] = 0
<1>1. 3 \in 0 .. Byte - 1 /\ 0 \in 0 .. Byte - 1
  BY ByteAssumption
<1>2. PICK same \in 0 .. 20, common \in 0 .. Byte - 1 : job.same = same /\ job.common = common
  OBVIOUS
<1>3. ASSUME NEW i \in 0 .. 31
      PROVE  StringAt(job, a, next, rest)[i] \in 0 .. Byte - 1
  <2>1. \/ i < a
        \/ ~(i < a) /\ i - a \in 0 .. same - 1
        \/ ~(i < a) /\ i - a \notin 0 .. same - 1 /\ i - a = same
        \/ ~(i < a) /\ i - a \notin 0 .. same - 1 /\ i - a # same /\ i - a > same
    OBVIOUS
  <2> QED
    BY <1>1, <1>2, <2>1 DEF StringAt
<1>4. StringAt(job, a, next, rest)[a + 24] = 0
  <2>1. /\ a + 24 \in 0 .. 31 /\ ~(a + 24 < a) /\ (a + 24) - a \notin 0 .. same - 1
        /\ (a + 24) - a # same /\ (a + 24) - a > same /\ a + 24 >= 24
    OBVIOUS
  <2> QED
    BY <1>2, <2>1 DEF StringAt
<1> QED
  BY <1>3, <1>4

(* strcmp, little- or big-endian, of any strings that agree in up to twenty *)
(* characters, whatever their next characters are and whatever is behind   *)
(* them, on a unit's boundary or not (strcmp.S): the trick with the two    *)
(* constants finds the end in every unit and no end where there is none,   *)
(* and comparing words orders strings as comparing their bytes does.       *)
THEOREM StrcmpIsRight ==
  ASSUME job.a \in 0 .. 3, job.b \in 0 .. 3, job.same \in 0 .. 20, job.common \in 0 .. Byte - 1,
         job.x \in 0 .. Byte - 1, job.y \in 0 .. Byte - 1, job.p \in 0 .. Byte - 1,
         job.q \in 0 .. Byte - 1, job.little \in BOOLEAN
  PROVE  StrcmpOrders
<1>0. PICK a \in 0 .. 3, b \in 0 .. 3 : a = job.a /\ b = job.b
  OBVIOUS
<1>1. PICK s, t : s = StringAt(job, a, job.x, job.p) /\ t = StringAt(job, b, job.y, job.q)
  OBVIOUS
<1>2. \A i \in 0 .. 31 : s[i] \in 0 .. Byte - 1 /\ t[i] \in 0 .. Byte - 1
  BY <1>1, StringIs
<1>3. s[a + 24] = 0
  BY <1>1, StringIs
<1> DEFINE S == {k \in 0 .. 25 : Ends(s, t, a, b, k)}
<1>4. S \in SUBSET Nat /\ 24 \in S /\ 24 >= 0 /\ 0 \in Nat
  BY <1>3 DEF Ends
<1>5. PICK e \in S : FirstFrom(S, 0, e)
  <2> HIDE DEF S
  <2> QED
    BY <1>4, FirstExists
<1>6. e \in 0 .. 24 /\ Ends(s, t, a, b, e) /\ \A k \in 0 .. 25 : Ends(s, t, a, b, k) => e <= k
  BY <1>4, <1>5 DEF FirstFrom
<1>7. EndAt(s, t, a, b, e)
  BY <1>6 DEF EndAt
<1>8. Str!strcmp(s, t, a, b) = Order(s[a + e], t[b + e])
  <2>1. a \in Nat /\ b \in Nat /\ e \in Nat
    BY <1>6
  <2>2. \A k \in 0 .. e + 3 : a + k \in 0 .. 31 /\ b + k \in 0 .. 31
    BY <1>6
  <2>3. Legible(s, t, a, b, e)
    BY <1>2, <2>2 DEF Legible
  <2> QED
    BY <1>7, <2>1, <2>3, StrcmpFinds
<1>9. Smallest({k \in 0 .. 25 : s[a + k] # t[b + k] \/ s[a + k] = 0}) = e
  <2>1. S = {k \in 0 .. 25 : s[a + k] # t[b + k] \/ s[a + k] = 0}
    BY DEF Ends
  <2>2. \A k \in S : e <= k /\ k \in Nat /\ e \in Nat
    BY <1>6
  <2> HIDE DEF S
  <2>3. \A x \in S : (\A y \in S : x <= y) => x = e
    BY <2>2
  <2>4. (CHOOSE x \in S : \A y \in S : x <= y) = e
    BY <1>5, <2>2, <2>3
  <2> QED
    BY <2>1, <2>4, Zenon DEF Smallest
<1>10. Order(s[a + e], t[b + e])
       = IF s[a + e] < t[b + e] THEN -1 ELSE IF s[a + e] > t[b + e] THEN 1 ELSE 0
  <2>1. a + e \in 0 .. 31 /\ b + e \in 0 .. 31
    BY <1>6
  <2>2. PICK x \in Int, y \in Int : x = s[a + e] /\ y = t[b + e]
    <3>1. s[a + e] \in 0 .. Byte - 1 /\ t[b + e] \in 0 .. Byte - 1
      BY ONLY <1>2, <2>1
    <3> QED
      BY ONLY <3>1, ByteAssumption
  <2> QED
    BY <2>2 DEF Order, Str!Sign
<1> QED
  BY <1>0, <1>1, <1>8, <1>9, <1>10, Zenon DEF StrcmpOrders

(* Any call of memcpy, memset or strcmp with the arguments of the three    *)
(* theorems.                                                               *)
MemcpyCall ==
  /\ job.op = "memcpy" /\ job.nbytes \in {4, 8}
  /\ job.dst \in Nat /\ job.src \in Nat /\ job.len \in Nat /\ job.dst + job.len <= job.src
MemsetCall ==
  /\ job.op = "memset" /\ job.nbytes \in {4, 8}
  /\ job.dst \in Nat /\ job.len \in Nat /\ job.val \in 0 .. Byte - 1
StrcmpCall ==
  /\ job.op = "strcmp" /\ job.little \in BOOLEAN
  /\ job.a \in 0 .. 3 /\ job.b \in 0 .. 3 /\ job.same \in 0 .. 20
  /\ job.common \in 0 .. Byte - 1 /\ job.x \in 0 .. Byte - 1 /\ job.y \in 0 .. Byte - 1
  /\ job.p \in 0 .. Byte - 1 /\ job.q \in 0 .. Byte - 1

(* The routines of sb1-opt on memory and strings do in such a call what    *)
(* they promise: every byte of a buffer is written, rightly, nothing else  *)
(* changes, and strings are ordered.                                       *)
THEOREM MemoryRoutinesAreRight ==
  ASSUME MemcpyCall \/ MemsetCall \/ StrcmpCall
  PROVE  MemoryRoutines
<1>1. CASE MemcpyCall
  <2>1. MemcpyCopies
    BY <1>1, MemcpyIsRight DEF MemcpyCall
  <2>2. job.op = "memcpy"
    BY <1>1 DEF MemcpyCall
  <2>3. ~Called("memset") /\ ~Called("strcmp")
    BY <2>2 DEF Called
  <2> QED
    BY <2>1, <2>3, Zenon DEF MemoryRoutines, MemsetFills, StrcmpOrders
<1>2. CASE MemsetCall
  <2>1. MemsetFills
    BY <1>2, MemsetIsRight DEF MemsetCall
  <2>2. job.op = "memset"
    BY <1>2 DEF MemsetCall
  <2>3. ~Called("memcpy") /\ ~Called("strcmp")
    BY <2>2 DEF Called
  <2> QED
    BY <2>1, <2>3, Zenon DEF MemoryRoutines, MemcpyCopies, StrcmpOrders
<1>3. CASE StrcmpCall
  <2>1. StrcmpOrders
    BY <1>3, StrcmpIsRight DEF StrcmpCall
  <2>2. job.op = "strcmp"
    BY <1>3 DEF StrcmpCall
  <2>3. ~Called("memcpy") /\ ~Called("memset")
    BY <2>2 DEF Called
  <2> QED
    BY <2>1, <2>3, Zenon DEF MemoryRoutines, MemcpyCopies, MemsetFills
<1> QED
  BY <1>1, <1>2, <1>3

(***************************************************************************)
(* csum_partial.  Modulo Byte^2 - 1 a sum is what its two halves add up    *)
(* to, and exchanging the bytes of its pairs multiplies it by Byte.        *)
(***************************************************************************)
(* Numbers that are the same modulo m. *)
Same(x, y, m) == x \in Int /\ y \in Int /\ \E z \in Int : x = y + z * m

LEMMA SameMod ==
  ASSUME NEW m \in Nat \ {0}, NEW x, NEW y, Same(x, y, m)
  PROVE  x % m = y % m
<1>1. PICK z \in Int : x \in Int /\ y \in Int /\ x = y + z * m
  BY DEF Same
<1>2. PICK q \in Int, r \in 0 .. m - 1 : y = q * m + r /\ r = y % m
  BY <1>1
<1>3. x = (q + z) * m + r /\ q + z \in Int
  BY <1>1, <1>2
<1>4. x % m = r
  BY <1>3
<1> QED
  BY <1>2, <1>4

LEMMA SameTrans ==
  ASSUME NEW m \in Int, NEW x, NEW y, NEW z, Same(x, y, m), Same(y, z, m)
  PROVE  Same(x, z, m)
<1>1. PICK p \in Int, q \in Int : x \in Int /\ y \in Int /\ z \in Int /\ x = y + p * m /\ y = z + q * m
  BY DEF Same
<1>2. x = z + (p + q) * m /\ p + q \in Int
  BY <1>1
<1> QED
  BY <1>1, <1>2 DEF Same

LEMMA SameSym ==
  ASSUME NEW m \in Int, NEW x, NEW y, Same(x, y, m)
  PROVE  Same(y, x, m)
<1>1. PICK p \in Int : x \in Int /\ y \in Int /\ x = y + p * m
  BY DEF Same
<1>2. y = x + (-p) * m /\ -p \in Int
  BY <1>1
<1> QED
  BY <1>1, <1>2 DEF Same

LEMMA SameAdd ==
  ASSUME NEW m \in Int, NEW x, NEW y, NEW u, NEW v, Same(x, y, m), Same(u, v, m)
  PROVE  Same(x + u, y + v, m)
<1>1. PICK p \in Int, q \in Int : /\ x \in Int /\ y \in Int /\ u \in Int /\ v \in Int
                                  /\ x = y + p * m /\ u = v + q * m
  BY DEF Same
<1>2. x + u = (y + v) + (p + q) * m /\ p + q \in Int /\ x + u \in Int /\ y + v \in Int
  BY <1>1
<1> QED
  BY <1>2 DEF Same

LEMMA SameTimes ==
  ASSUME NEW m \in Int, NEW b \in Int, NEW x, NEW y, Same(x, y, m)
  PROVE  Same(b * x, b * y, m)
<1>1. PICK p \in Int : x \in Int /\ y \in Int /\ x = y + p * m
  BY DEF Same
<1>2. b * x = b * y + (b * p) * m /\ b * p \in Int /\ b * x \in Int /\ b * y \in Int
  BY <1>1
<1> QED
  BY <1>2 DEF Same
AllOnes == Byte^2 - 1

LEMMA OnesIs == AllOnes = Byte * Byte - 1 /\ AllOnes \in Nat /\ Byte \in Nat
<1>1. CASE Byte = 8
  BY <1>1, SMT DEF AllOnes
<1>2. CASE Byte = 256
  BY <1>2, SMT DEF AllOnes
<1> QED
  BY <1>1, <1>2, ByteAssumption

LEMMA Halves ==
  ASSUME NEW x \in 0 .. Byte^4 - 1
  PROVE  /\ x % Byte^2 \in 0 .. AllOnes /\ x \div Byte^2 \in 0 .. AllOnes
         /\ Same(x, (x % Byte^2) + x \div Byte^2, AllOnes)
         /\ (x = 0 <=> (x % Byte^2) + x \div Byte^2 = 0)
<1>1. ASSUME NEW u \in Nat \ {0}, x < u * u
      PROVE  /\ x % u \in 0 .. u - 1 /\ x \div u \in 0 .. u - 1
             /\ Same(x, (x % u) + x \div u, u - 1)
             /\ (x = 0 <=> (x % u) + x \div u = 0)
  <2>1. PICK q \in Int, r \in 0 .. u - 1 : x = q * u + r /\ q = x \div u /\ r = x % u /\ x \in Nat
    BY <1>1
  <2>2. q \in 0 .. u - 1
    <3>1. q >= 0
      BY <2>1
    <3>2. ~(q >= u)
      <4>1. q >= u => q * u >= u * u
        BY <2>1
      <4> QED
        BY <1>1, <2>1, <4>1
    <3> QED
      BY <2>1, <3>1, <3>2
  <2>3. x = (r + q) + q * (u - 1) /\ r + q \in Int
    BY <2>1, <2>2
  <2>4. x = 0 <=> r + q = 0
    BY <2>1, <2>2
  <2>5. Same(x, r + q, u - 1)
    <3>1. x \in Int /\ q \in Int
      BY <2>1
    <3> QED
      BY <2>3, <3>1, Zenon DEF Same
  <2> QED
    BY <2>1, <2>2, <2>4, <2>5
<1>2. Byte^2 \in Nat \ {0} /\ Byte^4 = Byte^2 * Byte^2 /\ x < Byte^4 /\ x \in Nat
  <2>1. CASE Byte = 8
    BY <2>1, SMT
  <2>2. CASE Byte = 256
    BY <2>2, SMT
  <2> QED
    BY <2>1, <2>2, ByteAssumption
<1> QED
  BY <1>1, <1>2 DEF AllOnes

LEMMA Swapped ==
  ASSUME NEW x \in 0 .. Byte^4 - 1
  PROVE  /\ C!swap(x) \in 0 .. Byte^4 - 1
         /\ Same(C!swap(x), Byte * x, AllOnes)
         /\ (C!swap(x) = 0 <=> x = 0)
<1>1. /\ Byte^4 = Byte * Byte * Byte * Byte /\ Byte^3 = Byte * Byte * Byte /\ Byte^2 = Byte * Byte
      /\ x < Byte^4
  <2>1. CASE Byte = 8
    BY <2>1, SMT
  <2>2. CASE Byte = 256
    BY <2>2, SMT
  <2> QED
    BY <2>1, <2>2, ByteAssumption
<1>2. C!swap(x) = x \div Byte + (x % Byte) * Byte^3
  <2>1. 4 - 1 = 3
    OBVIOUS
  <2> QED
    BY <2>1, Zenon DEF C!swap, C!NBYTES
<1>3. PICK b \in {8, 256} : b = Byte
  BY ByteAssumption
<1>4. x < b * b * b * b /\ b * b * b * b = Byte^4 /\ b * b - 1 = AllOnes
      /\ C!swap(x) = x \div b + (x % b) * (b * b * b) /\ b * x = Byte * x
  BY <1>1, <1>2, <1>3, Zenon DEF AllOnes
<1>5. /\ x \div b + (x % b) * (b * b * b) \in 0 .. b * b * b * b - 1
      /\ Same(x \div b + (x % b) * (b * b * b), b * x, b * b - 1)
      /\ (x \div b + (x % b) * (b * b * b) = 0 <=> x = 0)
  <2>1. PICK q \in Int, r \in 0 .. b - 1 : x = q * b + r /\ q = x \div b /\ r = x % b /\ x \in Nat
    BY <1>4
  <2> DEFINE y == q + r * (b * b * b)
  <2>2. /\ y \in 0 .. b * b * b * b - 1
        /\ y = b * x + (r * b - q) * (b * b - 1) /\ r * b - q \in Int /\ b * x \in Int
        /\ (y = 0 <=> x = 0)
    <3>1. CASE b = 8
      <4>1. x = 8 * q + r /\ x < 4096 /\ x >= 0 /\ r \in 0 .. 7
        BY <1>4, <2>1, <3>1, SMT
      <4>2. y = q + 512 * r
        BY <3>1, SMT
      <4> HIDE DEF y
      <4>3. /\ y \in Int /\ y >= 0 /\ y < 4096 /\ (y = 0 <=> x = 0)
            /\ y = 8 * x + (8 * r - q) * 63
        <5>1. q \in Int /\ r \in Int /\ x \in Int
          BY <2>1
        <5>2. q >= 0 /\ q < 512
          BY <4>1, <5>1, SMT
        <5> QED
          BY <4>1, <4>2, <5>1, <5>2, SMT
      <4>4. b * b - 1 = 63 /\ r * b = 8 * r /\ b * x = 8 * x
        BY <2>1, <3>1, SMT
      <4>5. y \in 0 .. b * b * b * b - 1
        <5>1. PICK n \in Int : n = b * b * b * b
          BY <3>1, SMT
        <5>2. y < n
          BY <3>1, <4>3, <5>1, SMT
        <5>3. y \in 0 .. n - 1
          BY <4>3, <5>2
        <5> QED
          BY <5>1, <5>3, Zenon
      <4>6. y = b * x + (r * b - q) * (b * b - 1)
        <5>1. PICK m \in Int : m = b * b - 1
          BY <3>1, SMT
        <5>2. m = 63
          BY <4>4, <5>1, SMT
        <5>3. y = b * x + (r * b - q) * m
          BY <4>3, <4>4, <5>2, SMT
        <5> QED
          BY <5>1, <5>3
      <4>7. r * b - q \in Int /\ b * x \in Int
        BY <2>1
      <4> QED
        BY <4>3, <4>5, <4>6, <4>7
    <3>2. CASE b = 256
      <4>1. x = 256 * q + r /\ x < 4294967296 /\ x >= 0 /\ r \in 0 .. 255
        BY <1>4, <2>1, <3>2, SMT
      <4>2. y = q + 16777216 * r
        BY <3>2, SMT
      <4> HIDE DEF y
      <4>3. /\ y \in Int /\ y >= 0 /\ y < 4294967296 /\ (y = 0 <=> x = 0)
            /\ y = 256 * x + (256 * r - q) * 65535
        <5>1. q \in Int /\ r \in Int /\ x \in Int
          BY <2>1
        <5>2. q >= 0 /\ q < 16777216
          BY <4>1, <5>1, SMT
        <5> QED
          BY <4>1, <4>2, <5>1, <5>2, SMT
      <4>4. b * b - 1 = 65535 /\ r * b = 256 * r /\ b * x = 256 * x
        BY <2>1, <3>2, SMT
      <4>5. y \in 0 .. b * b * b * b - 1
        <5>1. PICK n \in Int : n = b * b * b * b
          BY <3>2, SMT
        <5>2. y < n
          BY <3>2, <4>3, <5>1, SMT
        <5>3. y \in 0 .. n - 1
          BY <4>3, <5>2
        <5> QED
          BY <5>1, <5>3, Zenon
      <4>6. y = b * x + (r * b - q) * (b * b - 1)
        <5>1. PICK m \in Int : m = b * b - 1
          BY <3>2, SMT
        <5>2. m = 65535
          BY <4>4, <5>1, SMT
        <5>3. y = b * x + (r * b - q) * m
          BY <4>3, <4>4, <5>2, SMT
        <5> QED
          BY <5>1, <5>3
      <4>7. r * b - q \in Int /\ b * x \in Int
        BY <2>1
      <4> QED
        BY <4>3, <4>5, <4>6, <4>7
    <3> QED
      BY <3>1, <3>2
  <2>3. y = x \div b + (x % b) * (b * b * b)
    BY <2>1, Zenon
  <2> HIDE DEF y
  <2>4. Same(y, b * x, b * b - 1)
    <3>1. PICK z \in Int : z = r * b - q
      BY <2>2
    <3>2. y = b * x + z * (b * b - 1) /\ y \in Int
      BY <2>2, <3>1
    <3> QED
      BY <2>2, <3>2, Zenon DEF Same
  <2> QED
    BY <2>2, <2>3, <2>4
<1> QED
  BY <1>4, <1>5, Zenon
(* The bytes of n addresses from a on, and what the byte at address p      *)
(* weighs in a pair that begins at an even address.                        *)
Octets(mem, a, n) == \A i \in a .. a + n - 1 : mem[i] \in 0 .. Byte - 1
Weighs(p) == IF (p % 2 = 0) = job.big THEN Byte ELSE 1
Terms(mem, a, p, n) == [k \in 1 .. n |-> mem[a + k - 1] * Weighs(p + k - 1)]

LEMMA WeighsIs ==
  ASSUME NEW p \in Nat, job.big \in BOOLEAN
  PROVE  /\ Weighs(p) \in {1, Byte} /\ Weighs(p + 2) = Weighs(p)
         /\ Weighs(p) = 1 <=> Weighs(p + 1) = Byte
         /\ Weighs(p) = Byte <=> Weighs(p + 1) = 1
<1>1. (p + 2) % 2 = p % 2 /\ (p % 2 = 0 <=> (p + 1) % 2 # 0)
  OBVIOUS
<1>2. Byte # 1
  BY ByteAssumption
<1>3. /\ (p % 2 = 0) \in BOOLEAN /\ ((p + 1) % 2 = 0) \in BOOLEAN
  OBVIOUS
<1> QED
  BY <1>1, <1>2, <1>3, Zenon DEF Weighs

LEMMA TermIs ==
  ASSUME NEW n \in Nat, NEW mem, NEW a \in Nat, NEW p \in Nat, job.big \in BOOLEAN,
         Octets(mem, a, n), NEW k \in 1 .. n
  PROVE  /\ mem[a + k - 1] \in 0 .. Byte - 1
         /\ Terms(mem, a, p, n)[k] = mem[a + k - 1] * Weighs(p + k - 1)
         /\ Terms(mem, a, p, n)[k] \in Nat
<1>1. a + k - 1 \in a .. a + n - 1 /\ p + k - 1 \in Nat
  OBVIOUS
<1>2. mem[a + k - 1] \in 0 .. Byte - 1
  BY <1>1, Zenon DEF Octets
<1>3. Terms(mem, a, p, n)[k] = mem[a + k - 1] * Weighs(p + k - 1)
  BY Zenon DEF Terms
<1>4. Weighs(p + k - 1) \in Nat
  BY <1>1, ByteAssumption DEF Weighs
<1>5. PICK m \in Nat, w \in Nat : m = mem[a + k - 1] /\ w = Weighs(p + k - 1)
  BY <1>2, <1>4, ByteAssumption
<1>6. m * w \in Nat
  OBVIOUS
<1> QED
  BY <1>2, <1>3, <1>5, <1>6, Zenon

(* A sum of n bytes is below n * (Byte^2 - 1) / 2, and Byte^2 more.        *)
LEMMA SumIsBelow ==
  ASSUME NEW n \in Nat, NEW mem, NEW a \in Nat, NEW p \in Nat, job.big \in BOOLEAN,
         Octets(mem, a, n), NEW f, Adds(f, 0, Terms(mem, a, p, n), n)
  PROVE  \A k \in 0 .. n : f[k] \in Nat /\ 2 * f[k] <= (k + 1) * AllOnes
<1> DEFINE spare == (Byte - 1) * (Byte - 1)
           Below(k) == 2 * f[k] <= k * AllOnes + (IF Weighs(p + k) = 1 THEN spare ELSE 0)
           S == {k \in 0 .. n : f[k] \in Nat /\ Below(k)}
<1>1. /\ f[0] = 0
      /\ \A k \in 1 .. n : f[k] = f[k - 1] + Terms(mem, a, p, n)[k]
  BY AddsTo
<1>2. AllOnes = Byte * Byte - 1 /\ AllOnes \in Nat /\ spare \in Nat /\ spare <= AllOnes
  BY OnesIs, ByteAssumption
<1> HIDE DEF spare
<1>3. 0 \in S
  <2>1. 0 * AllOnes = 0 /\ p + 0 \in Nat
    BY <1>2
  <2> QED
    BY <1>1, <1>2, <2>1
<1>4. ASSUME NEW k \in 1 .. n, k - 1 \in S
      PROVE  k \in S
  <2>1. PICK m \in 0 .. Byte - 1, w \in {1, Byte} :
          m = mem[a + k - 1] /\ w = Weighs(p + k - 1) /\ Terms(mem, a, p, n)[k] = m * w
    <3>1. p + k - 1 \in Nat
      OBVIOUS
    <3>2. Weighs(p + k - 1) \in {1, Byte}
      BY <3>1, WeighsIs
    <3>3. /\ mem[a + k - 1] \in 0 .. Byte - 1
          /\ Terms(mem, a, p, n)[k] = mem[a + k - 1] * Weighs(p + k - 1)
      BY TermIs
    <3> QED
      BY <3>2, <3>3, Zenon
  <2>2. f[k] = f[k - 1] + m * w /\ f[k - 1] \in Nat /\ Below(k - 1)
    BY <1>1, <1>4, <2>1
  <2>3. w = 1 <=> Weighs(p + k) = Byte
    <3>1. PICK q \in Nat : q = p + k - 1
      OBVIOUS
    <3>2. q + 1 = p + k
      BY <3>1
    <3>3. Weighs(q) = 1 <=> Weighs(q + 1) = Byte
      BY WeighsIs
    <3> QED
      BY <2>1, <3>1, <3>2, <3>3, Zenon
  <2>4. Weighs(p + k) \in {1, Byte} /\ p + (k - 1) = p + k - 1 /\ Byte # 1
    <3>1. p + k \in Nat /\ p + (k - 1) = p + k - 1
      OBVIOUS
    <3> QED
      BY <3>1, WeighsIs, ByteAssumption
  <2>5. PICK o \in Nat : o = (k - 1) * AllOnes /\ k * AllOnes = o + AllOnes
    BY <1>2
  <2>6. CASE w = 1
    <3>1. Weighs(p + k) # 1
      BY <2>3, <2>4, <2>6, Zenon
    <3>2. 2 * f[k - 1] <= o + spare
      BY <2>1, <2>2, <2>4, <2>5, <2>6
    <3>3. f[k] = f[k - 1] + m
      BY <2>1, <2>2, <2>6, ByteAssumption
    <3>4. spare + 2 * m <= AllOnes
      BY <1>2, ByteAssumption DEF spare
    <3>5. f[k] \in Nat /\ 2 * f[k] <= k * AllOnes
      BY <1>2, <2>2, <2>5, <3>2, <3>3, <3>4, ByteAssumption
    <3>6. Below(k)
      <4>1. PICK l \in Nat : l = k * AllOnes
        BY <1>2
      <4>2. 2 * f[k] <= l + 0
        BY <3>5, <4>1
      <4> QED
        BY <3>1, <4>1, <4>2, Zenon
    <3> QED
      BY <3>5, <3>6
  <2>7. CASE w = Byte
    <3>1. Weighs(p + k) = 1 /\ Weighs(p + (k - 1)) # 1
      BY <2>1, <2>3, <2>4, <2>7, Zenon
    <3>2. 2 * f[k - 1] <= o
      BY <2>2, <2>5, <3>1
    <3>3. m * w \in Nat /\ 2 * (m * w) <= AllOnes + spare
      <4>1. CASE Byte = 8
        BY <1>2, <2>7, <4>1 DEF spare
      <4>2. CASE Byte = 256
        BY <1>2, <2>7, <4>2 DEF spare
      <4> QED
        BY <4>1, <4>2, ByteAssumption
    <3>4. PICK t \in Nat : t = m * w
      BY <3>3
    <3>5. f[k] \in Nat /\ 2 * f[k] <= k * AllOnes + spare
      BY <1>2, <2>2, <2>5, <3>2, <3>3, <3>4
    <3> QED
      BY <3>1, <3>5
  <2> QED
    BY <2>6, <2>7
<1>5. \A k \in 0 .. n : k \in S
  <2> HIDE DEF S
  <2> QED
    BY <1>3, <1>4, Induction
<1>6. ASSUME NEW k \in 0 .. n
      PROVE  f[k] \in Nat /\ 2 * f[k] <= (k + 1) * AllOnes
  <2>1. f[k] \in Nat /\ Below(k)
    BY <1>5
  <2>2. (k + 1) * AllOnes = k * AllOnes + AllOnes /\ k * AllOnes \in Nat
    BY <1>2
  <2> QED
    BY <1>2, <2>1, <2>2
<1> QED
  BY <1>6

(* The same bytes summed from an even and from an odd address.             *)
LEMMA SumsAtEven ==
  ASSUME NEW n \in Nat, NEW mem, NEW a \in Nat, NEW p \in Nat, p % 2 = 0, job.big \in BOOLEAN, Octets(mem, a, n),
         NEW c \in Nat, NEW f, Adds(f, 0, Terms(mem, a, p, n), n),
         NEW g, Adds(g, c, Terms(mem, a, 0, n), n)
  PROVE  \A k \in 0 .. n : g[k] = c + f[k] /\ f[k] \in Nat
<1> DEFINE S == {k \in 0 .. n : g[k] = c + f[k] /\ f[k] \in Nat}
<1>1. /\ f[0] = 0 /\ g[0] = c
      /\ \A k \in 1 .. n : f[k] = f[k - 1] + Terms(mem, a, p, n)[k]
      /\ \A k \in 1 .. n : g[k] = g[k - 1] + Terms(mem, a, 0, n)[k]
  BY AddsTo
<1>2. 0 \in S
  BY <1>1
<1>3. ASSUME NEW k \in 1 .. n, k - 1 \in S
      PROVE  k \in S
  <2>1. /\ Terms(mem, a, p, n)[k] = mem[a + k - 1] * Weighs(p + k - 1) /\ Terms(mem, a, p, n)[k] \in Nat
        /\ Terms(mem, a, 0, n)[k] = mem[a + k - 1] * Weighs(0 + k - 1)
    <3>1. /\ Terms(mem, a, 0, n)[k] = mem[a + k - 1] * Weighs(0 + k - 1)
          /\ Terms(mem, a, p, n)[k] = mem[a + k - 1] * Weighs(p + k - 1)
      BY Zenon DEF Terms
    <3>2. Terms(mem, a, p, n)[k] \in Nat /\ mem[a + k - 1] \in 0 .. Byte - 1
      <4> HIDE DEF S
      <4> QED
        BY ONLY n \in Nat, a \in Nat, p \in Nat, job.big \in BOOLEAN, Octets(mem, a, n), k \in 1 .. n, TermIs
    <3> QED
      BY <3>1, <3>2
  <2>2. Weighs(p + k - 1) = Weighs(0 + k - 1)
    <3>1. (p + k - 1) % 2 = (0 + k - 1) % 2
      OBVIOUS
    <3> QED
      BY <3>1, Zenon DEF Weighs
  <2>3. PICK t \in Nat : t = Terms(mem, a, p, n)[k] /\ t = Terms(mem, a, 0, n)[k]
    BY <2>1, <2>2, Zenon
  <2>4. f[k] = f[k - 1] + t /\ g[k] = g[k - 1] + t
    BY <1>1, <2>3
  <2> QED
    BY <1>3, <2>4
<1> HIDE DEF S
<1>4. \A k \in 0 .. n : k \in S
  BY <1>2, <1>3, Induction
<1> QED
  BY <1>4 DEF S

LEMMA SumsAtOdd ==
  ASSUME NEW n \in Nat, NEW mem, NEW a \in Nat, NEW p \in Nat, p % 2 = 1, job.big \in BOOLEAN, Octets(mem, a, n),
         NEW c \in Nat, NEW f, Adds(f, 0, Terms(mem, a, p, n), n),
         NEW g, Adds(g, c, Terms(mem, a, 0, n), n)
  PROVE  \A k \in 0 .. n : /\ Same(g[k], c + Byte * f[k], AllOnes)
                           /\ f[k] \in Nat /\ g[k] \in Nat /\ g[k] >= c /\ (g[k] = c <=> f[k] = 0)
<1> DEFINE Matches(k) == /\ Same(g[k], c + Byte * f[k], AllOnes)
                         /\ f[k] \in Nat /\ g[k] \in Nat /\ g[k] >= c /\ (g[k] = c <=> f[k] = 0)
           S == {k \in 0 .. n : Matches(k)}
<1>1. /\ f[0] = 0 /\ g[0] = c
      /\ \A k \in 1 .. n : f[k] = f[k - 1] + Terms(mem, a, p, n)[k]
      /\ \A k \in 1 .. n : g[k] = g[k - 1] + Terms(mem, a, 0, n)[k]
  BY AddsTo
<1>2. AllOnes = Byte * Byte - 1 /\ Byte \in Nat /\ AllOnes \in Nat
  BY OnesIs
<1>3. 0 \in S
  <2>1. c = c + Byte * 0 + 0 * AllOnes /\ c + Byte * 0 = c
    BY <1>2
  <2>2. Same(c, c + Byte * 0, AllOnes)
    BY <1>2, <2>1 DEF Same
  <2> QED
    BY <1>1, <2>2
<1>4. ASSUME NEW k \in 1 .. n, k - 1 \in S
      PROVE  k \in S
  <2>1. Matches(k - 1)
    BY <1>4
  <2>2. /\ mem[a + k - 1] \in 0 .. Byte - 1
        /\ Terms(mem, a, p, n)[k] = mem[a + k - 1] * Weighs(p + k - 1)
        /\ Terms(mem, a, 0, n)[k] = mem[a + k - 1] * Weighs(0 + k - 1)
    <3>1. /\ Terms(mem, a, 0, n)[k] = mem[a + k - 1] * Weighs(0 + k - 1)
          /\ Terms(mem, a, p, n)[k] = mem[a + k - 1] * Weighs(p + k - 1)
      BY Zenon DEF Terms
    <3>2. Terms(mem, a, p, n)[k] \in Nat /\ mem[a + k - 1] \in 0 .. Byte - 1
      <4> HIDE DEF S
      <4> QED
        BY ONLY n \in Nat, a \in Nat, p \in Nat, job.big \in BOOLEAN, Octets(mem, a, n), k \in 1 .. n, TermIs
    <3> QED
      BY <3>1, <3>2
  <2>3. \/ Weighs(p + k - 1) = 1 /\ Weighs(0 + k - 1) = Byte
        \/ Weighs(p + k - 1) = Byte /\ Weighs(0 + k - 1) = 1
    <3>1. (p + k - 1) % 2 = 0 <=> (0 + k - 1) % 2 # 0
      OBVIOUS
    <3>2. ((p + k - 1) % 2 = 0) \in BOOLEAN /\ ((0 + k - 1) % 2 = 0) \in BOOLEAN
      OBVIOUS
    <3> QED
      BY <3>1, <3>2, Zenon DEF Weighs
  <2>4. PICK m \in Nat : m = mem[a + k - 1]
    BY <1>2, <2>2
  <2>5. PICK s \in Nat, t \in Nat : /\ s = Terms(mem, a, p, n)[k] /\ t = Terms(mem, a, 0, n)[k]
                                    /\ ((s = m /\ t = m * Byte) \/ (s = m * Byte /\ t = m))
    <3>1. m * 1 = m /\ m * Byte \in Nat
      BY <1>2
    <3>2. CASE Weighs(p + k - 1) = 1 /\ Weighs(0 + k - 1) = Byte
      <4>1. Terms(mem, a, p, n)[k] = m /\ Terms(mem, a, 0, n)[k] = m * Byte
        BY <2>2, <2>4, <3>1, <3>2, Zenon
      <4> QED
        BY <3>1, <4>1, Zenon
    <3>3. CASE Weighs(p + k - 1) = Byte /\ Weighs(0 + k - 1) = 1
      <4>1. Terms(mem, a, p, n)[k] = m * Byte /\ Terms(mem, a, 0, n)[k] = m
        BY <2>2, <2>4, <3>1, <3>3, Zenon
      <4> QED
        BY <3>1, <4>1, Zenon
    <3> QED
      BY <2>3, <3>2, <3>3
  <2>6. Same(t, Byte * s, AllOnes) /\ (s = 0 <=> t = 0)
    <3>1. CASE s = m /\ t = m * Byte
      <4>1. t = Byte * s + 0 * AllOnes /\ Byte * s \in Int /\ (s = 0 <=> t = 0)
        BY <1>2, <3>1, ByteAssumption
      <4> QED
        BY <4>1 DEF Same
    <3>2. CASE s = m * Byte /\ t = m
      <4>1. t = Byte * s + (-m) * AllOnes /\ Byte * s \in Int /\ -m \in Int /\ (s = 0 <=> t = 0)
        BY <1>2, <3>2, ByteAssumption
      <4>2. t \in Int
        BY <1>2, <3>2
      <4>3. \E z \in Int : t = Byte * s + z * AllOnes
        BY <4>1
      <4>4. Same(t, Byte * s, AllOnes)
        BY <4>1, <4>2, <4>3, Zenon DEF Same
      <4> QED
        BY <4>1, <4>4
    <3> QED
      BY <2>5, <3>1, <3>2
  <2>7. Same(g[k - 1] + t, (c + Byte * f[k - 1]) + Byte * s, AllOnes)
    BY <1>2, <2>1, <2>6, SameAdd
  <2>8. f[k] = f[k - 1] + s /\ g[k] = g[k - 1] + t
    BY <1>1, <2>5
  <2>9. (c + Byte * f[k - 1]) + Byte * s = c + Byte * f[k]
    BY <1>2, <2>1, <2>8
  <2>10. Same(g[k], c + Byte * f[k], AllOnes)
    BY <2>7, <2>8, <2>9
  <2>11. f[k] \in Nat /\ g[k] \in Nat /\ g[k] >= c /\ (g[k] = c <=> f[k] = 0)
    BY <2>1, <2>6, <2>8
  <2> QED
    BY <2>10, <2>11
<1> HIDE DEF S
<1>5. \A k \in 0 .. n : k \in S
  BY <1>3, <1>4, Induction
<1> QED
  BY <1>5 DEF S

(***************************************************************************)
(* The sums of csum_partial as they are written down.                      *)
(***************************************************************************)
PairSum(f, mem, a, p) ==
  f = [i \in 0 .. 2 |-> IF i = 0 THEN 0 ELSE f[i - 1] + mem[a + i - 1] * C!Weight(p + i - 1)]

HalfSum(f, mem, a, units, k) ==
  f = [u \in 0 .. units |-> IF u = 0 THEN 0
         ELSE f[u - 1] + C!LDHALFU(mem, a + (u - 1) * C!NBYTES + k * (C!NBYTES \div 2))]

CleanupSum(f, mem, a, n) ==
  f = [k \in 0 .. n |-> IF k = 0 THEN 0 ELSE f[k - 1] + C!LDHALFU(mem, a + 2 * (k - 1))]

ByteSum(f, mem, a, n, c) ==
  f = [i \in 0 .. n |-> IF i = 0 THEN c
         ELSE f[i - 1] + mem[a + i - 1] * (IF (i % 2 = 1) = job.big THEN Byte ELSE 1)]

(* Such a function is what CHOOSE finds.                                   *)
LEMMA HalfwordIs ==
  ASSUME NEW mem, NEW a \in Nat, job.big \in BOOLEAN, a % 2 = 0,
         NEW b0 \in 0 .. Byte - 1, NEW b1 \in 0 .. Byte - 1, mem[a] = b0, mem[a + 1] = b1
  PROVE  C!LDHALFU(mem, a) = b0 * Weighs(a) + b1 * Weighs(a + 1)
<1> DEFINE p == IF job.big THEN 2 ELSE 0
           w == [i \in 1 .. 2 |-> mem[a + i - 1] * C!Weight(p + i - 1)]
           sum == CHOOSE f : PairSum(f, mem, a, p)
<1>1. ASSUME NEW f
      PROVE  Adds(f, 0, w, 2) <=> PairSum(f, mem, a, p)
  <2> HIDE DEF p
  <2>1. \A i \in 0 .. 2 : (IF i = 0 THEN 0 ELSE f[i - 1] + w[i])
                          = IF i = 0 THEN 0 ELSE f[i - 1] + mem[a + i - 1] * C!Weight(p + i - 1)
    <3>1. \A i \in 0 .. 2 : i = 0 \/ i \in 1 .. 2
      OBVIOUS
    <3>2. \A i \in 1 .. 2 : w[i] = mem[a + i - 1] * C!Weight(p + i - 1)
      BY Zenon
    <3> HIDE DEF w
    <3> QED
      BY <3>1, <3>2, Zenon
  <2> HIDE DEF w
  <2> QED
    BY <2>1 DEF Adds, PairSum
<1>2. w[1] = b0 * Weighs(a) /\ w[2] = b1 * Weighs(a + 1)
  <2>1. /\ a + 1 - 1 = a /\ a + 2 - 1 = a + 1 /\ 1 \in 1 .. 2 /\ 2 \in 1 .. 2
        /\ 2 + 1 - 1 = 2 /\ 2 + 2 - 1 = 3 /\ 0 + 1 - 1 = 0 /\ 0 + 2 - 1 = 1
        /\ 4 - 1 - 2 = 1 /\ 4 - 1 - 3 = 0
    BY SMT
  <2>2. Byte^0 = 1 /\ Byte^1 = Byte
    <3>1. CASE Byte = 8
      BY <3>1, SMT
    <3>2. CASE Byte = 256
      BY <3>2, SMT
    <3> QED
      BY <3>1, <3>2, ByteAssumption
  <2>3. a % 2 = 0 /\ (a + 1) % 2 # 0 /\ (a % 2 = 0) \in BOOLEAN /\ ((a + 1) % 2 = 0) \in BOOLEAN
    OBVIOUS
  <2>4. w[1] = b0 * C!Weight(p + 1 - 1) /\ w[2] = b1 * C!Weight(p + 2 - 1)
    <3> HIDE DEF p
    <3> QED
      BY <2>1, Zenon
  <2>5. CASE job.big
    <3>1. C!Weight(p + 1 - 1) = Byte /\ C!Weight(p + 2 - 1) = 1
      BY <2>1, <2>2, <2>5, Zenon DEF C!Weight, C!NBYTES
    <3>2. Weighs(a) = Byte /\ Weighs(a + 1) = 1
      BY <2>3, <2>5, Zenon DEF Weighs
    <3> QED
      BY <2>4, <3>1, <3>2, Zenon
  <2>6. CASE ~job.big
    <3>1. C!Weight(p + 1 - 1) = 1 /\ C!Weight(p + 2 - 1) = Byte
      BY <2>1, <2>2, <2>6, Zenon DEF C!Weight
    <3>2. Weighs(a) = 1 /\ Weighs(a + 1) = Byte
      BY <2>3, <2>6, Zenon DEF Weighs
    <3> QED
      BY <2>4, <3>1, <3>2, Zenon
  <2> QED
    BY <2>5, <2>6
<1>3. C!LDHALFU(mem, a) = sum[2]
  BY Zenon DEF C!LDHALFU, C!Value, PairSum
<1>4. Adds(sum, 0, w, 2)
  <2>1. \E f : PairSum(f, mem, a, p)
    <3>1. Added(0, w, 2)
      <4> HIDE DEF w
      <4> QED
        BY AddsExist
    <3> QED
      BY <1>1, <3>1 DEF Added
  <2> HIDE DEF w, p
  <2> QED
    BY <1>1, <2>1
<1> HIDE DEF sum, w
<1>5. sum[0] = 0 /\ sum[1] = sum[0] + w[1] /\ sum[2] = sum[1] + w[2]
  <2>1. sum[0] = 0 /\ \A k \in 1 .. 2 : sum[k] = sum[k - 1] + w[k]
    BY <1>4, AddsTo
  <2>2. 1 \in 1 .. 2 /\ 2 \in 1 .. 2 /\ 1 - 1 = 0 /\ 2 - 1 = 1
    OBVIOUS
  <2> QED
    BY <2>1, <2>2, Zenon
<1>6. Weighs(a) \in Nat /\ Weighs(a + 1) \in Nat /\ b0 \in Nat /\ b1 \in Nat
  BY ByteAssumption DEF Weighs
<1>7. w[1] \in Nat /\ w[2] \in Nat
  BY <1>2, <1>6
<1>8. sum[2] = w[1] + w[2]
  BY <1>5, <1>7
<1> QED
  BY <1>2, <1>3, <1>8, Zenon

(* A half word is what it adds to the sum of the bytes.                    *)
LEMMA HalfwordAdds ==
  ASSUME NEW n \in Nat, NEW mem, NEW a \in Nat, job.big \in BOOLEAN, Octets(mem, a, n),
         NEW f, Adds(f, 0, Terms(mem, a, a, n), n),
         NEW k \in 0 .. n, k + 2 <= n, (a + k) % 2 = 0
  PROVE  C!LDHALFU(mem, a + k) = f[k + 2] - f[k] /\ f[k] \in Nat /\ f[k + 2] \in Nat
<1>1. PICK j \in 1 .. n, l \in 1 .. n, e \in Nat : j = k + 1 /\ l = k + 2 /\ e = a + k
  OBVIOUS
<1>2. /\ a + j - 1 = e /\ a + l - 1 = e + 1 /\ j - 1 = k /\ l - 1 = j
  BY <1>1
<1>3. /\ mem[a + j - 1] \in 0 .. Byte - 1 /\ mem[a + l - 1] \in 0 .. Byte - 1
      /\ Terms(mem, a, a, n)[j] = mem[a + j - 1] * Weighs(a + j - 1)
      /\ Terms(mem, a, a, n)[l] = mem[a + l - 1] * Weighs(a + l - 1)
  <2>1. a + j - 1 \in a .. a + n - 1 /\ a + l - 1 \in a .. a + n - 1
    OBVIOUS
  <2> QED
    BY <2>1, Zenon DEF Octets, Terms
<1>4. PICK b0 \in 0 .. Byte - 1, b1 \in 0 .. Byte - 1 : b0 = mem[e] /\ b1 = mem[e + 1]
  BY <1>2, <1>3
<1>5. C!LDHALFU(mem, e) = b0 * Weighs(e) + b1 * Weighs(e + 1)
  <2>1. e % 2 = 0
    BY <1>1
  <2> QED
    BY <1>4, <2>1, HalfwordIs
<1>6. Terms(mem, a, a, n)[j] = b0 * Weighs(e) /\ Terms(mem, a, a, n)[l] = b1 * Weighs(e + 1)
  BY <1>2, <1>3, <1>4, Zenon
<1>7. f[0] = 0 /\ \A i \in 1 .. n : f[i] = f[i - 1] + Terms(mem, a, a, n)[i]
  BY AddsTo
<1>8. f[j] = f[k] + b0 * Weighs(e) /\ f[l] = f[j] + b1 * Weighs(e + 1)
  BY <1>2, <1>6, <1>7, Zenon
<1>9. f[k] \in Nat /\ f[l] \in Nat
  <2>1. l \in 0 .. n
    OBVIOUS
  <2> QED
    BY <2>1, SumIsBelow
<1>10. PICK s \in Nat, t \in Nat : s = b0 * Weighs(e) /\ t = b1 * Weighs(e + 1)
  <2>1. Weighs(e) \in Nat /\ Weighs(e + 1) \in Nat /\ b0 \in Nat /\ b1 \in Nat
    BY ByteAssumption DEF Weighs
  <2> QED
    BY <2>1
<1>11. f[l] = f[k] + (s + t)
  BY <1>8, <1>9, <1>10
<1>12. C!LDHALFU(mem, e) = f[l] - f[k]
  BY <1>5, <1>9, <1>10, <1>11
<1> QED
  BY <1>1, <1>9, <1>12

(* The halves of the units, and the half words after them, are what lies   *)
(* between.                                                                *)
LEMMA HalvesAdd ==
  ASSUME NEW n \in Nat, NEW mem, NEW a \in Nat, job.big \in BOOLEAN, Octets(mem, a, n),
         NEW f, Adds(f, 0, Terms(mem, a, a, n), n),
         NEW o \in 0 .. n, (a + o) % 2 = 0, NEW units \in Nat, o + 4 * units <= n
  PROVE  LET big == C!big_csum(mem, a + o, units)
         IN  big[1] \in Int /\ big[2] \in Int /\ big[1] + big[2] = f[o + 4 * units] - f[o]
<1> DEFINE half(k) == CHOOSE g : HalfSum(g, mem, a + o, units, k)
           h0 == half(0)
           h1 == half(1)
           t(k) == [u \in 1 .. units |->
                      C!LDHALFU(mem, a + o + (u - 1) * C!NBYTES + k * (C!NBYTES \div 2))]
           d0 == t(0)
           d1 == t(1)
           S == {u \in 0 .. units : /\ h0[u] \in Int /\ h1[u] \in Int
                                    /\ h0[u] + h1[u] = f[o + 4 * u] - f[o]}
<1>1. ASSUME NEW k
      PROVE  Adds(half(k), 0, t(k), units)
  <2> DEFINE d == t(k)
  <2>1. ASSUME NEW g
        PROVE  Adds(g, 0, d, units) <=> HalfSum(g, mem, a + o, units, k)
    <3> DEFINE body(u) == C!LDHALFU(mem, a + o + (u - 1) * C!NBYTES + k * (C!NBYTES \div 2))
    <3>1. \A u \in 0 .. units : (IF u = 0 THEN 0 ELSE g[u - 1] + d[u])
                                = IF u = 0 THEN 0 ELSE g[u - 1] + body(u)
      <4>1. \A u \in 0 .. units : u = 0 \/ u \in 1 .. units
        OBVIOUS
      <4>2. \A u \in 1 .. units : d[u] = body(u)
        BY Zenon
      <4> HIDE DEF d, body
      <4> QED
        BY <4>1, <4>2, Zenon
    <3>2. HalfSum(g, mem, a + o, units, k)
          <=> g = [u \in 0 .. units |-> IF u = 0 THEN 0 ELSE g[u - 1] + body(u)]
      BY Zenon DEF HalfSum
    <3> HIDE DEF d, body
    <3> QED
      BY <3>1, <3>2 DEF Adds
  <2>2. Added(0, d, units)
    <3> HIDE DEF d
    <3> QED
      BY AddsExist
  <2> HIDE DEF d
  <2>3. \E g : HalfSum(g, mem, a + o, units, k)
    BY <2>1, <2>2 DEF Added
  <2>4. HalfSum(half(k), mem, a + o, units, k)
    BY <2>3
  <2>5. Adds(half(k), 0, d, units)
    BY <2>1, <2>4
  <2> QED
    BY <2>5 DEF d
<1>2. Adds(h0, 0, d0, units) /\ Adds(h1, 0, d1, units)
  BY <1>1, Zenon
<1>3. C!big_csum(mem, a + o, units) = <<h0[units], h1[units]>>
  BY Zenon DEF C!big_csum, HalfSum
<1>4. ASSUME NEW u \in 1 .. units
      PROVE  /\ d0[u] = C!LDHALFU(mem, a + (o + 4 * (u - 1)))
             /\ d1[u] = C!LDHALFU(mem, a + (o + 4 * (u - 1) + 2))
  <2>1. /\ a + o + (u - 1) * 4 + 0 * (4 \div 2) = a + (o + 4 * (u - 1))
        /\ a + o + (u - 1) * 4 + 1 * (4 \div 2) = a + (o + 4 * (u - 1) + 2)
    OBVIOUS
  <2> QED
    BY <2>1, Zenon DEF C!NBYTES
<1> HIDE DEF h0, h1, d0, d1, half, t
<1>5. h0[0] = 0 /\ \A u \in 1 .. units : h0[u] = h0[u - 1] + d0[u]
  BY <1>2, AddsTo
<1>6. h1[0] = 0 /\ \A u \in 1 .. units : h1[u] = h1[u - 1] + d1[u]
  BY <1>2, AddsTo
<1>7. 0 \in S
  <2>1. f[o] \in Nat /\ o + 4 * 0 = o
    BY SumIsBelow
  <2>2. f[o] - f[o] = 0
    BY <2>1
  <2> QED
    BY <1>5, <1>6, <2>1, <2>2
<1>8. ASSUME NEW u \in 1 .. units, u - 1 \in S
      PROVE  u \in S
  <2>1. PICK x \in 0 .. n, y \in 0 .. n, z \in 0 .. n :
          x = o + 4 * (u - 1) /\ y = o + 4 * (u - 1) + 2 /\ z = o + 4 * u
    OBVIOUS
  <2>2. x + 2 = y /\ y + 2 = z /\ (a + x) % 2 = 0 /\ (a + y) % 2 = 0 /\ x + 2 <= n /\ y + 2 <= n
    BY <2>1
  <2>3. C!LDHALFU(mem, a + x) = f[x + 2] - f[x] /\ f[x] \in Nat /\ f[x + 2] \in Nat
    BY <2>2, HalfwordAdds
  <2>4. C!LDHALFU(mem, a + y) = f[y + 2] - f[y] /\ f[y] \in Nat /\ f[y + 2] \in Nat
    BY <2>2, HalfwordAdds
  <2>5. d0[u] = f[y] - f[x] /\ d1[u] = f[z] - f[y] /\ f[x] \in Nat /\ f[y] \in Nat /\ f[z] \in Nat
    BY <1>4, <2>1, <2>2, <2>3, <2>4
  <2>6. f[o] \in Nat
    BY SumIsBelow
  <2>7. h0[u] = h0[u - 1] + d0[u] /\ h1[u] = h1[u - 1] + d1[u]
    BY <1>5, <1>6
  <2>8. h0[u - 1] \in Int /\ h1[u - 1] \in Int /\ h0[u - 1] + h1[u - 1] = f[x] - f[o]
    BY <1>8, <2>1
  <2>9. h0[u] \in Int /\ h1[u] \in Int /\ h0[u] + h1[u] = f[z] - f[o]
    BY <2>5, <2>6, <2>7, <2>8
  <2> QED
    BY <2>1, <2>9
<1> HIDE DEF S
<1>9. units \in S
  <2>1. units \in 0 .. units
    OBVIOUS
  <2> QED
    BY <1>7, <1>8, <2>1, Induction
<1> QED
  BY <1>3, <1>9 DEF S

CleansUp(mem, a, o, m, f) ==
  C!cleanup(mem, a + o, a + o + 2 * m) = f[o + 2 * m] - f[o]

LEMMA CleanupAdds ==
  ASSUME NEW n \in Nat, NEW mem, NEW a \in Nat, job.big \in BOOLEAN, Octets(mem, a, n),
         NEW f, Adds(f, 0, Terms(mem, a, a, n), n),
         NEW o \in 0 .. n, (a + o) % 2 = 0, NEW m \in Nat, o + 2 * m <= n
  PROVE  CleansUp(mem, a, o, m, f)
<1> DEFINE h == CHOOSE g : CleanupSum(g, mem, a + o, m)
           d == [k \in 1 .. m |-> C!LDHALFU(mem, a + o + 2 * (k - 1))]
           S == {k \in 0 .. m : h[k] = f[o + 2 * k] - f[o]}
<1>1. ASSUME NEW g
      PROVE  Adds(g, 0, d, m) <=> CleanupSum(g, mem, a + o, m)
  <2>1. \A k \in 0 .. m : (IF k = 0 THEN 0 ELSE g[k - 1] + d[k])
                          = IF k = 0 THEN 0 ELSE g[k - 1] + C!LDHALFU(mem, a + o + 2 * (k - 1))
    <3>1. \A k \in 0 .. m : k = 0 \/ k \in 1 .. m
      OBVIOUS
    <3>2. \A k \in 1 .. m : d[k] = C!LDHALFU(mem, a + o + 2 * (k - 1))
      BY Zenon
    <3> HIDE DEF d
    <3> QED
      BY <3>1, <3>2, Zenon
  <2> HIDE DEF d
  <2> QED
    BY <2>1 DEF Adds, CleanupSum
<1>2. Adds(h, 0, d, m)
  <2>1. Added(0, d, m)
    <3> HIDE DEF d
    <3> QED
      BY AddsExist
  <2> HIDE DEF d
  <2>2. \E g : CleanupSum(g, mem, a + o, m)
    BY <1>1, <2>1 DEF Added
  <2> QED
    BY <1>1, <2>2
<1>3. C!cleanup(mem, a + o, a + o + 2 * m) = h[m]
  <2> DEFINE last(q) == (CHOOSE g : CleanupSum(g, mem, a + o, q))[q]
  <2>1. ((a + o + 2 * m) - (a + o)) \div 2 = m
    OBVIOUS
  <2>2. C!cleanup(mem, a + o, a + o + 2 * m) = last(((a + o + 2 * m) - (a + o)) \div 2)
    BY Zenon DEF C!cleanup, CleanupSum
  <2>3. last(m) = h[m]
    BY Zenon
  <2> HIDE DEF last
  <2> QED
    BY <2>1, <2>2, <2>3, Zenon
<1>4. \A k \in 1 .. m : d[k] = C!LDHALFU(mem, a + o + 2 * (k - 1))
  BY Zenon
<1> HIDE DEF h, d
<1>5. h[0] = 0 /\ \A k \in 1 .. m : h[k] = h[k - 1] + d[k]
  BY <1>2, AddsTo
<1>6. f[o] \in Nat
  BY SumIsBelow
<1>7. 0 \in S
  <2>1. o + 2 * 0 = o
    OBVIOUS
  <2> QED
    BY <1>5, <1>6, <2>1
<1>8. ASSUME NEW k \in 1 .. m, k - 1 \in S
      PROVE  k \in S
  <2>1. PICK x \in 0 .. n, y \in 0 .. n : x = o + 2 * (k - 1) /\ y = o + 2 * k
    OBVIOUS
  <2>2. x + 2 = y /\ (a + x) % 2 = 0 /\ x + 2 <= n /\ a + o + 2 * (k - 1) = a + x
    BY <2>1
  <2>3. C!LDHALFU(mem, a + x) = f[x + 2] - f[x] /\ f[x] \in Nat /\ f[x + 2] \in Nat
    BY <2>2, HalfwordAdds
  <2>4. d[k] = f[y] - f[x] /\ f[x] \in Nat /\ f[y] \in Nat
    BY <1>4, <2>2, <2>3
  <2>5. h[k] = h[k - 1] + d[k] /\ h[k - 1] = f[x] - f[o]
    BY <1>5, <1>8, <2>1
  <2>6. h[k] = f[y] - f[o]
    BY <1>6, <2>4, <2>5
  <2> QED
    BY <2>1, <2>6
<1> HIDE DEF S
<1>9. m \in S
  <2>1. m \in 0 .. m
    OBVIOUS
  <2> QED
    BY <1>7, <1>8, <2>1, Induction
<1> QED
  BY <1>3, <1>9 DEF S, CleansUp

(* The sum that is returned, of a buffer that is not empty.                *)
LEMMA CsumIs ==
  ASSUME NEW mem, NEW a \in Nat, NEW n \in Nat \ {0}, job.big \in BOOLEAN, Octets(mem, a, n),
         NEW f, Adds(f, 0, Terms(mem, a, a, n), n), NEW partial
  PROVE  LET x == C!Turned(a % 2 = 1, partial)
         IN  /\ f[n] \in Nat
             /\ x \in Nat => C!csum_partial(mem, a, n, partial)
                  = C!Turned(a % 2 = 1, ((x % Byte^2) + x \div Byte^2 + f[n]) % C!Word)
<1> DEFINE odd == a % 2
           limit == a + n
           tail == limit % 2
           limithw == limit - tail
           start == a + odd
           units == 8 * ((limit - start) \div (8 * 4))
           first == IF odd = 1 THEN C!OddByte(mem[a]) ELSE 0
           last == IF start # limit /\ limithw # limit THEN C!EvenByte(mem[limithw]) ELSE 0
           big == C!big_csum(mem, start, units)
           clean == C!cleanup(mem, start + units * 4, limithw)
           x == C!Turned(odd = 1, partial)
<1>1. /\ n \in Nat /\ odd \in {0, 1} /\ odd \in 0 .. n /\ (a + odd) % 2 = 0
      /\ tail \in {0, 1} /\ units \in Nat /\ odd + 4 * units <= n
  OBVIOUS
<1>2. PICK m \in Nat : /\ odd + 4 * units + 2 * m = n - tail
                       /\ limithw = a + (odd + 4 * units) + 2 * m
                       /\ start + units * 4 = a + (odd + 4 * units)
  <2> DEFINE r == n - tail - (odd + 4 * units)
  <2>1. r \in Nat /\ r % 2 = 0
    OBVIOUS
  <2>2. r = 2 * (r \div 2) /\ r \div 2 \in Nat
    BY <2>1
  <2>3. odd + 4 * units + 2 * (r \div 2) = n - tail
    BY <2>2
  <2> QED
    BY <2>2, <2>3
<1>3. f[0] = 0 /\ \A k \in 1 .. n : f[k] = f[k - 1] + Terms(mem, a, a, n)[k]
  BY AddsTo
<1>4. \A k \in 0 .. n : f[k] \in Nat
  BY SumIsBelow
<1>5. \A k \in 1 .. n : Terms(mem, a, a, n)[k] = mem[a + k - 1] * Weighs(a + k - 1)
  BY Zenon DEF Terms
<1>6. \A k \in 1 .. n : mem[a + k - 1] \in Nat
  <2>1. \A k \in 1 .. n : a + k - 1 \in a .. a + n - 1
    OBVIOUS
  <2>2. \A k \in 1 .. n : mem[a + k - 1] \in 0 .. Byte - 1
    BY <2>1, Zenon DEF Octets
  <2> QED
    BY <2>2, ByteAssumption
<1>7. first = f[odd]
  <2>1. CASE odd = 0
    BY <1>3, <2>1
  <2>2. CASE odd = 1
    <3>1. 1 \in 1 .. n /\ a + 1 - 1 = a /\ 1 - 1 = 0
      OBVIOUS
    <3>2. f[1] = 0 + mem[a] * Weighs(a) /\ mem[a] \in Nat
      BY <1>3, <1>5, <1>6, <3>1, Zenon
    <3>3. C!OddByte(mem[a]) = mem[a] * Weighs(a)
      <4>1. a % 2 # 0 /\ (a % 2 = 0) \in BOOLEAN /\ mem[a] * 1 = mem[a]
        BY <2>2, <3>2
      <4> QED
        BY <4>1, Zenon DEF C!OddByte, Weighs
    <3>4. f[1] = C!OddByte(mem[a])
      <4>1. 1 \in 0 .. n
        OBVIOUS
      <4>2. f[1] \in Nat
        BY <1>4, <4>1
      <4>3. mem[a] * Weighs(a) \in Nat
        BY <3>2, ByteAssumption DEF Weighs
      <4> QED
        BY <3>2, <3>3, <4>3
    <3> QED
      BY <2>2, <3>4
  <2> QED
    BY <1>1, <2>1, <2>2
<1>8. last = f[n] - f[n - tail]
  <2>1. CASE tail = 0
    <3>1. n - 0 = n /\ limithw = limit
      BY <2>1
    <3>2. f[n] - f[n] = 0
      <4>1. n \in 0 .. n
        OBVIOUS
      <4> QED
        BY <1>4, <4>1
    <3> QED
      BY <2>1, <3>1, <3>2, Zenon
  <2>2. CASE tail = 1
    <3>1. limithw = a + n - 1 /\ start # limit /\ limithw # limit /\ n \in 1 .. n
      BY <2>2
    <3>2. f[n] = f[n - 1] + mem[a + n - 1] * Weighs(a + n - 1) /\ mem[a + n - 1] \in Nat
      BY <1>3, <1>5, <1>6, <3>1, Zenon
    <3>3. C!EvenByte(mem[a + n - 1]) = mem[a + n - 1] * Weighs(a + n - 1)
      <4>1. /\ (a + n - 1) % 2 = 0 /\ ((a + n - 1) % 2 = 0) \in BOOLEAN
            /\ mem[a + n - 1] * 1 = mem[a + n - 1]
        BY <2>2, <3>2
      <4> QED
        BY <4>1, Zenon DEF C!EvenByte, Weighs
    <3>4. PICK t \in Nat : t = mem[a + n - 1] * Weighs(a + n - 1)
      BY <3>2, ByteAssumption DEF Weighs
    <3>5. f[n] \in Nat /\ f[n - 1] \in Nat
      <4>1. n - 1 \in 0 .. n
        OBVIOUS
      <4> QED
        BY <1>4, <4>1
    <3>6. t = f[n] - f[n - 1]
      BY <3>2, <3>4, <3>5
    <3>7. last = t
      BY <3>1, <3>3, <3>4, Zenon
    <3> QED
      BY <2>2, <3>6, <3>7
  <2> QED
    BY <1>1, <2>1, <2>2
<1>9. /\ big[1] \in Int /\ big[2] \in Int
      /\ big[1] + big[2] = f[odd + 4 * units] - f[odd]
  <2>1. PICK o \in 0 .. n, u \in Nat : o = odd /\ u = units
    BY <1>1
  <2>2. (a + o) % 2 = 0 /\ o + 4 * u <= n
    BY <1>1, <2>1
  <2>3. LET b == C!big_csum(mem, a + o, u)
        IN  b[1] \in Int /\ b[2] \in Int /\ b[1] + b[2] = f[o + 4 * u] - f[o]
    <3>1. /\ n \in Nat /\ a \in Nat /\ job.big \in BOOLEAN /\ Octets(mem, a, n)
          /\ Adds(f, 0, Terms(mem, a, a, n), n) /\ o \in 0 .. n /\ u \in Nat
      OBVIOUS
    <3> QED
      BY ONLY <2>2, <3>1, HalvesAdd
  <2>4. big = C!big_csum(mem, a + o, u)
    BY <2>1, Zenon
  <2> QED
    BY <2>1, <2>3, <2>4, Zenon
<1>10. clean = f[n - tail] - f[odd + 4 * units]
  <2>1. PICK o \in 0 .. n : o = odd + 4 * units
    BY <1>1
  <2>2. (a + o) % 2 = 0 /\ o + 2 * m <= n
    BY <1>1, <1>2, <2>1
  <2>3. C!cleanup(mem, a + o, a + o + 2 * m) = f[o + 2 * m] - f[o]
    <3>1. /\ n \in Nat /\ a \in Nat /\ job.big \in BOOLEAN /\ Octets(mem, a, n)
          /\ Adds(f, 0, Terms(mem, a, a, n), n) /\ o \in 0 .. n /\ m \in Nat
      BY <1>2, Zenon
    <3>2. CleansUp(mem, a, o, m, f)
      BY ONLY <2>2, <3>1, CleanupAdds
    <3> QED
      BY ONLY <3>2 DEF CleansUp
  <2> QED
    BY <1>2, <2>1, <2>3, Zenon
<1>11. /\ f[n] \in Nat /\ f[odd] \in Nat /\ f[odd + 4 * units] \in Nat /\ f[n - tail] \in Nat
  <2>1. n \in 0 .. n /\ odd + 4 * units \in 0 .. n /\ n - tail \in 0 .. n
    BY <1>1
  <2> QED
    BY <1>1, <1>4, <2>1
<1>12. C!csum_partial(mem, a, n, partial)
       = C!Turned(odd = 1, ((x % Byte^2) + first + big[1] + clean + x \div Byte^2 + big[2] + last) % C!Word)
  BY Zenon DEF C!csum_partial, C!Odd, C!NBYTES
<1>13. ASSUME x \in Nat
       PROVE  (x % Byte^2) + first + big[1] + clean + x \div Byte^2 + big[2] + last
              = (x % Byte^2) + x \div Byte^2 + f[n]
  <2>1. PICK l \in Int, h \in Int : l = x % Byte^2 /\ h = x \div Byte^2
    <3>1. \A y \in Nat : y % 64 \in Int /\ y \div 64 \in Int /\ y % 65536 \in Int /\ y \div 65536 \in Int
      OBVIOUS
    <3>2. Byte^2 = 64 \/ Byte^2 = 65536
      <4>1. CASE Byte = 8
        BY <4>1, SMT
      <4>2. CASE Byte = 256
        BY <4>2, SMT
      <4> QED
        BY <4>1, <4>2, ByteAssumption
    <3> QED
      BY <1>13, <3>1, <3>2
  <2> HIDE DEF first, big, clean, last, x, odd, units, tail
  <2> QED
    BY <1>7, <1>8, <1>9, <1>10, <1>11, <2>1
<1> HIDE DEF first, big, clean, last, units
<1> QED
  BY <1>11, <1>12, <1>13, Zenon

(* What the checksum should be is the sum of the bytes that weigh as if    *)
(* the buffer began at an even address.                                    *)
LEMMA TrueSumIs ==
  ASSUME NEW mem, job.big \in BOOLEAN, job.src \in Nat, job.len \in Nat
  PROVE  \E g : /\ Adds(g, job.partial, Terms(mem, job.src, 0, job.len), job.len)
                /\ TrueSum(mem, job) = g[job.len]
<1>1. PICK a \in Nat, n \in Nat : a = job.src /\ n = job.len
  OBVIOUS
<1> DEFINE c == job.partial
           d == Terms(mem, a, 0, n)
           weight(i) == IF (i % 2 = 1) = job.big THEN Byte ELSE 1
           sum == CHOOSE f : ByteSum(f, mem, a, n, c)
<1>2. \A i \in 1 .. n : d[i] = mem[a + i - 1] * weight(i)
  <2>1. ASSUME NEW i \in 1 .. n
        PROVE  d[i] = mem[a + i - 1] * weight(i)
    <3>1. (0 + i - 1) % 2 = 0 <=> i % 2 = 1
      OBVIOUS
    <3>2. ((0 + i - 1) % 2 = 0) \in BOOLEAN /\ (i % 2 = 1) \in BOOLEAN
      OBVIOUS
    <3>3. Weighs(0 + i - 1) = weight(i)
      BY <3>1, <3>2, Zenon DEF Weighs
    <3> HIDE DEF weight
    <3> QED
      BY <3>3, Zenon DEF Terms
  <2> QED
    BY <2>1
<1>3. ASSUME NEW f
      PROVE  Adds(f, c, d, n) <=> ByteSum(f, mem, a, n, c)
  <2>1. \A i \in 0 .. n : (IF i = 0 THEN c ELSE f[i - 1] + d[i])
                          = IF i = 0 THEN c ELSE f[i - 1] + mem[a + i - 1] * weight(i)
    <3>1. \A i \in 0 .. n : i = 0 \/ i \in 1 .. n
      OBVIOUS
    <3> HIDE DEF d, weight
    <3> QED
      BY <1>2, <3>1, Zenon
  <2>2. ByteSum(f, mem, a, n, c)
        <=> f = [i \in 0 .. n |-> IF i = 0 THEN c ELSE f[i - 1] + mem[a + i - 1] * weight(i)]
    BY Zenon DEF ByteSum
  <2> HIDE DEF d, weight
  <2> QED
    BY <2>1, <2>2 DEF Adds
<1>4. Adds(sum, c, d, n)
  <2>1. Added(c, d, n)
    <3> HIDE DEF d
    <3> QED
      BY AddsExist
  <2> HIDE DEF d
  <2>2. \E f : ByteSum(f, mem, a, n, c)
    BY <1>3, <2>1 DEF Added
  <2> QED
    BY <1>3, <2>2
<1>5. TrueSum(mem, job) = (CHOOSE f : ByteSum(f, mem, job.src, job.len, job.partial))[job.len]
  BY Zenon DEF TrueSum, ByteSum
<1>6. TrueSum(mem, job) = sum[n]
  BY <1>1, <1>5, Zenon
<1> HIDE DEF sum
<1> QED
  BY <1>1, <1>4, <1>6, Zenon

(* Two sums that are the same modulo Byte^2 - 1 and zero together.         *)
LEMMA SameSumIs ==
  ASSUME NEW x, NEW y, Same(x, y, AllOnes), x = 0 <=> y = 0
  PROVE  SameSum(x, y)
<1>1. AllOnes \in Nat \ {0}
  BY OnesIs, ByteAssumption
<1>2. x % AllOnes = y % AllOnes
  BY <1>1, SameMod
<1> QED
  BY <1>2, Zenon DEF SameSum, AllOnes

(* Turned back, a sum of turned bytes is the sum of the bytes.             *)
LEMMA TurnedSum ==
  ASSUME NEW mem, NEW a \in Nat, NEW n \in Nat, NEW p \in Nat, job.big \in BOOLEAN,
         Octets(mem, a, n), NEW c \in 0 .. Byte^4 - 1, NEW z \in 0 .. Byte^4 - 1,
         NEW f, Adds(f, 0, Terms(mem, a, p, n), n), NEW g, Adds(g, c, Terms(mem, a, 0, n), n),
         Same(z, C!Turned(p % 2 = 1, c) + f[n], AllOnes), z = 0 <=> c = 0 /\ f[n] = 0
  PROVE  SameSum(C!Turned(p % 2 = 1, z), g[n])
<1> DEFINE x == C!Turned(p % 2 = 1, c)
<1>1. AllOnes \in Nat /\ Byte \in Nat /\ AllOnes = Byte * Byte - 1
  BY OnesIs
<1>2. c \in Nat /\ n \in 0 .. n
  <2>1. Byte^4 \in Nat
    <3>1. CASE Byte = 8
      BY <3>1, SMT
    <3>2. CASE Byte = 256
      BY <3>2, SMT
    <3> QED
      BY <3>1, <3>2, ByteAssumption
  <2> QED
    BY <2>1
<1>3. CASE p % 2 = 0
  <2>1. p % 2 # 1
    BY <1>3
  <2>2. x = c /\ C!Turned(p % 2 = 1, z) = z
    BY <2>1, Zenon DEF C!Turned
  <2>3. g[n] = c + f[n] /\ f[n] \in Nat
    BY <1>2, <1>3, SumsAtEven
  <2>4. Same(z, g[n], AllOnes)
    BY <2>2, <2>3, Zenon
  <2>5. z = 0 <=> g[n] = 0
    BY <1>2, <2>3
  <2> QED
    BY <2>2, <2>4, <2>5, SameSumIs, Zenon
<1>4. CASE p % 2 = 1
  <2>1. x = C!swap(c) /\ C!Turned(p % 2 = 1, z) = C!swap(z)
    BY <1>4, Zenon DEF C!Turned
  <2>2. /\ Same(g[n], c + Byte * f[n], AllOnes) /\ f[n] \in Nat
        /\ g[n] \in Nat /\ g[n] >= c /\ (g[n] = c <=> f[n] = 0)
    BY <1>2, <1>4, SumsAtOdd
  <2>3. Same(C!swap(z), Byte * z, AllOnes) /\ (C!swap(z) = 0 <=> z = 0)
    BY Swapped
  <2>4. Same(x, Byte * c, AllOnes)
    BY <2>1, Swapped, Zenon
  <2>5. Same(Byte * z, Byte * (x + f[n]), AllOnes)
    <3>1. Byte \in Int /\ AllOnes \in Int
      BY <1>1
    <3> QED
      BY <3>1, SameTimes
  <2> HIDE DEF x
  <2>6. Same(Byte * (x + f[n]), c + Byte * f[n], AllOnes)
    <3>1. PICK q \in Int : x \in Int /\ x = Byte * c + q * AllOnes
      BY <2>4 DEF Same
    <3>2. Byte * (x + f[n]) = (c + Byte * f[n]) + (c + Byte * q) * AllOnes
      BY <1>1, <1>2, <2>2, <3>1
    <3>3. PICK r \in Int : r = c + Byte * q
      BY <1>1, <1>2
    <3>4. Byte * (x + f[n]) \in Int /\ c + Byte * f[n] \in Int
      BY <1>1, <1>2, <2>2, <3>1
    <3> QED
      BY <3>2, <3>3, <3>4, Zenon DEF Same
  <2>7. Same(c + Byte * f[n], g[n], AllOnes)
    BY <1>1, <2>2, SameSym
  <2>8. Same(C!swap(z), g[n], AllOnes)
    BY <1>1, <2>3, <2>5, <2>6, <2>7, SameTrans
  <2>9. C!swap(z) = 0 <=> g[n] = 0
    BY <1>2, <2>2, <2>3
  <2> QED
    BY <2>1, <2>8, <2>9, SameSumIs, Zenon
<1> QED
  BY <1>3, <1>4

(* csum_partial returns the Internet checksum of any buffer up to the      *)
(* length for which the sum of its half words is sure to stay within a     *)
(* register, at any address, of any bytes and with any partial sum.        *)
THEOREM CsumPartialIsRight ==
  ASSUME NEW mem, job.big \in BOOLEAN, job.src \in Nat, job.len \in 0 .. 2 * Byte^2 - 8,
         job.partial \in 0 .. Byte^4 - 1, Octets(mem, job.src, job.len)
  PROVE  SameSum(C!csum_partial(mem, job.src, job.len, job.partial), TrueSum(mem, job))
<1>1. /\ AllOnes \in Nat /\ Byte \in Nat /\ AllOnes = Byte * Byte - 1
      /\ job.len \in Nat /\ job.partial \in Nat
      /\ C!Word = Byte^4 /\ Byte^4 \in Nat
  <2>1. C!Word = Byte^4
    BY Zenon DEF C!Word, C!NBYTES
  <2>2. CASE Byte = 8
    BY <2>1, <2>2, OnesIs, SMT
  <2>3. CASE Byte = 256
    BY <2>1, <2>3, OnesIs, SMT
  <2> QED
    BY <2>2, <2>3, ByteAssumption
<1>2. PICK a \in Nat, n \in Nat, c \in 0 .. Byte^4 - 1 : a = job.src /\ n = job.len /\ c = job.partial
  BY <1>1
<1>3. PICK g : Adds(g, c, Terms(mem, a, 0, n), n) /\ TrueSum(mem, job) = g[n]
  <2>1. PICK g : /\ Adds(g, job.partial, Terms(mem, job.src, 0, job.len), job.len)
                 /\ TrueSum(mem, job) = g[job.len]
    BY <1>1, TrueSumIs
  <2> QED
    BY <1>2, <2>1, Zenon
<1>4. g[0] = c
  BY <1>3, AddsTo
<1>5. c \in Nat /\ c < Byte^4
  BY <1>1
<1>6. CASE n = 0
  <2>1. C!csum_partial(mem, a, n, c) = c /\ TrueSum(mem, job) = c
    BY <1>3, <1>4, <1>6, Zenon DEF C!csum_partial
  <2> QED
    BY <1>2, <2>1, Zenon DEF SameSum
<1>7. CASE n # 0
  <2> DEFINE x == C!Turned(a % 2 = 1, c)
             sum == (x % Byte^2) + x \div Byte^2
  <2>1. n \in Nat \ {0} /\ Octets(mem, a, n)
    BY <1>2, <1>7
  <2>2. PICK f : Adds(f, 0, Terms(mem, a, a, n), n)
    BY AddsExist DEF Added
  <2>3. x \in 0 .. Byte^4 - 1 /\ (x = 0 <=> c = 0)
    BY Swapped, Zenon DEF C!Turned
  <2>4. /\ sum \in Nat /\ sum <= 2 * AllOnes /\ Same(x, sum, AllOnes) /\ (x = 0 <=> sum = 0)
    <3> HIDE DEF x
    <3>1. PICK l \in 0 .. AllOnes, h \in 0 .. AllOnes : l = x % Byte^2 /\ h = x \div Byte^2
      BY <2>3, Halves
    <3>2. l + h \in Nat /\ l + h <= 2 * AllOnes
      BY <1>1
    <3> QED
      BY <2>3, <3>1, <3>2, Halves, Zenon
  <2>5. f[n] \in Nat /\ 2 * f[n] <= (n + 1) * AllOnes
    <3>1. n \in 0 .. n
      OBVIOUS
    <3> QED
      BY <2>1, <2>2, <3>1, SumIsBelow
  <2>6. C!csum_partial(mem, a, n, c) = C!Turned(a % 2 = 1, (sum + f[n]) % C!Word)
    <3>1. x \in Nat
      BY <1>1, <2>3
    <3>2. LET y == C!Turned(a % 2 = 1, c)
          IN  /\ f[n] \in Nat
              /\ y \in Nat => C!csum_partial(mem, a, n, c)
                   = C!Turned(a % 2 = 1, ((y % Byte^2) + y \div Byte^2 + f[n]) % C!Word)
      BY <2>1, <2>2, CsumIs
    <3> QED
      BY <3>1, <3>2, Zenon
  <2> HIDE DEF sum
  <2>7. PICK z \in 0 .. Byte^4 - 1 : z = sum + f[n] /\ z = (sum + f[n]) % C!Word
    <3>1. sum + f[n] \in Nat /\ sum + f[n] < Byte^4
      <4>1. CASE Byte = 8
        <5>1. n <= 120 /\ AllOnes = 63 /\ Byte^4 = 4096
          BY <1>1, <1>2, <4>1, SMT
        <5> QED
          BY <2>4, <2>5, <5>1, SMT
      <4>2. CASE Byte = 256
        <5>1. n <= 131064 /\ AllOnes = 65535 /\ Byte^4 = 4294967296
          BY <1>1, <1>2, <4>2, SMT
        <5> QED
          BY <2>4, <2>5, <5>1, SMT
      <4> QED
        BY <4>1, <4>2, ByteAssumption
    <3>2. \A w \in Nat, y \in Nat : y < w => y % w = y /\ y \in 0 .. w - 1
      OBVIOUS
    <3> QED
      BY <1>1, <3>1, <3>2
  <2>8. z = 0 <=> c = 0 /\ f[n] = 0
    BY <2>3, <2>4, <2>5, <2>7
  <2>9. Same(z, x + f[n], AllOnes)
    <3>1. f[n] = f[n] + 0 * AllOnes
      BY <1>1, <2>5
    <3>2. Same(f[n], f[n], AllOnes)
      <4>1. f[n] \in Int /\ 0 \in Int
        BY <2>5
      <4> QED
        BY <3>1, <4>1, Zenon DEF Same
    <3>3. Same(sum, x, AllOnes)
      BY <1>1, <2>4, SameSym
    <3>4. Same(sum + f[n], x + f[n], AllOnes)
      BY <1>1, <3>2, <3>3, SameAdd
    <3> QED
      BY <2>7, <3>4, Zenon
  <2>10. SameSum(C!Turned(a % 2 = 1, z), g[n])
    <3>1. Octets(mem, a, n)
      BY <2>1
    <3> HIDE DEF x
    <3>2. Same(z, C!Turned(a % 2 = 1, c) + f[n], AllOnes)
      BY <2>9 DEF x
    <3> QED
      BY <1>2, <1>3, <2>2, <2>8, <3>1, <3>2, TurnedSum
  <2> QED
    BY <1>2, <1>3, <2>6, <2>7, <2>10, Zenon
<1> QED
  BY <1>6, <1>7

(***************************************************************************)
(* csum_partial_copy_user.                                                 *)
(***************************************************************************)
(* Numbers that are the same modulo Byte^2 - 1, and zero together.         *)
Agree(x, y) == x \in Nat /\ y \in Nat /\ Same(x, y, AllOnes) /\ (x = 0 <=> y = 0)

LEMMA AgreeSelf ==
  ASSUME NEW x \in Nat
  PROVE  Agree(x, x)
<1>1. x = x + 0 * AllOnes
  BY OnesIs
<1>2. x \in Int /\ 0 \in Int
  OBVIOUS
<1> QED
  BY <1>1, <1>2, Zenon DEF Agree, Same

LEMMA AgreeAdd ==
  ASSUME NEW x, NEW y, NEW u, NEW v, Agree(x, y), Agree(u, v)
  PROVE  Agree(x + u, y + v)
<1>1. x + u \in Nat /\ y + v \in Nat /\ (x + u = 0 <=> y + v = 0)
  BY DEF Agree
<1>2. Same(x + u, y + v, AllOnes)
  BY OnesIs, SameAdd DEF Agree
<1> QED
  BY <1>1, <1>2 DEF Agree

LEMMA AgreeTrans ==
  ASSUME NEW x, NEW y, NEW z, Agree(x, y), Agree(y, z)
  PROVE  Agree(x, z)
<1>1. Same(x, z, AllOnes)
  BY OnesIs, SameTrans DEF Agree
<1> QED
  BY <1>1 DEF Agree

LEMMA AgreeTimes ==
  ASSUME NEW b \in Nat, NEW w \in Nat \ {0}, NEW v \in Nat \ {0}, NEW z \in Nat, w = v + z * AllOnes
  PROVE  Agree(b * w, b * v)
<1>1. PICK m \in Nat : m = AllOnes
  BY OnesIs
<1>2. b * w = b * v + (b * z) * m /\ b * z \in Int /\ b * w \in Nat /\ b * v \in Nat
  BY <1>1
<1>3. b * w = 0 <=> b * v = 0
  <2>1. \A k \in Nat \ {0} : b * k = 0 <=> b = 0
    OBVIOUS
  <2> QED
    BY <2>1
<1>4. Same(b * w, b * v, AllOnes)
  <2>1. b * w \in Int /\ b * v \in Int
    BY <1>2
  <2> QED
    BY <1>1, <1>2, <2>1, Zenon DEF Same
<1> QED
  BY <1>2, <1>3, <1>4 DEF Agree

(* The numbers of a register of 32 bits.                                   *)
LEMMA WordIs ==
  /\ C!Word = Byte^4 /\ C!Word \in Nat \ {0, 1}
  /\ \E q \in Nat : C!Word = 1 + q * AllOnes
<1>1. C!Word = Byte^4
  BY Zenon DEF C!Word, C!NBYTES
<1>2. CASE Byte = 8
  <2>1. C!Word = 4096 /\ AllOnes = 63
    BY <1>1, <1>2, OnesIs, SMT
  <2>2. C!Word = 1 + 65 * AllOnes
    BY <2>1, SMT
  <2> QED
    BY <1>1, <2>1, <2>2, SMT
<1>3. CASE Byte = 256
  <2>1. C!Word = 4294967296 /\ AllOnes = 65535
    BY <1>1, <1>3, OnesIs, SMT
  <2>2. C!Word = 1 + 65537 * AllOnes
    BY <2>1, SMT
  <2> QED
    BY <1>1, <2>1, <2>2, SMT
<1> QED
  BY <1>2, <1>3, ByteAssumption

(* The state of csum_partial_copy_user: the total is what the two lanes    *)
(* and the carries that were counted for them stand for.                   *)
Lanes(m, x, y, l, e, a0, k0, a1, k1) ==
  [mem |-> m, src |-> x, dst |-> y, len |-> l, exc |-> e,
   srcEnd |-> job.srcEnd, dstEnd |-> job.dstEnd,
   sum0 |-> a0, carry0 |-> k0, carry1 |-> k1, sum1 |-> a1]
Stands(total, carries, a0, k0, a1, k1) ==
  /\ a0 \in 0 .. C!Word - 1 /\ a1 \in 0 .. C!Word - 1 /\ k0 \in Nat /\ k1 \in Nat
  /\ total = a0 + a1 + (k0 + k1) * C!Word /\ k0 + k1 <= carries
Has(s, m, x, y, l, e, total, carries) ==
  \E a0, k0, a1, k1 : /\ s = Lanes(m, x, y, l, e, a0, k0, a1, k1)
                      /\ Stands(total, carries, a0, k0, a1, k1)

LEMMA AddsCarry ==
  ASSUME NEW w \in Nat \ {0}, NEW a \in 0 .. w - 1, NEW v \in 0 .. w - 1, NEW k \in Nat
  PROVE  LET sum == (a + v) % w
             carry == k + (IF sum < v THEN 1 ELSE 0)
         IN  /\ sum \in 0 .. w - 1 /\ carry \in Nat /\ carry <= k + 1
             /\ sum + carry * w = a + k * w + v
<1> DEFINE sum == (a + v) % w
<1>1. CASE a + v < w
  <2>1. sum = a + v /\ ~(sum < v)
    BY <1>1
  <2> QED
    BY <2>1
<1>2. CASE a + v >= w
  <2>1. sum = a + v - w /\ sum < v
    <3>1. a + v - w \in 0 .. w - 1 /\ a + v = 1 * w + (a + v - w)
      BY <1>2
    <3>2. sum = a + v - w
      <4>1. PICK r \in 0 .. w - 1 : r = a + v - w
        BY <3>1
      <4>2. a + v = 1 * w + r
        BY <4>1
      <4>3. (a + v) % w = r
        BY <4>2, DivisionIs
      <4> QED
        BY <4>1, <4>3
    <3> QED
      BY <3>2
  <2>2. (k + 1) * w = k * w + w
    OBVIOUS
  <2> QED
    BY <2>1, <2>2
<1> QED
  BY <1>1, <1>2

LEMMA HasAdded ==
  ASSUME NEW s, NEW m, NEW x, NEW y, NEW l, NEW e, NEW total \in Nat, NEW carries \in Nat,
         Has(s, m, x, y, l, e, total, carries), NEW v \in 0 .. C!Word - 1
  PROVE  /\ Has(C!Add0(s, v), m, x, y, l, e, total + v, carries + 1)
         /\ Has(C!Add1(s, v), m, x, y, l, e, total + v, carries + 1)
<1>1. PICK a0, k0, a1, k1 : /\ s = Lanes(m, x, y, l, e, a0, k0, a1, k1)
                            /\ Stands(total, carries, a0, k0, a1, k1)
  BY DEF Has
<1>2. PICK w \in Nat \ {0} : w = C!Word
  BY WordIs
<1>3. /\ a0 \in 0 .. w - 1 /\ a1 \in 0 .. w - 1 /\ k0 \in Nat /\ k1 \in Nat /\ v \in 0 .. w - 1
      /\ total = a0 + a1 + (k0 + k1) * w /\ k0 + k1 <= carries
  BY <1>1, <1>2 DEF Stands
<1>4. PICK b, k : /\ b = (a0 + v) % w /\ k = k0 + (IF b < v THEN 1 ELSE 0)
                  /\ b \in 0 .. w - 1 /\ k \in Nat /\ k <= k0 + 1 /\ b + k * w = a0 + k0 * w + v
  BY <1>3, AddsCarry
<1>5. C!Add0(s, v) = Lanes(m, x, y, l, e, b, k, a1, k1)
  <2>1. s.sum0 = a0 /\ s.carry0 = k0
    BY <1>1 DEF Lanes
  <2>2. C!Add0(s, v) = [s EXCEPT !.sum0 = b, !.carry0 = k]
    BY <1>2, <1>4, <2>1, Zenon DEF C!Add0
  <2>3. [s EXCEPT !.sum0 = b, !.carry0 = k] = Lanes(m, x, y, l, e, b, k, a1, k1)
    <3>1. [s EXCEPT !.sum0 = b] = Lanes(m, x, y, l, e, b, k0, a1, k1)
      BY <1>1 DEF Lanes
    <3>2. [Lanes(m, x, y, l, e, b, k0, a1, k1) EXCEPT !.carry0 = k] = Lanes(m, x, y, l, e, b, k, a1, k1)
      BY DEF Lanes
    <3>3. [s EXCEPT !.sum0 = b, !.carry0 = k] = [[s EXCEPT !.sum0 = b] EXCEPT !.carry0 = k]
      OBVIOUS
    <3> QED
      BY <3>1, <3>2, <3>3
  <2> QED
    BY <2>2, <2>3
<1>6. Stands(total + v, carries + 1, b, k, a1, k1)
  <2>1. (k + k1) * w = k * w + k1 * w /\ (k0 + k1) * w = k0 * w + k1 * w
    BY <1>3, <1>4
  <2>2. PICK p \in Int, q \in Int, r \in Int : p = k * w /\ q = k1 * w /\ r = k0 * w
    BY <1>3, <1>4
  <2>3. total + v = b + a1 + (k + k1) * w
    BY <1>3, <1>4, <2>1, <2>2
  <2> QED
    BY <1>2, <1>3, <1>4, <2>3 DEF Stands
<1>7. PICK b1, j : /\ b1 = (a1 + v) % w /\ j = k1 + (IF b1 < v THEN 1 ELSE 0)
                   /\ b1 \in 0 .. w - 1 /\ j \in Nat /\ j <= k1 + 1 /\ b1 + j * w = a1 + k1 * w + v
  BY <1>3, AddsCarry
<1>8. C!Add1(s, v) = Lanes(m, x, y, l, e, a0, k0, b1, j)
  <2>1. s.sum1 = a1 /\ s.carry1 = k1
    BY <1>1 DEF Lanes
  <2>2. C!Add1(s, v) = [s EXCEPT !.sum1 = b1, !.carry1 = j]
    BY <1>2, <1>7, <2>1, Zenon DEF C!Add1
  <2>3. [s EXCEPT !.sum1 = b1, !.carry1 = j] = Lanes(m, x, y, l, e, a0, k0, b1, j)
    <3>1. [s EXCEPT !.sum1 = b1] = Lanes(m, x, y, l, e, a0, k0, b1, k1)
      BY <1>1 DEF Lanes
    <3>2. [Lanes(m, x, y, l, e, a0, k0, b1, k1) EXCEPT !.carry1 = j] = Lanes(m, x, y, l, e, a0, k0, b1, j)
      BY DEF Lanes
    <3>3. [s EXCEPT !.sum1 = b1, !.carry1 = j] = [[s EXCEPT !.sum1 = b1] EXCEPT !.carry1 = j]
      OBVIOUS
    <3> QED
      BY <3>1, <3>2, <3>3
  <2> QED
    BY <2>2, <2>3
<1>9. Stands(total + v, carries + 1, a0, k0, b1, j)
  <2>1. (k0 + j) * w = k0 * w + j * w /\ (k0 + k1) * w = k0 * w + k1 * w
    BY <1>3, <1>7
  <2>2. PICK p \in Int, q \in Int, r \in Int : p = k0 * w /\ q = k1 * w /\ r = j * w
    BY <1>3, <1>7
  <2>3. total + v = a0 + b1 + (k0 + j) * w
    BY <1>3, <1>7, <2>1, <2>2
  <2> QED
    BY <1>2, <1>3, <1>7, <2>3 DEF Stands
<1> QED
  BY <1>5, <1>6, <1>8, <1>9, Zenon DEF Has

LEMMA HasRaised ==
  ASSUME NEW s, NEW m, NEW x, NEW y, NEW l, NEW e, NEW total, NEW carries,
         Has(s, m, x, y, l, e, total, carries), NEW handler
  PROVE  Has(C!Raise(s, handler), m, x, y, l, handler, total, carries)
<1>1. PICK a0, k0, a1, k1 : /\ s = Lanes(m, x, y, l, e, a0, k0, a1, k1)
                            /\ Stands(total, carries, a0, k0, a1, k1)
  BY DEF Has
<1>2. [s EXCEPT !.exc = handler] = Lanes(m, x, y, l, handler, a0, k0, a1, k1)
  BY <1>1 DEF Lanes
<1>3. C!Raise(s, handler) = [s EXCEPT !.exc = handler]
  BY Zenon DEF C!Raise
<1> QED
  BY <1>1, <1>2, <1>3, Zenon DEF Has

LEMMA HasStored ==
  ASSUME NEW s, NEW m, NEW x, NEW y, NEW l, NEW e, NEW total, NEW carries,
         Has(s, m, x, y, l, e, total, carries), NEW k, NEW q
  PROVE  Has(C!STORE(s, k, q),
             [a \in DOMAIN m |-> IF a \in (y + k .. y + k + q - 1) /\ a < job.dstEnd
                                 THEN m[x + (a - y)] ELSE m[a]],
             x, y, l, IF y + k + q > job.dstEnd THEN "s_exc" ELSE e, total, carries)
<1> DEFINE n == [a \in DOMAIN m |-> IF a \in (y + k .. y + k + q - 1) /\ a < job.dstEnd
                                 THEN m[x + (a - y)] ELSE m[a]]
<1>1. PICK a0, k0, a1, k1 : /\ s = Lanes(m, x, y, l, e, a0, k0, a1, k1)
                            /\ Stands(total, carries, a0, k0, a1, k1)
  BY DEF Has
<1>2. s.mem = m /\ s.src = x /\ s.dst = y /\ s.dstEnd = job.dstEnd
  BY <1>1 DEF Lanes
<1>3. [s EXCEPT !.mem = n] = Lanes(n, x, y, l, e, a0, k0, a1, k1)
  BY <1>1 DEF Lanes
<1>4. C!STORE(s, k, q) = IF y + k + q > job.dstEnd THEN C!Raise([s EXCEPT !.mem = n], "s_exc")
                         ELSE [s EXCEPT !.mem = n]
  BY <1>2, Zenon DEF C!STORE
<1> HIDE DEF n
<1>5. C!Raise(Lanes(n, x, y, l, e, a0, k0, a1, k1), "s_exc") = Lanes(n, x, y, l, "s_exc", a0, k0, a1, k1)
  <2>1. [Lanes(n, x, y, l, e, a0, k0, a1, k1) EXCEPT !.exc = "s_exc"] = Lanes(n, x, y, l, "s_exc", a0, k0, a1, k1)
    BY DEF Lanes
  <2> QED
    BY <2>1, Zenon DEF C!Raise
<1>6. C!STORE(s, k, q) = Lanes(n, x, y, l, IF y + k + q > job.dstEnd THEN "s_exc" ELSE e, a0, k0, a1, k1)
  BY <1>3, <1>4, <1>5
<1>7. Has(C!STORE(s, k, q), n, x, y, l, IF y + k + q > job.dstEnd THEN "s_exc" ELSE e, total, carries)
  BY <1>1, <1>6 DEF Has
<1> QED
  BY <1>7 DEF n

LEMMA HasAdvanced ==
  ASSUME NEW s, NEW m, NEW x, NEW y, NEW l, NEW total, NEW carries,
         Has(s, m, x, y, l, "none", total, carries), NEW q
  PROVE  Has(C!Advance(s, q), m, x + q, y + q, l - q, "none", total, carries)
<1>1. PICK a0, k0, a1, k1 : /\ s = Lanes(m, x, y, l, "none", a0, k0, a1, k1)
                            /\ Stands(total, carries, a0, k0, a1, k1)
  BY DEF Has
<1>2. s.src = x /\ s.dst = y /\ s.len = l /\ s.exc = "none"
  BY <1>1 DEF Lanes
<1>3. C!Advance(s, q) = [s EXCEPT !.src = x + q, !.dst = y + q, !.len = l - q]
  BY <1>2, Zenon DEF C!Advance
<1>4. C!Advance(s, q) = Lanes(m, x + q, y + q, l - q, "none", a0, k0, a1, k1)
  <2>1. [s EXCEPT !.src = x + q] = Lanes(m, x + q, y, l, "none", a0, k0, a1, k1)
    BY <1>1 DEF Lanes
  <2>2. [Lanes(m, x + q, y, l, "none", a0, k0, a1, k1) EXCEPT !.dst = y + q]
        = Lanes(m, x + q, y + q, l, "none", a0, k0, a1, k1)
    BY DEF Lanes
  <2>3. [Lanes(m, x + q, y + q, l, "none", a0, k0, a1, k1) EXCEPT !.len = l - q]
        = Lanes(m, x + q, y + q, l - q, "none", a0, k0, a1, k1)
    BY DEF Lanes
  <2>4. [s EXCEPT !.src = x + q, !.dst = y + q, !.len = l - q]
        = [[[s EXCEPT !.src = x + q] EXCEPT !.dst = y + q] EXCEPT !.len = l - q]
    OBVIOUS
  <2> QED
    BY <1>3, <2>1, <2>2, <2>3, <2>4
<1> QED
  BY <1>1, <1>4 DEF Has

LEMMA HasCounted ==
  ASSUME NEW s, NEW m, NEW x, NEW y, NEW l, NEW e, NEW total, NEW carries,
         Has(s, m, x, y, l, e, total, carries), NEW u
  PROVE  Has([s EXCEPT !.len = u], m, x, y, u, e, total, carries)
<1>1. PICK a0, k0, a1, k1 : /\ s = Lanes(m, x, y, l, e, a0, k0, a1, k1)
                            /\ Stands(total, carries, a0, k0, a1, k1)
  BY DEF Has
<1>2. [s EXCEPT !.len = u] = Lanes(m, x, y, u, e, a0, k0, a1, k1)
  BY <1>1 DEF Lanes
<1> QED
  BY <1>1, <1>2 DEF Has

LEMMA HasFields ==
  ASSUME NEW s, NEW m, NEW x, NEW y, NEW l, NEW e, NEW total, NEW carries,
         Has(s, m, x, y, l, e, total, carries)
  PROVE  /\ s.mem = m /\ s.src = x /\ s.dst = y /\ s.len = l /\ s.exc = e
         /\ s.srcEnd = job.srcEnd /\ s.dstEnd = job.dstEnd
BY DEF Has, Lanes

(* A call of csum_partial_copy_user: a buffer of bytes and another one to  *)
(* which it is copied, both shorter than a register counts.                *)
Given(old) ==
  /\ job.src \in Nat /\ job.dst \in Nat /\ job.len \in Nat /\ job.srcEnd \in Int /\ job.dstEnd \in Int
  /\ old = [a \in DOMAIN old |-> old[a]]
  /\ \A a \in job.src .. job.src + job.len - 1 : a \in DOMAIN old /\ old[a] \in 0 .. Byte - 1
  /\ \A a \in job.dst .. job.dst + job.len - 1 :
       a \in DOMAIN old /\ ~(job.src <= a /\ a < job.src + job.len)
  /\ job.srcEnd % 4 = 0 /\ job.len < Byte^4 - 1
  /\ job.big \in BOOLEAN /\ job.partial \in 0 .. Byte^4 - 1

(* The first k bytes have been copied, and nothing but the copy written.   *)
CopiedTo(old, k) ==
  [a \in DOMAIN old |-> IF a \in job.dst .. job.dst + k - 1
                        THEN old[job.src + (a - job.dst)] ELSE old[a]]
Framed(old, mem) ==
  /\ DOMAIN mem = DOMAIN old
  /\ \A a \in DOMAIN old : a \notin job.dst .. job.dst + job.len - 1 => mem[a] = old[a]

LEMMA SourceStays ==
  ASSUME NEW old, Given(old), NEW k \in 0 .. job.len, NEW j \in 0 .. job.len - 1
  PROVE  /\ job.src + j \in DOMAIN old
         /\ CopiedTo(old, k)[job.src + j] = old[job.src + j] /\ old[job.src + j] \in 0 .. Byte - 1
<1>1. job.src + j \in job.src .. job.src + job.len - 1
  BY DEF Given
<1>2. job.src + j \in DOMAIN old /\ old[job.src + j] \in 0 .. Byte - 1
  BY <1>1 DEF Given
<1>3. job.src + j \notin job.dst .. job.dst + k - 1
  <2>1. ASSUME job.src + j \in job.dst .. job.dst + k - 1
        PROVE  FALSE
    <3>1. job.src + j \in job.dst .. job.dst + job.len - 1
      BY <2>1 DEF Given
    <3>2. ~(job.src <= job.src + j /\ job.src + j < job.src + job.len)
      BY <3>1 DEF Given
    <3> QED
      BY <3>2 DEF Given
  <2> QED
    BY <2>1
<1> QED
  BY <1>2, <1>3, Zenon DEF CopiedTo

LEMMA StoredIs ==
  ASSUME NEW old, Given(old), NEW i \in Nat, NEW o \in Nat, NEW q \in Nat, i + o + q <= job.len,
         NEW mem, mem = [a \in DOMAIN CopiedTo(old, i + o) |->
                           IF a \in (job.dst + i + o .. job.dst + i + o + q - 1) /\ a < job.dstEnd
                           THEN CopiedTo(old, i + o)[job.src + i + (a - (job.dst + i))]
                           ELSE CopiedTo(old, i + o)[a]]
  PROVE  /\ Framed(old, mem)
         /\ job.dst + i + o + q <= job.dstEnd => mem = CopiedTo(old, i + o + q)
<1>1. PICK d \in Nat, s \in Nat, n \in Nat, e \in Int : d = job.dst /\ s = job.src /\ n = job.len /\ e = job.dstEnd
  BY DEF Given
<1>2. DOMAIN CopiedTo(old, i + o) = DOMAIN old
  BY DEF CopiedTo
<1>3. ASSUME NEW a \in DOMAIN old
      PROVE  /\ a \notin d .. d + n - 1 => mem[a] = old[a]
             /\ d + i + o + q <= e => mem[a] = CopiedTo(old, i + o + q)[a]
  <2>1. mem[a] = IF a \in (d + i + o .. d + i + o + q - 1) /\ a < e
                 THEN CopiedTo(old, i + o)[s + i + (a - (d + i))] ELSE CopiedTo(old, i + o)[a]
    BY <1>1, <1>2, Zenon
  <2>2. /\ CopiedTo(old, i + o)[a] = IF a \in d .. d + (i + o) - 1 THEN old[s + (a - d)] ELSE old[a]
        /\ CopiedTo(old, i + o + q)[a] = IF a \in d .. d + (i + o + q) - 1 THEN old[s + (a - d)] ELSE old[a]
    BY <1>1, Zenon DEF CopiedTo
  <2>3. CASE a \in d + i + o .. d + i + o + q - 1
    <3>1. PICK j \in 0 .. n - 1 : j = a - d /\ s + i + (a - (d + i)) = s + j
      BY <1>1, <2>3
    <3>2. CopiedTo(old, i + o)[s + j] = old[s + j]
      <4>1. i + o \in 0 .. job.len /\ j \in 0 .. job.len - 1
        BY <1>1
      <4> QED
        BY <1>1, <4>1, SourceStays
    <3>3. /\ a \in d .. d + n - 1 /\ a \in d .. d + (i + o + q) - 1
          /\ (d + i + o + q <= e => a < e)
      BY <1>1, <2>3
    <3> QED
      BY <2>1, <2>2, <2>3, <3>1, <3>2, <3>3, Zenon
  <2>4. CASE a \notin d + i + o .. d + i + o + q - 1
    <3>1. a \in d .. d + (i + o) - 1 <=> a \in d .. d + (i + o + q) - 1
      BY <1>1, <2>4
    <3>2. a \in d .. d + (i + o) - 1 => a \in d .. d + n - 1
      BY <1>1
    <3> QED
      BY <2>1, <2>2, <2>4, <3>1, <3>2, Zenon
  <2> QED
    BY <2>3, <2>4
<1>4. mem = [a \in DOMAIN old |-> mem[a]]
  BY <1>2
<1>5. Framed(old, mem)
  BY <1>1, <1>3, <1>4 DEF Framed
<1>6. ASSUME job.dst + i + o + q <= job.dstEnd
      PROVE  mem = CopiedTo(old, i + o + q)
  <2>1. CopiedTo(old, i + o + q) = [a \in DOMAIN old |-> CopiedTo(old, i + o + q)[a]]
    BY DEF CopiedTo
  <2>2. \A a \in DOMAIN old : mem[a] = CopiedTo(old, i + o + q)[a]
    BY <1>1, <1>3, <1>6, Zenon
  <2> QED
    BY <1>4, <2>1, <2>2
<1> QED
  BY <1>5, <1>6

LEMMA StoreCopies ==
  ASSUME NEW old, Given(old), NEW i \in Nat, NEW o \in Nat, NEW q \in Nat, i + o + q <= job.len,
         NEW s, NEW l, NEW total, NEW carries,
         Has(s, CopiedTo(old, i + o), job.src + i, job.dst + i, l, "none", total, carries)
  PROVE  \/ /\ job.dst + i + o + q <= job.dstEnd
            /\ Has(C!STORE(s, o, q), CopiedTo(old, i + o + q), job.src + i, job.dst + i, l, "none", total, carries)
         \/ /\ job.dst + i + o + q > job.dstEnd
            /\ \E mem : /\ Has(C!STORE(s, o, q), mem, job.src + i, job.dst + i, l, "s_exc", total, carries)
                        /\ Framed(old, mem)
<1> DEFINE x == job.src + i
           y == job.dst + i
           before == CopiedTo(old, i + o)
           mem == [a \in DOMAIN before |-> IF a \in (y + o .. y + o + q - 1) /\ a < job.dstEnd
                                          THEN before[x + (a - y)] ELSE before[a]]
<1>1. mem = [a \in DOMAIN CopiedTo(old, i + o) |->
                          IF a \in (job.dst + i + o .. job.dst + i + o + q - 1) /\ a < job.dstEnd
                          THEN CopiedTo(old, i + o)[job.src + i + (a - (job.dst + i))]
                          ELSE CopiedTo(old, i + o)[a]]
  OBVIOUS
<1>2. Has(C!STORE(s, o, q), mem, job.src + i, job.dst + i, l,
          IF job.dst + i + o + q > job.dstEnd THEN "s_exc" ELSE "none", total, carries)
  <2>1. Has(s, before, x, y, l, "none", total, carries)
    OBVIOUS
  <2> HIDE DEF before, x, y
  <2>2. Has(C!STORE(s, o, q), mem, x, y, l, IF y + o + q > job.dstEnd THEN "s_exc" ELSE "none", total, carries)
    BY <2>1, HasStored
  <2> QED
    BY <2>2 DEF x, y
<1> HIDE DEF mem
<1>3. /\ Framed(old, mem)
      /\ job.dst + i + o + q <= job.dstEnd => mem = CopiedTo(old, i + o + q)
  BY <1>1, StoredIs
<1>4. CASE job.dst + i + o + q <= job.dstEnd
  <2>1. ~(job.dst + i + o + q > job.dstEnd)
    BY <1>4 DEF Given
  <2> QED
    BY <1>2, <1>3, <1>4, <2>1, Zenon
<1>5. CASE ~(job.dst + i + o + q <= job.dstEnd)
  <2>1. job.dst + i + o + q > job.dstEnd
    BY <1>5 DEF Given
  <2>2. Has(C!STORE(s, o, q), mem, job.src + i, job.dst + i, l, "s_exc", total, carries)
    BY <1>2, <2>1, Zenon
  <2> QED
    BY <1>3, <2>1, <2>2, Zenon
<1> QED
  BY <1>4, <1>5

(* The weight of a byte in a register is what it weighs in its pair.       *)
LEMMA PowersAre ==
  /\ Byte^0 = 1 /\ Byte^1 = Byte /\ Byte^2 = 1 + AllOnes /\ Byte^3 = Byte + Byte * AllOnes
  /\ Byte \in Nat /\ AllOnes \in Nat /\ Byte^2 \in Nat /\ Byte^3 \in Nat
  /\ (Byte - 1) * 1 + (Byte - 1) * Byte + (Byte - 1) * Byte^2 + (Byte - 1) * Byte^3 = C!Word - 1
<1>1. CASE Byte = 8
  <2>1. AllOnes = 63 /\ C!Word = 4096
    BY <1>1, OnesIs, WordIs, SMT
  <2> QED
    BY <1>1, <2>1, SMT
<1>2. CASE Byte = 256
  <2>1. AllOnes = 65535 /\ C!Word = 4294967296
    BY <1>2, OnesIs, WordIs, SMT
  <2> QED
    BY <1>2, <2>1, SMT
<1> QED
  BY <1>1, <1>2, ByteAssumption

LEMMA WeightsAre ==
  /\ job.big => /\ C!Weight(0) = Byte^3 /\ C!Weight(1) = Byte^2 /\ C!Weight(2) = Byte /\ C!Weight(3) = 1
  /\ ~job.big => /\ C!Weight(0) = 1 /\ C!Weight(1) = Byte /\ C!Weight(2) = Byte^2 /\ C!Weight(3) = Byte^3
<1>1. 4 - 1 - 0 = 3 /\ 4 - 1 - 1 = 2 /\ 4 - 1 - 2 = 1 /\ 4 - 1 - 3 = 0
  OBVIOUS
<1>2. Byte^0 = 1 /\ Byte^1 = Byte
  BY PowersAre
<1>3. /\ job.big => /\ C!Weight(0) = Byte^3 /\ C!Weight(1) = Byte^2 /\ C!Weight(2) = Byte^1
                    /\ C!Weight(3) = Byte^0
      /\ ~job.big => /\ C!Weight(0) = Byte^0 /\ C!Weight(1) = Byte^1 /\ C!Weight(2) = Byte^2
                     /\ C!Weight(3) = Byte^3
  BY <1>1, Zenon DEF C!Weight, C!NBYTES
<1> QED
  BY <1>2, <1>3, Zenon

LEMMA WeightIs ==
  ASSUME NEW q \in 0 .. 3, job.big \in BOOLEAN
  PROVE  C!Weight(q) \in Nat \ {0} /\ \E z \in Nat : C!Weight(q) = Weighs(q) + z * AllOnes
<1>1. /\ Byte \in Nat \ {0} /\ AllOnes \in Nat /\ Byte^2 = 1 + AllOnes /\ Byte^3 = Byte + Byte * AllOnes
  BY PowersAre, ByteAssumption
<1>2. /\ 0 % 2 = 0 /\ 1 % 2 # 0 /\ 2 % 2 = 0 /\ 3 % 2 # 0
  OBVIOUS
<1>3. /\ job.big => Weighs(0) = Byte /\ Weighs(1) = 1 /\ Weighs(2) = Byte /\ Weighs(3) = 1
      /\ ~job.big => Weighs(0) = 1 /\ Weighs(1) = Byte /\ Weighs(2) = 1 /\ Weighs(3) = Byte
  <2>1. (0 % 2 = 0) = TRUE /\ (1 % 2 = 0) = FALSE /\ (2 % 2 = 0) = TRUE /\ (3 % 2 = 0) = FALSE
    BY <1>2
  <2> QED
    BY <2>1, Zenon DEF Weighs
<1>4. /\ 1 \in Nat \ {0} /\ 1 = 1 + 0 * AllOnes /\ Byte = Byte + 0 * AllOnes
      /\ Byte^2 \in Nat \ {0} /\ Byte^2 = 1 + 1 * AllOnes
      /\ Byte^3 \in Nat \ {0} /\ Byte^3 = Byte + Byte * AllOnes
  <2>1. Byte * AllOnes \in Nat
    BY <1>1
  <2> QED
    BY <1>1, <2>1
<1>5. q = 0 \/ q = 1 \/ q = 2 \/ q = 3
  OBVIOUS
<1>6. \/ C!Weight(q) = Byte^3 /\ Weighs(q) = Byte
      \/ C!Weight(q) = Byte^2 /\ Weighs(q) = 1
      \/ C!Weight(q) = Byte /\ Weighs(q) = Byte
      \/ C!Weight(q) = 1 /\ Weighs(q) = 1
  BY <1>3, <1>5, WeightsAre, Zenon
<1>7. 0 \in Nat /\ 1 \in Nat /\ Byte \in Nat
  BY <1>1
<1> QED
  BY <1>1, <1>4, <1>6, <1>7, Zenon

LEMMA SharesAre ==
  ASSUME job.big \in BOOLEAN
  PROVE  (Byte - 1) * C!Weight(0) + (Byte - 1) * C!Weight(1) + (Byte - 1) * C!Weight(2)
         + (Byte - 1) * C!Weight(3) = C!Word - 1
<1>1. PICK b \in Nat, s \in Nat, t \in Nat : b = Byte /\ s = Byte^2 /\ t = Byte^3 /\ b >= 1
  BY PowersAre, ByteAssumption
<1>2. (b - 1) * 1 + (b - 1) * b + (b - 1) * s + (b - 1) * t = C!Word - 1
  BY <1>1, PowersAre
<1>3. \A x, y, z \in Int : /\ (b - 1) * z + (b - 1) * y + (b - 1) * x + (b - 1) * 1
                              = (b - 1) * 1 + (b - 1) * x + (b - 1) * y + (b - 1) * z
  <2>1. \A c, x, y, z \in Int : z + y + x + c = c + x + y + z
    OBVIOUS
  <2>2. \A x \in Int : (b - 1) * x \in Int
    OBVIOUS
  <2>3. (b - 1) * 1 \in Int
    OBVIOUS
  <2> QED
    BY <2>1, <2>2, <2>3
<1>4. (b - 1) * t + (b - 1) * s + (b - 1) * b + (b - 1) * 1 = C!Word - 1
  BY <1>2, <1>3
<1> QED
  BY <1>1, <1>2, <1>4, WeightsAre, Zenon

(* The value of n bytes at positions from p on, as it is summed up.        *)
ValueSum(f, mem, a, n, p) ==
  f = [i \in 0 .. n |-> IF i = 0 THEN 0 ELSE f[i - 1] + mem[a + i - 1] * C!Weight(p + i - 1)]
Evaluates(h, mem, a, n, p) ==
  /\ h[0] = 0 /\ \A i \in 1 .. n : h[i] = h[i - 1] + mem[a + i - 1] * C!Weight(p + i - 1)
  /\ C!Value(mem, a, n, p) = h[n]

LEMMA ValueIs ==
  ASSUME NEW mem, NEW a, NEW n \in Nat, NEW p
  PROVE  \E h : Evaluates(h, mem, a, n, p)
<1> DEFINE d == [i \in 1 .. n |-> mem[a + i - 1] * C!Weight(p + i - 1)]
           h == CHOOSE f : ValueSum(f, mem, a, n, p)
<1>1. ASSUME NEW f
      PROVE  Adds(f, 0, d, n) <=> ValueSum(f, mem, a, n, p)
  <2>1. \A i \in 0 .. n : (IF i = 0 THEN 0 ELSE f[i - 1] + d[i])
                          = IF i = 0 THEN 0 ELSE f[i - 1] + mem[a + i - 1] * C!Weight(p + i - 1)
    <3>1. \A i \in 0 .. n : i = 0 \/ i \in 1 .. n
      OBVIOUS
    <3>2. \A i \in 1 .. n : d[i] = mem[a + i - 1] * C!Weight(p + i - 1)
      BY Zenon
    <3> HIDE DEF d
    <3> QED
      BY <3>1, <3>2, Zenon
  <2> HIDE DEF d
  <2> QED
    BY <2>1 DEF Adds, ValueSum
<1>2. ValueSum(h, mem, a, n, p)
  <2>1. \E f : ValueSum(f, mem, a, n, p)
    <3>1. Added(0, d, n)
      <4> HIDE DEF d
      <4> QED
        BY AddsExist
    <3> QED
      BY <1>1, <3>1 DEF Added
  <2> QED
    BY <2>1
<1>3. C!Value(mem, a, n, p) = h[n]
  BY Zenon DEF C!Value, ValueSum
<1> HIDE DEF h
<1>4. h[0] = 0 /\ \A i \in 1 .. n : h[i] = h[i - 1] + mem[a + i - 1] * C!Weight(p + i - 1)
  <2>1. h[0] = 0 /\ \A i \in 1 .. n : h[i] = h[i - 1] + d[i]
    <3>1. Adds(h, 0, d, n)
      BY <1>1, <1>2
    <3> HIDE DEF d
    <3> QED
      BY <3>1, AddsTo
  <2>2. \A i \in 1 .. n : d[i] = mem[a + i - 1] * C!Weight(p + i - 1)
    BY Zenon
  <2> HIDE DEF d
  <2> QED
    BY <2>1, <2>2, Zenon
<1> QED
  BY <1>3, <1>4, Zenon DEF Evaluates

LEMMA ValueFits ==
  ASSUME NEW mem, NEW a \in Nat, job.big \in BOOLEAN, NEW n \in 1 .. 4, NEW p \in 0 .. 3, p + n <= 4,
         \A i \in 1 .. n : mem[a + i - 1] \in 0 .. Byte - 1
  PROVE  C!Value(mem, a, n, p) \in 0 .. C!Word - 1
<1> DEFINE share(k) == (Byte - 1) * C!Weight(k)
           below == [k \in 0 .. 4 |-> IF k = 0 THEN 0 ELSE IF k = 1 THEN share(0)
                       ELSE IF k = 2 THEN share(0) + share(1)
                       ELSE IF k = 3 THEN share(0) + share(1) + share(2)
                       ELSE share(0) + share(1) + share(2) + share(3)]
<1>1. PICK h : Evaluates(h, mem, a, n, p)
  <2>1. n \in Nat
    OBVIOUS
  <2> QED
    BY <2>1, ValueIs
<1>2. PICK b \in Nat : b = Byte /\ b >= 1
  BY ByteAssumption
<1>3. \A k \in 0 .. 3 : share(k) \in Nat
  <2>1. ASSUME NEW k \in 0 .. 3
        PROVE  share(k) \in Nat
    <3>1. PICK w \in Nat : w = C!Weight(k)
      BY WeightIs
    <3>2. (b - 1) * w \in Nat
      BY <1>2
    <3> QED
      BY <1>2, <3>1, <3>2
  <2> QED
    BY <2>1
<1>4. below[4] = C!Word - 1
  <2>1. below[4] = share(0) + share(1) + share(2) + share(3)
    OBVIOUS
  <2> QED
    BY <2>1, SharesAre
<1> HIDE DEF share
<1>5. /\ \A k \in 0 .. 4 : below[k] \in Nat
      /\ \A k \in 0 .. 3 : below[k + 1] = below[k] + share(k)
  <2>1. PICK s0 \in Nat, s1 \in Nat, s2 \in Nat, s3 \in Nat :
          s0 = share(0) /\ s1 = share(1) /\ s2 = share(2) /\ s3 = share(3)
    <3>1. 0 \in 0 .. 3 /\ 1 \in 0 .. 3 /\ 2 \in 0 .. 3 /\ 3 \in 0 .. 3
      OBVIOUS
    <3> QED
      BY <1>3, <3>1
  <2>2. below[0] = 0 /\ below[1] = s0 /\ below[2] = s0 + s1 /\ below[3] = s0 + s1 + s2 /\ below[4] = s0 + s1 + s2 + s3
    BY <2>1
  <2> HIDE DEF below
  <2>3. ASSUME NEW k \in 0 .. 3
        PROVE  below[k + 1] = below[k] + share(k) /\ below[k] \in Nat /\ below[k + 1] \in Nat
    <3>1. k = 0 \/ k = 1 \/ k = 2 \/ k = 3
      OBVIOUS
    <3> QED
      BY <2>1, <2>2, <3>1
  <2>4. \A k \in 0 .. 4 : k = 4 \/ k \in 0 .. 3
    OBVIOUS
  <2>5. below[4] \in Nat
    BY <2>2
  <2> QED
    BY <2>3, <2>4, <2>5, Zenon
<1> HIDE DEF below
<1> DEFINE S == {i \in 0 .. n : h[i] \in Nat /\ h[i] <= below[p + i]}
<1>6. 0 \in S
  <2>1. h[0] = 0
    BY <1>1 DEF Evaluates
  <2>2. p + 0 \in 0 .. 4
    OBVIOUS
  <2>3. below[p + 0] \in Nat
    BY <1>5, <2>2
  <2> QED
    BY <2>1, <2>3
<1>7. ASSUME NEW i \in 1 .. n, i - 1 \in S
      PROVE  i \in S
  <2>1. PICK k \in 0 .. 3 : k = p + i - 1 /\ p + (i - 1) = k /\ p + i = k + 1
    OBVIOUS
  <2>2. PICK m \in 0 .. b - 1, w \in Nat : m = mem[a + i - 1] /\ w = C!Weight(k)
    BY <1>2, WeightIs
  <2>3. m * w \in Nat /\ m * w <= (b - 1) * w /\ (b - 1) * w = share(k)
    <3>1. m * w \in Nat /\ m * w <= (b - 1) * w
      <4>1. (b - 1) * w = m * w + (b - 1 - m) * w
        BY <1>2, <2>2
      <4>2. m \in Nat /\ b - 1 - m \in Nat
        BY <1>2, <2>2
      <4>3. m * w \in Nat /\ (b - 1 - m) * w \in Nat
        BY <4>2
      <4> QED
        BY <4>1, <4>3
    <3>2. (b - 1) * w = share(k)
      BY <1>2, <2>2 DEF share
    <3> QED
      BY <3>1, <3>2
  <2>4. PICK t \in Nat : t = m * w /\ t <= share(k)
    BY <2>3
  <2>5. h[i] = h[i - 1] + t
    <3>1. h[i] = h[i - 1] + mem[a + i - 1] * C!Weight(p + i - 1)
      BY <1>1 DEF Evaluates
    <3> QED
      BY <2>1, <2>2, <2>4, <3>1, Zenon
  <2>6. h[i - 1] \in Nat /\ h[i - 1] <= below[k]
    BY <1>7, <2>1
  <2>7. below[k] \in Nat /\ share(k) \in Nat /\ below[p + i] = below[k] + share(k)
    <3>1. k \in 0 .. 4
      BY <2>1
    <3> QED
      BY <1>3, <1>5, <2>1, <3>1
  <2>8. h[i] \in Nat /\ h[i] <= below[p + i]
    BY <2>4, <2>5, <2>6, <2>7
  <2> QED
    BY <2>8
<1>8. n \in S
  <2> HIDE DEF S
  <2>1. n \in Nat /\ n \in 0 .. n
    OBVIOUS
  <2> QED
    BY <1>6, <1>7, <2>1, Induction
<1>9. below[p + n] <= below[4] /\ below[p + n] \in Nat /\ below[4] \in Nat
  <2>1. below[0] <= below[1] /\ below[1] <= below[2] /\ below[2] <= below[3] /\ below[3] <= below[4]
    <3>1. \A k \in 0 .. 3 : below[k] <= below[k + 1]
      <4>1. ASSUME NEW k \in 0 .. 3
            PROVE  below[k] <= below[k + 1]
        <5>1. below[k] \in Nat /\ share(k) \in Nat /\ below[k + 1] = below[k] + share(k)
          <6>1. k \in 0 .. 4
            OBVIOUS
          <6> QED
            BY <1>3, <1>5, <6>1
        <5> QED
          BY <5>1
      <4> QED
        BY <4>1
    <3> QED
      BY <3>1
  <2>2. below[0] \in Nat /\ below[1] \in Nat /\ below[2] \in Nat /\ below[3] \in Nat /\ below[4] \in Nat
    BY <1>5
  <2>3. p + n = 1 \/ p + n = 2 \/ p + n = 3 \/ p + n = 4
    OBVIOUS
  <2> QED
    BY <2>1, <2>2, <2>3
<1>10. C!Value(mem, a, n, p) = h[n]
  BY <1>1 DEF Evaluates
<1> QED
  BY <1>4, <1>8, <1>9, <1>10

(* f is the sum of the bytes, one after the other, as they weigh from      *)
(* position par of a pair on.                                              *)
Totals(f, old, par) ==
  par \in {0, 1} /\ Adds(f, 0, Terms(old, job.src, par, job.len), job.len)

LEMMA SourceOctets ==
  ASSUME NEW old, Given(old)
  PROVE  Octets(old, job.src, job.len)
BY DEF Given, Octets

LEMMA TotalsAre ==
  ASSUME NEW old, Given(old), NEW f, NEW par, Totals(f, old, par)
  PROVE  /\ f[0] = 0 /\ \A k \in 0 .. job.len : f[k] \in Nat
         /\ \A k \in 1 .. job.len : /\ f[k] = f[k - 1] + old[job.src + k - 1] * Weighs(par + k - 1)
                                    /\ old[job.src + k - 1] \in 0 .. Byte - 1
<1>1. PICK n \in Nat, a \in Nat, p \in Nat : n = job.len /\ a = job.src /\ p = par
  BY DEF Given, Totals
<1>2. Octets(old, a, n) /\ job.big \in BOOLEAN /\ Adds(f, 0, Terms(old, a, p, n), n)
  BY <1>1, SourceOctets DEF Given, Totals
<1>3. f[0] = 0 /\ \A k \in 1 .. n : f[k] = f[k - 1] + Terms(old, a, p, n)[k]
  BY <1>2, AddsTo
<1>4. \A k \in 0 .. n : f[k] \in Nat
  BY <1>2, SumIsBelow
<1>5. \A k \in 1 .. n : /\ Terms(old, a, p, n)[k] = old[a + k - 1] * Weighs(p + k - 1)
                        /\ old[a + k - 1] \in 0 .. Byte - 1
  <2>1. ASSUME NEW k \in 1 .. n
        PROVE  Terms(old, a, p, n)[k] = old[a + k - 1] * Weighs(p + k - 1) /\ old[a + k - 1] \in 0 .. Byte - 1
    <3>1. a + k - 1 \in a .. a + n - 1
      OBVIOUS
    <3>2. old[a + k - 1] \in 0 .. Byte - 1
      BY <1>2, <3>1, Zenon DEF Octets
    <3>3. Terms(old, a, p, n)[k] = old[a + k - 1] * Weighs(p + k - 1)
      BY Zenon DEF Terms
    <3> QED
      BY <3>2, <3>3, Zenon
  <2> QED
    BY <2>1
<1> QED
  BY <1>1, <1>3, <1>4, <1>5

(* A part of a register adds what its bytes add.                           *)
LEMMA ValueAdds ==
  ASSUME NEW old, Given(old), NEW f, NEW par, Totals(f, old, par),
         NEW k \in 0 .. job.len, NEW o \in Nat, NEW q \in 1 .. 4, NEW p \in 0 .. 3, p + q <= 4,
         o + q <= job.len, (par + o) % 2 = p % 2
  PROVE  LET v == C!Value(CopiedTo(old, k), job.src + o, q, p)
         IN  v \in 0 .. C!Word - 1 /\ f[o] \in Nat /\ f[o + q] \in Nat /\ Agree(f[o] + v, f[o + q])
<1> DEFINE mem == CopiedTo(old, k)
           v == C!Value(mem, job.src + o, q, p)
<1>1. PICK n \in Nat, a \in Nat : n = job.len /\ a = job.src /\ par \in Nat /\ job.big \in BOOLEAN
  BY DEF Given, Totals
<1>2. \A i \in 1 .. q : /\ a + o + i - 1 = a + (o + i) - 1 /\ mem[a + o + i - 1] = old[a + (o + i) - 1]
                        /\ mem[a + o + i - 1] \in 0 .. Byte - 1
  <2>1. ASSUME NEW i \in 1 .. q
        PROVE  /\ a + o + i - 1 = a + (o + i) - 1 /\ mem[a + o + i - 1] = old[a + (o + i) - 1]
               /\ mem[a + o + i - 1] \in 0 .. Byte - 1
    <3>1. PICK j \in 0 .. n - 1 : a + o + i - 1 = a + j /\ a + (o + i) - 1 = a + j
      <4>1. o + i - 1 \in 0 .. n - 1 /\ a + o + i - 1 = a + (o + i - 1) /\ a + (o + i) - 1 = a + (o + i - 1)
        BY <1>1
      <4> QED
        BY <4>1
    <3>2. mem[a + j] = old[a + j] /\ old[a + j] \in 0 .. Byte - 1
      BY <1>1, SourceStays
    <3> HIDE DEF mem
    <3> QED
      BY <3>1, <3>2, Zenon
  <2> QED
    BY <2>1
<1>3. v \in 0 .. C!Word - 1
  <2>1. a + o \in Nat
    OBVIOUS
  <2> HIDE DEF mem
  <2> QED
    BY <1>1, <1>2, <2>1, ValueFits
<1>4. PICK h : Evaluates(h, mem, a + o, q, p)
  <2>1. q \in Nat
    OBVIOUS
  <2> HIDE DEF mem
  <2> QED
    BY <2>1, ValueIs
<1>5. h[0] = 0 /\ v = h[q]
  BY <1>1, <1>4, Zenon DEF Evaluates
<1> HIDE DEF mem, v
<1>6. \A i \in 1 .. q : h[i] = h[i - 1] + old[a + (o + i) - 1] * C!Weight(p + i - 1)
  <2>1. \A i \in 1 .. q : h[i] = h[i - 1] + mem[a + o + i - 1] * C!Weight(p + i - 1)
    BY <1>4, Zenon DEF Evaluates
  <2> QED
    BY <1>2, <2>1, Zenon
<1>7. /\ \A j \in 0 .. n : f[j] \in Nat
      /\ \A j \in 1 .. n : /\ f[j] = f[j - 1] + old[a + j - 1] * Weighs(par + j - 1)
                           /\ old[a + j - 1] \in 0 .. Byte - 1
  BY <1>1, TotalsAre
<1> DEFINE S == {i \in 0 .. q : h[i] \in Nat /\ Agree(f[o] + h[i], f[o + i])}
<1>8. 0 \in S
  <2>1. f[o] \in Nat /\ f[o] + h[0] = f[o] /\ o + 0 = o
    <3>1. o \in 0 .. n
      BY <1>1
    <3>2. f[o] \in Nat
      BY <1>7, <3>1
    <3> QED
      BY <1>5, <3>2
  <2>2. Agree(f[o], f[o])
    BY <2>1, AgreeSelf
  <2> QED
    BY <1>5, <2>1, <2>2
<1>9. ASSUME NEW i \in 1 .. q, i - 1 \in S
      PROVE  i \in S
  <2>1. PICK j \in 1 .. n : j = o + i /\ o + (i - 1) = j - 1 /\ j - 1 \in 0 .. n
    BY <1>1
  <2>2. PICK b \in Nat : b = old[a + j - 1] /\ f[j] = f[j - 1] + b * Weighs(par + j - 1) /\ f[j - 1] \in Nat
    BY <1>7, <2>1, ByteAssumption
  <2>3. PICK w \in Nat \ {0}, z \in Nat, x \in Nat \ {0} :
          w = C!Weight(p + i - 1) /\ x = Weighs(par + j - 1) /\ w = x + z * AllOnes
    <3>1. PICK t \in 0 .. 3 : t = p + i - 1
      OBVIOUS
    <3>2. Weighs(t) = Weighs(par + j - 1)
      <4>1. t % 2 = (par + j - 1) % 2
        <5>1. PICK y \in Nat : y = par + o /\ par + j - 1 = y + (i - 1) /\ y % 2 = p % 2
          BY <1>1, <2>1
        <5>2. (p + (i - 1)) % 2 = (y + (i - 1)) % 2 /\ t = p + (i - 1)
          BY <3>1, <5>1
        <5> QED
          BY <5>1, <5>2, Zenon
      <4> QED
        BY <4>1, Zenon DEF Weighs
    <3>3. Weighs(t) \in Nat \ {0}
      BY ByteAssumption DEF Weighs
    <3>4. C!Weight(t) \in Nat \ {0} /\ \E z \in Nat : C!Weight(t) = Weighs(t) + z * AllOnes
      BY <1>1, WeightIs
    <3> QED
      BY <3>1, <3>2, <3>3, <3>4, Zenon
  <2>4. Agree(b * w, b * x)
    BY <2>3, AgreeTimes
  <2>5. PICK c \in Nat, d \in Nat : c = b * w /\ d = b * x
    BY <2>2, <2>3
  <2>6. h[i] = h[i - 1] + c /\ f[j] = f[j - 1] + d
    BY <1>6, <2>1, <2>2, <2>3, <2>5, Zenon
  <2>7. h[i - 1] \in Nat /\ Agree(f[o] + h[i - 1], f[j - 1])
    BY <1>9, <2>1
  <2>8. Agree((f[o] + h[i - 1]) + c, f[j - 1] + d)
    BY <2>4, <2>5, <2>7, AgreeAdd
  <2>9. h[i] \in Nat /\ (f[o] + h[i - 1]) + c = f[o] + h[i]
    <3>1. o \in 0 .. n
      BY <1>1
    <3>2. f[o] \in Nat
      BY <1>7, <3>1
    <3> QED
      BY <2>6, <2>7, <3>2
  <2>10. Agree(f[o] + h[i], f[o + i])
    BY <2>1, <2>6, <2>8, <2>9
  <2> QED
    BY <2>9, <2>10
<1>10. q \in S
  <2> HIDE DEF S
  <2>1. q \in Nat /\ q \in 0 .. q
    OBVIOUS
  <2> QED
    BY <1>8, <1>9, <2>1, Induction
<1>11. Agree(f[o] + v, f[o + q])
  BY <1>5, <1>10
<1>12. f[o] \in Nat /\ f[o + q] \in Nat
  <2>1. o \in 0 .. n /\ o + q \in 0 .. n
    BY <1>1
  <2> QED
    BY <1>7, <2>1
<1> QED
  BY <1>3, <1>11, <1>12 DEF mem, v

(* The first k bytes have been copied and the first o bytes are in the sum,*)
(* src and dst stand at byte i, and len at l.                              *)
Start(par) == C!Turned(par = 1, job.partial)
Calls(old, f, par) == Given(old) /\ Totals(f, old, par)
Holding(s, old, f, par, i, k, l, o) ==
  \E total, carries \in Nat :
    /\ Has(s, CopiedTo(old, k), job.src + i, job.dst + i, l, "none", total, carries)
    /\ Agree(total, Start(par) + f[o]) /\ carries <= o

(* The first m bytes have been read, added and stored without a fault.     *)
Reached(m) == m > 0 => job.src + m <= job.srcEnd /\ job.dst + m <= job.dstEnd
Working(s, old, f, par, i, m, l) ==
  /\ i \in 0 .. job.len /\ m \in i .. job.len /\ Reached(m)
  /\ Holding(s, old, f, par, i, m, l, m)

(* What a fault leaves to its handler.                                     *)
StoreFault(s, old) ==
  /\ job.len > 0 /\ job.dst + job.len > job.dstEnd
  /\ \E mem, x, y, total, carries : \E l \in Nat :
       Has(s, mem, x, y, l, "s_exc", total, carries) /\ Framed(old, mem)
FirstFault(s, old) ==
  \E i \in 0 .. job.len - 1 : \E total, carries :
    /\ Has(s, CopiedTo(old, i), job.src + i, job.dst + i, job.len - i, "l_exc", total, carries)
    /\ job.srcEnd <= job.src + i /\ Reached(i)
Remaining(i, m, l) ==
  \/ l = job.len - i
  \/ l = job.len - m /\ m > i /\ job.srcEnd <= job.src + m /\ i = SingleBytes(job)
LaterFault(s, old) ==
  \E i \in 0 .. job.len - 1 : \E m \in i .. job.len - 1 : \E l, total, carries :
    /\ Has(s, CopiedTo(old, m), job.src + i, job.dst + i, l, "l_exc_copy", total, carries)
    /\ job.src + m <= job.srcEnd /\ job.srcEnd < job.src + job.len /\ Remaining(i, m, l)
Failed(s, old) == StoreFault(s, old) \/ FirstFault(s, old) \/ LaterFault(s, old)

LEMMA StartIs ==
  ASSUME NEW old, Given(old), NEW par
  PROVE  /\ Start(par) \in 0 .. C!Word - 1 /\ Start(par) \in Nat
         /\ (Start(par) = 0 <=> job.partial = 0)
<1>1. job.partial \in 0 .. Byte^4 - 1 /\ C!Word = Byte^4
  BY WordIs DEF Given
<1>2. Start(par) \in 0 .. Byte^4 - 1 /\ (Start(par) = 0 <=> job.partial = 0)
  <2>1. CASE par = 1
    <3>1. Start(par) = C!swap(job.partial)
      BY <2>1, Zenon DEF Start, C!Turned
    <3>2. /\ C!swap(job.partial) \in 0 .. Byte^4 - 1
          /\ (C!swap(job.partial) = 0 <=> job.partial = 0)
      BY <1>1, Swapped
    <3> QED
      BY <3>1, <3>2
  <2>2. CASE par # 1
    <3>1. Start(par) = job.partial
      BY <2>2, Zenon DEF Start, C!Turned
    <3> QED
      BY <1>1, <3>1
  <2> QED
    BY <2>1, <2>2
<1> QED
  BY <1>1, <1>2

LEMMA HoldingAdds ==
  ASSUME NEW old, NEW f, NEW par, Calls(old, f, par), NEW s, NEW i, NEW k, NEW l, NEW o \in Nat,
         Holding(s, old, f, par, i, k, l, o), NEW q \in Nat \ {0}, NEW v \in 0 .. C!Word - 1,
         f[o] \in Nat, f[o + q] \in Nat, Agree(f[o] + v, f[o + q])
  PROVE  /\ Holding(C!Add0(s, v), old, f, par, i, k, l, o + q)
         /\ Holding(C!Add1(s, v), old, f, par, i, k, l, o + q)
<1>1. PICK total \in Nat, carries \in Nat :
        /\ Has(s, CopiedTo(old, k), job.src + i, job.dst + i, l, "none", total, carries)
        /\ Agree(total, Start(par) + f[o]) /\ carries <= o
  BY DEF Holding
<1>2. /\ Has(C!Add0(s, v), CopiedTo(old, k), job.src + i, job.dst + i, l, "none", total + v, carries + 1)
      /\ Has(C!Add1(s, v), CopiedTo(old, k), job.src + i, job.dst + i, l, "none", total + v, carries + 1)
  BY <1>1, HasAdded
<1>3. PICK c \in Nat, x \in Nat, y \in Nat : c = Start(par) /\ x = f[o] /\ y = f[o + q]
  BY StartIs DEF Calls
<1>4. v \in Nat
  BY WordIs
<1>5. Agree(total + v, c + y)
  <2>1. Agree(total + v, (c + x) + v)
    <3>1. Agree(v, v) /\ Agree(total, c + x)
      BY <1>1, <1>3, <1>4, AgreeSelf
    <3> QED
      BY <3>1, AgreeAdd
  <2>2. Agree(c + (x + v), c + y)
    <3>1. Agree(c, c) /\ Agree(x + v, y)
      BY <1>3, AgreeSelf
    <3> QED
      BY <3>1, AgreeAdd
  <2>3. (c + x) + v = c + (x + v)
    BY <1>4
  <2> QED
    BY <2>1, <2>2, <2>3, AgreeTrans
<1>6. carries + 1 <= o + q /\ carries + 1 \in Nat /\ total + v \in Nat
  BY <1>1, <1>4
<1>7. Agree(total + v, Start(par) + f[o + q])
  BY <1>3, <1>5
<1> QED
  BY <1>2, <1>6, <1>7 DEF Holding

LEMMA ReadAdds ==
  ASSUME NEW old, NEW f, NEW par, Calls(old, f, par), NEW s, NEW i, NEW k \in 0 .. job.len, NEW l,
         NEW o \in Nat, Holding(s, old, f, par, i, k, l, o),
         NEW q \in 1 .. 4, NEW p \in 0 .. 3, p + q <= 4, o + q <= job.len, (par + o) % 2 = p % 2,
         NEW v, v = C!Value(CopiedTo(old, k), job.src + o, q, p)
  PROVE  /\ Holding(C!Add0(s, v), old, f, par, i, k, l, o + q)
         /\ Holding(C!Add1(s, v), old, f, par, i, k, l, o + q)
<1>1. /\ v \in 0 .. C!Word - 1 /\ f[o] \in Nat /\ f[o + q] \in Nat /\ Agree(f[o] + v, f[o + q])
  BY ValueAdds DEF Calls
<1>2. q \in Nat \ {0}
  OBVIOUS
<1> QED
  BY <1>1, <1>2, HoldingAdds

LEMMA HoldingFields ==
  ASSUME NEW s, NEW old, NEW f, NEW par, NEW i, NEW k, NEW l, NEW o,
         Holding(s, old, f, par, i, k, l, o)
  PROVE  /\ s.mem = CopiedTo(old, k) /\ s.src = job.src + i /\ s.dst = job.dst + i /\ s.len = l
         /\ s.exc = "none" /\ s.srcEnd = job.srcEnd /\ s.dstEnd = job.dstEnd
<1>1. PICK total \in Nat, carries \in Nat :
        Has(s, CopiedTo(old, k), job.src + i, job.dst + i, l, "none", total, carries)
  BY DEF Holding
<1> QED
  BY <1>1, HasFields

LEMMA FailedStops ==
  ASSUME NEW s, NEW old, Failed(s, old)
  PROVE  s.exc # "none"
<1>1. StoreFault(s, old) => s.exc = "s_exc"
  BY HasFields DEF StoreFault
<1>2. FirstFault(s, old) => s.exc = "l_exc"
  BY HasFields DEF FirstFault
<1>3. LaterFault(s, old) => s.exc = "l_exc_copy"
  BY HasFields DEF LaterFault
<1> QED
  BY <1>1, <1>2, <1>3 DEF Failed

LEMMA LoadFails ==
  ASSUME NEW old, NEW f, NEW par, Calls(old, f, par), NEW s, NEW i, NEW m, NEW l,
         Working(s, old, f, par, i, m, l), m < job.len, NEW u \in Nat, u = 0 <=> m = i,
         job.srcEnd < job.src + job.len, Remaining(i, m, l)
  PROVE  Failed(C!Raise(s, C!LoadHandler(s, u)), old)
<1>1. PICK total \in Nat, carries \in Nat :
        Has(s, CopiedTo(old, m), job.src + i, job.dst + i, l, "none", total, carries)
  BY DEF Working, Holding
<1>2. s.src = job.src + i /\ s.srcEnd = job.srcEnd
  BY ONLY <1>1, HasFields
<1>3. /\ job.src \in Nat /\ job.srcEnd \in Int /\ job.len \in Nat
      /\ i \in 0 .. job.len - 1 /\ m \in i .. job.len - 1 /\ Reached(m)
  BY DEF Working, Calls, Given
<1>4. C!Faults(s, s.src, 1) <=> job.src + i + 1 > job.srcEnd
  BY <1>2, Zenon DEF C!Faults
<1>5. CASE u = 0 /\ job.src + i + 1 > job.srcEnd
  <2>1. C!LoadHandler(s, u) = "l_exc"
    BY <1>4, <1>5, Zenon DEF C!LoadHandler
  <2>2. l = job.len - i /\ m = i /\ job.srcEnd <= job.src + i
    BY <1>3, <1>5 DEF Remaining
  <2>3. Has(C!Raise(s, "l_exc"), CopiedTo(old, i), job.src + i, job.dst + i, job.len - i, "l_exc", total, carries)
    BY <1>1, <2>2, HasRaised, Zenon
  <2>4. FirstFault(C!Raise(s, "l_exc"), old)
    BY <1>3, <2>2, <2>3 DEF FirstFault
  <2> QED
    BY <2>1, <2>4 DEF Failed
<1>6. CASE ~(u = 0 /\ job.src + i + 1 > job.srcEnd)
  <2>1. C!LoadHandler(s, u) = "l_exc_copy"
    BY <1>4, <1>6, Zenon DEF C!LoadHandler
  <2>2. job.src + m <= job.srcEnd
    <3>1. CASE m = i
      BY <1>3, <1>6, <3>1
    <3>2. CASE m # i
      BY <1>3, <3>2 DEF Reached
    <3> QED
      BY <3>1, <3>2
  <2>3. Has(C!Raise(s, "l_exc_copy"), CopiedTo(old, m), job.src + i, job.dst + i, l, "l_exc_copy", total, carries)
    BY <1>1, HasRaised, Zenon
  <2>4. LaterFault(C!Raise(s, "l_exc_copy"), old)
    BY <1>3, <2>2, <2>3 DEF LaterFault
  <2> QED
    BY <2>1, <2>4 DEF Failed
<1> QED
  BY <1>5, <1>6

(* What has been added is stored.                                          *)
LEMMA StoreWorks ==
  ASSUME NEW old, NEW f, NEW par, Calls(old, f, par), NEW s, NEW i \in Nat, NEW j \in Nat, NEW q \in Nat \ {0},
         NEW l \in Nat, i + j + q <= job.len, Holding(s, old, f, par, i, i + j, l, i + j + q),
         job.src + i + j + q <= job.srcEnd
  PROVE  \/ Working(C!STORE(s, j, q), old, f, par, i, i + j + q, l)
         \/ StoreFault(C!STORE(s, j, q), old)
<1>1. PICK total \in Nat, carries \in Nat :
        /\ Has(s, CopiedTo(old, i + j), job.src + i, job.dst + i, l, "none", total, carries)
        /\ Agree(total, Start(par) + f[i + j + q]) /\ carries <= i + j + q
  BY DEF Holding
<1>2. Given(old) /\ q \in Nat
  BY DEF Calls
<1>3. PICK n \in Nat, d \in Nat, e \in Int, a \in Nat, b \in Int :
        n = job.len /\ d = job.dst /\ e = job.dstEnd /\ a = job.src /\ b = job.srcEnd
  BY <1>2 DEF Given
<1>4. CASE /\ job.dst + i + j + q <= job.dstEnd
           /\ Has(C!STORE(s, j, q), CopiedTo(old, i + j + q), job.src + i, job.dst + i, l, "none", total, carries)
  <2>1. Holding(C!STORE(s, j, q), old, f, par, i, i + j + q, l, i + j + q)
    BY <1>1, <1>4, Zenon DEF Holding
  <2>2. i \in 0 .. n /\ i + j + q \in i .. n
    BY <1>3
  <2>3. Reached(i + j + q)
    <3>1. a + (i + j + q) <= b /\ d + (i + j + q) <= e
      BY <1>3, <1>4
    <3> QED
      BY <1>3, <3>1, Zenon DEF Reached
  <2> QED
    BY <1>3, <2>1, <2>2, <2>3, Zenon DEF Working
<1>5. CASE /\ job.dst + i + j + q > job.dstEnd
           /\ \E mem : /\ Has(C!STORE(s, j, q), mem, job.src + i, job.dst + i, l, "s_exc", total, carries)
                       /\ Framed(old, mem)
  <2>1. n > 0 /\ d + n > e
    BY <1>3, <1>5
  <2> QED
    BY <1>3, <1>5, <2>1, Zenon DEF StoreFault
<1>6. \/ /\ job.dst + i + j + q <= job.dstEnd
         /\ Has(C!STORE(s, j, q), CopiedTo(old, i + j + q), job.src + i, job.dst + i, l, "none", total, carries)
      \/ /\ job.dst + i + j + q > job.dstEnd
         /\ \E mem : /\ Has(C!STORE(s, j, q), mem, job.src + i, job.dst + i, l, "s_exc", total, carries)
                     /\ Framed(old, mem)
  BY <1>1, <1>2, StoreCopies
<1> QED
  BY <1>4, <1>5, <1>6, Zenon

LEMMA FailedLength ==
  ASSUME NEW s, NEW old, Given(old), Failed(s, old)
  PROVE  s.len \in Nat
<1>1. CASE StoreFault(s, old)
  BY <1>1, HasFields DEF StoreFault
<1>2. CASE FirstFault(s, old)
  <2>1. PICK i \in 0 .. job.len - 1 : s.len = job.len - i
    BY <1>2, HasFields DEF FirstFault
  <2> QED
    BY <2>1 DEF Given
<1>3. CASE LaterFault(s, old)
  <2>1. PICK i \in 0 .. job.len - 1 : \E m \in i .. job.len - 1 : \E l : s.len = l /\ Remaining(i, m, l)
    BY <1>3, HasFields DEF LaterFault
  <2> QED
    BY <2>1 DEF Given, Remaining
<1> QED
  BY <1>1, <1>2, <1>3 DEF Failed

LEMMA FourUnitsWork ==
  ASSUME NEW old, NEW f, NEW par, Calls(old, f, par), NEW s, NEW i, NEW l, NEW u \in {0, 4},
         Working(s, old, f, par, i, i + 4 * u, l), l = job.len - i, i + 4 * u + 16 <= job.len,
         (par + i) % 2 = 0
  PROVE  \/ Working(C!FourUnits(s, u), old, f, par, i, i + 4 * u + 16, l)
         \/ Failed(C!FourUnits(s, u), old)
<1>1. PICK n \in Nat, a \in Nat, b \in Int, p \in Nat : n = job.len /\ a = job.src /\ b = job.srcEnd /\ p = par
  BY DEF Calls, Given, Totals
<1>2. PICK m \in 0 .. n : m = i + 4 * u /\ i \in 0 .. n /\ m + 16 <= n /\ (p + m) % 2 = 0
  <2>1. i \in 0 .. n
    BY <1>1 DEF Working
  <2>2. u = 0 \/ u = 4
    OBVIOUS
  <2>3. (p + (i + 4 * u)) % 2 = 0
    BY <1>1, <2>1, <2>2
  <2> QED
    BY <1>1, <2>1, <2>3
<1>3. Working(s, old, f, par, i, m, l) /\ Holding(s, old, f, par, i, m, l, m) /\ Given(old)
  BY <1>2 DEF Working, Calls
<1>4. s.mem = CopiedTo(old, m) /\ s.src = a + i /\ s.exc = "none" /\ s.srcEnd = b
  <2>1. s.mem = CopiedTo(old, m) /\ s.src = job.src + i /\ s.exc = "none" /\ s.srcEnd = job.srcEnd
    BY <1>3, HoldingFields
  <2> QED
    BY <1>1, <2>1
<1>5. u \in Nat /\ l \in Nat /\ s.src + u * 4 = a + m
  BY <1>1, <1>2, <1>4
<1>6. C!Faults(s, s.src + u * C!NBYTES, 4 * C!NBYTES) <=> a + m + 16 > b
  <2>1. C!Faults(s, s.src + u * C!NBYTES, 4 * C!NBYTES) <=> (s.src + u * 4) + 4 * 4 > b
    BY <1>4, Zenon DEF C!Faults, C!NBYTES
  <2> QED
    BY <1>5, <2>1
<1>7. CASE a + m + 16 > b
  <2>1. C!FourUnits(s, u) = C!Raise(s, C!LoadHandler(s, u))
    BY <1>4, <1>6, <1>7, Zenon DEF C!FourUnits
  <2>2. job.srcEnd < job.src + job.len /\ m < job.len /\ (u = 0 <=> m = i)
    BY <1>1, <1>2, <1>7
  <2>3. Remaining(i, m, l)
    BY DEF Remaining
  <2>4. Failed(C!Raise(s, C!LoadHandler(s, u)), old)
    BY <1>3, <1>5, <2>2, <2>3, LoadFails
  <2> QED
    BY <2>1, <2>4
<1>8. CASE ~(a + m + 16 > b)
  <2>1. \A k \in {0, 1, 2, 3} : C!Unit(s, u + k) = C!Value(CopiedTo(old, m), job.src + (m + 4 * k), 4, 0)
    <3>1. ASSUME NEW k \in {0, 1, 2, 3}
          PROVE  C!Unit(s, u + k) = C!Value(CopiedTo(old, m), job.src + (m + 4 * k), 4, 0)
      <4>1. s.src + (u + k) * 4 = a + (m + 4 * k)
        <5>1. k \in Nat
          OBVIOUS
        <5> QED
          BY <1>1, <1>2, <1>4, <1>5, <5>1
      <4>2. C!Unit(s, u + k) = C!Value(s.mem, s.src + (u + k) * 4, 4, 0)
        BY Zenon DEF C!Unit, C!NBYTES
      <4> QED
        BY <1>1, <1>4, <4>1, <4>2, Zenon
    <3> QED
      BY <3>1
  <2> DEFINE v0 == C!Unit(s, u)
             v1 == C!Unit(s, u + 1)
             v2 == C!Unit(s, u + 2)
             v3 == C!Unit(s, u + 3)
             t1 == C!Add0(s, v0)
             t2 == C!Add1(t1, v1)
             t3 == C!Add0(t2, v2)
             t4 == C!Add1(t3, v3)
  <2>2. C!FourUnits(s, u) = C!STORE(t4, u * C!NBYTES, 4 * C!NBYTES)
    BY <1>4, <1>6, <1>8, Zenon DEF C!FourUnits
  <2>3. /\ v0 = C!Value(CopiedTo(old, m), job.src + m, 4, 0)
        /\ v1 = C!Value(CopiedTo(old, m), job.src + (m + 4), 4, 0)
        /\ v2 = C!Value(CopiedTo(old, m), job.src + (m + 8), 4, 0)
        /\ v3 = C!Value(CopiedTo(old, m), job.src + (m + 12), 4, 0)
    <3>1. u + 0 = u /\ m + 4 * 0 = m /\ 4 * 1 = 4 /\ 4 * 2 = 8 /\ 4 * 3 = 12
      BY <1>5
    <3>2. 0 \in {0, 1, 2, 3} /\ 1 \in {0, 1, 2, 3} /\ 2 \in {0, 1, 2, 3} /\ 3 \in {0, 1, 2, 3}
      OBVIOUS
    <3> QED
      BY <2>1, <3>1, <3>2, Zenon
  <2> HIDE DEF v0, v1, v2, v3
  <2>4. /\ 4 \in 1 .. 4 /\ 0 \in 0 .. 3 /\ 0 + 4 <= 4 /\ m \in Nat /\ m \in 0 .. job.len
        /\ m + 4 \in Nat /\ m + 8 \in Nat /\ m + 12 \in Nat
        /\ m + 4 <= job.len /\ (m + 4) + 4 <= job.len /\ (m + 8) + 4 <= job.len /\ (m + 12) + 4 <= job.len
        /\ (m + 4) + 4 = m + 8 /\ (m + 8) + 4 = m + 12 /\ (m + 12) + 4 = m + 16
        /\ (par + m) % 2 = 0 % 2 /\ (par + (m + 4)) % 2 = 0 % 2
        /\ (par + (m + 8)) % 2 = 0 % 2 /\ (par + (m + 12)) % 2 = 0 % 2
    <3>1. \A x, y \in Nat : (x + y) % 2 = 0 => /\ (x + (y + 4)) % 2 = 0 /\ (x + (y + 8)) % 2 = 0
                                               /\ (x + (y + 12)) % 2 = 0
      OBVIOUS
    <3>2. m \in Nat
      BY <1>2
    <3>3. /\ (p + (m + 4)) % 2 = 0 /\ (p + (m + 8)) % 2 = 0 /\ (p + (m + 12)) % 2 = 0
      BY <1>2, <3>1, <3>2
    <3>4. 0 % 2 = 0
      OBVIOUS
    <3>5. /\ (par + m) % 2 = 0 % 2 /\ (par + (m + 4)) % 2 = 0 % 2
          /\ (par + (m + 8)) % 2 = 0 % 2 /\ (par + (m + 12)) % 2 = 0 % 2
      BY <1>1, <1>2, <3>3, <3>4, Zenon
    <3>6. /\ m + 4 <= n /\ (m + 4) + 4 <= n /\ (m + 8) + 4 <= n /\ (m + 12) + 4 <= n
          /\ (m + 4) + 4 = m + 8 /\ (m + 8) + 4 = m + 12 /\ (m + 12) + 4 = m + 16
          /\ m + 4 \in Nat /\ m + 8 \in Nat /\ m + 12 \in Nat
      BY <1>2
    <3> QED
      BY <1>1, <3>2, <3>5, <3>6
  <2>5. Holding(t1, old, f, par, i, m, l, m + 4)
    BY <1>3, <2>3, <2>4, ReadAdds
  <2> HIDE DEF t1
  <2>6. Holding(t2, old, f, par, i, m, l, m + 8)
    <3>1. Holding(t2, old, f, par, i, m, l, (m + 4) + 4)
      BY <2>3, <2>4, <2>5, ReadAdds
    <3> QED
      BY <2>4, <3>1, Zenon
  <2> HIDE DEF t2
  <2>7. Holding(t3, old, f, par, i, m, l, m + 12)
    <3>1. Holding(t3, old, f, par, i, m, l, (m + 8) + 4)
      BY <2>3, <2>4, <2>6, ReadAdds
    <3> QED
      BY <2>4, <3>1, Zenon
  <2> HIDE DEF t3
  <2>8. Holding(t4, old, f, par, i, m, l, m + 16)
    <3>1. Holding(t4, old, f, par, i, m, l, (m + 12) + 4)
      BY <2>3, <2>4, <2>7, ReadAdds
    <3> QED
      BY <2>4, <3>1, Zenon
  <2> HIDE DEF t4
  <2>9. \/ Working(C!STORE(t4, u * 4, 16), old, f, par, i, i + 4 * u + 16, l)
        \/ StoreFault(C!STORE(t4, u * 4, 16), old)
    <3>1. PICK j \in Nat : j = u * 4 /\ i \in Nat /\ i + j = m /\ i + j + 16 = m + 16 /\ 16 \in Nat \ {0}
      BY <1>2, <1>5
    <3>2. Holding(t4, old, f, par, i, i + j, l, i + j + 16)
      BY <2>8, <3>1, Zenon
    <3>3. i + j + 16 <= job.len /\ job.src + i + j + 16 <= job.srcEnd
      BY <1>1, <1>2, <1>8, <3>1
    <3>4. \/ Working(C!STORE(t4, j, 16), old, f, par, i, i + j + 16, l)
          \/ StoreFault(C!STORE(t4, j, 16), old)
      BY <1>5, <3>1, <3>2, <3>3, StoreWorks
    <3>5. i + j + 16 = i + 4 * u + 16
      BY <1>2, <3>1
    <3> QED
      BY <3>1, <3>4, <3>5
  <2>10. C!FourUnits(s, u) = C!STORE(t4, u * 4, 16)
    <3>1. 4 * C!NBYTES = 16 /\ C!NBYTES = 4
      BY SMT DEF C!NBYTES
    <3> QED
      BY <2>2, <3>1
  <2> QED
    BY <2>9, <2>10, Zenon DEF Failed
<1> QED
  BY <1>7, <1>8

LEMMA AdvanceWorks ==
  ASSUME NEW old, NEW f, NEW par, Calls(old, f, par), NEW s, NEW i, NEW m, NEW l, NEW q \in Nat,
         Working(s, old, f, par, i, m, l), m = i + q
  PROVE  Working(C!Advance(s, q), old, f, par, m, m, l - q)
<1>1. PICK total \in Nat, carries \in Nat :
        /\ Has(s, CopiedTo(old, m), job.src + i, job.dst + i, l, "none", total, carries)
        /\ Agree(total, Start(par) + f[m]) /\ carries <= m
  BY DEF Working, Holding
<1>2. Has(C!Advance(s, q), CopiedTo(old, m), job.src + i + q, job.dst + i + q, l - q, "none", total, carries)
  BY <1>1, HasAdvanced
<1>3. /\ job.src + i + q = job.src + m /\ job.dst + i + q = job.dst + m /\ m \in 0 .. job.len /\ m \in m .. job.len
      /\ Reached(m)
  BY DEF Working, Calls, Given
<1>4. Holding(C!Advance(s, q), old, f, par, m, m, l - q, m)
  BY <1>1, <1>2, <1>3 DEF Holding
<1> QED
  BY <1>3, <1>4 DEF Working

(* Between two turns of a loop.                                            *)
Underway(s, old, f, par, i) == Working(s, old, f, par, i, i, job.len - i) \/ Failed(s, old)

LEMMA FailedSteps ==
  ASSUME NEW s, NEW old, Failed(s, old)
  PROVE  /\ C!FourUnits(s, 0) = s /\ C!FourUnits(s, 4) = s /\ C!EightUnits(s) = s /\ C!OneUnit(s) = s
         /\ \A q : C!Advance(s, q) = s
<1>1. s.exc # "none"
  BY FailedStops
<1>2. C!FourUnits(s, 0) = s /\ C!FourUnits(s, 4) = s
  BY <1>1, Zenon DEF C!FourUnits
<1>3. C!OneUnit(s) = s
  BY <1>1, Zenon DEF C!OneUnit
<1>4. \A q : C!Advance(s, q) = s
  BY <1>1, Zenon DEF C!Advance
<1>5. C!EightUnits(s) = s
  BY <1>2, <1>4, Zenon DEF C!EightUnits
<1> QED
  BY <1>2, <1>3, <1>4, <1>5

LEMMA EightUnitsWork ==
  ASSUME NEW old, NEW f, NEW par, Calls(old, f, par), NEW s, NEW i \in Nat,
         Underway(s, old, f, par, i), i + 32 <= job.len, (par + i) % 2 = 0
  PROVE  Underway(C!EightUnits(s), old, f, par, i + 32)
<1>1. PICK n \in Nat : n = job.len
  BY DEF Calls, Given
<1>2. CASE Failed(s, old)
  BY <1>2, FailedSteps DEF Underway
<1>3. CASE Working(s, old, f, par, i, i, job.len - i)
  <2> DEFINE t == C!FourUnits(s, 0)
             r == C!FourUnits(t, 4)
  <2>1. C!EightUnits(s) = C!Advance(r, 32)
    <3>1. 8 * C!NBYTES = 32
      BY SMT DEF C!NBYTES
    <3> QED
      BY <3>1, Zenon DEF C!EightUnits
  <2>2. PICK l : l = job.len - i
    OBVIOUS
  <2>3. Working(t, old, f, par, i, i + 16, l) \/ Failed(t, old)
    <3>1. i + 4 * 0 = i /\ i + 4 * 0 + 16 = i + 16 /\ i + 4 * 0 + 16 <= job.len /\ 0 \in {0, 4}
      BY <1>1
    <3>2. Working(s, old, f, par, i, i + 4 * 0, l)
      BY <1>3, <2>2, <3>1
    <3>3. Working(C!FourUnits(s, 0), old, f, par, i, i + 4 * 0 + 16, l) \/ Failed(C!FourUnits(s, 0), old)
      BY <2>2, <3>1, <3>2, FourUnitsWork
    <3> QED
      BY <3>1, <3>3
  <2> HIDE DEF t
  <2>4. Working(r, old, f, par, i, i + 32, l) \/ Failed(r, old)
    <3>1. CASE Failed(t, old)
      BY <3>1, FailedSteps
    <3>2. CASE Working(t, old, f, par, i, i + 16, l)
      <4>1. i + 4 * 4 = i + 16 /\ i + 4 * 4 + 16 = i + 32 /\ i + 4 * 4 + 16 <= job.len /\ 4 \in {0, 4}
        BY <1>1
      <4>2. Working(t, old, f, par, i, i + 4 * 4, l)
        BY <3>2, <4>1
      <4>3. Working(C!FourUnits(t, 4), old, f, par, i, i + 4 * 4 + 16, l) \/ Failed(C!FourUnits(t, 4), old)
        BY <2>2, <4>1, <4>2, FourUnitsWork
      <4> QED
        BY <4>1, <4>3
    <3> QED
      BY <2>3, <3>1, <3>2
  <2> HIDE DEF r
  <2>5. CASE Failed(r, old)
    BY <2>1, <2>5, FailedSteps DEF Underway
  <2>6. CASE Working(r, old, f, par, i, i + 32, l)
    <3>1. Working(C!Advance(r, 32), old, f, par, i + 32, i + 32, l - 32)
      <4>1. 32 \in Nat /\ i + 32 = i + 32
        OBVIOUS
      <4> QED
        BY <2>6, <4>1, AdvanceWorks
    <3>2. l - 32 = job.len - (i + 32)
      BY <1>1, <2>2
    <3> QED
      BY <2>1, <3>1, <3>2 DEF Underway
  <2> QED
    BY <2>4, <2>5, <2>6
<1> QED
  BY <1>2, <1>3 DEF Underway

LEMMA OneUnitWorks ==
  ASSUME NEW old, NEW f, NEW par, Calls(old, f, par), NEW s, NEW i \in Nat,
         Underway(s, old, f, par, i), i + 4 <= job.len, (par + i) % 2 = 0
  PROVE  Underway(C!OneUnit(s), old, f, par, i + 4)
<1>1. PICK n \in Nat, a \in Nat, b \in Int : n = job.len /\ a = job.src /\ b = job.srcEnd
  BY DEF Calls, Given
<1>2. CASE Failed(s, old)
  BY <1>2, FailedSteps DEF Underway
<1>3. CASE Working(s, old, f, par, i, i, job.len - i)
  <2>1. PICK l \in Nat : l = job.len - i
    BY <1>1
  <2>2. Working(s, old, f, par, i, i, l) /\ Holding(s, old, f, par, i, i, l, i) /\ Given(old)
    BY <1>3, <2>1 DEF Working, Calls
  <2>3. s.mem = CopiedTo(old, i) /\ s.src = job.src + i /\ s.exc = "none" /\ s.srcEnd = b
    <3>1. s.mem = CopiedTo(old, i) /\ s.src = job.src + i /\ s.exc = "none" /\ s.srcEnd = job.srcEnd
      BY <2>2, HoldingFields
    <3> QED
      BY <1>1, <3>1
  <2>4. C!Faults(s, s.src, C!NBYTES) <=> a + i + 4 > b
    BY <1>1, <2>3, Zenon DEF C!Faults, C!NBYTES
  <2>5. CASE a + i + 4 > b
    <3>1. C!OneUnit(s) = C!Raise(s, C!LoadHandler(s, 0))
      BY <2>3, <2>4, <2>5, Zenon DEF C!OneUnit
    <3>2. job.srcEnd < job.src + job.len /\ i < job.len /\ (0 = 0 <=> i = i) /\ 0 \in Nat
      BY <1>1, <2>5
    <3>3. Remaining(i, i, l)
      BY <2>1 DEF Remaining
    <3>4. Failed(C!Raise(s, C!LoadHandler(s, 0)), old)
      BY <2>2, <3>2, <3>3, LoadFails
    <3> QED
      BY <3>1, <3>4 DEF Underway
  <2>6. CASE ~(a + i + 4 > b)
    <3> DEFINE v == C!Unit(s, 0)
               t == C!Add0(s, v)
               r == C!STORE(t, 0, 4)
    <3>1. C!OneUnit(s) = C!Advance(r, 4)
      BY <2>3, <2>4, <2>6, Zenon DEF C!OneUnit, C!NBYTES
    <3>2. v = C!Value(CopiedTo(old, i), job.src + i, 4, 0)
      <4>1. job.src + i + 0 * 4 = job.src + i
        BY <1>1
      <4>2. v = C!Value(s.mem, s.src + 0 * 4, 4, 0)
        BY Zenon DEF C!Unit, C!NBYTES
      <4> QED
        BY <2>3, <4>1, <4>2, Zenon
    <3> HIDE DEF v
    <3>3. Holding(t, old, f, par, i, i, l, i + 4)
      <4>1. /\ 4 \in 1 .. 4 /\ 0 \in 0 .. 3 /\ 0 + 4 <= 4 /\ i \in 0 .. job.len /\ 0 % 2 = 0
        BY <1>1
      <4> QED
        BY <2>2, <3>2, <4>1, ReadAdds
    <3> HIDE DEF t
    <3>4. Working(r, old, f, par, i, i + 4, l) \/ StoreFault(r, old)
      <4>1. i + 0 = i /\ i + 0 + 4 = i + 4 /\ 4 \in Nat \ {0} /\ 0 \in Nat
        OBVIOUS
      <4>2. Holding(t, old, f, par, i, i + 0, l, i + 0 + 4)
        BY <3>3, <4>1
      <4>3. i + 0 + 4 <= job.len /\ job.src + i + 0 + 4 <= job.srcEnd
        BY <1>1, <2>6
      <4>4. Working(r, old, f, par, i, i + 0 + 4, l) \/ StoreFault(r, old)
        BY <4>1, <4>2, <4>3, StoreWorks
      <4> QED
        BY <4>1, <4>4
    <3> HIDE DEF r
    <3>5. CASE StoreFault(r, old)
      <4>1. Failed(r, old)
        BY <3>5 DEF Failed
      <4> QED
        BY <3>1, <4>1, FailedSteps DEF Underway
    <3>6. CASE Working(r, old, f, par, i, i + 4, l)
      <4>1. Working(C!Advance(r, 4), old, f, par, i + 4, i + 4, l - 4)
        <5>1. 4 \in Nat /\ i + 4 = i + 4
          OBVIOUS
        <5> QED
          BY <3>6, <5>1, AdvanceWorks
      <4>2. l - 4 = job.len - (i + 4)
        BY <1>1, <2>1
      <4> QED
        BY <3>1, <4>1, <4>2 DEF Underway
    <3> QED
      BY <3>4, <3>5, <3>6
  <2> QED
    BY <2>5, <2>6
<1> QED
  BY <1>2, <1>3 DEF Underway

(* The loops of csum_partial_copy_user: pass i of each of them.            *)
BytePass(t, i) ==
  LET b == t.mem[t.src + i]
  IN  IF t.exc # "none" THEN t
      ELSE IF C!Faults(t, t.src + i, 1) THEN C!Raise(t, C!LoadHandler(t, i))
      ELSE [C!STORE(C!Add0(t, IF C!Odd(i) = 1 THEN C!OddByte(b) ELSE C!EvenByte(b)), i, 1)
              EXCEPT !.len = t.len - 1]
CopyPass(t) ==
  IF C!Faults(t, t.src, 1) THEN t
  ELSE [t EXCEPT !.mem[t.dst] = t.mem[t.src], !.src = t.src + 1,
                 !.dst = t.dst + 1, !.len = t.len - 1]
Pass(loop, t, i) ==
  CASE loop = "eight" -> C!EightUnits(t)
    [] loop = "one"   -> C!OneUnit(t)
    [] loop = "byte"  -> BytePass(t, i)
    [] loop = "copy"  -> CopyPass(t)
Passes(g, loop, s, n) ==
  g = [k \in 0 .. n |-> IF k = 0 THEN s ELSE Pass(loop, g[k - 1], k - 1)]

LEMMA PassesAre ==
  ASSUME NEW g, NEW loop, NEW s, NEW n \in Nat, Passes(g, loop, s, n)
  PROVE  g[0] = s /\ \A k \in 1 .. n : g[k] = Pass(loop, g[k - 1], k - 1)
<1>1. \A k \in 0 .. n : g[k] = IF k = 0 THEN s ELSE Pass(loop, g[k - 1], k - 1)
  BY Zenon DEF Passes
<1>2. 0 \in 0 .. n /\ \A k \in 1 .. n : k \in 0 .. n /\ k # 0
  OBVIOUS
<1> QED
  BY <1>1, <1>2, Zenon

LEMMA PassesExist ==
  ASSUME NEW loop, NEW s, NEW n \in Nat
  PROVE  \E g : Passes(g, loop, s, n)
<1> DEFINE S == {m \in Nat : \E g : Passes(g, loop, s, m)}
<1>1. 0 \in S
  <2> DEFINE g == [k \in 0 .. 0 |-> s]
  <2>1. g = [k \in 0 .. 0 |-> IF k = 0 THEN s ELSE Pass(loop, g[k - 1], k - 1)]
    <3>1. \A k \in 0 .. 0 : k = 0
      OBVIOUS
    <3> QED
      BY <3>1
  <2> QED
    BY <2>1 DEF Passes
<1>2. ASSUME NEW m \in 1 .. n, m - 1 \in S
      PROVE  m \in S
  <2>1. PICK f : Passes(f, loop, s, m - 1)
    BY <1>2
  <2> DEFINE g == [k \in 0 .. m |-> IF k = m THEN Pass(loop, f[m - 1], m - 1) ELSE f[k]]
  <2>2. ASSUME NEW k \in 0 .. m
        PROVE  g[k] = IF k = 0 THEN s ELSE Pass(loop, g[k - 1], k - 1)
    <3>1. \A j \in 0 .. m - 1 : f[j] = IF j = 0 THEN s ELSE Pass(loop, f[j - 1], j - 1)
      BY <2>1, Zenon DEF Passes
    <3>2. CASE k = m
      <4>1. k # 0 /\ k - 1 \in 0 .. m /\ k - 1 # m
        BY <3>2
      <4> QED
        BY <3>2, <4>1
    <3>3. CASE k # m
      <4>1. k \in 0 .. m - 1 /\ (k # 0 => k - 1 \in 0 .. m /\ k - 1 # m)
        BY <3>3
      <4> QED
        BY <3>1, <3>3, <4>1
    <3> QED
      BY <3>2, <3>3
  <2>3. g = [k \in 0 .. m |-> g[k]]
    OBVIOUS
  <2> HIDE DEF g
  <2>4. Passes(g, loop, s, m)
    BY <2>2, <2>3, Zenon DEF Passes
  <2>5. m \in Nat
    OBVIOUS
  <2> QED
    BY <2>4, <2>5
<1> HIDE DEF S
<1>3. n \in S
  <2>1. n \in 0 .. n
    OBVIOUS
  <2> QED
    BY <1>1, <1>2, <2>1, Induction
<1> QED
  BY <1>3 DEF S

(* Each loop is the function that the model of it chooses.                 *)
EightPasses(g, s, n) == g = [k \in 0 .. n |-> IF k = 0 THEN s ELSE C!EightUnits(g[k - 1])]
OnePasses(g, s, n) == g = [k \in 0 .. n |-> IF k = 0 THEN s ELSE C!OneUnit(g[k - 1])]
BytePasses(g, s, n) == g = [k \in 0 .. n |-> IF k = 0 THEN s ELSE BytePass(g[k - 1], k - 1)]
CopyPasses(g, s, n) == g = [k \in 0 .. n |-> IF k = 0 THEN s ELSE CopyPass(g[k - 1])]

LEMMA LoopsAre ==
  ASSUME NEW g, NEW s, NEW n
  PROVE  /\ EightPasses(g, s, n) <=> Passes(g, "eight", s, n)
         /\ OnePasses(g, s, n) <=> Passes(g, "one", s, n)
         /\ BytePasses(g, s, n) <=> Passes(g, "byte", s, n)
         /\ CopyPasses(g, s, n) <=> Passes(g, "copy", s, n)
<1>1. \A t, i : /\ Pass("eight", t, i) = C!EightUnits(t) /\ Pass("one", t, i) = C!OneUnit(t)
                /\ Pass("byte", t, i) = BytePass(t, i) /\ Pass("copy", t, i) = CopyPass(t)
  BY DEF Pass
<1> QED
  BY <1>1, Zenon DEF Passes, EightPasses, OnePasses, BytePasses, CopyPasses

LEMMA UnitsAre ==
  ASSUME NEW s, s.len \in Nat
  PROVE  LET turns == s.len \div 32
             ones  == (s.len % 32) \div 4
         IN  \E g, h : /\ Passes(g, "eight", s, turns) /\ Passes(h, "one", g[turns], ones)
                       /\ C!Units(s) = h[ones]
<1> DEFINE turns == s.len \div (8 * C!NBYTES)
           ones == (s.len % (8 * C!NBYTES)) \div C!NBYTES
           g == CHOOSE e : EightPasses(e, s, turns)
           h == CHOOSE e : OnePasses(e, g[turns], ones)
<1>1. C!Units(s) = h[ones]
  BY Zenon DEF C!Units, EightPasses, OnePasses
<1>2. turns = s.len \div 32 /\ ones = (s.len % 32) \div 4 /\ turns \in Nat /\ ones \in Nat
  <2>1. 8 * C!NBYTES = 32 /\ C!NBYTES = 4
    BY SMT DEF C!NBYTES
  <2>2. s.len \div 32 \in Nat /\ (s.len % 32) \div 4 \in Nat
    OBVIOUS
  <2> QED
    BY <2>1, <2>2
<1> HIDE DEF turns, ones
<1>3. Passes(g, "eight", s, turns)
  <2>1. \E e : EightPasses(e, s, turns)
    BY <1>2, PassesExist, LoopsAre, Zenon
  <2> QED
    BY <2>1, LoopsAre, Zenon
<1> HIDE DEF g
<1>4. Passes(h, "one", g[turns], ones)
  <2>1. \E e : OnePasses(e, g[turns], ones)
    BY <1>2, PassesExist, LoopsAre, Zenon
  <2> QED
    BY <2>1, LoopsAre, Zenon
<1> HIDE DEF h
<1> QED
  BY <1>1, <1>2, <1>3, <1>4, Zenon

LEMMA BytesAre ==
  ASSUME NEW s, s.len \in Nat
  PROVE  \E g : Passes(g, "byte", s, s.len) /\ C!csum_bytes(s) = g[s.len]
<1> DEFINE g == CHOOSE e : BytePasses(e, s, s.len)
<1>1. C!csum_bytes(s) = g[s.len]
  BY Zenon DEF C!csum_bytes, BytePasses, BytePass
<1>2. Passes(g, "byte", s, s.len)
  <2>1. \E e : BytePasses(e, s, s.len)
    BY PassesExist, LoopsAre, Zenon
  <2> QED
    BY <2>1, LoopsAre, Zenon
<1> HIDE DEF g
<1> QED
  BY <1>1, <1>2

LEMMA CopiesAre ==
  ASSUME NEW s, s.len \in Nat
  PROVE  \E g : Passes(g, "copy", s, s.len) /\ C!l_exc_copy(s) = C!l_exc(g[s.len])
<1> DEFINE g == CHOOSE e : CopyPasses(e, s, s.len)
<1>1. C!l_exc_copy(s) = C!l_exc(g[s.len])
  BY Zenon DEF C!l_exc_copy, CopyPasses, CopyPass
<1>2. Passes(g, "copy", s, s.len)
  <2>1. \E e : CopyPasses(e, s, s.len)
    BY PassesExist, LoopsAre, Zenon
  <2> QED
    BY <2>1, LoopsAre, Zenon
<1> HIDE DEF g
<1> QED
  BY <1>1, <1>2

LEMMA UnitsWork ==
  ASSUME NEW old, NEW f, NEW par, Calls(old, f, par), NEW s, NEW i \in Nat,
         Working(s, old, f, par, i, i, job.len - i), (par + i) % 2 = 0
  PROVE  Underway(C!Units(s), old, f, par, i + 4 * ((job.len - i) \div 4))
<1>1. PICK n \in Nat, p \in Nat, l \in Nat : n = job.len /\ p = par /\ l = job.len - i /\ i <= n
  <2>1. job.len \in Nat /\ par \in Nat /\ i \in 0 .. job.len
    BY DEF Calls, Given, Totals, Working
  <2>2. job.len - i \in Nat /\ i <= job.len
    BY <2>1
  <2> QED
    BY <2>1, <2>2, Zenon
<1>2. s.len = l
  BY <1>1, HoldingFields DEF Working
<1>3. PICK turns \in Nat, ones \in Nat :
        /\ turns = s.len \div 32 /\ ones = (s.len % 32) \div 4
        /\ 32 * turns + 4 * ones = 4 * (l \div 4) /\ 32 * turns + 4 * ones <= l
  BY <1>2
<1>4. PICK g, h : /\ Passes(g, "eight", s, turns) /\ Passes(h, "one", g[turns], ones)
                  /\ C!Units(s) = h[ones]
  BY <1>2, <1>3, UnitsAre, Zenon
<1>5. \A k \in Nat : (p + (i + 32 * k)) % 2 = 0 /\ (p + (i + 32 * turns + 4 * k)) % 2 = 0
  <2>1. ASSUME NEW k \in Nat
        PROVE  (p + (i + 32 * k)) % 2 = 0 /\ (p + (i + 32 * turns + 4 * k)) % 2 = 0
    <3>1. \A x, y \in Nat : x % 2 = 0 => (x + 2 * y) % 2 = 0
      OBVIOUS
    <3>2. (p + i) % 2 = 0 /\ p + i \in Nat
      BY <1>1
    <3>3. ((p + i) + 2 * (16 * k)) % 2 = 0 /\ ((p + i) + 2 * (16 * turns + 2 * k)) % 2 = 0
      <4>1. 16 * k \in Nat /\ 16 * turns + 2 * k \in Nat
        OBVIOUS
      <4> QED
        BY <3>1, <3>2, <4>1, Zenon
    <3>4. /\ (p + i) + 2 * (16 * k) = p + (i + 32 * k)
          /\ (p + i) + 2 * (16 * turns + 2 * k) = p + (i + 32 * turns + 4 * k)
      OBVIOUS
    <3> QED
      BY <3>3, <3>4
  <2> QED
    BY <2>1
<1> DEFINE E == {k \in Nat : Underway(g[k], old, f, par, i + 32 * k)}
           O == {k \in Nat : Underway(h[k], old, f, par, i + 32 * turns + 4 * k)}
<1>6. turns \in E
  <2>1. 0 \in E
    <3>1. g[0] = s /\ i + 32 * 0 = i
      BY <1>4, PassesAre
    <3> QED
      BY <3>1 DEF Underway
  <2>2. ASSUME NEW k \in 1 .. turns, k - 1 \in E
        PROVE  k \in E
    <3>1. PICK j \in Nat : j = i + 32 * (k - 1) /\ j + 32 = i + 32 * k /\ j + 32 <= job.len
      BY <1>1, <1>3
    <3>2. (par + j) % 2 = 0
      <4>1. k - 1 \in Nat
        OBVIOUS
      <4> QED
        BY <1>1, <1>5, <3>1, <4>1, Zenon
    <3>3. Underway(C!EightUnits(g[k - 1]), old, f, par, j + 32)
      BY <2>2, <3>1, <3>2, EightUnitsWork
    <3>4. g[k] = C!EightUnits(g[k - 1])
      <4>1. g[k] = Pass("eight", g[k - 1], k - 1)
        BY <1>4, PassesAre
      <4> QED
        BY <4>1 DEF Pass
    <3>5. k \in Nat
      OBVIOUS
    <3> QED
      BY <3>1, <3>3, <3>4, <3>5
  <2> HIDE DEF E
  <2>3. turns \in 0 .. turns
    OBVIOUS
  <2> QED
    BY <2>1, <2>2, <2>3, Induction
<1>7. ones \in O
  <2>1. 0 \in O
    <3>1. h[0] = g[turns] /\ i + 32 * turns + 4 * 0 = i + 32 * turns
      BY <1>4, PassesAre
    <3> QED
      BY <1>6, <3>1
  <2>2. ASSUME NEW k \in 1 .. ones, k - 1 \in O
        PROVE  k \in O
    <3>1. PICK j \in Nat : /\ j = i + 32 * turns + 4 * (k - 1) /\ j + 4 = i + 32 * turns + 4 * k
                           /\ j + 4 <= job.len
      BY <1>1, <1>3
    <3>2. (par + j) % 2 = 0
      <4>1. k - 1 \in Nat
        OBVIOUS
      <4> QED
        BY <1>1, <1>5, <3>1, <4>1, Zenon
    <3>3. Underway(C!OneUnit(h[k - 1]), old, f, par, j + 4)
      BY <2>2, <3>1, <3>2, OneUnitWorks
    <3>4. h[k] = C!OneUnit(h[k - 1])
      <4>1. h[k] = Pass("one", h[k - 1], k - 1)
        BY <1>4, PassesAre
      <4> QED
        BY <4>1 DEF Pass
    <3>5. k \in Nat
      OBVIOUS
    <3> QED
      BY <3>1, <3>3, <3>4, <3>5
  <2> HIDE DEF O
  <2>3. ones \in 0 .. ones
    OBVIOUS
  <2> QED
    BY <2>1, <2>2, <2>3, Induction
<1>8. i + 32 * turns + 4 * ones = i + 4 * ((job.len - i) \div 4)
  BY <1>1, <1>3
<1> QED
  BY <1>4, <1>7, <1>8

(* The copy is over, or a fault has ended it.                              *)
Ended(s, old, f, par) ==
  (\E i \in 0 .. job.len : Working(s, old, f, par, i, job.len, 0)) \/ Failed(s, old)

LEMMA CleanupWorks ==
  ASSUME NEW old, NEW f, NEW par, Calls(old, f, par), NEW s, NEW i,
         Working(s, old, f, par, i, i, job.len - i), (par + i) % 2 = 0,
         (job.src + i) % 4 = 0, job.len - i < 4
  PROVE  Ended(C!cleanup_bytes_both_aligned(s), old, f, par)
<1>1. PICK n \in Nat, a \in Nat, b \in Int : n = job.len /\ a = job.src /\ b = job.srcEnd
  BY DEF Calls, Given
<1>2. i \in Nat /\ i \in 0 .. n
  BY <1>1 DEF Working
<1>3. PICK l \in 0 .. 3 : l = n - i /\ l = job.len - i /\ l \in Nat
  <2>1. n - i < 4
    BY <1>1
  <2>2. \A x \in Nat : \A y \in 0 .. x : x - y < 4 => x - y \in 0 .. 3
    OBVIOUS
  <2>3. n - i \in 0 .. 3
    BY <1>2, <2>1, <2>2
  <2> QED
    BY <1>1, <2>3
<1>4. Working(s, old, f, par, i, i, l) /\ Holding(s, old, f, par, i, i, l, i) /\ Given(old)
  BY <1>3 DEF Working, Calls
<1>5. s.mem = CopiedTo(old, i) /\ s.src = job.src + i /\ s.exc = "none" /\ s.srcEnd = job.srcEnd /\ s.len = l
  BY <1>4, HoldingFields
<1>6. C!Faults(s, s.src, 1) <=> a + i + 1 > b
  BY <1>1, <1>5, Zenon DEF C!Faults
<1>7. CASE l = 0
  <2>1. C!cleanup_bytes_both_aligned(s) = s
    BY <1>5, <1>7, Zenon DEF C!cleanup_bytes_both_aligned
  <2>2. i = job.len /\ i \in 0 .. job.len
    BY <1>1, <1>2, <1>3, <1>7
  <2> QED
    BY <1>4, <1>7, <2>1, <2>2 DEF Ended
<1>8. CASE l # 0 /\ a + i + 1 > b
  <2>1. C!cleanup_bytes_both_aligned(s) = C!Raise(s, "l_exc")
    BY <1>5, <1>6, <1>8, Zenon DEF C!cleanup_bytes_both_aligned
  <2>2. PICK total \in Nat, carries \in Nat :
          Has(s, CopiedTo(old, i), job.src + i, job.dst + i, l, "none", total, carries)
    BY <1>4 DEF Holding
  <2>3. Has(C!Raise(s, "l_exc"), CopiedTo(old, i), job.src + i, job.dst + i, job.len - i, "l_exc", total, carries)
    BY <1>3, <2>2, HasRaised, Zenon
  <2>4. i \in 0 .. job.len - 1 /\ job.srcEnd <= job.src + i /\ Reached(i)
    <3>1. Reached(i)
      BY <1>4 DEF Working
    <3> QED
      BY <1>1, <1>2, <1>3, <1>8, <3>1
  <2>5. FirstFault(C!Raise(s, "l_exc"), old)
    BY <2>3, <2>4 DEF FirstFault
  <2> QED
    BY <2>1, <2>5 DEF Ended, Failed
<1>9. CASE l # 0 /\ ~(a + i + 1 > b)
  <2> DEFINE v == C!Value(s.mem, s.src, l, 0)
             t == C!Add0(s, v)
             r == C!STORE(t, 0, l)
  <2>1. C!cleanup_bytes_both_aligned(s) = C!Advance(r, l)
    BY <1>5, <1>6, <1>9, Zenon DEF C!cleanup_bytes_both_aligned
  <2>2. v = C!Value(CopiedTo(old, i), job.src + i, l, 0)
    BY <1>5, Zenon
  <2> HIDE DEF v
  <2>3. Holding(t, old, f, par, i, i, l, i + l)
    <3>1. /\ l \in 1 .. 4 /\ 0 \in 0 .. 3 /\ 0 + l <= 4 /\ i \in 0 .. job.len /\ i + l <= job.len
          /\ (par + i) % 2 = 0 % 2
      <4>1. 0 % 2 = 0
        OBVIOUS
      <4> QED
        BY <1>1, <1>2, <1>3, <1>9, <4>1
    <3> QED
      BY <1>2, <1>4, <2>2, <3>1, ReadAdds
  <2> HIDE DEF t
  <2>4. Working(r, old, f, par, i, i + l, l) \/ StoreFault(r, old)
    <3>1. i + 0 = i /\ i + 0 + l = i + l /\ l \in Nat \ {0} /\ 0 \in Nat
      BY <1>2, <1>3, <1>9
    <3>2. Holding(t, old, f, par, i, i + 0, l, i + 0 + l)
      BY <2>3, <3>1
    <3>3. i + 0 + l <= job.len /\ job.src + i + 0 + l <= job.srcEnd
      <4>1. \A x \in Nat : \A y \in Int : x % 4 = 0 /\ y % 4 = 0 /\ ~(x + 1 > y) => x + 4 <= y
        OBVIOUS
      <4>2. a + i \in Nat /\ (a + i) % 4 = 0
        BY <1>1, <1>2
      <4>3. a + i + 4 <= b
        <5>1. b % 4 = 0 /\ b \in Int
          BY <1>1 DEF Calls, Given
        <5> QED
          BY <1>9, <4>1, <4>2, <5>1
      <4>4. i + 0 + l <= n /\ a + i + 0 + l <= b
        BY <1>2, <1>3, <4>3
      <4> QED
        BY <1>1, <4>4, Zenon
    <3>4. Working(r, old, f, par, i, i + 0 + l, l) \/ StoreFault(r, old)
      BY <1>2, <1>3, <3>1, <3>2, <3>3, StoreWorks
    <3> QED
      BY <3>1, <3>4
  <2> HIDE DEF r
  <2>5. CASE StoreFault(r, old)
    <3>1. Failed(r, old)
      BY <2>5 DEF Failed
    <3> QED
      BY <2>1, <3>1, FailedSteps DEF Ended
  <2>6. CASE Working(r, old, f, par, i, i + l, l)
    <3>1. Working(C!Advance(r, l), old, f, par, i + l, i + l, l - l)
      BY <1>3, <2>6, AdvanceWorks
    <3>2. i + l = job.len /\ l - l = 0 /\ job.len \in 0 .. job.len
      BY <1>1, <1>2, <1>3
    <3> QED
      BY <2>1, <3>1, <3>2 DEF Ended
  <2> QED
    BY <2>4, <2>5, <2>6
<1> QED
  BY <1>7, <1>8, <1>9

LEMMA ByteAdds ==
  ASSUME NEW old, NEW f, NEW par, Calls(old, f, par), NEW i \in Nat, NEW j \in Nat, i + j < job.len,
         (par + i) % 2 = 0, NEW b, b = CopiedTo(old, i + j)[job.src + i + j],
         NEW v, v = IF C!Odd(j) = 1 THEN C!OddByte(b) ELSE C!EvenByte(b)
  PROVE  /\ v \in 0 .. C!Word - 1 /\ f[i + j] \in Nat /\ f[i + j + 1] \in Nat
         /\ Agree(f[i + j] + v, f[i + j + 1])
<1>1. PICK n \in Nat, a \in Nat, p \in Nat : n = job.len /\ a = job.src /\ p = par
  BY DEF Calls, Given, Totals
<1>2. Given(old) /\ Totals(f, old, par) /\ job.big \in BOOLEAN
  BY DEF Calls, Given
<1>3. PICK m \in 0 .. n - 1 : /\ m = i + j /\ a + i + j = a + m /\ a + m = a + (m + 1) - 1 /\ m + 1 \in 1 .. n
                              /\ m + 1 - 1 = m /\ m \in 0 .. n /\ m + 1 \in 0 .. n /\ p + (m + 1) - 1 = p + m
                              /\ i + j + 1 = m + 1
  <2>1. i + j \in 0 .. n - 1
    BY <1>1
  <2> QED
    BY <1>1, <2>1
<1>4. b = old[a + m] /\ b \in 0 .. Byte - 1
  <2>1. m \in 0 .. job.len /\ m \in 0 .. job.len - 1
    BY <1>1, <1>3
  <2>2. CopiedTo(old, m)[job.src + m] = old[job.src + m] /\ old[job.src + m] \in 0 .. Byte - 1
    BY <1>2, <2>1, SourceStays
  <2> QED
    BY <1>1, <1>3, <2>2
<1>5. /\ f[m] \in Nat /\ f[m + 1] \in Nat /\ f[m + 1] = f[m] + b * Weighs(p + m)
  <2>1. /\ \A k \in 0 .. job.len : f[k] \in Nat
        /\ \A k \in 1 .. job.len : f[k] = f[k - 1] + old[job.src + k - 1] * Weighs(par + k - 1)
    BY <1>2, TotalsAre
  <2>2. f[m + 1] = f[m + 1 - 1] + old[a + (m + 1) - 1] * Weighs(p + (m + 1) - 1)
    <3>1. m + 1 \in 1 .. job.len
      BY <1>1, <1>3, Zenon
    <3>2. f[m + 1] = f[m + 1 - 1] + old[job.src + (m + 1) - 1] * Weighs(par + (m + 1) - 1)
      BY <2>1, <3>1
    <3> QED
      BY <1>1, <3>2
  <2>3. a + (m + 1) - 1 = a + m
    BY <1>3
  <2>4. f[m + 1] = f[m] + old[a + m] * Weighs(p + m)
    BY <1>3, <2>2, <2>3
  <2>5. f[m] \in Nat /\ f[m + 1] \in Nat
    BY <1>1, <1>3, <2>1, Zenon
  <2> QED
    BY <1>4, <2>4, <2>5, Zenon
<1>6. Weighs(p + m) = IF (j % 2 = 0) = job.big THEN Byte ELSE 1
  <2>1. (p + m) % 2 = j % 2
    <3>1. \A x, y \in Nat : x % 2 = 0 => (x + y) % 2 = y % 2
      OBVIOUS
    <3>2. (p + i) \in Nat /\ (p + i) % 2 = 0 /\ p + m = (p + i) + j
      BY <1>1, <1>3
    <3> QED
      BY <3>1, <3>2
  <2> QED
    BY <2>1, Zenon DEF Weighs
<1>7. v = b * Weighs(p + m)
  <2>1. j % 2 \in {0, 1} /\ b * 1 = b
    BY <1>4, ByteAssumption
  <2>2. CASE j % 2 = 1
    <3>1. v = C!OddByte(b) /\ Weighs(p + m) = IF job.big THEN 1 ELSE Byte
      BY <1>2, <1>6, <2>2 DEF C!Odd
    <3> QED
      BY <2>1, <3>1, Zenon DEF C!OddByte
  <2>3. CASE j % 2 = 0
    <3>1. v = C!EvenByte(b) /\ Weighs(p + m) = IF job.big THEN Byte ELSE 1
      BY <1>2, <1>6, <2>3 DEF C!Odd
    <3> QED
      BY <2>1, <3>1, Zenon DEF C!EvenByte
  <2> QED
    BY <2>1, <2>2, <2>3
<1>8. v \in 0 .. C!Word - 1
  <2>1. \A x \in 0 .. Byte - 1 : \A y \in {1, Byte} : x * y \in 0 .. C!Word - 1
    <3>1. CASE Byte = 8
      <4>1. C!Word = 4096
        BY <3>1, WordIs, SMT
      <4> QED
        BY <3>1, <4>1, SMT
    <3>2. CASE Byte = 256
      <4>1. C!Word = 4294967296
        BY <3>2, WordIs, SMT
      <4>2. PICK w \in Nat : w = C!Word /\ w > 65536
        BY <4>1, SMT
      <4>3. \A x \in 0 .. 255 : x * 1 \in 0 .. w - 1 /\ x * 256 \in 0 .. w - 1
        BY <4>2, SMT
      <4> QED
        BY <3>2, <4>2, <4>3, SMT
    <3> QED
      BY <3>1, <3>2, ByteAssumption
  <2>2. Weighs(p + m) \in {1, Byte}
    BY <1>6
  <2> QED
    BY <1>4, <1>7, <2>1, <2>2, Zenon
<1>9. f[m] + v = f[m + 1]
  BY <1>5, <1>7, Zenon
<1>10. Agree(f[m] + v, f[m + 1])
  BY <1>5, <1>9, AgreeSelf
<1> QED
  BY <1>3, <1>5, <1>8, <1>10, Zenon

LEMMA BytePassWorks ==
  ASSUME NEW old, NEW f, NEW par, Calls(old, f, par), NEW s, NEW i \in Nat, i = SingleBytes(job),
         (par + i) % 2 = 0, NEW j \in Nat, i + j < job.len,
         Working(s, old, f, par, i, i + j, job.len - (i + j)) \/ Failed(s, old)
  PROVE  \/ Working(BytePass(s, j), old, f, par, i, i + j + 1, job.len - (i + j + 1))
         \/ Failed(BytePass(s, j), old)
<1>1. PICK n \in Nat, a \in Nat, b \in Int : n = job.len /\ a = job.src /\ b = job.srcEnd
  BY DEF Calls, Given
<1>2. CASE Failed(s, old)
  <2>1. s.exc # "none"
    BY <1>2, FailedStops
  <2>2. BytePass(s, j) = s
    BY <2>1, Zenon DEF BytePass
  <2> QED
    BY <1>2, <2>2
<1>3. CASE Working(s, old, f, par, i, i + j, job.len - (i + j))
  <2>1. PICK m \in 0 .. n - 1 : m = i + j /\ i \in 0 .. n /\ i <= m /\ m < job.len
    BY <1>1
  <2>2. PICK l \in Nat : l = job.len - m /\ l = job.len - (i + j) /\ l - 1 \in Nat /\ l - 1 = job.len - (i + j + 1)
    BY <1>1, <2>1
  <2>3. Working(s, old, f, par, i, m, l) /\ Holding(s, old, f, par, i, m, l, m) /\ Given(old)
    BY <1>3, <2>1, <2>2 DEF Working, Calls
  <2>4. s.mem = CopiedTo(old, m) /\ s.src = job.src + i /\ s.exc = "none" /\ s.srcEnd = job.srcEnd /\ s.len = l
    BY <2>3, HoldingFields
  <2>5. C!Faults(s, s.src + j, 1) <=> a + i + j + 1 > b
    BY <1>1, <2>4, Zenon DEF C!Faults
  <2>6. CASE a + i + j + 1 > b
    <3>1. BytePass(s, j) = C!Raise(s, C!LoadHandler(s, j))
      BY <2>4, <2>5, <2>6, Zenon DEF BytePass
    <3>2. job.srcEnd < job.src + job.len /\ (j = 0 <=> m = i) /\ job.srcEnd <= job.src + m
      BY <1>1, <2>1, <2>6
    <3>3. Remaining(i, m, l)
      <4>1. m = i \/ m > i
        BY <2>1
      <4> QED
        BY <2>2, <3>2, <4>1 DEF Remaining
    <3>4. Failed(C!Raise(s, C!LoadHandler(s, j)), old)
      BY <2>1, <2>3, <3>2, <3>3, LoadFails
    <3> QED
      BY <3>1, <3>4
  <2>7. CASE ~(a + i + j + 1 > b)
    <3> DEFINE c == s.mem[s.src + j]
               v == IF C!Odd(j) = 1 THEN C!OddByte(c) ELSE C!EvenByte(c)
               t == C!Add0(s, v)
               r == C!STORE(t, j, 1)
               q == [r EXCEPT !.len = s.len - 1]
    <3>1. BytePass(s, j) = q
      BY <2>4, <2>5, <2>7, Zenon DEF BytePass
    <3>2. c = CopiedTo(old, i + j)[job.src + i + j]
      BY <2>1, <2>4, Zenon
    <3> HIDE DEF c
    <3>3. /\ v \in 0 .. C!Word - 1 /\ f[i + j] \in Nat /\ f[i + j + 1] \in Nat
          /\ Agree(f[i + j] + v, f[i + j + 1])
      BY <3>2, ByteAdds
    <3> HIDE DEF v
    <3>4. Holding(t, old, f, par, i, i + j, l, i + j + 1)
      <4>1. 1 \in Nat \ {0} /\ i + j \in Nat
        OBVIOUS
      <4>2. Holding(s, old, f, par, i, i + j, l, i + j)
        BY <2>1, <2>3
      <4> QED
        BY <3>3, <4>1, <4>2, HoldingAdds
    <3> HIDE DEF t
    <3>5. Working(r, old, f, par, i, i + j + 1, l) \/ StoreFault(r, old)
      <4>1. 1 \in Nat \ {0} /\ i + j + 1 <= job.len /\ job.src + i + j + 1 <= job.srcEnd
        BY <1>1, <2>1, <2>7
      <4> QED
        BY <3>4, <4>1, StoreWorks
    <3> HIDE DEF r
    <3>6. CASE StoreFault(r, old)
      <4>1. PICK mem, x, y, total, carries : \E k \in Nat :
              Has(r, mem, x, y, k, "s_exc", total, carries) /\ Framed(old, mem)
        BY <3>6 DEF StoreFault
      <4>2. Has(q, mem, x, y, l - 1, "s_exc", total, carries)
        BY <2>4, <4>1, HasCounted
      <4>3. StoreFault(q, old)
        BY <2>2, <3>6, <4>1, <4>2, Zenon DEF StoreFault
      <4> QED
        BY <3>1, <4>3 DEF Failed
    <3>7. CASE Working(r, old, f, par, i, i + j + 1, l)
      <4>1. PICK total \in Nat, carries \in Nat :
              /\ Has(r, CopiedTo(old, i + j + 1), job.src + i, job.dst + i, l, "none", total, carries)
              /\ Agree(total, Start(par) + f[i + j + 1]) /\ carries <= i + j + 1
        BY <3>7 DEF Working, Holding
      <4>2. Has(q, CopiedTo(old, i + j + 1), job.src + i, job.dst + i, l - 1, "none", total, carries)
        BY <2>4, <4>1, HasCounted
      <4>3. Holding(q, old, f, par, i, i + j + 1, l - 1, i + j + 1)
        BY <4>1, <4>2 DEF Holding
      <4>4. Working(q, old, f, par, i, i + j + 1, l - 1)
        BY <3>7, <4>3 DEF Working
      <4> QED
        BY <2>2, <3>1, <4>4
    <3> QED
      BY <3>5, <3>6, <3>7
  <2> QED
    BY <2>6, <2>7
<1> QED
  BY <1>2, <1>3

LEMMA BytesWork ==
  ASSUME NEW old, NEW f, NEW par, Calls(old, f, par), NEW s, NEW i \in Nat, i = SingleBytes(job),
         Working(s, old, f, par, i, i, job.len - i), (par + i) % 2 = 0
  PROVE  Ended(C!csum_bytes(s), old, f, par)
<1>1. PICK n \in Nat : n = job.len
  BY DEF Calls, Given
<1>2. PICK l \in Nat : l = job.len - i /\ i \in 0 .. n /\ i + l = n
  <2>1. i \in 0 .. n
    BY <1>1 DEF Working
  <2> QED
    BY <1>1, <2>1
<1>3. s.len = l
  BY <1>2, HoldingFields DEF Working
<1>4. PICK g : Passes(g, "byte", s, l) /\ C!csum_bytes(s) = g[l]
  BY <1>3, BytesAre
<1> DEFINE S == {k \in Nat : Working(g[k], old, f, par, i, i + k, job.len - (i + k)) \/ Failed(g[k], old)}
<1>5. 0 \in S
  <2>1. g[0] = s /\ i + 0 = i
    BY <1>4, PassesAre
  <2> QED
    BY <2>1
<1>6. ASSUME NEW k \in 1 .. l, k - 1 \in S
      PROVE  k \in S
  <2>1. PICK j \in Nat : j = k - 1 /\ i + j + 1 = i + k /\ i + j < job.len
    BY <1>1, <1>2
  <2>2. g[k] = BytePass(g[k - 1], k - 1)
    <3>1. g[k] = Pass("byte", g[k - 1], k - 1)
      BY <1>4, PassesAre
    <3> QED
      BY <3>1 DEF Pass
  <2>3. \/ Working(BytePass(g[j], j), old, f, par, i, i + j + 1, job.len - (i + j + 1))
        \/ Failed(BytePass(g[j], j), old)
    BY <1>6, <2>1, BytePassWorks
  <2>4. k \in Nat
    OBVIOUS
  <2> QED
    BY <2>1, <2>2, <2>3, <2>4
<1>7. l \in S
  <2> HIDE DEF S
  <2>1. l \in 0 .. l
    OBVIOUS
  <2> QED
    BY <1>5, <1>6, <2>1, Induction
<1>8. job.len - (i + l) = 0 /\ i + l = job.len /\ i \in 0 .. job.len
  BY <1>1, <1>2
<1> QED
  BY <1>4, <1>7, <1>8 DEF Ended

LEMMA Alignment ==
  ASSUME NEW x \in Nat
  PROVE  /\ x % 4 \in 0 .. 3 /\ x % 2 \in {0, 1} /\ (x % 4) % 2 = x % 2
         /\ (x % 4 = 0 => (-x) % 4 = 0) /\ (x % 4 # 0 => (-x) % 4 = 4 - (x % 4))
<1>1. PICK a \in Nat, r \in 0 .. 3 : x = 4 * a + r /\ r = x % 4
  <2>1. x \div 4 \in Nat /\ x % 4 \in 0 .. 3 /\ x = 4 * (x \div 4) + (x % 4)
    OBVIOUS
  <2> QED
    BY <2>1, Zenon
<1>2. /\ r = 0 => -x = 4 * (-a) + 0
      /\ r # 0 => -x = 4 * (-a - 1) + (4 - r) /\ 4 - r \in 0 .. 3
  BY <1>1
<1>3. \A q \in Int : \A p \in 0 .. 3 : (4 * q + p) % 4 = p
  OBVIOUS
<1>4. (r = 0 => (-x) % 4 = 0) /\ (r # 0 => (-x) % 4 = 4 - r)
  <2>1. -a \in Int /\ -a - 1 \in Int /\ 0 \in 0 .. 3
    OBVIOUS
  <2> QED
    BY <1>2, <1>3, <2>1, Zenon
<1>5. x % 2 \in {0, 1} /\ (x % 4) % 2 = x % 2
  OBVIOUS
<1> QED
  BY <1>1, <1>4, <1>5

LEMMA FailedStays ==
  ASSUME NEW s, NEW old, Given(old), Failed(s, old)
  PROVE  C!Units(s) = s /\ C!LastBytes(s) = s
<1>1. s.len \in Nat /\ s.exc # "none"
  BY FailedLength, FailedStops
<1>2. /\ C!EightUnits(s) = s /\ C!OneUnit(s) = s
  BY FailedSteps
<1>3. \A i : BytePass(s, i) = s
  BY <1>1, Zenon DEF BytePass
<1>4. \A i : Pass("eight", s, i) = s /\ Pass("one", s, i) = s /\ Pass("byte", s, i) = s
  BY <1>2, <1>3 DEF Pass
<1>5. ASSUME NEW g, NEW loop \in {"eight", "one", "byte"}, NEW n \in Nat, Passes(g, loop, s, n)
      PROVE  g[n] = s
  <2> DEFINE S == {k \in Nat : g[k] = s}
  <2>1. 0 \in S
    BY <1>5, PassesAre
  <2>2. ASSUME NEW k \in 1 .. n, k - 1 \in S
        PROVE  k \in S
    <3>1. g[k] = Pass(loop, g[k - 1], k - 1)
      BY <1>5, PassesAre
    <3>2. Pass(loop, s, k - 1) = s
      BY <1>4
    <3>3. k \in Nat
      OBVIOUS
    <3> QED
      BY <2>2, <3>1, <3>2, <3>3
  <2> HIDE DEF S
  <2>3. n \in 0 .. n /\ n \in S
    <3>1. n \in 0 .. n
      OBVIOUS
    <3> QED
      BY <2>1, <2>2, <3>1, Induction
  <2> QED
    BY <2>3 DEF S
<1>6. C!Units(s) = s
  <2>1. PICK turns \in Nat, ones \in Nat : turns = s.len \div 32 /\ ones = (s.len % 32) \div 4
    BY <1>1
  <2>2. PICK g, h : /\ Passes(g, "eight", s, turns) /\ Passes(h, "one", g[turns], ones)
                    /\ C!Units(s) = h[ones]
    BY <1>1, <2>1, UnitsAre, Zenon
  <2>3. g[turns] = s
    BY <1>5, <2>2
  <2>4. h[ones] = s
    BY <1>5, <2>2, <2>3
  <2> QED
    BY <2>2, <2>4
<1>7. C!csum_bytes(s) = s
  <2>1. PICK g : Passes(g, "byte", s, s.len) /\ C!csum_bytes(s) = g[s.len]
    BY <1>1, BytesAre
  <2> QED
    BY <1>1, <1>5, <2>1
<1>8. C!cleanup_bytes_both_aligned(s) = s
  BY <1>1, Zenon DEF C!cleanup_bytes_both_aligned
<1> QED
  BY <1>6, <1>7, <1>8, Zenon DEF C!LastBytes

LEMMA DstUnalignedWorks ==
  ASSUME NEW old, NEW f, NEW par, Calls(old, f, par), NEW s, Working(s, old, f, par, 0, 0, job.len),
         par = job.dst % 2, job.len >= 4, NEW q \in 1 .. 3, q = 4 - (job.dst % 4)
  PROVE  Underway(C!dst_unaligned(s), old, f, par, q)
<1>1. PICK n \in Nat, a \in Nat, b \in Int, d \in Nat : n = job.len /\ a = job.src /\ b = job.srcEnd /\ d = job.dst
  BY DEF Calls, Given
<1>2. Holding(s, old, f, par, 0, 0, n, 0) /\ Given(old) /\ job.len = n
  BY <1>1 DEF Working, Calls
<1>3. s.mem = CopiedTo(old, 0) /\ s.src = a /\ s.dst = d /\ s.srcEnd = b
  <2>1. s.mem = CopiedTo(old, 0) /\ s.src = job.src + 0 /\ s.dst = job.dst + 0 /\ s.srcEnd = job.srcEnd
    BY <1>2, HoldingFields
  <2>2. a + 0 = a /\ d + 0 = d
    OBVIOUS
  <2> QED
    BY <1>1, <2>1, <2>2
<1>4. PICK r \in 1 .. 3 : r = d % 4 /\ q = 4 - r /\ 4 - r = q
  <2>1. d % 4 \in 0 .. 3 /\ q = 4 - (d % 4)
    BY <1>1, Alignment
  <2>2. \A z \in 0 .. 3 : 4 - z \in 1 .. 3 => z \in 1 .. 3
    OBVIOUS
  <2> QED
    BY <2>1, <2>2, Zenon
<1>5. C!Faults(s, s.src, C!NBYTES) <=> a + 4 > b
  BY <1>3, Zenon DEF C!Faults, C!NBYTES
<1>6. CASE a + 4 > b
  <2>1. C!dst_unaligned(s) = C!Raise(s, C!LoadHandler(s, 0))
    BY <1>5, <1>6, Zenon DEF C!dst_unaligned
  <2>2. job.srcEnd < job.src + job.len /\ 0 < job.len /\ 0 \in Nat /\ job.len = job.len - 0
    <3>1. b < a + n /\ 0 < n /\ n = n - 0 /\ 0 \in Nat
      <4>1. n >= 4
        BY <1>1
      <4> QED
        BY <1>6, <4>1
    <3> QED
      BY <1>1, <3>1
  <2>3. Remaining(0, 0, job.len)
    BY <2>2 DEF Remaining
  <2>4. Failed(C!Raise(s, C!LoadHandler(s, 0)), old)
    BY <2>2, <2>3, LoadFails
  <2> QED
    BY <2>1, <2>4 DEF Underway
<1>7. CASE ~(a + 4 > b)
  <2> DEFINE v == C!Value(s.mem, s.src, q, r)
             t == C!Add0(s, v)
             z == C!STORE(t, 0, q)
  <2>1. C!dst_unaligned(s) = C!Advance(z, q)
    <3>1. C!NBYTES = 4
      BY DEF C!NBYTES
    <3>2. s.dst % C!NBYTES = r /\ C!NBYTES - (s.dst % C!NBYTES) = q
      BY <1>3, <1>4, <3>1
    <3> QED
      BY <1>5, <1>7, <3>2, Zenon DEF C!dst_unaligned
  <2>2. v = C!Value(CopiedTo(old, 0), job.src + 0, q, r)
    <3>1. a + 0 = a
      OBVIOUS
    <3> QED
      BY <1>1, <1>3, <3>1
  <2> HIDE DEF v
  <2>3. Holding(t, old, f, par, 0, 0, n, q)
    <3>1. /\ q \in 1 .. 4 /\ r \in 0 .. 3 /\ r + q <= 4 /\ 0 \in 0 .. job.len /\ 0 + q <= job.len
          /\ 0 \in Nat /\ 0 + q = q
      <4>1. n >= 4
        BY <1>1
      <4>2. r + q <= 4 /\ q <= n
        BY <1>4, <4>1
      <4> QED
        BY <1>1, <4>2
    <3>2. (par + 0) % 2 = r % 2
      <4>1. par = d % 2 /\ par \in Nat
        BY <1>1, Alignment
      <4>2. (d % 4) % 2 = d % 2 /\ ((d % 2) + 0) % 2 = d % 2
        BY Alignment
      <4> QED
        BY <1>4, <4>1, <4>2
    <3>3. Holding(t, old, f, par, 0, 0, n, 0 + q)
      BY <1>2, <2>2, <3>1, <3>2, ReadAdds
    <3> QED
      BY <3>1, <3>3
  <2> HIDE DEF t
  <2>4. Working(z, old, f, par, 0, q, n) \/ StoreFault(z, old)
    <3>1. 0 + 0 = 0 /\ 0 + 0 + q = q /\ q \in Nat \ {0} /\ 0 \in Nat
      OBVIOUS
    <3>2. Holding(t, old, f, par, 0, 0 + 0, n, 0 + 0 + q)
      BY <2>3, <3>1
    <3>3. 0 + 0 + q <= job.len /\ job.src + 0 + 0 + q <= job.srcEnd
      <4>1. n >= 4
        BY <1>1
      <4>2. 0 + 0 + q <= n /\ a + 0 + 0 + q <= b
        BY <1>7, <4>1
      <4> QED
        BY <1>1, <4>2
    <3>4. Working(C!STORE(t, 0, q), old, f, par, 0, 0 + 0 + q, n) \/ StoreFault(C!STORE(t, 0, q), old)
      BY <3>1, <3>2, <3>3, StoreWorks
    <3> QED
      BY <3>1, <3>4
  <2> HIDE DEF z
  <2>5. CASE StoreFault(z, old)
    <3>1. Failed(z, old)
      BY <2>5 DEF Failed
    <3> QED
      BY <2>1, <3>1, FailedSteps DEF Underway
  <2>6. CASE Working(z, old, f, par, 0, q, n)
    <3>1. q = 0 + q /\ q \in Nat
      OBVIOUS
    <3>2. Working(C!Advance(z, q), old, f, par, q, q, n - q)
      BY <2>6, <3>1, AdvanceWorks
    <3> QED
      BY <1>1, <2>1, <3>2 DEF Underway
  <2> QED
    BY <2>4, <2>5, <2>6
<1> QED
  BY <1>6, <1>7

(* Where the units end, and whether the last bytes are read as a unit.     *)
UnitsTo(n, d, a, up, e) ==
  /\ up \in 0 .. 3 /\ e \in Nat /\ e \in up .. n /\ n - e < 4 /\ e = n - ((n - up) % 4)
  /\ (((d % 2) + up) % 2 = 0) /\ (((d % 2) + e) % 2 = 0)
  /\ (d % 4 = 0 => up = 0) /\ (d % 4 # 0 => up \in 1 .. 3 /\ up = 4 - (d % 4))
  /\ (a % 4 = d % 4 => (a + e) % 4 = 0)

LEMMA UnitsEnd ==
  ASSUME NEW n \in Nat, n >= 4, NEW d \in Nat, NEW a \in Nat, NEW up, up = (-d) % 4,
         NEW e, e = up + 4 * ((n - up) \div 4)
  PROVE  UnitsTo(n, d, a, up, e)
<1>1. PICK y \in Nat, r \in 0 .. 3 : d = 4 * y + r /\ r = d % 4
  <2>1. d \div 4 \in Nat /\ d % 4 \in 0 .. 3 /\ d = 4 * (d \div 4) + (d % 4)
    OBVIOUS
  <2> QED
    BY <2>1, Zenon
<1>2. up \in 0 .. 3 /\ (r = 0 => up = 0) /\ (r # 0 => up = 4 - r /\ up \in 1 .. 3)
  <2>1. (r = 0 => up = 0) /\ (r # 0 => up = 4 - r)
    BY <1>1, Alignment
  <2>2. r # 0 => 4 - r \in 1 .. 3
    OBVIOUS
  <2> QED
    BY <2>1, <2>2
<1>3. PICK k \in Nat, l \in 0 .. 3 : k = (n - up) \div 4 /\ l = (n - up) % 4 /\ n - up = 4 * k + l
  <2>1. n - up \in Nat
    BY <1>2
  <2>2. \A x \in Nat : x \div 4 \in Nat /\ x % 4 \in 0 .. 3 /\ x = 4 * (x \div 4) + (x % 4)
    OBVIOUS
  <2> QED
    BY <2>1, <2>2, Zenon
<1>4. e = up + 4 * k
  BY <1>3
<1>5. e \in Nat /\ e \in up .. n /\ n - e < 4 /\ e = n - l
  BY <1>2, <1>3, <1>4
<1>6. PICK w \in Nat : d + up = 4 * w
  <2>1. r = 0 => d + up = 4 * y
    BY <1>1, <1>2
  <2>2. r # 0 => d + up = 4 * (y + 1)
    BY <1>1, <1>2
  <2>3. y \in Nat /\ y + 1 \in Nat
    OBVIOUS
  <2> QED
    BY <2>1, <2>2, <2>3, Zenon
<1>7. d + e = 4 * (w + k) /\ w + k \in Nat
  BY <1>2, <1>4, <1>6
<1>8. (((d % 2) + up) % 2 = 0) /\ (((d % 2) + e) % 2 = 0)
  <2>1. \A x, u \in Nat : (x + u) % 2 = ((x % 2) + u) % 2
    OBVIOUS
  <2>2. \A x \in Nat : (4 * x) % 2 = 0
    OBVIOUS
  <2>3. (d + up) % 2 = 0 /\ (d + e) % 2 = 0
    BY <1>6, <1>7, <2>2, Zenon
  <2>4. up \in Nat
    BY <1>2
  <2> QED
    BY <1>5, <2>1, <2>3, <2>4
<1>9. a % 4 = d % 4 => (a + e) % 4 = 0
  <2>1. ASSUME a % 4 = r
        PROVE  (a + e) % 4 = 0
    <3>1. PICK x \in Nat : a = 4 * x + r
      <4>1. a \div 4 \in Nat /\ a = 4 * (a \div 4) + (a % 4)
        OBVIOUS
      <4> QED
        BY <2>1, <4>1, Zenon
    <3>2. a + e = 4 * (x - y + (w + k)) /\ x - y + (w + k) \in Int
      BY <1>1, <1>5, <1>7, <3>1
    <3>3. \A z \in Int : (4 * z) % 4 = 0
      OBVIOUS
    <3> QED
      BY <3>2, <3>3
  <2> QED
    BY <1>1, <2>1
<1> QED
  BY <1>1, <1>2, <1>3, <1>5, <1>8, <1>9 DEF UnitsTo

LEMMA CopiedWorks ==
  ASSUME NEW old, NEW f, NEW par, Calls(old, f, par), NEW s, Working(s, old, f, par, 0, 0, job.len),
         par = IF job.len >= 4 THEN job.dst % 2 ELSE 0
  PROVE  Ended(C!Copied(s), old, f, par)
<1>1. PICK n \in Nat, a \in Nat, d \in Nat : n = job.len /\ a = job.src /\ d = job.dst
  BY DEF Calls, Given
<1>2. Holding(s, old, f, par, 0, 0, n, 0) /\ Given(old) /\ job.len = n
  BY <1>1 DEF Working, Calls
<1>3. s.len = n /\ s.dst = d
  <2>1. s.len = n /\ s.dst = job.dst + 0
    BY <1>2, HoldingFields
  <2>2. d + 0 = d
    OBVIOUS
  <2> QED
    BY <1>1, <2>1, <2>2
<1>4. C!NBYTES = 4
  BY DEF C!NBYTES
<1>5. job.len - 0 = job.len
  BY <1>1
<1>6. CASE n < 4
  <2>1. C!Copied(s) = C!csum_bytes(s)
    BY <1>3, <1>4, <1>6 DEF C!Copied
  <2>2. par = 0 /\ (par + 0) % 2 = 0 /\ 0 \in Nat
    <3>1. ~(n >= 4)
      BY <1>6
    <3>2. par = 0
      BY <1>1, <3>1, Zenon
    <3> QED
      BY <3>2
  <2>3. SingleBytes(job) = 0
    BY <1>1, <1>6, Zenon DEF SingleBytes
  <2>4. Working(s, old, f, par, 0, 0, job.len - 0)
    BY <1>5
  <2> QED
    BY <2>1, <2>2, <2>3, <2>4, BytesWork
<1>7. CASE n >= 4
  <2>1. PICK up, e : up = (-d) % 4 /\ e = up + 4 * ((n - up) \div 4)
    OBVIOUS
  <2>2. /\ up \in 0 .. 3 /\ e \in Nat /\ e \in up .. n /\ n - e < 4 /\ e = n - ((n - up) % 4)
        /\ (((d % 2) + up) % 2 = 0) /\ (((d % 2) + e) % 2 = 0)
        /\ (d % 4 = 0 => up = 0) /\ (d % 4 # 0 => up \in 1 .. 3 /\ up = 4 - (d % 4))
        /\ (a % 4 = d % 4 => (a + e) % 4 = 0)
    <3>1. UnitsTo(n, d, a, up, e)
      BY <1>7, <2>1, UnitsEnd
    <3> QED
      BY <3>1, Zenon DEF UnitsTo
  <2>3. par = d % 2 /\ (par + up) % 2 = 0 /\ (par + e) % 2 = 0
    <3>1. par = d % 2
      BY <1>1, <1>7
    <3> QED
      BY <2>2, <3>1
  <2> DEFINE t == IF s.dst % 4 = 0 THEN s ELSE C!dst_unaligned(s)
             u == C!Units(t)
  <2>4. C!Copied(s) = C!LastBytes(u)
    <3>1. ~(s.len < C!NBYTES)
      BY <1>3, <1>4, <1>7
    <3> QED
      BY <1>4, <3>1 DEF C!Copied
  <2>5. Underway(t, old, f, par, up)
    <3>1. CASE d % 4 = 0
      <4>1. t = s /\ up = 0
        BY <1>3, <2>2, <3>1
      <4> QED
        BY <1>5, <4>1 DEF Underway
    <3>2. CASE d % 4 # 0
      <4>1. t = C!dst_unaligned(s) /\ up \in 1 .. 3 /\ up = 4 - (job.dst % 4)
        BY <1>1, <1>3, <2>2, <3>2
      <4>2. par = job.dst % 2 /\ job.len >= 4
        BY <1>1, <1>7, <2>3
      <4>3. Underway(C!dst_unaligned(s), old, f, par, up)
        BY <4>1, <4>2, DstUnalignedWorks
      <4> QED
        BY <4>1, <4>3
    <3> QED
      BY <3>1, <3>2
  <2> HIDE DEF t
  <2>6. Underway(u, old, f, par, e)
    <3>1. CASE Failed(t, old)
      BY <1>2, <3>1, FailedStays DEF Underway
    <3>2. CASE Working(t, old, f, par, up, up, job.len - up)
      <4>1. up \in Nat
        BY <2>2
      <4>2. Underway(C!Units(t), old, f, par, up + 4 * ((job.len - up) \div 4))
        BY <2>3, <3>2, <4>1, UnitsWork
      <4> QED
        BY <1>1, <2>1, <4>2
    <3> QED
      BY <2>5, <3>1, <3>2 DEF Underway
  <2> HIDE DEF u
  <2>7. CASE Failed(u, old)
    BY <1>2, <2>4, <2>7, FailedStays DEF Ended
  <2>8. CASE Working(u, old, f, par, e, e, job.len - e)
    <3>1. u.src = job.src + e
      BY <2>8, HoldingFields DEF Working
    <3>2. CASE (job.src + e) % 4 = 0
      <4>1. C!LastBytes(u) = C!cleanup_bytes_both_aligned(u)
        BY <1>4, <3>1, <3>2 DEF C!LastBytes
      <4>2. job.len - e < 4
        BY <1>1, <2>2
      <4>3. Ended(C!cleanup_bytes_both_aligned(u), old, f, par)
        BY <2>3, <2>8, <3>2, <4>2, CleanupWorks
      <4> QED
        BY <2>4, <4>1, <4>3
    <3>3. CASE (job.src + e) % 4 # 0
      <4>1. C!LastBytes(u) = C!csum_bytes(u)
        BY <1>4, <3>1, <3>3 DEF C!LastBytes
      <4>2. e = SingleBytes(job)
        <5>1. ~(a % 4 = d % 4) /\ ~(n < 4)
          BY <1>1, <1>7, <2>2, <3>3
        <5>2. SingleBytes(job) = n - ((n - up) % 4)
          BY <1>1, <2>1, <5>1, Zenon DEF SingleBytes
        <5> QED
          BY <2>2, <5>2
      <4>3. e \in Nat
        BY <2>2
      <4>4. Ended(C!csum_bytes(u), old, f, par)
        BY <2>3, <2>8, <4>2, <4>3, BytesWork
      <4> QED
        BY <2>4, <4>1, <4>4
    <3> QED
      BY <3>2, <3>3
  <2> QED
    BY <2>6, <2>7, <2>8 DEF Underway
<1> QED
  BY <1>6, <1>7

(* A byte is copied by l_exc_copy, or cannot be read.                      *)
LEMMA CopyPassIs ==
  ASSUME NEW t, NEW m, NEW x, NEW y, NEW l, NEW e, NEW total, NEW carries,
         Has(t, m, x, y, l, e, total, carries)
  PROVE  IF x + 1 > job.srcEnd THEN CopyPass(t) = t
         ELSE Has(CopyPass(t), [m EXCEPT ![y] = m[x]], x + 1, y + 1, l - 1, e, total, carries)
<1>1. PICK a0, k0, a1, k1 : /\ t = Lanes(m, x, y, l, e, a0, k0, a1, k1)
                            /\ Stands(total, carries, a0, k0, a1, k1)
  BY DEF Has
<1>2. t.mem = m /\ t.src = x /\ t.dst = y /\ t.len = l /\ t.srcEnd = job.srcEnd
  BY <1>1 DEF Lanes
<1>3. C!Faults(t, t.src, 1) <=> x + 1 > job.srcEnd
  BY <1>2, Zenon DEF C!Faults
<1>4. CASE x + 1 > job.srcEnd
  BY <1>3, <1>4, Zenon DEF CopyPass
<1>5. CASE ~(x + 1 > job.srcEnd)
  <2> DEFINE u == [m EXCEPT ![y] = m[x]]
  <2>1. CopyPass(t) = [t EXCEPT !.mem[t.dst] = t.mem[t.src], !.src = t.src + 1,
                                !.dst = t.dst + 1, !.len = t.len - 1]
    BY <1>3, <1>5, Zenon DEF CopyPass
  <2>2. CopyPass(t) = [t EXCEPT !.mem = u, !.src = x + 1, !.dst = y + 1, !.len = l - 1]
    BY <1>2, <2>1
  <2> HIDE DEF u
  <2>3. [t EXCEPT !.mem = u, !.src = x + 1, !.dst = y + 1, !.len = l - 1]
        = [[[[t EXCEPT !.mem = u] EXCEPT !.src = x + 1] EXCEPT !.dst = y + 1] EXCEPT !.len = l - 1]
    OBVIOUS
  <2>4. [t EXCEPT !.mem = u] = Lanes(u, x, y, l, e, a0, k0, a1, k1)
    BY <1>1 DEF Lanes
  <2>5. [Lanes(u, x, y, l, e, a0, k0, a1, k1) EXCEPT !.src = x + 1]
        = Lanes(u, x + 1, y, l, e, a0, k0, a1, k1)
    BY DEF Lanes
  <2>6. [Lanes(u, x + 1, y, l, e, a0, k0, a1, k1) EXCEPT !.dst = y + 1]
        = Lanes(u, x + 1, y + 1, l, e, a0, k0, a1, k1)
    BY DEF Lanes
  <2>7. [Lanes(u, x + 1, y + 1, l, e, a0, k0, a1, k1) EXCEPT !.len = l - 1]
        = Lanes(u, x + 1, y + 1, l - 1, e, a0, k0, a1, k1)
    BY DEF Lanes
  <2>8. CopyPass(t) = Lanes(u, x + 1, y + 1, l - 1, e, a0, k0, a1, k1)
    BY <2>2, <2>3, <2>4, <2>5, <2>6, <2>7
  <2>9. Has(CopyPass(t), u, x + 1, y + 1, l - 1, e, total, carries)
    BY <1>1, <2>8 DEF Has
  <2> QED
    BY <1>5, <2>9 DEF u
<1> QED
  BY <1>4, <1>5

(* The handler copies byte p again, or for the first time.                 *)
Later(m, p) == IF p < m THEN m ELSE p

LEMMA CopyStores ==
  ASSUME NEW old, Given(old), NEW m \in 0 .. job.len, NEW p \in 0 .. job.len - 1
  PROVE  [CopiedTo(old, Later(m, p)) EXCEPT ![job.dst + p] = CopiedTo(old, Later(m, p))[job.src + p]]
         = CopiedTo(old, Later(m, p + 1))
<1>1. PICK n \in Nat, a \in Nat, d \in Nat : n = job.len /\ a = job.src /\ d = job.dst
  BY DEF Given
<1>2. PICK c \in 0 .. n, z \in 0 .. n : /\ c = Later(m, p) /\ z = Later(m, p + 1)
                                        /\ p <= c /\ z = IF p < c THEN c ELSE p + 1
  <2>1. Later(m, p) \in 0 .. n /\ Later(m, p + 1) \in 0 .. n /\ p <= Later(m, p)
        /\ Later(m, p + 1) = IF p < Later(m, p) THEN Later(m, p) ELSE p + 1
    BY <1>1 DEF Later
  <2> QED
    BY <2>1, Zenon
<1>3. CopiedTo(old, c)[a + p] = old[a + p]
  <2>1. c \in 0 .. job.len
    BY <1>1
  <2> QED
    BY <1>1, <2>1, SourceStays
<1> DEFINE u == [CopiedTo(old, c) EXCEPT ![d + p] = old[a + p]]
           w == CopiedTo(old, z)
<1>4. u = [x \in DOMAIN old |-> u[x]] /\ w = [x \in DOMAIN old |-> w[x]]
  BY DEF CopiedTo
<1>5. ASSUME NEW x \in DOMAIN old
      PROVE  u[x] = w[x]
  <2>1. CopiedTo(old, c)[x] = IF x \in d .. d + c - 1 THEN old[a + (x - d)] ELSE old[x]
    BY <1>1, Zenon DEF CopiedTo
  <2>2. w[x] = IF x \in d .. d + z - 1 THEN old[a + (x - d)] ELSE old[x]
    BY <1>1, Zenon DEF CopiedTo
  <2>3. u[x] = IF x = d + p THEN old[a + p] ELSE CopiedTo(old, c)[x]
    BY DEF CopiedTo
  <2> HIDE DEF u, w
  <2>4. CASE x = d + p
    <3>1. x \in d .. d + z - 1 /\ a + (x - d) = a + p
      BY <1>1, <1>2, <2>4
    <3> QED
      BY <2>2, <2>3, <2>4, <3>1
  <2>5. CASE x # d + p
    <3>1. x \in d .. d + z - 1 <=> x \in d .. d + c - 1
      BY <1>1, <1>2, <2>5
    <3> QED
      BY <2>1, <2>2, <2>3, <2>5, <3>1
  <2> QED
    BY <2>4, <2>5
<1> HIDE DEF u, w
<1>6. u = w
  BY <1>4, <1>5
<1> QED
  BY <1>1, <1>2, <1>3, <1>6, Zenon DEF u, w

(* t bytes on from byte i, of l that are left.                             *)
Recopied(s, old, i, m, l, t) ==
  \E total, carries : Has(s, CopiedTo(old, Later(m, i + t)), job.src + (i + t), job.dst + (i + t),
                          l - t, "l_exc_copy", total, carries)

LEMMA CopyPassWorks ==
  ASSUME NEW old, Given(old), NEW s, NEW i \in Nat, NEW m \in 0 .. job.len, NEW l \in Nat, NEW t \in Nat,
         i + t < job.len, Recopied(s, old, i, m, l, t)
  PROVE  IF job.src + (i + t) + 1 > job.srcEnd THEN CopyPass(s) = s
         ELSE Recopied(CopyPass(s), old, i, m, l, t + 1)
<1>1. PICK n \in Nat, a \in Nat, d \in Nat : n = job.len /\ a = job.src /\ d = job.dst
  BY DEF Given
<1>2. PICK total, carries :
        Has(s, CopiedTo(old, Later(m, i + t)), job.src + (i + t), job.dst + (i + t), l - t,
            "l_exc_copy", total, carries)
  BY DEF Recopied
<1>3. PICK p \in 0 .. job.len - 1 : p = i + t /\ p + 1 = i + (t + 1) /\ job.src + p + 1 = job.src + (p + 1)
                                    /\ job.dst + p + 1 = job.dst + (p + 1)
  <2>1. i + t \in 0 .. n - 1 /\ i + t + 1 = i + (t + 1) /\ a + (i + t) + 1 = a + (i + t + 1)
        /\ d + (i + t) + 1 = d + (i + t + 1)
    BY <1>1
  <2> QED
    BY <1>1, <2>1, Zenon
<1>4. l - t - 1 = l - (t + 1)
  OBVIOUS
<1>5. CASE job.src + p + 1 > job.srcEnd
  BY <1>2, <1>3, <1>5, CopyPassIs
<1>6. CASE ~(job.src + p + 1 > job.srcEnd)
  <2>1. Has(s, CopiedTo(old, Later(m, p)), job.src + p, job.dst + p, l - t, "l_exc_copy", total, carries)
    BY <1>2, <1>3
  <2> DEFINE u == CopiedTo(old, Later(m, p))
  <2>2. Has(CopyPass(s), [u EXCEPT ![job.dst + p] = u[job.src + p]], job.src + p + 1, job.dst + p + 1,
            l - t - 1, "l_exc_copy", total, carries)
    <3>1. Has(s, u, job.src + p, job.dst + p, l - t, "l_exc_copy", total, carries)
      BY <2>1
    <3> HIDE DEF u
    <3> QED
      BY <1>6, <3>1, CopyPassIs
  <2>3. [u EXCEPT ![job.dst + p] = u[job.src + p]] = CopiedTo(old, Later(m, p + 1))
    BY CopyStores
  <2> HIDE DEF u
  <2>4. Has(CopyPass(s), CopiedTo(old, Later(m, p + 1)), job.src + (p + 1), job.dst + (p + 1),
            l - (t + 1), "l_exc_copy", total, carries)
    BY <1>3, <1>4, <2>2, <2>3
  <2> QED
    BY <1>3, <1>6, <2>4 DEF Recopied
<1> QED
  BY <1>3, <1>5, <1>6

(* The first c bytes have been copied, then those from z on to w zeroed.   *)
Zeroed(old, c, z, w) ==
  [a \in DOMAIN old |-> IF a \in job.dst + z .. job.dst + w - 1 THEN 0 ELSE CopiedTo(old, c)[a]]

LEMMA ZeroedIs ==
  ASSUME NEW old, NEW s, NEW c, NEW x, NEW y, NEW l, NEW e, NEW total, NEW carries,
         Has(s, CopiedTo(old, c), x, y, l, e, total, carries), NEW z, NEW w,
         y .. y + l - 1 = job.dst + z .. job.dst + w - 1
  PROVE  C!l_exc(s).mem = Zeroed(old, c, z, w)
<1> DEFINE m == CopiedTo(old, c)
           v == [a \in DOMAIN m |-> IF a \in y .. y + l - 1 THEN 0 ELSE m[a]]
<1>1. DOMAIN m = DOMAIN old
  BY DEF CopiedTo
<1>2. v = Zeroed(old, c, z, w)
  <2>1. Zeroed(old, c, z, w) = [a \in DOMAIN old |-> IF a \in y .. y + l - 1 THEN 0 ELSE m[a]]
    <3>1. \A a : a \in y .. y + l - 1 <=> a \in job.dst + z .. job.dst + w - 1
      OBVIOUS
    <3> HIDE DEF m
    <3>2. Zeroed(old, c, z, w) = [a \in DOMAIN old |-> IF a \in job.dst + z .. job.dst + w - 1 THEN 0 ELSE m[a]]
      BY DEF Zeroed, m
    <3> QED
      BY ONLY <3>1, <3>2
  <2> HIDE DEF m
  <2> QED
    BY <1>1, <2>1
<1> HIDE DEF m
<1>3. PICK a0, k0, a1, k1 : s = Lanes(m, x, y, l, e, a0, k0, a1, k1)
  BY DEF Has, m
<1>4. s.mem = m /\ s.dst = y /\ s.len = l
  BY <1>3 DEF Lanes
<1>5. C!l_exc(s) = [s EXCEPT !.mem = v]
  BY <1>4, Zenon DEF C!l_exc
<1> HIDE DEF v
<1>6. [s EXCEPT !.mem = v].mem = v
  BY <1>3 DEF Lanes
<1> QED
  BY <1>2, <1>5, <1>6

(* How far l_exc_copy comes.                                               *)
CopiedOn(mem, old, i, m, l) ==
  \E k \in 0 .. l : /\ k = l \/ job.srcEnd <= job.src + (i + k)
                    /\ k > 0 => job.src + (i + k) <= job.srcEnd
                    /\ mem = Zeroed(old, Later(m, i + k), i + k, i + l)

LEMMA CopiesOn ==
  ASSUME NEW old, Given(old), NEW s, NEW i \in Nat, NEW m \in 0 .. job.len, NEW l \in Nat,
         i <= m, i + l <= job.len, NEW total, NEW carries,
         Has(s, CopiedTo(old, m), job.src + i, job.dst + i, l, "l_exc_copy", total, carries)
  PROVE  CopiedOn(C!l_exc_copy(s).mem, old, i, m, l)
<1>1. PICK n \in Nat, a \in Nat, d \in Nat, b \in Int : n = job.len /\ a = job.src /\ d = job.dst /\ b = job.srcEnd
  BY DEF Given
<1>2. s.len = l
  BY HasFields
<1>3. PICK g : Passes(g, "copy", s, l) /\ C!l_exc_copy(s) = C!l_exc(g[l])
  BY <1>2, CopiesAre
<1> DEFINE Reaches(j, k) == /\ k = j \/ b <= a + (i + k)
                            /\ k > 0 => a + (i + k) <= b
                            /\ Recopied(g[j], old, i, m, l, k)
           S == {j \in Nat : \E k \in 0 .. j : Reaches(j, k)}
<1>4. 0 \in S
  <2>1. g[0] = s
    BY <1>3, PassesAre
  <2>2. i + 0 = i /\ l - 0 = l /\ Later(m, i) = m
    <3>1. i + 0 = i /\ l - 0 = l
      OBVIOUS
    <3>2. i < m \/ i = m
      BY <1>1
    <3> QED
      BY <3>1, <3>2 DEF Later
  <2>3. Recopied(g[0], old, i, m, l, 0)
    BY <2>1, <2>2 DEF Recopied
  <2>4. Reaches(0, 0) /\ 0 \in 0 .. 0 /\ 0 \in Nat
    BY <2>3
  <2> HIDE DEF Reaches
  <2> QED
    BY <2>4, Zenon
<1>5. ASSUME NEW j \in 1 .. l, j - 1 \in S
      PROVE  j \in S
  <2>1. PICK k \in 0 .. j - 1 : Reaches(j - 1, k)
    BY <1>5
  <2>2. g[j] = CopyPass(g[j - 1])
    <3>1. g[j] = Pass("copy", g[j - 1], j - 1)
      BY <1>3, PassesAre
    <3> QED
      BY <3>1 DEF Pass
  <2>3. k \in Nat /\ i + k < job.len /\ k \in 0 .. j /\ k + 1 \in 0 .. j /\ j \in Nat
    BY <1>1
  <2>4. IF a + (i + k) + 1 > b THEN CopyPass(g[j - 1]) = g[j - 1]
        ELSE Recopied(CopyPass(g[j - 1]), old, i, m, l, k + 1)
    <3>1. Recopied(g[j - 1], old, i, m, l, k)
      BY <2>1
    <3> HIDE DEF Reaches, S
    <3> QED
      BY <1>1, <2>3, <3>1, CopyPassWorks
  <2>5. CASE a + (i + k) + 1 > b
    <3>1. b <= a + (i + k)
      BY <2>3, <2>5
    <3>2. Recopied(g[j], old, i, m, l, k)
      BY <2>1, <2>2, <2>4, <2>5
    <3>3. Reaches(j, k)
      BY <2>1, <3>1, <3>2
    <3> HIDE DEF Reaches
    <3> QED
      BY <2>3, <3>3
  <2>6. CASE ~(a + (i + k) + 1 > b)
    <3>1. Recopied(g[j], old, i, m, l, k + 1)
      BY <2>2, <2>4, <2>6
    <3>2. ~(b <= a + (i + k)) /\ a + (i + (k + 1)) <= b
      BY <2>3, <2>6
    <3>3. k = j - 1
      BY <2>1, <3>2
    <3>4. k + 1 = j
      BY <2>3, <3>3
    <3>5. Reaches(j, k + 1)
      BY <3>1, <3>2, <3>4
    <3> HIDE DEF Reaches
    <3> QED
      BY <2>3, <3>5
  <2> QED
    BY <2>5, <2>6
<1>6. l \in S
  <2> HIDE DEF S
  <2>1. l \in 0 .. l
    OBVIOUS
  <2> QED
    BY <1>4, <1>5, <2>1, Induction
<1>7. PICK k \in 0 .. l : Reaches(l, k)
  BY <1>6
<1>8. PICK sum, count : Has(g[l], CopiedTo(old, Later(m, i + k)), job.src + (i + k), job.dst + (i + k),
                            l - k, "l_exc_copy", sum, count)
  BY <1>7 DEF Recopied
<1>9. job.dst + (i + k) .. job.dst + (i + k) + (l - k) - 1 = job.dst + (i + k) .. job.dst + (i + l) - 1
  <2>1. d + (i + k) .. d + (i + k) + (l - k) - 1 = d + (i + k) .. d + (i + l) - 1
    OBVIOUS
  <2> QED
    BY <1>1, <2>1
<1>10. C!l_exc(g[l]).mem = Zeroed(old, Later(m, i + k), i + k, i + l)
  BY <1>8, <1>9, ZeroedIs
<1>11. (k = l \/ b <= a + (i + k)) /\ (k > 0 => a + (i + k) <= b)
  BY <1>7
<1> QED
  BY <1>1, <1>3, <1>10, <1>11, Zenon DEF CopiedOn

(* What a call leaves in memory: dst holds what can be read of src and     *)
(* then zeroes, but for a fault at a later byte of csum_bytes.             *)
MayLag ==
  /\ job.len > 0 /\ job.srcEnd < job.src + job.len
  /\ job.srcEnd - job.src > SingleBytes(job)
Recovered(old, mem) ==
  /\ Framed(old, mem)
  /\ job.dstEnd >= job.dst + job.len =>
       \A a \in job.dst .. job.dst + job.len - 1 :
         \/ mem[a] = IF a - job.dst < job.srcEnd - job.src THEN old[job.src + (a - job.dst)] ELSE 0
         \/ MayLag /\ a - job.dst >= job.srcEnd - job.src

LEMMA ZeroesRest ==
  ASSUME NEW old, Given(old), NEW legal, legal = job.srcEnd - job.src, NEW c \in 0 .. job.len, NEW z \in Nat,
         NEW w \in 0 .. job.len,
         \/ z = c /\ w = job.len /\ (c = legal \/ (c = 0 /\ legal <= 0))
         \/ MayLag /\ c = legal /\ (legal <= z \/ w <= z)
  PROVE  Recovered(old, Zeroed(old, c, z, w))
<1>1. PICK n \in Nat, s \in Nat, d \in Nat, b \in Int : n = job.len /\ s = job.src /\ d = job.dst /\ b = job.srcEnd
  BY DEF Given
<1>2. PICK r \in Int : r = legal /\ r = b - s
  BY <1>1
<1> DEFINE mem == Zeroed(old, c, z, w)
<1>3. ASSUME NEW a \in DOMAIN old
      PROVE  mem[a] = IF a \in d + z .. d + w - 1 THEN 0
                      ELSE IF a \in d .. d + c - 1 THEN old[s + (a - d)] ELSE old[a]
  BY <1>1 DEF Zeroed, CopiedTo
<1>4. Framed(old, mem)
  <2>1. DOMAIN mem = DOMAIN old
    BY DEF Zeroed
  <2> HIDE DEF mem
  <2>2. ASSUME NEW a \in DOMAIN old, a \notin d .. d + n - 1
        PROVE  mem[a] = old[a]
    <3>1. a \notin d + z .. d + w - 1 /\ a \notin d .. d + c - 1
      BY <1>1, <2>2
    <3> QED
      BY <1>3, <3>1
  <2> QED
    BY <1>1, <2>1, <2>2 DEF Framed
<1> HIDE DEF mem
<1>5. ASSUME NEW a \in d .. d + n - 1
      PROVE  \/ mem[a] = IF a - d < r THEN old[s + (a - d)] ELSE 0
             \/ MayLag /\ a - d >= r
  <2>1. a \in DOMAIN old
    BY <1>1 DEF Given
  <2>2. PICK p \in 0 .. n - 1 : p = a - d
    OBVIOUS
  <2>3. mem[a] = IF p \in z .. w - 1 THEN 0 ELSE IF p < c THEN old[s + p] ELSE old[a]
    <3>1. (a \in d + z .. d + w - 1 <=> p \in z .. w - 1) /\ (a \in d .. d + c - 1 <=> p < c)
      BY <2>2
    <3> QED
      BY <1>3, <2>1, <2>2, <3>1, Zenon
  <2>4. CASE z = c /\ w = job.len /\ (c = legal \/ (c = 0 /\ legal <= 0))
    <3>1. (p < c <=> p < r) /\ (p \in z .. w - 1 <=> ~(p < c))
      BY <1>1, <1>2, <2>4
    <3> QED
      BY <2>2, <2>3, <3>1, Zenon
  <2>5. CASE MayLag /\ c = legal /\ (legal <= z \/ w <= z)
    <3>1. CASE p < r
      <4>1. p \notin z .. w - 1 /\ p < c
        BY <1>2, <2>5, <3>1
      <4> QED
        BY <2>2, <2>3, <3>1, <4>1, Zenon
    <3>2. CASE ~(p < r)
      <4>1. p >= r
        BY <3>2
      <4> QED
        BY <2>2, <2>5, <4>1, Zenon
    <3> QED
      BY <3>1, <3>2
  <2> QED
    BY <2>4, <2>5
<1>6. \A a \in job.dst .. job.dst + job.len - 1 :
         \/ mem[a] = IF a - job.dst < job.srcEnd - job.src THEN old[job.src + (a - job.dst)] ELSE 0
         \/ MayLag /\ a - job.dst >= job.srcEnd - job.src
  BY <1>1, <1>2, <1>5, Zenon
<1> QED
  BY <1>4, <1>6, Zenon DEF Recovered, mem

LEMMA FaultHandled ==
  ASSUME NEW old, Given(old), NEW s, Failed(s, old)
  PROVE  /\ Recovered(old, C!Handled(s).mem) /\ s.exc # "none" /\ job.len > 0
         /\ (job.srcEnd < job.src + job.len \/ job.dstEnd < job.dst + job.len)
<1>1. PICK n \in Nat, a \in Nat, d \in Nat, b \in Int, e \in Int :
        n = job.len /\ a = job.src /\ d = job.dst /\ b = job.srcEnd /\ e = job.dstEnd
  BY DEF Given
<1>2. PICK legal \in Int : legal = job.srcEnd - job.src /\ legal = b - a
  BY <1>1
<1>3. s.exc # "none"
  BY FailedStops
<1>4. CASE StoreFault(s, old)
  <2>1. PICK mem, x, y, total, carries : \E l \in Nat :
          Has(s, mem, x, y, l, "s_exc", total, carries) /\ Framed(old, mem)
    BY <1>4 DEF StoreFault
  <2>2. s.mem = mem /\ s.exc = "s_exc" /\ Framed(old, mem)
    BY <2>1, HasFields
  <2>3. C!Handled(s) = s
    BY <2>2 DEF C!Handled
  <2>4. job.len > 0 /\ ~(job.dstEnd >= job.dst + job.len) /\ job.dstEnd < job.dst + job.len
    <3>1. n > 0 /\ d + n > e
      BY <1>1, <1>4, Zenon DEF StoreFault
    <3>2. ~(e >= d + n) /\ e < d + n
      BY <3>1
    <3> QED
      BY <1>1, <3>1, <3>2, Zenon
  <2>5. Recovered(old, C!Handled(s).mem)
    BY <2>2, <2>3, <2>4 DEF Recovered
  <2> QED
    BY <1>3, <2>4, <2>5
<1>5. CASE FirstFault(s, old)
  <2>1. PICK i \in 0 .. job.len - 1 : \E total, carries :
          /\ Has(s, CopiedTo(old, i), job.src + i, job.dst + i, job.len - i, "l_exc", total, carries)
          /\ job.srcEnd <= job.src + i /\ Reached(i)
    BY <1>5 DEF FirstFault
  <2>2. PICK total, carries :
          Has(s, CopiedTo(old, i), job.src + i, job.dst + i, job.len - i, "l_exc", total, carries)
    BY <2>1
  <2>3. s.exc = "l_exc"
    BY <2>2, HasFields
  <2>4. C!Handled(s) = C!l_exc(s)
    BY <2>3 DEF C!Handled
  <2>5. job.dst + i .. job.dst + i + (job.len - i) - 1 = job.dst + i .. job.dst + job.len - 1
    <3>1. d + i .. d + i + (n - i) - 1 = d + i .. d + n - 1
      BY <1>1
    <3> QED
      BY <1>1, <3>1
  <2>6. C!l_exc(s).mem = Zeroed(old, i, i, job.len)
    BY <2>2, <2>5, ZeroedIs
  <2>7. i \in Nat /\ n > 0 /\ i \in 0 .. n /\ b <= a + i /\ b < a + n /\ (i > 0 => a + i <= b)
    <3>1. i \in 0 .. n - 1 /\ b <= a + i /\ Reached(i)
      BY <1>1, <2>1
    <3>2. i > 0 => a + i <= b
      BY <1>1, <3>1, Zenon DEF Reached
    <3> QED
      BY <3>1, <3>2
  <2>8. i = legal \/ (i = 0 /\ legal <= 0)
    BY <1>2, <2>7
  <2>9. Recovered(old, Zeroed(old, i, i, job.len))
    <3>1. i \in 0 .. job.len /\ job.len \in 0 .. job.len
      BY <1>1, <2>7
    <3> QED
      BY <1>2, <2>7, <2>8, <3>1, ZeroesRest
  <2>10. job.len > 0 /\ job.srcEnd < job.src + job.len
    BY <1>1, <2>7
  <2> QED
    BY <1>3, <2>4, <2>6, <2>9, <2>10
<1>6. CASE LaterFault(s, old)
  <2>1. PICK i \in 0 .. job.len - 1 : \E m \in i .. job.len - 1 : \E l, total, carries :
          /\ Has(s, CopiedTo(old, m), job.src + i, job.dst + i, l, "l_exc_copy", total, carries)
          /\ job.src + m <= job.srcEnd /\ job.srcEnd < job.src + job.len /\ Remaining(i, m, l)
    BY <1>6 DEF LaterFault
  <2>2. PICK m \in i .. job.len - 1 : \E l, total, carries :
          /\ Has(s, CopiedTo(old, m), job.src + i, job.dst + i, l, "l_exc_copy", total, carries)
          /\ job.src + m <= job.srcEnd /\ job.srcEnd < job.src + job.len /\ Remaining(i, m, l)
    BY <2>1
  <2>3. PICK l, total, carries :
          /\ Has(s, CopiedTo(old, m), job.src + i, job.dst + i, l, "l_exc_copy", total, carries)
          /\ job.src + m <= job.srcEnd /\ job.srcEnd < job.src + job.len /\ Remaining(i, m, l)
    BY <2>2
  <2>4. /\ i \in Nat /\ i \in 0 .. n - 1 /\ m \in i .. n - 1 /\ m \in 0 .. job.len /\ i <= m
        /\ a + m <= b /\ b < a + n
    <3>1. i \in 0 .. n - 1 /\ m \in i .. n - 1
      BY <1>1
    <3>2. a + m <= b /\ b < a + n
      BY <1>1, <2>3
    <3>3. m \in 0 .. n /\ i <= m /\ i \in Nat
      BY <1>1, <3>1
    <3> QED
      BY <1>1, <3>1, <3>2, <3>3
  <2>5. \/ l = n - i
        \/ l = n - m /\ m > i /\ b <= a + m /\ i = SingleBytes(job)
    BY <1>1, <2>3 DEF Remaining
  <2>6. l \in Nat /\ l > 0 /\ i + l <= n
    BY <2>4, <2>5
  <2>7. CopiedOn(C!l_exc_copy(s).mem, old, i, m, l)
    <3>1. i + l <= job.len
      BY <1>1, <2>6
    <3> QED
      BY <2>3, <2>4, <2>6, <3>1, CopiesOn
  <2>8. PICK k \in 0 .. l : /\ k = l \/ b <= a + (i + k)
                            /\ k > 0 => a + (i + k) <= b
                            /\ C!l_exc_copy(s).mem = Zeroed(old, Later(m, i + k), i + k, i + l)
    BY <1>1, <2>7, Zenon DEF CopiedOn
  <2>9. C!Handled(s) = C!l_exc_copy(s)
    <3>1. s.exc = "l_exc_copy"
      BY <2>3, HasFields
    <3> QED
      BY <3>1 DEF C!Handled
  <2>10. job.len > 0 /\ job.srcEnd < job.src + job.len
    <3>1. n > 0
      BY <2>4
    <3> QED
      BY <1>1, <2>3, <3>1
  <2>11. m <= legal /\ legal < n
    BY <1>2, <2>4
  <2>12. \/ k = l \/ legal <= i + k
    BY <1>2, <2>6, <2>8
  <2>13. k > 0 => i + k <= legal
    BY <1>2, <2>6, <2>8
  <2>14. PICK c \in 0 .. job.len : c = Later(m, i + k) /\ (c = m \/ c = i + k) /\ (i + k < m => c = m)
                                   /\ (~(i + k < m) => c = i + k)
    <3>1. i + k \in 0 .. n
      BY <2>4, <2>6
    <3> QED
      BY <1>1, <2>4, <3>1 DEF Later
  <2>15. PICK z \in Nat, w \in 0 .. job.len : z = i + k /\ w = i + l
    <3>1. i + k \in Nat /\ i + l \in 0 .. n
      BY <2>4, <2>6
    <3> QED
      BY <1>1, <3>1
  <2>16. CASE l = n - i
    <3>1. w = n /\ c = legal /\ z = legal
      <4>1. k # l
        BY <2>4, <2>6, <2>11, <2>13, <2>16
      <4>2. legal <= i + k
        BY <2>12, <4>1
      <4>3. i + k <= legal
        <5>1. CASE k = 0
          BY <2>4, <2>11, <5>1
        <5> QED
          BY <2>13, <5>1
      <4>4. i + k = legal
        BY <2>4, <4>2, <4>3
      <4>5. ~(i + k < m)
        BY <2>4, <2>11, <4>4
      <4> QED
        BY <2>4, <2>14, <2>15, <2>16, <4>4, <4>5
    <3>2. Recovered(old, Zeroed(old, c, z, w))
      BY <1>1, <1>2, <3>1, ZeroesRest
    <3> QED
      BY <1>3, <2>8, <2>9, <2>10, <2>14, <2>15, <3>2
  <2>17. CASE l = n - m /\ m > i /\ b <= a + m /\ i = SingleBytes(job)
    <3>1. m = legal
      BY <1>2, <2>4, <2>11, <2>17
    <3>2. legal > i
      BY <2>17, <3>1
    <3>3. MayLag
      BY <1>2, <2>10, <2>17, <3>2 DEF MayLag
    <3>4. c = legal
      <4>1. CASE i + k < m
        BY <2>14, <3>1, <4>1
      <4>2. CASE ~(i + k < m)
        <5>1. k > 0 /\ i + k <= legal
          BY <2>4, <2>13, <2>17, <4>2
        <5> QED
          BY <2>4, <2>14, <3>1, <4>2, <5>1
      <4> QED
        BY <4>1, <4>2
    <3>5. legal <= z \/ w <= z
      BY <2>12, <2>15
    <3>6. Recovered(old, Zeroed(old, c, z, w))
      BY <1>2, <3>3, <3>4, <3>5, ZeroesRest
    <3> QED
      BY <1>3, <2>8, <2>9, <2>10, <2>14, <2>15, <3>6
  <2> QED
    BY <2>5, <2>16, <2>17
<1> QED
  BY <1>4, <1>5, <1>6 DEF Failed

(* The lanes and their carries are folded into one register.               *)
LEMMA FinishIs ==
  ASSUME NEW s, NEW m, NEW x, NEW y, NEW l, NEW e, NEW total \in Nat, NEW carries \in Nat,
         Has(s, m, x, y, l, e, total, carries), carries < C!Word - 1
  PROVE  C!finish(s) \in 0 .. C!Word - 1 /\ Agree(C!finish(s), total)
<1>1. PICK a0, k0, a1, k1 : /\ s = Lanes(m, x, y, l, e, a0, k0, a1, k1)
                            /\ Stands(total, carries, a0, k0, a1, k1)
  BY DEF Has
<1>2. PICK w \in Nat \ {0, 1}, q \in Nat, ones \in Nat : w = C!Word /\ ones = AllOnes /\ w = 1 + q * ones
  BY WordIs, OnesIs
<1>3. /\ a0 \in 0 .. w - 1 /\ a1 \in 0 .. w - 1 /\ k0 \in Nat /\ k1 \in Nat
      /\ total = a0 + a1 + (k0 + k1) * w /\ k0 + k1 <= carries /\ carries < w - 1
  BY <1>1, <1>2 DEF Stands
<1>4. PICK k \in Nat : k = k0 + k1 /\ k + 1 <= w - 1 /\ total = a0 + a1 + k * w
  BY <1>3
<1>5. s.sum0 = a0 /\ s.sum1 = a1 /\ s.carry0 = k0 /\ s.carry1 = k1
  BY <1>1 DEF Lanes
<1>6. PICK lo, c : /\ lo = (a0 + a1) % w /\ c = k + (IF lo < a1 THEN 1 ELSE 0)
                   /\ lo \in 0 .. w - 1 /\ c \in Nat /\ c <= k + 1 /\ lo + c * w = a0 + k * w + a1
  <2>1. w \in Nat \ {0}
    OBVIOUS
  <2> QED
    BY <1>3, <2>1, AddsCarry
<1>7. PICK sum, d : /\ sum = (lo + c) % w /\ d = 0 + (IF sum < c THEN 1 ELSE 0)
                    /\ sum \in 0 .. w - 1 /\ d \in Nat /\ d <= 0 + 1 /\ sum + d * w = lo + 0 * w + c
  <2>1. w \in Nat \ {0} /\ c \in 0 .. w - 1 /\ lo \in 0 .. w - 1
    BY <1>4, <1>6
  <2>2. PICK j \in Nat : j = 0
    OBVIOUS
  <2>3. LET sum == (lo + c) % w
            carry == j + (IF sum < c THEN 1 ELSE 0)
        IN  /\ sum \in 0 .. w - 1 /\ carry \in Nat /\ carry <= j + 1
            /\ sum + carry * w = lo + j * w + c
    BY <2>1, AddsCarry
  <2> QED
    BY <2>2, <2>3
<1>8. PICK z : z = sum + d /\ z \in 0 .. w - 1
  <2>1. d = 0 \/ d = 1
    BY <1>7
  <2>2. CASE d = 0
    BY <1>7, <2>2
  <2>3. CASE d = 1
    <3>1. sum + w = lo + c
      BY <1>6, <1>7, <2>3
    <3>2. sum + 1 \in 0 .. w - 1
      BY <1>4, <1>6, <1>7, <3>1
    <3> QED
      BY <2>3, <3>2
  <2> QED
    BY <2>1, <2>2, <2>3
<1>9. C!finish(s) = z
  <2>1. C!finish(s) = (sum + (IF sum < c THEN 1 ELSE 0)) % w
    <3>1. c = k0 + k1 + (IF lo < a1 THEN 1 ELSE 0)
      BY <1>4, <1>6, Zenon
    <3> QED
      BY <1>2, <1>5, <1>6, <1>7, <3>1, Zenon DEF C!finish
  <2>2. d = IF sum < c THEN 1 ELSE 0
    <3>1. (IF sum < c THEN 1 ELSE 0) \in Nat
      OBVIOUS
    <3>2. \A i \in Nat : 0 + i = i
      OBVIOUS
    <3> QED
      BY <1>7, <3>1, <3>2, Zenon
  <2>3. C!finish(s) = z % w
    BY <1>8, <2>1, <2>2, Zenon
  <2>4. \A i \in 0 .. w - 1 : i % w = i
    OBVIOUS
  <2> QED
    BY <1>8, <2>3, <2>4
<1>10. total = lo + c * w /\ sum + d * w = lo + c
  BY <1>3, <1>4, <1>6, <1>7
<1>11. total = z + (c * q + d * q) * ones
  <2>1. \A i \in Nat : i * (1 + q * ones) = i + (i * q) * ones
    OBVIOUS
  <2>2. c * w = c + (c * q) * ones /\ d * w = d + (d * q) * ones
    BY <1>2, <1>6, <1>7, <2>1, Zenon
  <2>3. PICK i \in Nat, j \in Nat : i = c * q /\ j = d * q
    BY <1>6, <1>7
  <2>4. (i + j) * ones = i * ones + j * ones
    OBVIOUS
  <2>5. PICK u \in Nat, v \in Nat : u = i * ones /\ v = j * ones
    OBVIOUS
  <2>6. total = (lo + c) + u /\ sum + d + v = lo + c
    <3>1. c * w = c + u /\ d * w = d + v
      BY <2>2, <2>3, <2>5
    <3>2. PICK g \in Nat, h \in Nat : g = c * w /\ h = d * w
      BY <1>6, <1>7
    <3> QED
      <4>1. total = lo + g /\ sum + h = lo + c /\ g = c + u /\ h = d + v
        BY <1>10, <3>1, <3>2, Zenon
      <4>2. lo \in Nat /\ c \in Nat /\ sum \in Nat /\ d \in Nat
        BY <1>6, <1>7
      <4> QED
        BY ONLY <4>1, <4>2, g \in Nat, h \in Nat, u \in Nat, v \in Nat
  <2>7. total = z + (u + v)
    BY <1>6, <1>7, <1>8, <2>6
  <2> QED
    BY <2>3, <2>4, <2>5, <2>7
<1>12. z = 0 <=> total = 0
  <2>1. z = 0 => total = 0
    <3> SUFFICES ASSUME z = 0 PROVE total = 0
      OBVIOUS
    <3>1. sum = 0 /\ d = 0
      BY <1>7, <1>8
    <3>2. lo = 0 /\ c = 0
      BY <1>6, <1>10, <3>1
    <3> QED
      BY <1>10, <3>2
  <2>2. total = 0 => z = 0
    <3> SUFFICES ASSUME total = 0 PROVE z = 0
      OBVIOUS
    <3>1. PICK v \in Nat : v = c * w
      BY <1>6
    <3>2. lo = 0 /\ c * w = 0
      BY <1>6, <1>10, <3>1
    <3>3. c = 0
      <4>1. \A i \in Nat \ {0} : i * w > 0
        OBVIOUS
      <4> QED
        BY <1>6, <3>2, <4>1
    <3>4. sum = 0 /\ d = 0
      BY <1>7, <3>2, <3>3
    <3> QED
      BY <1>8, <3>4
  <2> QED
    BY <2>1, <2>2
<1>13. Same(z, total, AllOnes)
  <2>1. PICK p \in Nat : p = c * q + d * q
    BY <1>6, <1>7
  <2>2. z = total + (-p) * ones /\ -p \in Int /\ z \in Int /\ total \in Int
    BY <1>8, <1>11, <2>1
  <2> QED
    BY <1>2, <2>2, Zenon DEF Same
<1> QED
  BY <1>2, <1>8, <1>9, <1>12, <1>13 DEF Agree

(* Where csum_partial_copy_user begins: nothing is copied, and the partial *)
(* sum is in the second lane.                                              *)
LEMMA CopyStarts ==
  ASSUME NEW old, NEW f, NEW par, Calls(old, f, par)
  PROVE  Working(Lanes(old, job.src, job.dst, job.len, "none", 0, 0, Start(par), 0),
                 old, f, par, 0, 0, job.len)
<1> DEFINE s == Lanes(old, job.src, job.dst, job.len, "none", 0, 0, Start(par), 0)
<1>1. PICK n \in Nat, a \in Nat, d \in Nat : n = job.len /\ a = job.src /\ d = job.dst
  BY DEF Calls, Given
<1>2. PICK c \in Nat : c = Start(par) /\ c \in 0 .. C!Word - 1
  BY StartIs DEF Calls
<1>3. CopiedTo(old, 0) = old
  <2>1. old = [x \in DOMAIN old |-> old[x]]
    BY DEF Calls, Given
  <2>2. \A x : x \notin d .. d + 0 - 1
    OBVIOUS
  <2>3. CopiedTo(old, 0) = [x \in DOMAIN old |-> old[x]]
    BY <1>1, <2>2, Zenon DEF CopiedTo
  <2> QED
    BY <2>1, <2>3, Zenon
<1>4. Stands(c, 0, 0, 0, c, 0)
  <2>1. PICK w \in Nat \ {0, 1} : w = C!Word
    BY WordIs
  <2>2. 0 \in 0 .. w - 1 /\ c \in 0 .. w - 1 /\ 0 \in Nat /\ 0 + 0 <= 0
    BY <1>2, <2>1
  <2>3. c = 0 + c + (0 + 0) * w
    OBVIOUS
  <2> QED
    BY <2>1, <2>2, <2>3 DEF Stands
<1>5. Has(s, CopiedTo(old, 0), job.src + 0, job.dst + 0, job.len, "none", c, 0)
  <2>1. job.src + 0 = job.src /\ job.dst + 0 = job.dst
    BY <1>1
  <2>2. s = Lanes(CopiedTo(old, 0), job.src + 0, job.dst + 0, job.len, "none", 0, 0, c, 0)
    BY <1>2, <1>3, <2>1
  <2> HIDE DEF s
  <2> QED
    BY <1>4, <2>2, Zenon DEF Has
<1> HIDE DEF s
<1>6. f[0] = 0
  BY TotalsAre DEF Calls
<1>7. Agree(c, Start(par) + f[0])
  <2>1. Start(par) + f[0] = c
    BY <1>2, <1>6
  <2> QED
    BY <2>1, AgreeSelf
<1>8. Holding(s, old, f, par, 0, 0, job.len, 0)
  <2>1. 0 \in Nat /\ 0 <= 0
    OBVIOUS
  <2> QED
    BY <1>5, <1>7, <2>1, Zenon DEF Holding
<1>9. 0 \in 0 .. job.len /\ Reached(0)
  <2>1. ~(0 > 0)
    OBVIOUS
  <2> QED
    BY <1>1, <2>1 DEF Reached
<1>10. Working(s, old, f, par, 0, 0, job.len)
  BY <1>8, <1>9 DEF Working
<1> QED
  BY <1>10 DEF s

(* The sum that is returned.                                               *)
LEMMA SumIsTrue ==
  ASSUME NEW old, NEW f, NEW par, Calls(old, f, par), NEW s, NEW i, Working(s, old, f, par, i, job.len, 0)
  PROVE  SameSum(C!Turned(par = 1, C!finish(s)), TrueSum(old, job))
<1>1. PICK n \in Nat, a \in Nat, c \in 0 .. Byte^4 - 1, p \in {0, 1} :
        n = job.len /\ a = job.src /\ c = job.partial /\ p = par
  BY DEF Calls, Given, Totals
<1>2. Given(old) /\ job.big \in BOOLEAN /\ Octets(old, a, n) /\ n < C!Word - 1 /\ C!Word = Byte^4
  BY <1>1, SourceOctets, WordIs DEF Calls, Given
<1>3. PICK total \in Nat, carries \in Nat :
        /\ Has(s, CopiedTo(old, n), job.src + i, job.dst + i, 0, "none", total, carries)
        /\ Agree(total, Start(p) + f[n]) /\ carries <= n
  BY <1>1 DEF Working, Holding
<1>4. PICK z : z = C!finish(s) /\ z \in 0 .. C!Word - 1 /\ Agree(z, total)
  <2>1. carries < C!Word - 1
    <3>1. PICK w \in Nat : w = C!Word
      BY WordIs
    <3> QED
      BY <1>2, <1>3, <3>1
  <2> QED
    BY <1>3, <2>1, FinishIs
<1>5. Agree(z, Start(p) + f[n])
  BY <1>3, <1>4, AgreeTrans
<1>6. f[n] \in Nat /\ Adds(f, 0, Terms(old, a, p, n), n)
  <2>1. n \in 0 .. n
    OBVIOUS
  <2> QED
    BY <1>1, <2>1, TotalsAre DEF Calls, Totals
<1>7. PICK g : Adds(g, c, Terms(old, a, 0, n), n) /\ TrueSum(old, job) = g[n]
  <2>1. job.src \in Nat /\ job.len \in Nat
    BY <1>1
  <2>2. PICK g : /\ Adds(g, job.partial, Terms(old, job.src, 0, job.len), job.len)
                 /\ TrueSum(old, job) = g[job.len]
    BY <1>2, <2>1, TrueSumIs
  <2> QED
    BY <1>1, <2>2, Zenon
<1>8. (p % 2 = 1) = (p = 1) /\ p \in Nat
  OBVIOUS
<1>9. Start(p) = C!Turned(p % 2 = 1, c)
  BY <1>1, <1>8 DEF Start
<1>10. z = 0 <=> c = 0 /\ f[n] = 0
  <2>1. Start(p) \in Nat /\ (Start(p) = 0 <=> c = 0)
    BY <1>1, <1>2, StartIs
  <2> QED
    BY <1>5, <1>6, <2>1 DEF Agree
<1>11. Same(z, C!Turned(p % 2 = 1, c) + f[n], AllOnes)
  BY <1>5, <1>9, Zenon DEF Agree
<1>12. z \in 0 .. Byte^4 - 1
  BY <1>2, <1>4
<1>13. SameSum(C!Turned(p % 2 = 1, z), g[n])
  BY <1>2, <1>6, <1>7, <1>8, <1>10, <1>11, <1>12, TurnedSum
<1> QED
  BY <1>1, <1>4, <1>7, <1>8, <1>13

LEMMA EndIsRight ==
  ASSUME NEW old, NEW f, NEW par, Calls(old, f, par), NEW s, Ended(s, old, f, par)
  PROVE  Copies(old, C!Result(s, par = 1))
<1> DEFINE r == C!Result(s, par = 1)
           buffer == job.dst .. job.dst + job.len - 1
           legal  == job.srcEnd - job.src
           faults == job.len > 0 /\ job.srcEnd < job.src + job.len
<1>1. PICK n \in Nat, a \in Nat, d \in Nat, b \in Int, e \in Int :
        n = job.len /\ a = job.src /\ d = job.dst /\ b = job.srcEnd /\ e = job.dstEnd
  BY DEF Calls, Given
<1>2. /\ r.mem = C!Handled(s).mem /\ r.sum = C!Turned(par = 1, C!finish(s))
      /\ r.err = IF s.exc = "none" THEN 0 ELSE -14
  BY DEF C!Result, C!EFAULT
<1> HIDE DEF r
<1>3. CASE Failed(s, old)
  <2>1. /\ Recovered(old, r.mem) /\ s.exc # "none" /\ job.len > 0
        /\ (job.srcEnd < job.src + job.len \/ job.dstEnd < job.dst + job.len)
    BY <1>2, <1>3, FaultHandled DEF Calls
  <2>2. r.err # 0
    <3>1. r.err = -14
      BY <1>2, <2>1
    <3> QED
      BY <3>1
  <2>3. ~(job.len = 0 \/ (~faults /\ job.dstEnd >= job.dst + job.len))
    <3>1. n > 0 /\ (b < a + n \/ e < d + n)
      BY <1>1, <2>1
    <3>2. ~(n = 0) /\ ((n > 0 /\ b < a + n) \/ ~(e >= d + n))
      BY <3>1
    <3> QED
      BY <1>1, <3>2, Zenon
  <2>4. (r.err = 0) = (job.len = 0 \/ (~faults /\ job.dstEnd >= job.dst + job.len))
    BY <2>2, <2>3
  <2>5. \A x \in DOMAIN old \ buffer : r.mem[x] = old[x]
    BY <2>1 DEF Recovered, Framed
  <2>6. job.dstEnd >= job.dst + job.len => \A x \in buffer :
           /\ x - job.dst < legal => r.mem[x] = old[job.src + (x - job.dst)]
           /\ legal <= x - job.dst /\ legal <= SingleBytes(job) => r.mem[x] = 0
    <3> SUFFICES ASSUME job.dstEnd >= job.dst + job.len, NEW x \in buffer
                 PROVE  /\ x - job.dst < legal => r.mem[x] = old[job.src + (x - job.dst)]
                        /\ legal <= x - job.dst /\ legal <= SingleBytes(job) => r.mem[x] = 0
      OBVIOUS
    <3>1. \/ r.mem[x] = IF x - job.dst < legal THEN old[job.src + (x - job.dst)] ELSE 0
          \/ faults /\ legal > SingleBytes(job) /\ x - job.dst >= legal
      BY <2>1, Zenon DEF Recovered, MayLag
    <3>2. x - job.dst \in Int /\ legal \in Int /\ SingleBytes(job) \in Int
      <4>1. x \in d .. d + n - 1
        BY <1>1
      <4>2. x - d \in Int /\ b - a \in Int /\ n - (n % 4) \in Int
        BY <4>1
      <4> QED
        BY <1>1, <4>2 DEF SingleBytes
    <3>3. \A i, j \in Int : ~(i < j /\ i >= j) /\ ~(i <= j /\ i > j) /\ (i <= j => ~(j < i))
      OBVIOUS
    <3> QED
      BY <3>1, <3>2, <3>3, Zenon
  <2> QED
    BY <2>2, <2>4, <2>5, <2>6, Zenon DEF Copies, r
<1>4. CASE \E i \in 0 .. job.len : Working(s, old, f, par, i, job.len, 0)
  <2>1. PICK i \in 0 .. job.len : Working(s, old, f, par, i, job.len, 0)
    BY <1>4
  <2>2. s.mem = CopiedTo(old, job.len) /\ s.exc = "none"
    BY <2>1, HoldingFields DEF Working
  <2>3. C!Handled(s) = s
    BY <2>2 DEF C!Handled
  <2>4. r.mem = CopiedTo(old, job.len) /\ r.err = 0
    BY <1>2, <2>2, <2>3
  <2>5. SameSum(r.sum, TrueSum(old, job))
    BY <1>2, <2>1, SumIsTrue
  <2>6. n > 0 => a + n <= b /\ d + n <= e
    BY <1>1, <2>1, Zenon DEF Working, Reached
  <2>7. (r.err = 0) = (job.len = 0 \/ (~faults /\ job.dstEnd >= job.dst + job.len))
    <3>1. n = 0 \/ (~(n > 0 /\ b < a + n) /\ e >= d + n)
      BY <2>6
    <3> QED
      BY <1>1, <2>4, <3>1, Zenon
  <2>8. \A x \in DOMAIN old \ buffer : r.mem[x] = old[x]
    BY <2>4, Zenon DEF CopiedTo
  <2>9. \A x \in buffer : r.mem[x] = old[job.src + (x - job.dst)] /\ ~(legal <= x - job.dst)
    <3> TAKE x \in buffer
    <3>1. x \in DOMAIN old
      BY DEF Calls, Given
    <3>2. r.mem[x] = old[job.src + (x - job.dst)]
      BY <2>4, <3>1, Zenon DEF CopiedTo
    <3>3. ~(b - a <= x - d)
      <4>1. x \in d .. d + n - 1
        BY <1>1
      <4> QED
        BY <2>6, <4>1
    <3> QED
      BY <1>1, <3>2, <3>3, Zenon
  <2> QED
    BY <2>5, <2>7, <2>8, <2>9, Zenon DEF Copies, r
<1> QED
  BY <1>3, <1>4 DEF Ended

(* csum_partial_copy_user, for buffers of any length and alignment and any *)
(* pages that are missing: without a fault it copies the buffer, writes    *)
(* nothing else and returns the Internet checksum of it; after a fault it  *)
(* returns an error, and what could be read is in dst.  Zeroes follow it,  *)
(* if the fault comes no later than at the first byte of csum_bytes.       *)
THEOREM CsumCopyIsRight ==
  ASSUME NEW old, Given(old)
  PROVE  Copies(old, CopyReturns(old))
<1>1. PICK n \in Nat, d \in Nat : n = job.len /\ d = job.dst
  BY DEF Given
<1>2. PICK par \in {0, 1} : par = IF job.len >= 4 THEN job.dst % 2 ELSE 0
  <2>1. d % 2 \in {0, 1} /\ 0 \in {0, 1}
    BY Alignment
  <2> QED
    BY <1>1, <2>1
<1>3. PICK f : Adds(f, 0, Terms(old, job.src, par, job.len), job.len)
  <2>1. Added(0, Terms(old, job.src, par, job.len), job.len)
    BY <1>1, AddsExist
  <2> QED
    BY <2>1 DEF Added
<1>4. Calls(old, f, par)
  BY <1>2, <1>3 DEF Calls, Totals
<1> DEFINE turned == job.len >= C!NBYTES /\ C!Odd(job.dst) = 1
           s == Lanes(old, job.src, job.dst, job.len, "none", 0, 0, Start(par), 0)
           r == C!Result(C!Copied(s), par = 1)
<1>5. turned = (par = 1)
  <2>1. C!NBYTES = 4 /\ C!Odd(job.dst) = job.dst % 2
    BY DEF C!NBYTES, C!Odd
  <2> QED
    BY <1>2, <2>1
<1>6. C!csum_partial_copy_user(old, job.src, job.dst, job.len, job.partial, job.srcEnd, job.dstEnd) = r
  <2> HIDE DEF turned
  <2>1. Start(par) = C!Turned(turned, job.partial)
    BY <1>5 DEF Start
  <2>2. r = C!Result(C!Copied([mem |-> old, src |-> job.src, dst |-> job.dst, len |-> job.len, exc |-> "none",
                     srcEnd |-> job.srcEnd, dstEnd |-> job.dstEnd, sum0 |-> 0, carry0 |-> 0,
                     carry1 |-> 0, sum1 |-> C!Turned(turned, job.partial)]), turned)
    BY <1>5, <2>1 DEF Lanes
  <2> HIDE DEF r
  <2> QED
    BY <2>2, Zenon DEF C!csum_partial_copy_user, turned
<1>7. Ended(C!Copied(s), old, f, par)
  <2>1. Working(s, old, f, par, 0, 0, job.len)
    BY <1>4, CopyStarts
  <2> HIDE DEF s
  <2> QED
    BY <1>2, <1>4, <2>1, CopiedWorks
<1>8. Copies(old, r)
  <2> HIDE DEF s
  <2> QED
    BY <1>4, <1>7, EndIsRight
<1> HIDE DEF r
<1> QED
  BY <1>6, <1>8, Zenon DEF CopyReturns

(* The calls for which the memory of the property is large enough, of any  *)
(* place, length and alignment in it.                                      *)
SumCall ==
  /\ job.op = "csum_partial" /\ job.pattern \in Patterns /\ job.big \in BOOLEAN
  /\ job.src \in Nat /\ job.len \in 0 .. 2 * Byte^2 - 8 /\ job.src + job.len <= 141
  /\ job.partial \in 0 .. Byte^4 - 1
CopyCall ==
  /\ job.op = "csum_copy" /\ job.pattern \in Patterns /\ job.big \in BOOLEAN
  /\ job.src \in Nat /\ job.len \in Nat /\ job.src + job.len <= 141
  /\ job.dst \in Nat /\ job.dst + job.len <= 141
  /\ job.dst + job.len <= job.src \/ job.src + job.len <= job.dst
  /\ job.srcEnd \in Int /\ job.srcEnd % 4 = 0 /\ job.dstEnd \in Int
  /\ job.partial \in 0 .. Byte^4 - 1

LEMMA BytesAreOctets ==
  ASSUME NEW p \in Patterns
  PROVE  /\ Bytes(p) = [a \in 0 .. 140 |-> Bytes(p)[a]] /\ DOMAIN Bytes(p) = 0 .. 140
         /\ \A a \in 0 .. 140 : Bytes(p)[a] \in 0 .. Byte - 1
<1>1. Bytes(p) = [a \in 0 .. 140 |-> Bytes(p)[a]] /\ DOMAIN Bytes(p) = 0 .. 140
  <2> DEFINE b(a) == CASE p = "full"   -> Byte - 1
                       [] p = "zero"   -> 0
                       [] p = "mixed"  -> (a * a + a \div 3) % Byte
                       [] p = "sparse" -> IF a % 5 = 0 THEN 6 ELSE 0
  <2>1. Bytes(p) = [a \in 0 .. 140 |-> b(a)]
    BY Zenon DEF Bytes
  <2> HIDE DEF b
  <2> QED
    BY <2>1
<1>2. ASSUME NEW a \in 0 .. 140
      PROVE  Bytes(p)[a] \in 0 .. Byte - 1
  <2>1. Bytes(p)[a] = CASE p = "full"   -> Byte - 1
                        [] p = "zero"   -> 0
                        [] p = "mixed"  -> (a * a + a \div 3) % Byte
                        [] p = "sparse" -> IF a % 5 = 0 THEN 6 ELSE 0
    BY Zenon DEF Bytes
  <2>2. (a * a + a \div 3) % Byte \in 0 .. Byte - 1
    <3>1. PICK x \in Nat : x = a * a + a \div 3
      <4>1. a * a \in Nat /\ a \div 3 \in Nat
        OBVIOUS
      <4> QED
        BY <4>1
    <3>2. x % Byte \in 0 .. Byte - 1
      BY ByteAssumption
    <3> QED
      BY <3>1, <3>2
  <2>3. /\ Byte - 1 \in 0 .. Byte - 1 /\ 0 \in 0 .. Byte - 1
        /\ (IF a % 5 = 0 THEN 6 ELSE 0) \in 0 .. Byte - 1
    BY ByteAssumption
  <2> QED
    BY <2>1, <2>2, <2>3 DEF Patterns
<1> QED
  BY <1>1, <1>2

(* Both routines do so in every such call: the property of the run.        *)
THEOREM ChecksumsAreRight ==
  ASSUME SumCall \/ CopyCall
  PROVE  Checksums
<1> DEFINE mem == Bytes(job.pattern)
<1>1. /\ mem = [a \in 0 .. 140 |-> mem[a]] /\ DOMAIN mem = 0 .. 140
      /\ \A a \in 0 .. 140 : mem[a] \in 0 .. Byte - 1
  BY BytesAreOctets DEF SumCall, CopyCall
<1> HIDE DEF mem
<1>2. CASE SumCall
  <2>1. Octets(mem, job.src, job.len)
    <3>1. \A i \in job.src .. job.src + job.len - 1 : i \in 0 .. 140
      <4>1. job.src \in Nat /\ job.len \in Int /\ job.src + job.len <= 141
        <5>1. Byte^2 \in Nat
          <6>1. CASE Byte = 8
            BY <6>1, SMT
          <6>2. CASE Byte = 256
            BY <6>2, SMT
          <6> QED
            BY <6>1, <6>2, ByteAssumption
        <5> QED
          BY <1>2, <5>1 DEF SumCall
      <4> QED
        BY <4>1
    <3> QED
      BY <1>1, <3>1, Zenon DEF Octets
  <2>2. SameSum(C!csum_partial(mem, job.src, job.len, job.partial), TrueSum(mem, job))
    BY <1>2, <2>1, CsumPartialIsRight DEF SumCall
  <2>3. CsumSums
    BY <2>2, Zenon DEF CsumSums, mem
  <2>4. CopySums
    BY <1>2 DEF CopySums, Called, SumCall
  <2> QED
    BY <2>3, <2>4 DEF Checksums
<1>3. CASE CopyCall
  <2>1. PICK s \in Nat, d \in Nat, n \in Nat :
          /\ s = job.src /\ d = job.dst /\ n = job.len /\ s + n <= 141 /\ d + n <= 141
          /\ d + n <= s \/ s + n <= d
    BY <1>3 DEF CopyCall
  <2>2. /\ \A a \in s .. s + n - 1 : a \in 0 .. 140
        /\ \A a \in d .. d + n - 1 : a \in 0 .. 140 /\ ~(s <= a /\ a < s + n)
    BY <2>1
  <2>3. /\ \A a \in job.src .. job.src + job.len - 1 : a \in DOMAIN mem /\ mem[a] \in 0 .. Byte - 1
        /\ \A a \in job.dst .. job.dst + job.len - 1 :
             a \in DOMAIN mem /\ ~(job.src <= a /\ a < job.src + job.len)
    BY <1>1, <2>1, <2>2, Zenon
  <2>4. job.len < Byte^4 - 1
    <3>1. n <= 141
      BY <2>1
    <3>2. CASE Byte = 8
      <4>1. Byte^4 = 4096
        BY <3>2, SMT
      <4> QED
        BY <2>1, <3>1, <4>1
    <3>3. CASE Byte = 256
      <4>1. PICK w \in Nat : w = Byte^4 /\ w > 65536
        BY <3>3, SMT
      <4> QED
        BY <2>1, <3>1, <4>1
    <3> QED
      BY <3>2, <3>3, ByteAssumption
  <2>5. mem = [a \in DOMAIN mem |-> mem[a]]
    BY <1>1, Zenon
  <2>6. Given(mem)
    BY <1>3, <2>3, <2>4, <2>5 DEF Given, CopyCall
  <2>7. Copies(mem, CopyReturns(mem))
    BY <2>6, CsumCopyIsRight
  <2>8. CopySums
    BY <2>7, Zenon DEF CopySums, mem
  <2>9. CsumSums
    BY <1>3 DEF CsumSums, Called, CopyCall
  <2> QED
    BY <2>8, <2>9 DEF Checksums
<1> QED
  BY <1>2, <1>3

(***************************************************************************)
(* The unaligned handlers.  How many values n bytes have, and the numbers  *)
(* that fit in them.                                                       *)
(***************************************************************************)
Products(f, S) == f = [k \in S |-> IF k = 0 THEN 1 ELSE f[k - 1] * Byte]

LEMMA ProductsAgree ==
  ASSUME NEW n \in Nat, NEW m \in Nat, n <= m, NEW f, Products(f, 0 .. n), NEW g, Products(g, 0 .. m)
  PROVE  f[n] = g[n]
<1> DEFINE S == {k \in 0 .. n : f[k] = g[k]}
<1>1. \A k \in 0 .. n : f[k] = IF k = 0 THEN 1 ELSE f[k - 1] * Byte
  BY DEF Products
<1>2. \A k \in 0 .. n : g[k] = IF k = 0 THEN 1 ELSE g[k - 1] * Byte
  <2>1. \A k \in 0 .. m : g[k] = IF k = 0 THEN 1 ELSE g[k - 1] * Byte
    BY DEF Products
  <2>2. \A k \in 0 .. n : k \in 0 .. m
    OBVIOUS
  <2> QED
    BY <2>1, <2>2
<1>3. 0 \in S
  BY <1>1, <1>2
<1>4. ASSUME NEW k \in 1 .. n, k - 1 \in S
      PROVE  k \in S
  <2>1. k \in 0 .. n /\ k # 0
    OBVIOUS
  <2> QED
    BY <1>1, <1>2, <1>4, <2>1
<1> HIDE DEF S
<1>5. n \in S
  <2>1. n \in 0 .. n
    OBVIOUS
  <2> QED
    BY <1>3, <1>4, <2>1, Induction
<1> QED
  BY <1>5 DEF S

LEMMA ProductsExist ==
  ASSUME NEW n \in Nat
  PROVE  \E f : Products(f, 0 .. n)
<1> DEFINE S == {m \in Nat : \E f : Products(f, 0 .. m)}
<1>1. 0 \in S
  <2> DEFINE g == [k \in 0 .. 0 |-> 1]
  <2>1. g = [k \in 0 .. 0 |-> IF k = 0 THEN 1 ELSE g[k - 1] * Byte]
    <3>1. \A k \in 0 .. 0 : k = 0
      OBVIOUS
    <3> QED
      BY <3>1
  <2> QED
    BY <2>1 DEF Products
<1>2. ASSUME NEW m \in 1 .. n, m - 1 \in S
      PROVE  m \in S
  <2>1. PICK f : Products(f, 0 .. m - 1)
    BY <1>2
  <2> DEFINE g == [k \in 0 .. m |-> IF k = m THEN f[m - 1] * Byte ELSE f[k]]
  <2>2. ASSUME NEW k \in 0 .. m
        PROVE  g[k] = IF k = 0 THEN 1 ELSE g[k - 1] * Byte
    <3>1. \A j \in 0 .. m - 1 : f[j] = IF j = 0 THEN 1 ELSE f[j - 1] * Byte
      BY <2>1 DEF Products
    <3>2. CASE k = m
      <4>1. k # 0 /\ k - 1 \in 0 .. m /\ k - 1 # m
        BY <3>2
      <4> QED
        BY <3>2, <4>1
    <3>3. CASE k # m
      <4>1. k \in 0 .. m - 1 /\ (k # 0 => k - 1 \in 0 .. m /\ k - 1 # m)
        BY <3>3
      <4> QED
        BY <3>1, <3>3, <4>1
    <3> QED
      BY <3>2, <3>3
  <2>3. g = [k \in 0 .. m |-> g[k]]
    OBVIOUS
  <2> HIDE DEF g
  <2>4. Products(g, 0 .. m)
    BY <2>2, <2>3 DEF Products
  <2> QED
    BY <2>4
<1> HIDE DEF S
<1>3. n \in S
  <2>1. n \in 0 .. n
    OBVIOUS
  <2> QED
    BY <1>1, <1>2, <2>1, Induction
<1> QED
  BY <1>3 DEF S

LEMMA ValuesAre ==
  /\ U!Values[0] = 1
  /\ \A n \in Nat \ {0} : U!Values[n] = U!Values[n - 1] * Byte
<1> DEFINE upto(n) == CHOOSE f : Products(f, 0 .. n)
           g == [n \in Nat |-> upto(n)[n]]
           values == CHOOSE f : Products(f, Nat)
<1>1. ASSUME NEW n \in Nat
      PROVE  g[n] = IF n = 0 THEN 1 ELSE g[n - 1] * Byte
  <2>1. Products(upto(n), 0 .. n)
    BY ProductsExist
  <2>2. upto(n)[n] = IF n = 0 THEN 1 ELSE upto(n)[n - 1] * Byte
    <3>1. n \in 0 .. n
      OBVIOUS
    <3> HIDE DEF upto
    <3> QED
      BY <2>1, <3>1 DEF Products
  <2>3. CASE n = 0
    BY <2>2, <2>3
  <2>4. CASE n # 0
    <3>1. PICK m \in Nat : m = n - 1 /\ m <= n
      BY <2>4
    <3>2. Products(upto(m), 0 .. m)
      BY ProductsExist
    <3>3. PICK f : f = upto(n) /\ Products(f, 0 .. n)
      BY <2>1
    <3>4. PICK h : h = upto(m) /\ Products(h, 0 .. m)
      BY <3>2
    <3>5. h[m] = f[m]
      BY <3>1, <3>3, <3>4, ProductsAgree
    <3>6. g[n] = f[n] /\ g[m] = h[m] /\ f[n] = f[n - 1] * Byte
      BY <2>2, <2>4, <3>3, <3>4
    <3> QED
      BY <2>4, <3>1, <3>5, <3>6
  <2> QED
    BY <2>3, <2>4
<1>2. g = [n \in Nat |-> g[n]]
  OBVIOUS
<1> HIDE DEF g
<1>3. Products(g, Nat)
  BY <1>1, <1>2 DEF Products
<1>4. Products(values, Nat)
  BY <1>3
<1>5. values = U!Values
  BY Zenon DEF U!Values, Products
<1> HIDE DEF values
<1>6. \A n \in Nat : values[n] = IF n = 0 THEN 1 ELSE values[n - 1] * Byte
  BY <1>4 DEF Products
<1> QED
  BY <1>5, <1>6

(* They are even, and more for more bytes.                                 *)
LEMMA ValuesGrow ==
  ASSUME NEW n \in Nat
  PROVE  /\ U!Values[n] \in Nat /\ U!Values[n] >= 1
         /\ n > 0 => /\ U!Values[n] = 2 * (U!Values[n] \div 2) /\ U!Values[n] \div 2 \in Nat
                     /\ U!Values[n] >= 8 * U!Values[n - 1]
<1> DEFINE S == {k \in Nat : U!Values[k] \in Nat /\ U!Values[k] >= 1}
<1>1. 0 \in S
  BY ValuesAre
<1>2. ASSUME NEW k \in 1 .. n, k - 1 \in S
      PROVE  k \in S
  <2>1. U!Values[k] = U!Values[k - 1] * Byte
    BY ValuesAre
  <2>2. PICK v \in Nat : v = U!Values[k - 1] /\ v >= 1
    BY <1>2
  <2>3. v * Byte \in Nat /\ v * Byte >= 1
    BY <2>2, ByteAssumption
  <2> QED
    BY <2>1, <2>2, <2>3
<1> HIDE DEF S
<1>3. \A k \in 0 .. n : k \in S
  BY <1>1, <1>2, Induction
<1>4. ASSUME n > 0
      PROVE  /\ U!Values[n] = 2 * (U!Values[n] \div 2) /\ U!Values[n] \div 2 \in Nat
             /\ U!Values[n] >= 8 * U!Values[n - 1]
  <2>1. PICK v \in Nat : v = U!Values[n - 1]
    <3>1. n - 1 \in 0 .. n
      BY <1>4
    <3> QED
      BY <1>3, <3>1 DEF S
  <2>2. U!Values[n] = v * Byte
    BY <1>4, <2>1, ValuesAre
  <2>3. v * Byte = 2 * ((v * Byte) \div 2) /\ (v * Byte) \div 2 \in Nat /\ v * Byte >= 8 * v
    <3>1. CASE Byte = 8
      BY <3>1
    <3>2. CASE Byte = 256
      BY <3>2
    <3> QED
      BY <3>1, <3>2, ByteAssumption
  <2> QED
    BY <2>1, <2>2, <2>3
<1>5. n \in S
  <2>1. n \in 0 .. n
    OBVIOUS
  <2> QED
    BY <1>3, <2>1
<1> QED
  BY <1>4, <1>5 DEF S

(* Such a number is what it is when it is cut to n bytes, and any other is *)
(* not.                                                                    *)
LEMMA SignedIs ==
  ASSUME NEW n \in Nat \ {0}, NEW v \in Int
  PROVE  U!Signed(v, n) = v <=> Fits(v, n)
<1>1. PICK m \in Nat, h \in Nat : m = U!Values[n] /\ h = m \div 2 /\ m = 2 * h /\ h >= 1
  <2>1. n \in Nat /\ n > 0
    OBVIOUS
  <2>2. U!Values[n] \in Nat /\ U!Values[n] >= 1 /\ U!Values[n] = 2 * (U!Values[n] \div 2)
        /\ U!Values[n] \div 2 \in Nat
    BY <2>1, ValuesGrow
  <2> QED
    BY <2>2
<1>2. PICK u \in 0 .. m - 1, q \in Int : u = v % m /\ v = q * m + u
  <2>1. m \in Nat \ {0}
    BY <1>1
  <2> QED
    BY <2>1, Division
<1>3. U!Signed(v, n) = IF u < h THEN u ELSE u - m
  BY <1>1, <1>2, Zenon DEF U!Signed
<1>4. Fits(v, n) <=> -m <= 2 * v /\ 2 * v < m
  BY <1>1, Zenon DEF Fits
<1>5. (IF u < h THEN u ELSE u - m) = v <=> -m <= 2 * v /\ 2 * v < m
  <2>1. CASE q >= 1
    <3>1. PICK p \in Int : p = q * m /\ p >= m
      BY <1>1, <2>1
    <3>2. v = p + u /\ u >= 0 /\ u < m
      BY <1>2, <3>1
    <3> QED
      BY <1>1, <3>1, <3>2
  <2>2. CASE q = 0
    BY <1>1, <1>2, <2>2
  <2>3. CASE q = -1
    <3>1. v = u - m
      BY <1>1, <1>2, <2>3
    <3> QED
      BY <1>1, <3>1
  <2>4. CASE q <= -2
    <3>1. PICK p \in Int : p = q * m /\ p <= -2 * m
      BY <1>1, <2>4
    <3>2. v = p + u /\ u >= 0 /\ u < m
      BY <1>2, <3>1
    <3> QED
      BY <1>1, <3>1, <3>2
  <2> QED
    BY <2>1, <2>2, <2>3, <2>4
<1> QED
  BY <1>3, <1>4, <1>5

LEMMA FourInEight ==
  ASSUME NEW v \in Int, Fits(v, 4)
  PROVE  Fits(v, 8)
<1>1. /\ U!Values[4] \in Nat /\ U!Values[5] \in Nat /\ U!Values[6] \in Nat /\ U!Values[7] \in Nat
      /\ U!Values[8] \in Nat
      /\ U!Values[5] >= 8 * U!Values[4] /\ U!Values[6] >= 8 * U!Values[5]
      /\ U!Values[7] >= 8 * U!Values[6] /\ U!Values[8] >= 8 * U!Values[7]
  <2>1. 5 - 1 = 4 /\ 6 - 1 = 5 /\ 7 - 1 = 6 /\ 8 - 1 = 7
    OBVIOUS
  <2> QED
    BY <2>1, ValuesGrow
<1>2. -U!Values[4] <= 2 * v /\ 2 * v < U!Values[4]
  BY Zenon DEF Fits
<1>3. -U!Values[8] <= 2 * v /\ 2 * v < U!Values[8]
  BY <1>1, <1>2
<1> QED
  BY <1>3, Zenon DEF Fits

(* Numbers that a pointer can hold, of four or of eight bytes.             *)
LEMMA PointersAre ==
  ASSUME NEW v \in Int
  PROVE  /\ Fits(v, 4) => U!Pointer(v) = v /\ ~U!Narrow(v)
         /\ job.abi = "n64" /\ Fits(v, 8) => U!Pointer(v) = v /\ ~U!Narrow(v)
         /\ job.abi # "n64" /\ ~Fits(v, 4) => U!Narrow(v)
<1>1. U!Pointer(v) = U!Signed(v, IF job.abi = "n64" THEN 8 ELSE 4)
  BY Zenon DEF U!Pointer
<1>2. U!Narrow(v) <=> U!Pointer(v) # v
  BY Zenon DEF U!Narrow
<1>3. (U!Signed(v, 8) = v <=> Fits(v, 8)) /\ (U!Signed(v, 4) = v <=> Fits(v, 4))
  BY SignedIs
<1>4. Fits(v, 4) => Fits(v, 8)
  BY FourInEight
<1> QED
  BY <1>1, <1>2, <1>3, <1>4, Zenon

(* What a load reads, byte by byte from the most significant one.          *)
BytesRead(f, mem, a, n) ==
  f = [i \in 0 .. n |-> IF i = 0 THEN 0 ELSE f[i - 1] * Byte + mem[a + i - 1]]

LEMMA ReadExists ==
  ASSUME NEW n \in Nat, NEW mem, NEW a
  PROVE  \E f : BytesRead(f, mem, a, n)
<1> DEFINE S == {m \in Nat : \E f : BytesRead(f, mem, a, m)}
<1>1. 0 \in S
  <2> DEFINE g == [k \in 0 .. 0 |-> 0]
  <2>1. g = [k \in 0 .. 0 |-> IF k = 0 THEN 0 ELSE g[k - 1] * Byte + mem[a + k - 1]]
    <3>1. \A k \in 0 .. 0 : k = 0
      OBVIOUS
    <3> QED
      BY <3>1
  <2> QED
    BY <2>1 DEF BytesRead
<1>2. ASSUME NEW m \in 1 .. n, m - 1 \in S
      PROVE  m \in S
  <2>1. PICK f : BytesRead(f, mem, a, m - 1)
    BY <1>2
  <2> DEFINE g == [k \in 0 .. m |-> IF k = m THEN f[m - 1] * Byte + mem[a + m - 1] ELSE f[k]]
  <2>2. ASSUME NEW k \in 0 .. m
        PROVE  g[k] = IF k = 0 THEN 0 ELSE g[k - 1] * Byte + mem[a + k - 1]
    <3>1. \A j \in 0 .. m - 1 : f[j] = IF j = 0 THEN 0 ELSE f[j - 1] * Byte + mem[a + j - 1]
      BY <2>1 DEF BytesRead
    <3>2. CASE k = m
      <4>1. k # 0 /\ k - 1 \in 0 .. m /\ k - 1 # m
        BY <3>2
      <4> QED
        BY <3>2, <4>1
    <3>3. CASE k # m
      <4>1. k \in 0 .. m - 1 /\ (k # 0 => k - 1 \in 0 .. m /\ k - 1 # m)
        BY <3>3
      <4> QED
        BY <3>1, <3>3, <4>1
    <3> QED
      BY <3>2, <3>3
  <2>3. g = [k \in 0 .. m |-> g[k]]
    OBVIOUS
  <2> HIDE DEF g
  <2>4. BytesRead(g, mem, a, m)
    BY <2>2, <2>3 DEF BytesRead
  <2> QED
    BY <2>4
<1> HIDE DEF S
<1>3. n \in S
  <2>1. n \in 0 .. n
    OBVIOUS
  <2> QED
    BY <1>1, <1>2, <2>1, Induction
<1> QED
  BY <1>3 DEF S

(* It fits in its bytes, and its first byte is its sign.                   *)
LEMMA ReadFits ==
  ASSUME NEW n \in Nat \ {0}, NEW mem, NEW a \in Int, \A i \in a .. a + n - 1 : mem[i] \in 0 .. Byte - 1,
         NEW f, BytesRead(f, mem, a, n)
  PROVE  f[n] \in 0 .. U!Values[n] - 1 /\ (2 * f[n] < U!Values[n] <=> 2 * mem[a] < Byte)
<1> DEFINE S == {k \in 1 .. n : /\ f[k] \in 0 .. U!Values[k] - 1
                                /\ 2 * f[k] < U!Values[k] <=> 2 * mem[a] < Byte}
           Z == S \union {0}
<1>1. \A k \in 0 .. n : f[k] = IF k = 0 THEN 0 ELSE f[k - 1] * Byte + mem[a + k - 1]
  BY DEF BytesRead
<1>2. \A k \in 1 .. n : mem[a + k - 1] \in 0 .. Byte - 1
  <2>1. \A k \in 1 .. n : a + k - 1 \in a .. a + n - 1
    OBVIOUS
  <2> QED
    BY <2>1
<1>3. ASSUME NEW k \in 1 .. n, k - 1 \in Z
      PROVE  k \in Z
  <2>1. PICK m \in 0 .. Byte - 1 : m = mem[a + k - 1]
    BY <1>2
  <2>2. f[k] = f[k - 1] * Byte + m /\ U!Values[k] = U!Values[k - 1] * Byte
    <3>1. k \in 0 .. n /\ k # 0 /\ k \in Nat \ {0}
      OBVIOUS
    <3>2. U!Values[k] = U!Values[k - 1] * Byte
      BY <3>1, ValuesAre
    <3> QED
      BY <1>1, <2>1, <3>1, <3>2
  <2>3. CASE k = 1
    <3>1. f[0] = 0 /\ U!Values[0] = 1 /\ a + k - 1 = a /\ k - 1 = 0
      BY <1>1, <2>3, ValuesAre
    <3>2. f[k] = m /\ U!Values[k] = Byte /\ m = mem[a]
      BY <2>1, <2>2, <3>1, ByteAssumption
    <3> QED
      BY <3>2
  <2>4. CASE k # 1
    <3>1. k - 1 \in S /\ k - 1 \in Nat /\ k - 1 > 0
      BY <1>3, <2>4
    <3>2. PICK v \in Nat, h \in Nat : v = U!Values[k - 1] /\ v = 2 * h
      <4>1. U!Values[k - 1] \in Nat /\ U!Values[k - 1] = 2 * (U!Values[k - 1] \div 2)
            /\ U!Values[k - 1] \div 2 \in Nat
        BY <3>1, ValuesGrow
      <4> QED
        BY <4>1
    <3>3. PICK x \in Nat : x = f[k - 1] /\ x < v /\ (2 * x < v <=> 2 * mem[a] < Byte)
      <4>1. /\ f[k - 1] \in 0 .. U!Values[k - 1] - 1
            /\ 2 * f[k - 1] < U!Values[k - 1] <=> 2 * mem[a] < Byte
        BY <3>1, Zenon
      <4> QED
        BY <3>2, <4>1
    <3>4. x * Byte + m \in 0 .. v * Byte - 1 /\ (2 * (x * Byte + m) < v * Byte <=> 2 * x < v)
      <4>1. CASE Byte = 8
        BY <3>2, <3>3, <4>1
      <4>2. CASE Byte = 256
        BY <3>2, <3>3, <4>2
      <4> QED
        BY <4>1, <4>2, ByteAssumption
    <3>5. /\ f[k] \in 0 .. U!Values[k] - 1
          /\ 2 * f[k] < U!Values[k] <=> 2 * mem[a] < Byte
      BY <2>2, <3>2, <3>3, <3>4
    <3> QED
      BY <3>5
  <2> QED
    BY <2>3, <2>4
<1> HIDE DEF S
<1>4. n \in Z
  <2>1. n \in 0 .. n /\ 0 \in Z /\ n \in Nat
    OBVIOUS
  <2> HIDE DEF Z
  <2> QED
    BY <1>3, <2>1, Induction
<1> QED
  BY <1>4 DEF S

(* The handler loads what the processor would.                             *)
LEMMA LoadIsRight ==
  ASSUME NEW op \in {"LH", "LHU", "LW", "LWU", "LD"}, NEW mem, NEW a \in Int,
         \A i \in a .. a + 7 : mem[i] \in 0 .. Byte - 1
  PROVE  Loaded(mem, a, op) = LET v == U!COPYIN(mem, a, U!Width[op])
                              IN  IF op \in {"LHU", "LWU"} THEN v ELSE U!Signed(v, U!Width[op])
<1>1. PICK n \in {2, 4, 8} : n = Size(op) /\ n = U!Width[op]
  BY DEF Size, U!Width
<1> DEFINE f == CHOOSE g : BytesRead(g, mem, a, n)
<1>2. BytesRead(f, mem, a, n)
  BY ReadExists
<1>3. U!COPYIN(mem, a, n) = f[n]
  BY Zenon DEF U!COPYIN, BytesRead
<1>4. Loaded(mem, a, op) = IF op \in {"LHU", "LWU"} \/ mem[a] < Byte \div 2 THEN f[n] ELSE f[n] - U!Values[n]
  <2>1. Loaded(mem, a, op)
        = LET m == Size(op)
              g == CHOOSE h : BytesRead(h, mem, a, m)
          IN  IF op \in {"LHU", "LWU"} \/ mem[a] < Byte \div 2 THEN g[m] ELSE g[m] - U!Values[m]
    BY Zenon DEF Loaded, BytesRead
  <2> QED
    BY <1>1, <2>1, Zenon
<1> HIDE DEF f
<1>5. f[n] \in 0 .. U!Values[n] - 1 /\ (2 * f[n] < U!Values[n] <=> 2 * mem[a] < Byte)
  <2>1. n \in Nat \ {0} /\ \A i \in a .. a + n - 1 : mem[i] \in 0 .. Byte - 1
    OBVIOUS
  <2> QED
    BY <1>2, <2>1, ReadFits
<1>6. PICK m \in Nat, h \in Nat : m = U!Values[n] /\ h = m \div 2 /\ m = 2 * h
  <2>1. n \in Nat /\ n > 0
    OBVIOUS
  <2> QED
    BY <2>1, ValuesGrow
<1>7. PICK x \in Nat : x = f[n] /\ x < m
  BY <1>5, <1>6
<1>8. x % m = x
  BY <1>7
<1>9. U!Signed(x, n) = IF x < h THEN x ELSE x - m
  BY <1>6, <1>8, Zenon DEF U!Signed
<1>10. x < h <=> mem[a] < Byte \div 2
  <2>1. PICK b \in 0 .. Byte - 1 : b = mem[a]
    OBVIOUS
  <2>2. 2 * b < Byte <=> b < Byte \div 2
    BY ByteAssumption
  <2>3. x < h <=> 2 * x < m
    BY <1>6
  <2> QED
    BY <1>5, <1>6, <1>7, <2>1, <2>2, <2>3
<1> QED
  BY <1>1, <1>3, <1>4, <1>6, <1>7, <1>9, <1>10, Zenon

(***************************************************************************)
(* Any trap: any branch whose target is an address, of any operands, and   *)
(* any access behind it whose base is in a register of its own.            *)
(***************************************************************************)
Registers == {1, 2, 3, 31}
IsAddress(v) == Fits(v, IF job.abi = "n64" THEN 8 ELSE 4)

AnyFrame == [pc : {60}, bd : BOOLEAN, ccodes : SUBSET Nat, regs : [Registers -> Int]]
AnyBranch ==
  [op : Ones, rs : Registers, rt : Registers, imm : {i \in Int : IsAddress(64 + 4 * i)}]
  \union [op : {"J", "JAL"}, index : 0 .. 15]
  \union [op : {"JR"}, rs : Registers] \union [op : {"JALR"}, rs : Registers, rd : Registers]
  \union {b \in [op : {"BC1"}, cc : Nat, any : {1, 2, 4}, tf : BOOLEAN, nd : BOOLEAN,
                 imm : {i \in Int : IsAddress(64 + 4 * i)}] : b.nd => b.any = 1}
  \union [op : {"SYSCALL"}]
AnySlot ==
  [op : {"LH", "LHU", "LW", "LWU", "LD", "SH", "SW", "SD", "LB"},
   rs : {3}, rt : {0} \union Registers, imm : Int]

(* The branch is carried out so far, and the access can be.                *)
Possible(ef, b, a) ==
  /\ IsLikely(b) => Taken(b, ef.regs, ef.ccodes)
  /\ b.op \in {"JR", "JALR"} => IsAddress(ef.regs[b.rs])
  /\ job.abi = "n64" => IsAddress(ef.regs[3])
  /\ IsAddress(ef.regs[3]) => IsAddress(ef.regs[3] + a.imm)

LEMMA AddressesAre ==
  ASSUME NEW v \in Int
  PROVE  /\ IsAddress(v) => U!Pointer(v) = v /\ ~U!Narrow(v)
         /\ Fits(v, 4) => IsAddress(v)
<1>1. job.abi = "n64" => (IsAddress(v) <=> Fits(v, 8))
  BY Zenon DEF IsAddress
<1>2. job.abi # "n64" => (IsAddress(v) <=> Fits(v, 4))
  BY Zenon DEF IsAddress
<1>3. Fits(v, 4) => Fits(v, 8)
  BY FourInEight
<1> QED
  BY <1>1, <1>2, <1>3, PointersAre, Zenon

Small == 0 .. 2047

LEMMA SmallAddress ==
  ASSUME NEW v \in Small
  PROVE  v \in Int /\ Fits(v, 4) /\ IsAddress(v)
<1>1. /\ U!Values[0] = 1 /\ U!Values[1] >= 8 * U!Values[0] /\ U!Values[2] >= 8 * U!Values[1]
      /\ U!Values[3] >= 8 * U!Values[2] /\ U!Values[4] >= 8 * U!Values[3]
      /\ U!Values[1] \in Nat /\ U!Values[2] \in Nat /\ U!Values[3] \in Nat /\ U!Values[4] \in Nat
  <2>1. 1 - 1 = 0 /\ 2 - 1 = 1 /\ 3 - 1 = 2 /\ 4 - 1 = 3
    OBVIOUS
  <2> QED
    BY <2>1, ValuesAre, ValuesGrow
<1>2. -U!Values[4] <= 2 * v /\ 2 * v < U!Values[4] /\ v \in Int
  BY <1>1 DEF Small
<1>3. Fits(v, 4)
  BY <1>2, Zenon DEF Fits
<1> QED
  BY <1>2, <1>3, AddressesAre

LEMMA ConditionIs ==
  ASSUME NEW ef \in AnyFrame, NEW b \in AnyBranch, IsLikely(b) => Taken(b, ef.regs, ef.ccodes),
         b.op \in U!Conditional
  PROVE  U!Condition(ef, b) <=> Taken(b, ef.regs, ef.ccodes)
<1>1. CASE b.op = "BC1"
  <2>1. U!Condition(ef, b) <=> U!CopCondition(b, ef.ccodes)
    BY <1>1 DEF U!Condition, U!Likely
  <2>2. Taken(b, ef.regs, ef.ccodes) <=> \E c \in b.cc .. b.cc + b.any - 1 : (c \in ef.ccodes) = b.tf
    BY <1>1 DEF Taken
  <2>3. U!CopCondition(b, ef.ccodes)
        <=> b.nd \/ \E c \in b.cc .. b.cc + b.any - 1 : (c \in ef.ccodes) = b.tf
    BY Zenon DEF U!CopCondition, U!CodesOfBranch
  <2>4. b.nd => IsLikely(b)
    BY <1>1, Zenon DEF IsLikely
  <2> QED
    BY <2>1, <2>2, <2>3, <2>4, Zenon
<1>2. CASE b.op \in Ones
  <2>1. b.rs \in Registers /\ b.rt \in Registers
    BY <1>2 DEF AnyBranch, Ones
  <2>2. PICK s \in Int, t \in Int : s = ef.regs[b.rs] /\ t = ef.regs[b.rt]
    BY <2>1 DEF AnyFrame
  <2>3. U!GET_EXC_REG(ef.regs, b.rs) = s /\ U!GET_EXC_REG(ef.regs, b.rt) = t
    BY <2>1, <2>2 DEF U!GET_EXC_REG, Registers
  <2>4. U!Condition(ef, b) <=>
          \/ b.op \in U!Likely
          \/ b.op \in {"BLTZ", "BLTZAL"} /\ s < 0
          \/ b.op \in {"BGEZ", "BGEZAL"} /\ s >= 0
          \/ b.op = "BEQ" /\ s = t
          \/ b.op = "BNE" /\ s # t
          \/ b.op = "BLEZ" /\ s <= 0
          \/ b.op = "BGTZ" /\ s > 0
    BY <1>2, <2>3 DEF U!Condition, Ones
  <2>5. b.op \in U!Likely => Taken(b, ef.regs, ef.ccodes)
    BY DEF IsLikely
  <2>6. b.op \notin U!Likely =>
          (Taken(b, ef.regs, ef.ccodes) <=>
             \/ b.op \in {"BLTZ", "BLTZAL"} /\ s < 0
             \/ b.op \in {"BGEZ", "BGEZAL"} /\ s >= 0
             \/ b.op = "BEQ" /\ s = t
             \/ b.op = "BNE" /\ s # t
             \/ b.op = "BLEZ" /\ s <= 0
             \/ b.op = "BGTZ" /\ s > 0)
    BY <1>2, <2>2 DEF Taken, U!Likely, Ones
  <2> QED
    BY <2>4, <2>5, <2>6, Zenon
<1> QED
  BY <1>1, <1>2 DEF U!Conditional, U!Likely, Ones

(* What is in the text.                                                    *)
LEMMA TextIs ==
  ASSUME NEW ef, NEW b, NEW a, ef.bd
  PROVE  Text(ef, b, a)[60] = b /\ Text(ef, b, a)[64] = a
<1>1. Text(ef, b, a) = [x \in {60} \union {64} |-> IF x = 60 THEN b ELSE a]
  BY Zenon DEF Text
<1> QED
  BY <1>1

LEMMA OnlyTextIs ==
  ASSUME NEW ef, NEW b, NEW a, ~ef.bd
  PROVE  Text(ef, b, a)[60] = a
<1>1. Text(ef, b, a) = [x \in {60} \union {} |-> a]
  BY Zenon DEF Text
<1> QED
  BY <1>1

Links(ef, b) ==
  ef.bd /\ b.op \in {"JAL", "JALR"} \union U!LinksIfTaken /\ Taken(b, ef.regs, ef.ccodes)

GoesTo(g, pc, ra) == g.ok /\ g.pc = pc /\ g.ra = ra

(* The three cases of calculate_next_pc.                                   *)
NextOf(g, ef, pc, bd, text) ==
  /\ ~bd => g = U!Goes(pc + 4, FALSE)
  /\ bd /\ U!Recognised(text[pc]) => g = U!Branch(ef, pc, text[pc])
  /\ bd /\ ~U!Recognised(text[pc]) => g = [ok |-> FALSE, pc |-> pc, ra |-> FALSE]

LEMMA NextCases ==
  ASSUME NEW ef, NEW pc, NEW bd, NEW text
  PROVE  NextOf(U!calculate_next_pc(ef, pc, bd, text), ef, pc, bd, text)
BY Zenon DEF U!calculate_next_pc, NextOf

(* The handler goes on where the processor would.                          *)
LEMMA NextIs ==
  ASSUME NEW ef \in AnyFrame, NEW b \in AnyBranch, NEW a, Possible(ef, b, a)
  PROVE  LET next == U!calculate_next_pc(ef, 60, ef.bd, Text(ef, b, a))
         IN  IF ef.bd /\ b.op = "SYSCALL" THEN ~next.ok
             ELSE GoesTo(next, NextPC(ef, b), Links(ef, b))
<1> DEFINE next == U!calculate_next_pc(ef, 60, ef.bd, Text(ef, b, a))
<1>0. /\ ~ef.bd => next = U!Goes(60 + 4, FALSE)
      /\ ef.bd /\ U!Recognised(Text(ef, b, a)[60]) => next = U!Branch(ef, 60, Text(ef, b, a)[60])
      /\ ef.bd /\ ~U!Recognised(Text(ef, b, a)[60]) => next = [ok |-> FALSE, pc |-> 60, ra |-> FALSE]
  <2>1. NextOf(next, ef, 60, ef.bd, Text(ef, b, a))
    BY ONLY NextCases DEF next
  <2> HIDE DEF next
  <2> QED
    BY ONLY <2>1 DEF NextOf
<1> HIDE DEF next
<1>1. ef.bd \in BOOLEAN /\ ef.pc = 60 /\ ef.regs \in [Registers -> Int]
  BY DEF AnyFrame
<1>2. ASSUME NEW pc \in Int, NEW ra \in BOOLEAN, IsAddress(pc)
      PROVE  GoesTo(U!Goes(pc, ra), pc, ra)
  <2>1. U!Pointer(pc) = pc
    BY <1>2, AddressesAre
  <2> QED
    BY <2>1 DEF U!Goes, GoesTo
<1>3. CASE ~ef.bd
  <2>1. next = U!Goes(60 + 4, FALSE)
    BY ONLY <1>0, <1>3
  <2>2. IsAddress(64) /\ 60 + 4 = 64 /\ 64 \in Int
    <3>1. 64 \in Small /\ 60 + 4 = 64
      BY DEF Small
    <3> QED
      BY <3>1, SmallAddress
  <2>3. GoesTo(next, 64, FALSE)
    <3>1. FALSE \in BOOLEAN
      OBVIOUS
    <3> QED
      BY <1>2, <2>1, <2>2, <3>1, Zenon
  <2>4. NextPC(ef, b) = 64
    BY <1>1, <1>3 DEF NextPC
  <2>5. Links(ef, b) = FALSE
    BY <1>3 DEF Links
  <2> QED
    BY <1>3, <2>3, <2>4, <2>5, Zenon DEF next
<1>4. CASE ef.bd /\ b.op = "SYSCALL"
  <2>1. ~U!Recognised(b)
    BY <1>4 DEF U!Recognised, U!Conditional, U!Likely
  <2>2. next = [ok |-> FALSE, pc |-> 60, ra |-> FALSE]
    <3>1. Text(ef, b, a)[60] = b
      BY ONLY <1>4, TextIs
    <3> QED
      BY ONLY <1>0, <1>4, <2>1, <3>1
  <2>3. ~next.ok
    BY <2>2
  <2> QED
    BY <1>4, <2>3, Zenon DEF next
<1>5. CASE ef.bd /\ b.op # "SYSCALL"
  <2>1. \/ b.op \in {"J", "JAL"} /\ b.index \in 0 .. 15
        \/ b.op \in {"JR", "JALR"} /\ b.rs \in Registers
        \/ b.op \in U!Conditional /\ b.imm \in Int /\ IsAddress(64 + 4 * b.imm)
           /\ (b.op = "BC1" => (b.nd => b.any = 1))
    BY <1>5 DEF AnyBranch, Ones, U!Conditional, U!Likely
  <2>2. U!Recognised(b)
    BY <2>1 DEF U!Recognised, U!CopRecognised, U!Conditional, U!Likely
  <2>3. next = U!Branch(ef, 60, b)
    <3>1. Text(ef, b, a)[60] = b
      BY ONLY <1>5, TextIs
    <3> QED
      BY ONLY <1>0, <1>5, <2>2, <3>1
  <2>4. CASE b.op \in {"J", "JAL"}
    <3>1. next = U!Goes(U!Jump(60, b), b.op = "JAL")
      <4>1. ~(b.op \in {"JR", "JALR"}) /\ ~(b.op \in U!Conditional)
        BY <2>4 DEF U!Conditional, U!Likely
      <4>2. U!Branch(ef, 60, b) = U!Goes(U!Jump(60, b), b.op = "JAL")
        BY <2>4, <4>1 DEF U!Branch
      <4> QED
        BY <2>3, <4>2, Zenon
    <3>2. U!Jump(60, b) = 64 + 4 * b.index /\ U!Jump(60, b) \in Small
      BY <2>1, <2>4 DEF Small, U!Jump, U!Conditional, U!Likely
    <3>3. NextPC(ef, b) = 64 + 4 * b.index
      BY <1>1, <1>5, <2>4 DEF NextPC
    <3>4. Links(ef, b) = (b.op = "JAL")
      <4>1. Taken(b, ef.regs, ef.ccodes)
        BY <2>4 DEF Taken
      <4>2. b.op \in {"JAL", "JALR"} \union U!LinksIfTaken <=> b.op = "JAL"
        BY <2>4 DEF U!LinksIfTaken
      <4> QED
        BY <1>5, <4>1, <4>2 DEF Links
    <3>5. GoesTo(next, U!Jump(60, b), b.op = "JAL")
      <4>1. U!Jump(60, b) \in Int /\ IsAddress(U!Jump(60, b))
        BY <3>2, SmallAddress
      <4>2. (b.op = "JAL") \in BOOLEAN
        OBVIOUS
      <4> QED
        BY <1>2, <3>1, <4>1, <4>2, Zenon
    <3> QED
      BY <1>5, <3>2, <3>3, <3>4, <3>5, Zenon DEF next
  <2>5. CASE b.op \in {"JR", "JALR"}
    <3>1. b.rs \in Registers
      BY <2>1, <2>5 DEF U!Conditional, U!Likely
    <3>2. PICK v \in Int : v = ef.regs[b.rs] /\ IsAddress(v) /\ U!GET_EXC_REG(ef.regs, b.rs) = v
      <4>1. ef.regs[b.rs] \in Int /\ IsAddress(ef.regs[b.rs]) /\ b.rs # 0
        BY <1>1, <2>5, <3>1 DEF Possible, Registers
      <4> QED
        BY <4>1, Zenon DEF U!GET_EXC_REG
    <3>3. next = U!Goes(v, b.op = "JALR")
      <4>1. ~(b.op \in {"J", "JAL"}) /\ ~(b.op \in U!Conditional)
        BY <2>5 DEF U!Conditional, U!Likely
      <4>2. U!Branch(ef, 60, b) = U!Goes(v, b.op = "JALR")
        BY <2>5, <3>2, <4>1 DEF U!Branch
      <4> QED
        BY <2>3, <4>2, Zenon
    <3>4. NextPC(ef, b) = v
      BY <1>1, <1>5, <2>5, <3>2 DEF NextPC
    <3>5. Links(ef, b) = (b.op = "JALR")
      <4>1. Taken(b, ef.regs, ef.ccodes)
        BY <2>5 DEF Taken
      <4>2. b.op \in {"JAL", "JALR"} \union U!LinksIfTaken <=> b.op = "JALR"
        BY <2>5 DEF U!LinksIfTaken
      <4> QED
        BY <1>5, <4>1, <4>2 DEF Links
    <3>6. GoesTo(next, v, b.op = "JALR")
      <4>1. (b.op = "JALR") \in BOOLEAN
        OBVIOUS
      <4> QED
        BY <1>2, <3>2, <3>3, <4>1, Zenon
    <3> QED
      BY <1>5, <3>4, <3>5, <3>6, Zenon DEF next
  <2>6. CASE b.op \in U!Conditional
    <3>1. b.op \notin {"J", "JAL", "JR", "JALR"}
      BY <2>6 DEF U!Conditional, U!Likely
    <3>2. b.imm \in Int /\ IsAddress(64 + 4 * b.imm)
      BY <2>1, <3>1, Zenon
    <3>3. U!Condition(ef, b) <=> Taken(b, ef.regs, ef.ccodes)
      BY <2>6, ConditionIs DEF Possible
    <3>4. next = IF Taken(b, ef.regs, ef.ccodes) THEN U!Goes(60 + 4 + 4 * b.imm, b.op \in U!LinksIfTaken)
                 ELSE U!Goes(60 + 8, FALSE)
      <4>1. ~(b.op \in {"JR", "JALR"}) /\ ~(b.op \in {"J", "JAL"})
        BY <3>1
      <4>2. U!Branch(ef, 60, b) = IF U!Condition(ef, b) THEN U!Goes(60 + 4 + 4 * b.imm, b.op \in U!LinksIfTaken)
                 ELSE U!Goes(60 + 8, FALSE)
        BY <2>6, <4>1 DEF U!Branch
      <4> QED
        BY <2>3, <3>3, <4>2, Zenon
    <3>5. NextPC(ef, b) = IF Taken(b, ef.regs, ef.ccodes) THEN 64 + 4 * b.imm ELSE 68
      BY <1>1, <1>5, <3>1, <3>2 DEF NextPC
    <3>6. Links(ef, b) <=> Taken(b, ef.regs, ef.ccodes) /\ b.op \in U!LinksIfTaken
      <4>1. b.op \in {"JAL", "JALR"} \union U!LinksIfTaken <=> b.op \in U!LinksIfTaken
        BY <3>1
      <4> QED
        BY <1>5, <4>1, Zenon DEF Links
    <3>7. 60 + 4 + 4 * b.imm = 64 + 4 * b.imm /\ 64 + 4 * b.imm \in Int /\ 60 + 8 = 68 /\ 68 \in Int
          /\ (b.op \in U!LinksIfTaken) \in BOOLEAN /\ FALSE \in BOOLEAN
      BY <3>2
    <3>8. IsAddress(68)
      <4>1. 68 \in Small
        BY DEF Small
      <4> QED
        BY <4>1, SmallAddress
    <3>9. CASE Taken(b, ef.regs, ef.ccodes)
      <4>1. next = U!Goes(64 + 4 * b.imm, b.op \in U!LinksIfTaken)
        BY <3>4, <3>7, <3>9, Zenon
      <4>2. GoesTo(next, 64 + 4 * b.imm, b.op \in U!LinksIfTaken)
        <5>1. PICK pc \in Int, ra \in BOOLEAN : pc = 64 + 4 * b.imm /\ ra = (b.op \in U!LinksIfTaken)
          BY ONLY <3>7
        <5>2. IsAddress(pc)
          BY ONLY <3>2, <5>1
        <5>3. GoesTo(U!Goes(pc, ra), pc, ra)
          BY <1>2, <5>2, Zenon
        <5> QED
          BY ONLY <4>1, <5>1, <5>3
      <4>3. Links(ef, b) = (b.op \in U!LinksIfTaken)
        BY <3>6, <3>9 DEF Links
      <4> QED
        BY <1>5, <3>5, <3>9, <4>2, <4>3, Zenon DEF next
    <3>10. CASE ~Taken(b, ef.regs, ef.ccodes)
      <4>1. next = U!Goes(68, FALSE)
        BY <3>4, <3>7, <3>10, Zenon
      <4>2. GoesTo(next, 68, FALSE)
        BY <1>2, <3>7, <3>8, <4>1, Zenon
      <4>3. Links(ef, b) = FALSE
        BY <3>10 DEF Links
      <4> QED
        BY <1>5, <3>5, <3>10, <4>2, <4>3, Zenon DEF next
    <3> QED
      BY <3>9, <3>10
  <2> QED
    BY <2>1, <2>4, <2>5, <2>6
<1> QED
  BY <1>1, <1>3, <1>4, <1>5 DEF next

Refused(ef, b, a) ==
  \/ a.op = "LB"
  \/ job.abi = "o32" /\ a.op \notin WordsOnly
  \/ job.abi # "n64" /\ ~Fits(ef.regs[3], 4)
  \/ ef.bd /\ b.op = "SYSCALL"
IsLoad(a) == a.op \in {"LH", "LHU", "LW", "LWU", "LD", "LB"}

(* What the two handlers look at.                                          *)
LEMMA OperandsAre ==
  ASSUME NEW ef \in AnyFrame, NEW b \in AnyBranch, NEW a \in AnySlot, Possible(ef, b, a),
         job.abi \in {"o32", "n32", "n64"}
  PROVE  /\ ef.pc = 60 /\ ~U!Narrow(ef.pc) /\ ef.pc % 4 = 0
         /\ Text(ef, b, a)[U!Fault(ef, ef.pc)] = a
         /\ U!Base(ef, a) = ef.regs[3]
         /\ U!Narrow(ef.regs[3]) <=> job.abi # "n64" /\ ~Fits(ef.regs[3], 4)
         /\ ~U!Narrow(ef.regs[3]) => U!Address(ef, a) = ef.regs[3] + a.imm
<1>1. ef.pc = 60 /\ ef.regs \in [Registers -> Int] /\ a.rs = 3 /\ a.imm \in Int
  BY DEF AnyFrame, AnySlot
<1>2. ~U!Narrow(60)
  <2>1. 60 \in Small
    BY DEF Small
  <2>2. 60 \in Int /\ IsAddress(60)
    BY <2>1, SmallAddress
  <2> QED
    BY <2>2, AddressesAre
<1>3. 60 % 4 = 0 /\ 60 + 4 = 64
  OBVIOUS
<1>4. Text(ef, b, a)[U!Fault(ef, 60)] = a
  <2>1. CASE ef.bd
    <3>1. U!Fault(ef, 60) = 64
      BY <1>3, <2>1, Zenon DEF U!Fault
    <3>2. Text(ef, b, a)[64] = a
      BY <2>1, TextIs
    <3> QED
      BY <3>1, <3>2
  <2>2. CASE ~ef.bd
    <3>1. U!Fault(ef, 60) = 60
      BY <2>2, Zenon DEF U!Fault
    <3>2. Text(ef, b, a)[60] = a
      BY <2>2, OnlyTextIs, Zenon
    <3> QED
      BY <3>1, <3>2
  <2> QED
    BY <2>1, <2>2, Zenon
<1>5. ef.regs[3] \in Int /\ U!Base(ef, a) = ef.regs[3]
  <2>1. ef.regs[3] \in Int
    BY <1>1 DEF Registers
  <2> QED
    BY <1>1, <2>1 DEF U!Base, U!GET_EXC_REG
<1>6. PICK base \in Int, i \in Int : base = ef.regs[3] /\ i = a.imm
  BY <1>1, <1>5, Zenon
<1>7. /\ job.abi = "n64" => IsAddress(base)
      /\ IsAddress(base) => IsAddress(base + i)
  BY <1>6, Zenon DEF Possible
<1>8. IsAddress(base) <=> IF job.abi = "n64" THEN Fits(base, 8) ELSE Fits(base, 4)
  BY Zenon DEF IsAddress
<1>9. U!Narrow(base) <=> job.abi # "n64" /\ ~Fits(base, 4)
  <2>1. Fits(base, 4) => ~U!Narrow(base)
    BY PointersAre
  <2>2. job.abi # "n64" /\ ~Fits(base, 4) => U!Narrow(base)
    BY PointersAre
  <2>3. job.abi = "n64" => ~U!Narrow(base)
    BY <1>7, AddressesAre
  <2> QED
    BY <2>1, <2>2, <2>3, Zenon
<1>10. ~U!Narrow(base) => U!Address(ef, a) = base + i
  <2>1. ~U!Narrow(base) => IsAddress(base)
    BY <1>7, <1>8, <1>9, Zenon
  <2>2. base + i \in Int
    OBVIOUS
  <2>3. IsAddress(base + i) => U!Pointer(base + i) = base + i
    BY <2>2, AddressesAre
  <2>4. U!Address(ef, a) = U!Pointer(base + i)
    BY <1>5, <1>6, Zenon DEF U!Address
  <2> QED
    BY <1>7, <2>1, <2>3, <2>4, Zenon
<1>11. /\ ~U!Narrow(ef.pc) /\ ef.pc % 4 = 0
       /\ Text(ef, b, a)[U!Fault(ef, ef.pc)] = a
  BY <1>1, <1>2, <1>3, <1>4, Zenon
<1> QED
  BY <1>1, <1>5, <1>6, <1>9, <1>10, <1>11, Zenon

(* The two handlers, as far as the outcome of the access goes.             *)
LEMMA LoadsAre ==
  ASSUME NEW ef \in AnyFrame, NEW b \in AnyBranch, NEW a \in AnySlot, Possible(ef, b, a),
         job.abi \in {"o32", "n32", "n64"}, IsLoad(a), NEW mem,
         \A i \in ef.regs[3] + a.imm .. ef.regs[3] + a.imm + 7 : mem[i] \in 0 .. Byte - 1
  PROVE  U!unaligned_load_handler(ef, Text(ef, b, a), mem)
         = IF Refused(ef, b, a) THEN U!Fatal(ef, mem)
           ELSE U!Handled(ef, U!calculate_next_pc(ef, 60, ef.bd, Text(ef, b, a)),
                  U!SET_EXC_REG(ef.regs, a.rt, Loaded(mem, ef.regs[3] + a.imm, a.op)), mem)
<1> DEFINE text == Text(ef, b, a)
           next == U!calculate_next_pc(ef, 60, ef.bd, text)
           ea == ef.regs[3] + a.imm
           val == U!COPYIN(mem, U!Address(ef, a), U!Width[a.op])
           loaded == IF a.op \in {"LHU", "LWU"} THEN val ELSE U!Signed(val, U!Width[a.op])
<1>1. /\ ef.pc = 60 /\ ~U!Narrow(ef.pc) /\ ef.pc % 4 = 0
      /\ text[U!Fault(ef, ef.pc)] = a
      /\ U!Base(ef, a) = ef.regs[3]
      /\ U!Narrow(ef.regs[3]) <=> job.abi # "n64" /\ ~Fits(ef.regs[3], 4)
      /\ ~U!Narrow(ef.regs[3]) => U!Address(ef, a) = ea
  BY OperandsAre
<1>2. ~next.ok <=> ef.bd /\ b.op = "SYSCALL"
  BY NextIs, Zenon DEF GoesTo
<1>3. a.op \in U!Loads <=> a.op # "LB" /\ (job.abi = "o32" => a.op \in WordsOnly)
  BY DEF IsLoad, U!Loads, U!Only64, WordsOnly
<1> HIDE DEF text, next, loaded, val, ea
<1>4. U!unaligned_load_handler(ef, text, mem)
      = IF ~next.ok \/ U!Narrow(ef.regs[3]) \/ a.op \notin U!Loads THEN U!Fatal(ef, mem)
        ELSE U!Handled(ef, next, U!SET_EXC_REG(ef.regs, a.rt, loaded), mem)
  BY <1>1, Zenon DEF U!unaligned_load_handler, text, next, loaded, val
<1>5. ~next.ok \/ U!Narrow(ef.regs[3]) \/ a.op \notin U!Loads <=> Refused(ef, b, a)
  BY <1>1, <1>2, <1>3, Zenon DEF Refused
<1>6. ~Refused(ef, b, a) => loaded = Loaded(mem, ea, a.op)
  <2> SUFFICES ASSUME ~Refused(ef, b, a) PROVE loaded = Loaded(mem, ea, a.op)
    OBVIOUS
  <2>1. a.op \in {"LH", "LHU", "LW", "LWU", "LD"}
    BY DEF Refused, IsLoad
  <2>2. U!Address(ef, a) = ea
    BY <1>1, <1>5, Zenon
  <2>3. ea \in Int /\ \A i \in ea .. ea + 7 : mem[i] \in 0 .. Byte - 1
    BY DEF ea, AnyFrame, AnySlot, Registers
  <2>4. Loaded(mem, ea, a.op) = LET v == U!COPYIN(mem, ea, U!Width[a.op])
                                IN  IF a.op \in {"LHU", "LWU"} THEN v ELSE U!Signed(v, U!Width[a.op])
    BY <2>1, <2>3, LoadIsRight
  <2> QED
    BY <2>2, <2>4, Zenon DEF loaded, val
<1> QED
  BY <1>4, <1>5, <1>6, Zenon DEF text, next, ea

LEMMA StoresAre ==
  ASSUME NEW ef \in AnyFrame, NEW b \in AnyBranch, NEW a \in AnySlot, Possible(ef, b, a),
         job.abi \in {"o32", "n32", "n64"}, ~IsLoad(a), NEW mem
  PROVE  U!unaligned_store_handler(ef, Text(ef, b, a), mem)
         = IF Refused(ef, b, a) THEN U!Fatal(ef, mem)
           ELSE U!Handled(ef, U!calculate_next_pc(ef, 60, ef.bd, Text(ef, b, a)), ef.regs,
                  U!COPYOUT(mem, ef.regs[3] + a.imm, Size(a.op),
                    U!Unsigned(U!GET_EXC_REG(ef.regs, a.rt), Size(a.op))))
<1> DEFINE text == Text(ef, b, a)
           next == U!calculate_next_pc(ef, 60, ef.bd, text)
           ea == ef.regs[3] + a.imm
           v == U!GET_EXC_REG(ef.regs, a.rt)
<1>1. /\ ef.pc = 60 /\ ~U!Narrow(ef.pc)
      /\ text[U!Fault(ef, ef.pc)] = a
      /\ U!Base(ef, a) = ef.regs[3]
      /\ U!Narrow(ef.regs[3]) <=> job.abi # "n64" /\ ~Fits(ef.regs[3], 4)
      /\ ~U!Narrow(ef.regs[3]) => U!Address(ef, a) = ea
  BY OperandsAre
<1>2. ~next.ok <=> ef.bd /\ b.op = "SYSCALL"
  BY NextIs, Zenon DEF GoesTo
<1>3. a.op \in {"SH", "SW", "SD"}
  BY DEF IsLoad, AnySlot
<1>4. /\ a.op \in U!Stores <=> a.op # "LB" /\ (job.abi = "o32" => a.op \in WordsOnly)
      /\ U!Width[a.op] = Size(a.op)
  BY <1>3 DEF U!Stores, U!Only64, WordsOnly, U!Width, Size
<1> HIDE DEF text, next, ea, v
<1>5. U!unaligned_store_handler(ef, text, mem)
      = IF ~next.ok \/ U!Narrow(ef.regs[3]) \/ a.op \notin U!Stores THEN U!Fatal(ef, mem)
        ELSE U!Handled(ef, next, ef.regs,
               U!COPYOUT(mem, U!Address(ef, a), U!Width[a.op], U!Unsigned(v, U!Width[a.op])))
  BY <1>1, Zenon DEF U!unaligned_store_handler, text, next, v
<1>6. ~next.ok \/ U!Narrow(ef.regs[3]) \/ a.op \notin U!Stores <=> Refused(ef, b, a)
  BY <1>1, <1>2, <1>4, Zenon DEF Refused
<1> QED
  BY <1>1, <1>4, <1>5, <1>6, Zenon DEF text, next, ea, v

(* The frame and the memory that are right after the trap.                 *)
Rightly(r, ef, b, a, mem) ==
  LET ea == ef.regs[3] + a.imm
      v  == IF a.rt = 0 THEN 0 ELSE ef.regs[a.rt]
  IN  /\ r.ef.pc = NextPC(ef, b)
      /\ \A n \in {1, 2, 3} :
           r.ef.regs[n] = IF IsLoad(a) /\ n = a.rt THEN Loaded(mem, ea, a.op) ELSE ef.regs[n]
      /\ r.ef.regs[31] = CASE Links(ef, b) -> ef.pc + 8
                           [] ~Links(ef, b) /\ IsLoad(a) /\ a.rt = 31 -> Loaded(mem, ea, a.op)
                           [] OTHER -> ef.regs[31]
      /\ \A x \in DOMAIN mem :
           r.mem[x] = IF ~IsLoad(a) /\ x \in ea .. ea + Size(a.op) - 1
                      THEN ((v % U!Values[Size(a.op)]) \div U!Values[ea + Size(a.op) - 1 - x]) % Byte
                      ELSE mem[x]

(* What the program goes on with.                                          *)
AreRegisters(regs) == regs = [n \in Registers |-> regs[n]]
GoesOn(r, ef, target, linked, regs, written) ==
  /\ r.fatal = FALSE /\ r.mem = written /\ r.ef.pc = target
  /\ \A n \in {1, 2, 3} : r.ef.regs[n] = regs[n]
  /\ r.ef.regs[31] = IF linked THEN ef.pc + 8 ELSE regs[31]

LEMMA HandledIs ==
  ASSUME NEW ef \in AnyFrame, NEW next, NEW target, NEW linked \in BOOLEAN,
         GoesTo(next, target, linked), NEW regs, NEW written, AreRegisters(regs)
  PROVE  GoesOn(U!Handled(ef, next, regs, written), ef, target, linked, regs, written)
<1> DEFINE r == U!Handled(ef, next, regs, written)
           after == IF next.ra THEN U!SET_EXC_REG(regs, 31, ef.pc + 8) ELSE regs
<1>1. next.pc = target /\ next.ra = linked
  BY Zenon DEF GoesTo
<1>2. after = IF linked THEN [regs EXCEPT ![31] = ef.pc + 8] ELSE regs
  <2>1. U!SET_EXC_REG(regs, 31, ef.pc + 8) = [regs EXCEPT ![31] = ef.pc + 8]
    BY DEF U!SET_EXC_REG
  <2> QED
    BY <1>1, <2>1, Zenon
<1>3. /\ \A n \in {1, 2, 3} : after[n] = regs[n]
      /\ after[31] = IF linked THEN ef.pc + 8 ELSE regs[31]
  <2>1. CASE linked
    BY <1>2, <2>1 DEF Registers, AreRegisters
  <2>2. CASE ~linked
    BY <1>2, <2>2
  <2> QED
    BY <2>1, <2>2
<1> HIDE DEF after
<1>4. r = [fatal |-> FALSE, mem |-> written, ef |-> [ef EXCEPT !.pc = target, !.regs = after]]
  BY <1>1, Zenon DEF U!Handled, after
<1>5. r.fatal = FALSE /\ r.mem = written /\ r.ef = [ef EXCEPT !.pc = target, !.regs = after]
  BY <1>4
<1>6. r.ef.pc = target /\ r.ef.regs = after
  BY <1>5 DEF AnyFrame
<1> QED
  BY <1>3, <1>5, <1>6, Zenon DEF GoesOn

LEMMA TrapIsRight ==
  ASSUME NEW ef \in AnyFrame, NEW b \in AnyBranch, NEW a \in AnySlot, Possible(ef, b, a),
         job.abi \in {"o32", "n32", "n64"}, NEW mem, ~Refused(ef, b, a),
         \A i \in ef.regs[3] + a.imm .. ef.regs[3] + a.imm + 7 : mem[i] \in 0 .. Byte - 1
  PROVE  LET r == IF IsLoad(a) THEN U!unaligned_load_handler(ef, Text(ef, b, a), mem)
                               ELSE U!unaligned_store_handler(ef, Text(ef, b, a), mem)
         IN  r.fatal = FALSE /\ Rightly(r, ef, b, a, mem)
<1> DEFINE r == IF IsLoad(a) THEN U!unaligned_load_handler(ef, Text(ef, b, a), mem)
                             ELSE U!unaligned_store_handler(ef, Text(ef, b, a), mem)
           next == U!calculate_next_pc(ef, 60, ef.bd, Text(ef, b, a))
           ea == ef.regs[3] + a.imm
<1> HIDE DEF r, next, ea
<1>1. GoesTo(next, NextPC(ef, b), Links(ef, b)) /\ Links(ef, b) \in BOOLEAN
  <2>1. GoesTo(next, NextPC(ef, b), Links(ef, b))
    BY NextIs, Zenon DEF Refused, next
  <2>2. Links(ef, b) \in BOOLEAN
    BY DEF Links
  <2> QED
    BY <2>1, <2>2
<1>2. ef.regs \in [Registers -> Int] /\ ef.pc = 60 /\ a.rt \in {0} \union Registers
  BY DEF AnyFrame, AnySlot
<1>3. CASE IsLoad(a)
  <2> DEFINE l == Loaded(mem, ea, a.op)
             regs == U!SET_EXC_REG(ef.regs, a.rt, l)
  <2> HIDE DEF l
  <2>1. r = U!Handled(ef, next, regs, mem)
    BY <1>3, LoadsAre, Zenon DEF r, next, l, ea
  <2>2. AreRegisters(regs) /\ \A n \in Registers : regs[n] = IF n = a.rt THEN l ELSE ef.regs[n]
    BY <1>2 DEF U!SET_EXC_REG, Registers, AreRegisters
  <2> HIDE DEF regs
  <2>3. GoesOn(r, ef, NextPC(ef, b), Links(ef, b), regs, mem)
    <3>1. GoesOn(U!Handled(ef, next, regs, mem), ef, NextPC(ef, b), Links(ef, b), regs, mem)
      BY <1>1, <2>2, HandledIs, Zenon
    <3> QED
      BY <2>1, <3>1, Zenon
  <2>4. /\ \A n \in {1, 2, 3} : r.ef.regs[n] = IF n = a.rt THEN l ELSE ef.regs[n]
        /\ regs[31] = IF a.rt = 31 THEN l ELSE ef.regs[31]
    BY <2>2, <2>3 DEF Registers, GoesOn
  <2>5. r.ef.regs[31] = CASE Links(ef, b) -> ef.pc + 8
                          [] ~Links(ef, b) /\ IsLoad(a) /\ a.rt = 31 -> l
                          [] OTHER -> ef.regs[31]
    BY <1>3, <2>3, <2>4 DEF GoesOn
  <2> QED
    BY <1>3, <2>3, <2>4, <2>5, Zenon DEF Rightly, GoesOn, l, ea, r
<1>4. CASE ~IsLoad(a)
  <2> DEFINE n == Size(a.op)
             v == IF a.rt = 0 THEN 0 ELSE ef.regs[a.rt]
             written == U!COPYOUT(mem, ea, n, U!Unsigned(v, n))
  <2> HIDE DEF n, v, written
  <2>1. U!GET_EXC_REG(ef.regs, a.rt) = v
    BY Zenon DEF U!GET_EXC_REG, v
  <2>2. r = U!Handled(ef, next, ef.regs, written)
    BY <1>4, <2>1, StoresAre, Zenon DEF r, next, n, ea, written
  <2>3. AreRegisters(ef.regs)
    BY <1>2 DEF AreRegisters
  <2>4. GoesOn(r, ef, NextPC(ef, b), Links(ef, b), ef.regs, written)
    <3>1. GoesOn(U!Handled(ef, next, ef.regs, written), ef, NextPC(ef, b), Links(ef, b), ef.regs, written)
      BY <1>1, <2>3, HandledIs, Zenon
    <3> QED
      BY <2>2, <3>1, Zenon
  <2>5. r.ef.regs[31] = CASE Links(ef, b) -> ef.pc + 8
                          [] ~Links(ef, b) /\ IsLoad(a) /\ a.rt = 31 -> Loaded(mem, ea, a.op)
                          [] OTHER -> ef.regs[31]
    BY <1>4, <2>4 DEF GoesOn
  <2>6. \A x \in DOMAIN mem :
          written[x] = IF x \in ea .. ea + n - 1
                       THEN ((v % U!Values[n]) \div U!Values[ea + n - 1 - x]) % Byte
                       ELSE mem[x]
    BY Zenon DEF written, U!COPYOUT, U!Unsigned
  <2> QED
    BY <1>4, <2>4, <2>5, <2>6, Zenon DEF Rightly, GoesOn, n, v, ea, r
<1> QED
  BY <1>3, <1>4, Zenon DEF r

(* A trap is carried out as the processor would have, whatever the frame,  *)
(* the branch, the access and the bytes of memory are.                     *)
TrapCall ==
  /\ job.abi \in {"o32", "n32", "n64"}
  /\ job.ef \in AnyFrame /\ job.branch \in AnyBranch /\ job.slot \in AnySlot
  /\ Possible(job.ef, job.branch, job.slot)

THEOREM TrapIsEmulated ==
  ASSUME TrapCall, NEW mem,
         \A i \in job.ef.regs[3] + job.slot.imm .. job.ef.regs[3] + job.slot.imm + 7 :
           mem[i] \in 0 .. Byte - 1
  PROVE  Emulates(mem)
<1>1. PICK ef \in AnyFrame, b \in AnyBranch, a \in AnySlot :
        ef = job.ef /\ b = job.branch /\ a = job.slot
  BY Zenon DEF TrapCall
<1>2. /\ Possible(ef, b, a)
      /\ \A i \in ef.regs[3] + a.imm .. ef.regs[3] + a.imm + 7 : mem[i] \in 0 .. Byte - 1
      /\ job.abi \in {"o32", "n32", "n64"}
  BY <1>1, Zenon DEF TrapCall
<1> DEFINE r == IF IsLoad(a) THEN U!unaligned_load_handler(ef, Text(ef, b, a), mem)
                             ELSE U!unaligned_store_handler(ef, Text(ef, b, a), mem)
<1> HIDE DEF r
<1>3. Refused(ef, b, a) => r = U!Fatal(ef, mem)
  <2>1. IsLoad(a) => r = U!unaligned_load_handler(ef, Text(ef, b, a), mem)
    BY Zenon DEF r
  <2>2. ~IsLoad(a) => r = U!unaligned_store_handler(ef, Text(ef, b, a), mem)
    BY Zenon DEF r
  <2> QED
    BY <1>2, <2>1, <2>2, LoadsAre, StoresAre, Zenon
<1>4. Refused(ef, b, a) => r.fatal = TRUE /\ r.ef = ef /\ r.mem = mem
  <2> SUFFICES ASSUME Refused(ef, b, a) PROVE r.fatal = TRUE /\ r.ef = ef /\ r.mem = mem
    OBVIOUS
  <2>1. r = [fatal |-> TRUE, ef |-> ef, mem |-> mem]
    BY <1>3, Zenon DEF U!Fatal
  <2> QED
    BY <2>1
<1>5. ~Refused(ef, b, a) => r.fatal = FALSE /\ Rightly(r, ef, b, a, mem)
  BY <1>2, TrapIsRight, Zenon DEF r
<1>6. /\ r.fatal = Refused(ef, b, a)
      /\ r.fatal => r.ef = ef /\ r.mem = mem
      /\ ~r.fatal => Rightly(r, ef, b, a, mem)
  <2>1. CASE Refused(ef, b, a)
    BY <1>4, <2>1
  <2>2. CASE ~Refused(ef, b, a)
    <3>1. r.fatal = FALSE /\ Rightly(r, ef, b, a, mem)
      BY <1>5, <2>2, Zenon
    <3>2. Refused(ef, b, a) = FALSE
      BY <2>2 DEF Refused
    <3> QED
      BY <3>1, <3>2, Zenon
  <2> QED
    BY <2>1, <2>2, Zenon
<1> QED
  BY <1>1, <1>6, Zenon DEF Emulates, Rightly, Refused, Links, IsLoad, r

(* In particular with the memory of the property, for an access that stays *)
(* in it.                                                                  *)
THEOREM TrapsAreEmulated ==
  ASSUME TrapCall, job.slot.imm \in -4 .. 5, job.sign \in Nat
  PROVE  TrapEmulates
<1>1. PICK base \in Int, sign \in Nat, imm \in -4 .. 5 :
        base = job.ef.regs[3] /\ sign = job.sign /\ imm = job.slot.imm
  <2>1. job.ef.regs[3] \in Int
    BY DEF TrapCall, AnyFrame, Registers
  <2> QED
    BY <2>1
<1> DEFINE mem == Data(base, sign)
<1>2. \A i \in base + imm .. base + imm + 7 : mem[i] \in 0 .. Byte - 1
  <2> TAKE i \in base + imm .. base + imm + 7
  <2>1. i \in base - 4 .. base + 12
    OBVIOUS
  <2>2. mem[i] = IF i % 4 = sign % 4 THEN 6 ELSE i % 4
    BY <2>1 DEF Data
  <2>3. i % 4 \in 0 .. 3
    BY <2>1
  <2> HIDE DEF mem
  <2> QED
    BY <2>2, <2>3, ByteAssumption
<1> HIDE DEF mem
<1>3. Emulates(mem)
  BY <1>1, <1>2, TrapIsEmulated
<1> QED
  BY <1>1, <1>3, Zenon DEF TrapEmulates, mem
=============================================================================
