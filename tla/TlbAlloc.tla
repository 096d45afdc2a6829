----------------------------- MODULE TlbAlloc -----------------------------
(* The allocator of tlballoc.c: __libcfe_meminit maps the memory that the   *)
(* firmware reports into the user segment, with the largest pages that fit, *)
(* and sbrk hands it out.  Addresses and sizes are counted in 4 KB pages,   *)
(* which is what the TLB can tell apart.                                    *)
EXTENDS Integers, Sequences, SequencesExt, FiniteSetsExt

CONSTANTS
  MaxPage,       \* 1 << MAX_PAGESIZE_INDEX, 2^14 in the code
  MaxEntries,    \* MAX_TLB_ENTRIES_USED
  Bank,          \* 256 MB: what the mask 0xf0000000 keeps of an address
  VaLimit,       \* 2 GB: what ~USIZE keeps of one
  LengthMod,     \* 2^64, where an unsigned length wraps
  MaxRegions,    \* length of pa_regions and pa_size, 8 in the code
  Programs,      \* ends of program and stack, K0_TO_PHYS(stack_top)
  WastedSizes,   \* 1 << MAX_WASTED_PAGESIZE_INDEX of the builds
  Starts,        \* VA_START of the builds
  Maps,          \* memory maps: sequences of regions, what cfe_enummem reports
  Increments     \* arguments of sbrk

\* The two pages of an entry together: 2 * 4^k.
Pairs == {q \in {2, 8, 32, 128, 512, 2048, 8192} : q <= MaxPage}

(* Starts are even: the code computes no page size for others.              *)
ASSUME TlbAllocAssumption ==
  /\ {MaxPage, MaxEntries, Bank, VaLimit, LengthMod} \subseteq Nat \ {0, 1}
  /\ MaxRegions \in Nat
  /\ Programs \subseteq Nat /\ WastedSizes \subseteq Nat \ {0}
  /\ Starts \subseteq {va \in 1..VaLimit - 1 : va % 2 = 0}
  /\ \A q \in Pairs : VaLimit % q = 0
  /\ Maps \subseteq Seq([pa : Nat, size : Nat, available : BOOLEAN])
  /\ Increments \subseteq Int

(* K0 addresses 512 MB and the program ends there.  No region that the      *)
(* firmware reports begins inside another.                                  *)
ASSUME MachineAssumption ==
  /\ \A p \in Programs : p <= 131072
  /\ \A m \in Maps : \A j, k \in DOMAIN m :
       j # k => m[j].pa \notin m[k].pa..m[k].pa + m[k].size - 1

VARIABLES
  program, wasted, start, map,    \* the program, its build, the machine
  pc, i,                          \* progress; the region at hand
  regions, stack_top,
  pa, mem_left, va, prev_va,
  tlb, half_entry, wired,
  heap_start, heap_limit, heap_end

given == <<program, wasted, start, map>>
mapping == <<pa, mem_left, va, prev_va, tlb, half_entry>>
heap == <<heap_start, heap_limit, heap_end>>
vars == <<given, pc, i, regions, stack_top, mapping, wired, heap>>

Init ==
  /\ program \in Programs /\ wasted \in WastedSizes
  /\ start \in Starts /\ map \in Maps
  /\ pc = "enumerate" /\ i = 1
  /\ regions = <<>> /\ stack_top = program
  /\ pa = 0 /\ mem_left = 0 /\ va = start /\ prev_va = start
  /\ tlb = <<>> /\ half_entry = FALSE /\ wired = 0
  /\ heap_start = 0 /\ heap_limit = 0 /\ heap_end = 0

\* The memory at a bank's start that a program keeps: the least of the sizes
\* wasted * 4^k that hold it, enough of them for what K0 can address.
Sizes == {wasted * f : f \in {1, 4, 16, 64, 256, 1024, 4096, 16384, 65536, 262144}}
Kept(top) == Min({s \in Sizes : top <= s})

Unsigned(n) == IF n < 0 THEN LengthMod + n ELSE n

HoldsProgram(r, top) == r.pa = (top \div Bank) * Bank

\* The loop over cfe_enummem: one available region is noted, without the
\* program's memory and one page behind its stack.
NoRoom == map[i].available /\ Len(regions) = MaxRegions
Enumerate ==
  /\ pc = "enumerate" /\ i <= Len(map) /\ ~NoRoom
  /\ i' = i + 1
  /\ IF ~map[i].available
       THEN UNCHANGED <<regions, stack_top>>
       ELSE IF HoldsProgram(map[i], stack_top)
         THEN LET kept == Kept(stack_top) IN
              /\ stack_top' = map[i].pa + kept
              /\ regions' = Append(regions, [pa |-> map[i].pa + kept + 1,
                                   size |-> Unsigned(map[i].size - kept - 1)])
         ELSE /\ regions' = Append(regions, [pa |-> map[i].pa, size |-> map[i].size])
              /\ UNCHANGED stack_top
  /\ UNCHANGED <<given, pc, mapping, wired, heap>>

\* A region more is written behind the two arrays, which no test prevents: what
\* the program does from there on is undefined, and the model ends.
Overrun ==
  /\ pc = "enumerate" /\ i <= Len(map) /\ NoRoom
  /\ pc' = "overrun"
  /\ UNCHANGED <<given, i, regions, stack_top, mapping, wired, heap>>

\* The heap starts at VA_START; the last region is mapped first.
Begin ==
  /\ pc = "enumerate" /\ i > Len(map)
  /\ pc' = "map" /\ i' = Len(regions)
  /\ IF regions = <<>> THEN UNCHANGED <<pa, mem_left>>
     ELSE pa' = regions[i'].pa /\ mem_left' = regions[i'].size
  /\ heap_start' = start /\ heap_limit' = start
  /\ UNCHANGED <<given, regions, stack_top, va, prev_va, tlb, half_entry,
                 wired, heap_end>>

\* The largest pair of pages at this address for the memory that is left.
PairAnyMemory == Max({q \in Pairs : va % q = 0})
PairPageAligned == Max({q \in Pairs : 2 * va % q = 0 /\ (q <= mem_left \/ q = 2)})
Pair == Max({q \in Pairs : va % q = 0 /\ (q <= mem_left \/ q = 2)})

MoreToMap == mem_left >= wasted /\ Len(tlb) < MaxEntries /\ prev_va <= va

\* A single page that remains gets an entry with neither half valid.
MapEntry ==
  LET half == mem_left = 1 IN
    /\ pc = "map" /\ MoreToMap
    /\ tlb' = Append(tlb, [va |-> va, pair |-> Pair, pa |-> pa, valid |-> ~half])
    /\ half_entry' = (half_entry \/ half)
    /\ mem_left' = IF half THEN 0 ELSE Unsigned(mem_left - Pair)
    /\ pa' = pa + Pair
    /\ prev_va' = va /\ va' = (va + Pair) % VaLimit
    /\ UNCHANGED <<given, pc, i, regions, stack_top, wired, heap>>

NextRegion ==
  /\ pc = "map" /\ ~MoreToMap /\ i > 1
  /\ i' = i - 1
  /\ pa' = regions[i - 1].pa /\ mem_left' = regions[i - 1].size
  /\ UNCHANGED <<given, pc, regions, stack_top, va, prev_va, tlb, half_entry,
                 wired, heap>>

\* The end of __libcfe_meminit.
EndOfHeapAlwaysHalf ==
  IF tlb # <<>> THEN va - tlb[Len(tlb)].pair \div 2 ELSE va
EndOfHeap ==
  IF half_entry THEN va - tlb[Len(tlb)].pair \div 2 ELSE va

Finish ==
  /\ pc = "map" /\ ~MoreToMap /\ i <= 1
  /\ pc' = "run"
  /\ wired' = Len(tlb) - 1
  /\ heap_end' = EndOfHeap
  /\ UNCHANGED <<given, i, regions, stack_top, mapping, heap_start, heap_limit>>

Refused(n) == n >= heap_end - heap_limit \/ heap_limit + n < heap_start

\* A refused call returns -1 and changes nothing.
sbrk(n) ==
  /\ pc = "run"
  /\ heap_limit' = IF Refused(n) THEN heap_limit ELSE heap_limit + n
  /\ UNCHANGED <<given, pc, i, regions, stack_top, mapping, wired,
                 heap_start, heap_end>>

Next ==
  \/ Enumerate \/ Overrun \/ Begin \/ MapEntry \/ NextRegion \/ Finish
  \/ \E n \in Increments : sbrk(n)

Spec == Init /\ [][Next]_vars

------------------------------------------------------------------------------
(* Properties.                                                              *)

Region == [pa : Nat, size : 0..LengthMod - 1]
Entry == [va : 0..VaLimit - 1, pair : Pairs, pa : Nat, valid : BOOLEAN]

\* The variables of __libcfe_meminit and sbrk have their types.
TypeOK ==
  /\ program \in Programs /\ wasted \in WastedSizes
  /\ start \in Starts /\ map \in Maps
  /\ pc \in {"enumerate", "overrun", "map", "run"} /\ i \in Nat
  /\ regions \in Seq(Region) /\ stack_top \in Nat
  /\ pa \in Nat /\ mem_left \in 0..LengthMod - 1
  /\ va \in 0..VaLimit - 1 /\ prev_va \in 0..VaLimit - 1
  /\ tlb \in Seq(Entry) /\ Len(tlb) <= MaxEntries /\ half_entry \in BOOLEAN
  /\ wired \in Int /\ {heap_start, heap_limit, heap_end} \subseteq Int

Covered(e) == e.va..e.va + e.pair - 1

\* No two entries match one address, and each lies at a multiple of its size,
\* where the TLB would otherwise match another range than the one meant.
EntriesApart ==
  /\ \A j \in DOMAIN tlb : tlb[j].va % tlb[j].pair = 0
  /\ \A j, k \in DOMAIN tlb : j # k => Covered(tlb[j]) \cap Covered(tlb[k]) = {}

\* What sbrk may hand out is mapped and valid, and everything mapped can be
\* handed out, if the addresses do not wrap and no single pages are used.
HeapIsMapped ==
  pc = "run" /\ prev_va <= va /\ wasted > 1 =>
    heap_start..heap_end - 1 = UNION {Covered(tlb[j]) : j \in {k \in DOMAIN tlb : tlb[k].valid}}

\* The physical pages that the TLB maps for an entry: the bits of a PFN below the
\* page size do not count, so that they begin at a multiple of that.
PageSize(e) == e.pair \div 2
Mapped(e) == LET from == e.pa - (e.pa % PageSize(e)) IN from..from + e.pair - 1
Straight(e) == e.pa % PageSize(e) = 0
Pages(r) == r.pa..r.pa + r.size - 1
ProgramFits == \A r \in Range(map) : HoldsProgram(r, program) => r.size > Kept(program)

OutsideProgram(e) ==
  \A r \in Range(map) : HoldsProgram(r, program) => Mapped(e) \cap (r.pa..stack_top) = {}

\* Valid entries at physical addresses that are multiples of their page size: none
\* maps what is outside of the memory that the firmware reported, or the program,
\* its stack and the page behind it, and no two map one page, if the program's bank
\* is large enough for what it keeps. Of the other entries nothing holds but
\* EntriesApart: see StackKeptOut and HeapPagesApart.
MemoryMappedOnce ==
  \A j \in DOMAIN tlb : ProgramFits /\ tlb[j].valid /\ Straight(tlb[j]) =>
    /\ \E r \in Range(map) : r.available /\ Mapped(tlb[j]) \subseteq Pages(r)
    /\ OutsideProgram(tlb[j])
    /\ \A k \in 1..j - 1 :
         tlb[k].valid /\ Straight(tlb[k]) => Mapped(tlb[j]) \cap Mapped(tlb[k]) = {}

\* "Increase stack size to top pa which will NOT be mapped. Insert a buffer area
\* for the stack" (tlballoc.c:200-207): no valid entry maps the program, its stack
\* or the page behind it, at whatever physical address it was written. Some do: see
\* the findings of README.md.
StackKeptOut == ProgramFits => \A j \in DOMAIN tlb : tlb[j].valid => OutsideProgram(tlb[j])

\* "Heap is allocated in KUSEG with all remaining memory by mapping tlb"
\* (tlballoc.c:116-117): every page of the heap is memory of its own. Some are not:
\* see the findings of README.md.
HeapPagesApart ==
  ProgramFits => \A j, k \in DOMAIN tlb :
    j # k /\ tlb[j].valid /\ tlb[k].valid => Mapped(tlb[j]) \cap Mapped(tlb[k]) = {}

\* Whatever sequence of increments and decrements succeeds, the blocks that sbrk
\* returned lie between heap_start and heap_end.
SbrkInHeap ==
  pc = "run" => heap_start <= heap_limit /\ (heap_limit > heap_start => heap_limit < heap_end)

\* Together: a block that sbrk returns is mapped, whatever calls of sbrk came
\* before and at whatever place of a region the mapping stopped.
HeapGivesMapped == HeapIsMapped /\ SbrkInHeap

=============================================================================
