------------------------------ MODULE TlbConvert ------------------------------
(***************************************************************************)
(* tlb/tlbconvert.c: a tool that makes a TLB entry from addresses and      *)
(* attributes, and shows the attributes of an entry.                       *)
(*                                                                         *)
(* Numbers come in as numbers, what is shown goes out as a record; NoArg   *)
(* is an argument that is left out.  The addresses are small enough for    *)
(* their fields (31 bits of VPN2, 28 of PFN), which then mask nothing.     *)
(***************************************************************************)
EXTENDS Integers

CONSTANT NoArg

MIN_PAGESIZE_INDEX == 12
MAX_PAGESIZE_INDEX == 26
S_TLBHI_VPN2 == 13
S_TLB_PGMSK == 13
S_TLBLO_PFNMASK == 6
S_TLBLO_CALG == 3

Field(x, shift, width) == (x \div 2^shift) % 2^width
AlignDown(x, size) == (x \div size) * size

(* Mistake for a mutation run: the size instead of the bits below it. *)
PGSIZE_TO_PGMASK_size(size) == (size \div 2^MIN_PAGESIZE_INDEX) * 2^S_TLB_PGMSK

PGSIZE_TO_PGMASK(size) == ((size - 1) \div 2^MIN_PAGESIZE_INDEX) * 2^S_TLB_PGMSK

(* (field << 12 | 0x1fff) + 1: the lowest bit of the field is forced. *)
PGMASK_TO_PGSIZE(mask) ==
  LET field == Field(mask, S_TLB_PGMSK, 14)
  IN  (AlignDown(field, 2) + 2) * 2^MIN_PAGESIZE_INDEX

C0_TLBHI_REG(vpn2, asid) == vpn2 * 2^S_TLBHI_VPN2 + asid
C0_TLBLO_REG(pfn, cca, d, v, g) ==
  pfn * 2^S_TLBLO_PFNMASK + cca * 2^S_TLBLO_CALG + d * 4 + v * 2 + g

(* What dump_tlb_entry shows of one EntryLo, and of the entry. *)
Page(lo) == [pa |-> Field(lo, S_TLBLO_PFNMASK, 28) * 2^MIN_PAGESIZE_INDEX,
             cca |-> Field(lo, S_TLBLO_CALG, 3), d |-> Field(lo, 2, 1),
             v |-> Field(lo, 1, 1)]

dump_tlb_entry(e) ==
  [va |-> (e.entryhi \div 2^S_TLBHI_VPN2) * 2^S_TLBHI_VPN2,
   asid |-> Field(e.entryhi, 0, 8),
   g |-> IF e.entrylo0 % 2 # 0 /\ e.entrylo1 % 2 # 0 THEN 1 ELSE 0,
   pgsize |-> PGMASK_TO_PGSIZE(e.pagemask),
   page0 |-> Page(e.entrylo0), page1 |-> Page(e.entrylo1)]

decode(entryhi, entrylo0, entrylo1, pagemask) ==
  [entryhi |-> entryhi, entrylo0 |-> entrylo0, entrylo1 |-> entrylo1,
   pagemask |-> IF pagemask = NoArg THEN 0 ELSE pagemask]

page_size(page_shift) == 2^page_shift

encode(va, pa0, pa1, page_shift, cca, asid, dirty, global, valid) ==
  LET size   == page_size(page_shift)
      first  == AlignDown(pa0, size)
      second == IF pa1 = NoArg THEN first + size ELSE AlignDown(pa1, size)
      Lo(pa) == C0_TLBLO_REG(pa \div 2^MIN_PAGESIZE_INDEX, cca, dirty, valid, global)
  IN  [entryhi |-> C0_TLBHI_REG(AlignDown(va, 2 * size) \div 2^S_TLBHI_VPN2, asid),
       entrylo0 |-> Lo(first), entrylo1 |-> Lo(second),
       pagemask |-> PGSIZE_TO_PGMASK(size)]

(* main: the arguments that it lets pass.  The defaults are ASID 0, pages  *)
(* of 4 KB, CCA 5, and all three bits set.                                 *)
Accepts(page_shift, cca, asid) ==
  /\ page_shift \in MIN_PAGESIZE_INDEX .. MAX_PAGESIZE_INDEX /\ page_shift % 2 = 0
  /\ cca \in 0 .. 7
  /\ asid \in 0 .. 255
=============================================================================
