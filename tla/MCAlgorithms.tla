----------------------------- MODULE MCAlgorithms -----------------------------
(***************************************************************************)
(* The algorithms without a state of their own, each called with all       *)
(* arguments of a small set and compared with a definition of what it      *)
(* should compute, and the addresses and fields of the register headers.   *)
(* A state is a call.  A byte has 256 values, and eight where TLC counts.  *)
(***************************************************************************)
EXTENDS Integers, Sequences, FiniteSets, TLC

CONSTANTS
  None,    \* no argument, no phase
  Byte     \* the values of a byte

ASSUME NoneAssumption == None \notin Nat
ASSUME ByteAssumption == Byte \in {8, 256}

VARIABLE job

U == INSTANCE Unhandler WITH PtrBytes <- IF job.abi = "n64" THEN 8 ELSE 4,
                             mips64 <- job.abi # "o32", Segment <- 64
Mem == INSTANCE MemOps WITH NBYTES <- job.nbytes
Str == INSTANCE Strcmp WITH NBYTES <- 4, MIPSEL <- job.little
C == INSTANCE Csum WITH MIPSEB <- job.big

T == INSTANCE TlbConvert WITH NoArg <- None

CPUs == {"cpu0"}
B == INSTANCE Tbanal WITH NHIST <- 8, Readers <- CPUs, Agents <- CPUs \union {"mc"},
                          Tids <- 0 .. 1, NoPhase <- None

R == INSTANCE Registers1480
Access == INSTANCE FieldAccess WITH folds <- job.folds
Fields == INSTANCE RegisterFields

(* The call in the state, once its arguments have been chosen. *)
Called(op) == job.op = op /\ job # [op |-> op]

Smallest(S) == CHOOSE x \in S : \A y \in S : x <= y

(***************************************************************************)
(* memcpy and memset.  Every address holds its own number at first.        *)
(***************************************************************************)
Memory(top) == [a \in 0 .. top |-> a]

Memcpy ==
  /\ job = [op |-> "memcpy"]
  /\ \/ \E d \in 0 .. 3, s \in 0 .. 3, len \in 0 .. 45 :
          job' = [op |-> "memcpy", nbytes |-> 4, dst |-> 8 + d, src |-> 72 + s, len |-> len]
     \/ \E d \in {0, 1, 7}, s \in {0, 1, 4}, len \in (0 .. 17) \union {31, 33, 63, 64, 65, 71, 97, 111} :
          job' = [op |-> "memcpy", nbytes |-> 8, dst |-> 8 + d, src |-> 152 + s, len |-> len]

Memset ==
  /\ job = [op |-> "memset"]
  /\ \E val \in {0, 5} :
       \/ \E d \in 0 .. 3, len \in 0 .. 70 :
            job' = [op |-> "memset", nbytes |-> 4, dst |-> 8 + d, val |-> val, len |-> len]
       \/ \E d \in {0, 3}, len \in {0, 7, 8, 9, 17, 120, 127, 135, 143} :
            job' = [op |-> "memset", nbytes |-> 8, dst |-> 8 + d, val |-> val, len |-> len]

(* The bytes of dst are those of src and every other byte is as before.    *)
(* What else is written, with the value that it had, is behind the end,    *)
(* in the unit of the last byte, and only where src and dst are aligned    *)
(* alike (memcpy.S, copy_bytes_aligned): a program that shares that unit   *)
(* with another processor or a handler may lose their stores.              *)
MemcpyCopies ==
  Called("memcpy") =>
    LET buffer == job.dst .. job.dst + job.len - 1
    IN  \A r \in {Mem!memcpy(Memory(job.src + job.len + 8), job.dst, job.src, job.len)} :
        \A beside \in {r.written \ buffer} :
        /\ \A a \in DOMAIN r.mem :
             r.mem[a] = IF a \in buffer THEN job.src + (a - job.dst) ELSE a
        /\ buffer \subseteq r.written
        /\ beside # {} => /\ job.dst % job.nbytes = job.src % job.nbytes
                          /\ job.len >= job.nbytes
        /\ \A a \in beside : /\ a > job.dst + job.len - 1
                             /\ a \div job.nbytes = (job.dst + job.len - 1) \div job.nbytes

(* memset.S sets the bytes of the buffer, all of them, and writes no other *)
(* byte: it stores bytes, units, and a part of one unit at the front.      *)
MemsetFills ==
  Called("memset") =>
    LET buffer == job.dst .. job.dst + job.len - 1
    IN  \A r \in {Mem!memset(Memory(job.dst + job.len + 8), job.dst, job.val, job.len)} :
        /\ r.written = buffer
        /\ \A a \in DOMAIN r.mem : r.mem[a] = IF a \in buffer THEN job.val ELSE a

(***************************************************************************)
(* strcmp.  Two strings agree in their first characters; then comes a      *)
(* character of each, and whatever the memory holds behind it.             *)
(***************************************************************************)
StringAt(j, a, next, rest) ==
  [i \in 0 .. 31 |-> CASE i < a           -> 3
                       [] i - a \in 0 .. j.same - 1 -> j.common
                       [] i - a = j.same  -> next
                       [] i - a > j.same  -> IF i >= 24 THEN 0 ELSE rest]

StrCmp ==
  /\ job = [op |-> "strcmp"]
  /\ \E same \in 0 .. 13, common \in {1, 7}, x \in {0, 1, 4, 7}, y \in {0, 1, 4, 7},
        p \in {0, 2, 7}, q \in {0, 2, 7}, little \in BOOLEAN,
        at \in {<<0, 0>>, <<0, 1>>, <<2, 2>>} :
       job' = [op |-> "strcmp", same |-> same, common |-> common, x |-> x, y |-> y,
               p |-> p, q |-> q, little |-> little, a |-> at[1], b |-> at[2]]

(* The sign of the result is that of the first characters that differ, and *)
(* zero if none do before the end: however strcmp.S finds the end in a     *)
(* unit, and whatever is behind the end.                                   *)
StrcmpOrders ==
  Called("strcmp") =>
    LET s == StringAt(job, job.a, job.x, job.p)
        t == StringAt(job, job.b, job.y, job.q)
        i == Smallest({k \in 0 .. 25 : s[job.a + k] # t[job.b + k] \/ s[job.a + k] = 0})
        x == s[job.a + i]
        y == t[job.b + i]
    IN  Str!strcmp(s, t, job.a, job.b) = IF x < y THEN -1 ELSE IF x > y THEN 1 ELSE 0

(* The routines of sb1-opt on memory and strings: every byte of a buffer   *)
(* is written, rightly, nothing else changes, and strings are ordered.     *)
MemoryRoutines == MemcpyCopies /\ MemsetFills /\ StrcmpOrders

(***************************************************************************)
(* The checksum.  A sum stands for its remainder modulo Byte^2 - 1, in     *)
(* which a carry out of a pair is added to it.                             *)
(***************************************************************************)
Bytes(pattern) ==
  [a \in 0 .. 140 |-> CASE pattern = "full"   -> Byte - 1
                        [] pattern = "zero"   -> 0
                        [] pattern = "mixed"  -> (a * a + a \div 3) % Byte
                        [] pattern = "sparse" -> IF a % 5 = 0 THEN 6 ELSE 0]
Patterns == {"full", "zero", "mixed", "sparse"}
Partials == {0, 1, 8, 4095, 2731}

CsumPartial ==
  /\ job = [op |-> "csum_partial"]
  /\ \E src \in 8 .. 9, len \in 0 .. 80, p \in Patterns, partial \in Partials, big \in BOOLEAN :
       job' = [op |-> "csum_partial", src |-> src, len |-> len, pattern |-> p,
               partial |-> partial, big |-> big]

Copying(s, d, len, p, partial, big, srcEnd, dstEnd) ==
  [op |-> "csum_copy", src |-> 72 + s, dst |-> 8 + d, len |-> len, pattern |-> p,
   partial |-> partial, big |-> big, srcEnd |-> srcEnd, dstEnd |-> dstEnd]

CsumCopy ==
  /\ job = [op |-> "csum_copy"]
  /\ \E s \in 0 .. 3, d \in 0 .. 3, len \in 0 .. 45 :
       \/ \E p \in Patterns \ {"zero"}, partial \in {0, 4095, 2731}, big \in BOOLEAN :
            job' = Copying(s, d, len, p, partial, big, 140, 140)
       \/ \E srcEnd \in {a \in 72 .. 71 + s + len : a % 4 = 0} :
            job' = Copying(s, d, len, "mixed", 0, TRUE, srcEnd, 140)
       \/ \E dstEnd \in {a \in 8 .. 7 + d + len : a % 16 = 0} :
            job' = Copying(s, d, len, "mixed", 0, TRUE, 140, dstEnd)

TrueSum(mem, j) ==
  LET sum[i \in 0 .. j.len] ==
        IF i = 0 THEN j.partial
        ELSE sum[i - 1] + mem[j.src + i - 1] * (IF (i % 2 = 1) = j.big THEN Byte ELSE 1)
  IN  sum[j.len]
SameSum(x, y) == x % (Byte^2 - 1) = y % (Byte^2 - 1) /\ (x = 0 <=> y = 0)

(* Where csum_bytes begins, which takes what is left of a buffer that is   *)
(* not aligned like dst.                                                   *)
SingleBytes(j) ==
  LET up == (-j.dst) % 4
  IN  IF j.len < 4 THEN 0
      ELSE IF j.src % 4 = j.dst % 4 THEN j.len
      ELSE j.len - ((j.len - up) % 4)

(* The sum that csum_partial.S returns is the Internet checksum of the     *)
(* bytes as they follow each other in the buffer and of partial_sum,       *)
(* wherever the buffer and its copy begin: no carry is lost between the    *)
(* lanes, and a buffer at an odd address is turned and turned back.        *)
CsumSums ==
  Called("csum_partial") =>
    LET mem == Bytes(job.pattern)
    IN  SameSum(C!csum_partial(mem, job.src, job.len, job.partial), TrueSum(mem, job))

(* csum_partial_copy_user returns that sum and copies the buffer if it can *)
(* be read, and reports an error otherwise; then what can be read is copied*)
(* all the same. The rest of dst is zero, if what cannot be read begins no *)
(* later than at the first byte of csum_bytes; of what begins later see    *)
(* RestZeroed. Nothing but dst is ever written.                            *)
Copies(old, r) ==
  LET buffer == job.dst .. job.dst + job.len - 1
      legal  == job.srcEnd - job.src      \* how much of src can be read
      faults == job.len > 0 /\ job.srcEnd < job.src + job.len
  IN  /\ r.err = 0 => SameSum(r.sum, TrueSum(old, job))
      /\ \A a \in DOMAIN old \ buffer : r.mem[a] = old[a]
      /\ (r.err = 0) = (job.len = 0 \/ (~faults /\ job.dstEnd >= job.dst + job.len))
      /\ job.dstEnd >= job.dst + job.len => \A a \in buffer :
           /\ a - job.dst < legal => r.mem[a] = old[job.src + (a - job.dst)]
           /\ legal <= a - job.dst /\ legal <= SingleBytes(job) => r.mem[a] = 0
CopyReturns(old) ==
  C!csum_partial_copy_user(old, job.src, job.dst, job.len, job.partial, job.srcEnd, job.dstEnd)
CopySums ==
  Called("csum_copy") => Copies(Bytes(job.pattern), CopyReturns(Bytes(job.pattern)))

(* "If an access from src causes an exception, zero the rest of the dst    *)
(* buffer" (csum_partial.S:332-333), wherever the exception comes. The code*)
(* leaves some of the last bytes: see the findings of README.md.           *)
RestZeroed ==
  Called("csum_copy") /\ job.dstEnd >= job.dst + job.len =>
    \A r \in {CopyReturns(Bytes(job.pattern))} :
    \A a \in job.dst .. job.dst + job.len - 1 :
      a - job.dst >= job.srcEnd - job.src => r.mem[a] = 0

(* The sums and the copies of csum_partial.S, for every alignment, length  *)
(* and place of a missing page.                                            *)
Checksums == CsumSums /\ CopySums

(***************************************************************************)
(* tlbconvert.                                                             *)
(***************************************************************************)
EncodeEntry ==
  /\ job = [op |-> "encode"]
  /\ \E page_shift \in 11 .. 28, va \in {0, 4096, 8192, 12288, 2^26, 2^27 + 24576},
        pa0 \in {0, 8191, 12288, 2^26 + 16384}, pa1 \in {None, 4096, 2^26},
        cca \in {2, 5, 8}, asid \in {0, 255, 256}, flags \in {<<1, 1, 1>>, <<1, 0, 0>>, <<0, 1, 0>>, <<0, 0, 1>>} :
       job' = [op |-> "encode", page_shift |-> page_shift, va |-> va, pa0 |-> pa0, pa1 |-> pa1,
               cca |-> cca, asid |-> asid, dirty |-> flags[1], global |-> flags[2],
               valid |-> flags[3]]

(* The pairs of addresses that an entry translates, as the processor reads *)
(* it: bits of EntryHi and of the frames under the mask do not count.      *)
Mapped(e, v) ==
  LET size == (T!Field(e.pagemask, 13, 14) + 1) * 4096
      lo   == IF (v \div size) % 2 = 0 THEN e.entrylo0 ELSE e.entrylo1
  IN  IF v \div (2 * size) # ((e.entryhi \div 8192) * 8192) \div (2 * size) THEN None
      ELSE T!AlignDown((lo \div 64) * 4096, size) + (v % size)

(* Whatever arguments main of tlbconvert.c lets pass, the entry maps the   *)
(* two pages asked for, from their aligned addresses, and shows again what *)
(* it was made of: the addresses and the attributes, and the size of pages *)
(* larger than the smallest; of these see PageSizeShown.                   *)
EncodedMaps ==
  (Called("encode") /\ T!Accepts(job.page_shift, job.cca, job.asid)) =>
    \A e \in {T!encode(job.va, job.pa0, job.pa1, job.page_shift, job.cca, job.asid, job.dirty,
                      job.global, job.valid)} :
    \A shown \in {T!dump_tlb_entry(T!decode(e.entryhi, e.entrylo0, e.entrylo1, e.pagemask))} :
    LET size   == T!page_size(job.page_shift)
        first  == T!AlignDown(job.pa0, size)
        second == IF job.pa1 = None THEN first + size ELSE T!AlignDown(job.pa1, size)
        va     == T!AlignDown(job.va, 2 * size)
    IN  /\ \A off \in {0, 1, size - 1} :
             Mapped(e, va + off) = first + off /\ Mapped(e, va + size + off) = second + off
        /\ Mapped(e, va + 2 * size) = None
        /\ shown.va = va /\ shown.asid = job.asid /\ shown.g = job.global
        /\ shown.page0 = [pa |-> first, cca |-> job.cca, d |-> job.dirty, v |-> job.valid]
        /\ shown.page1 = [pa |-> second, cca |-> job.cca, d |-> job.dirty, v |-> job.valid]
        /\ job.page_shift > 12 => shown.pgsize = size

(* "Use 2^page_shift as the page size. Default is 12 (4096 byte pages)"    *)
(* (tlbconvert.c:216-219): an entry is shown with the size that it was made*)
(* for. Pages of that default are not: see the findings of README.md.      *)
PageSizeShown ==
  (Called("encode") /\ T!Accepts(job.page_shift, job.cca, job.asid)) =>
    \A e \in {T!encode(job.va, job.pa0, job.pa1, job.page_shift, job.cca, job.asid, job.dirty,
                      job.global, job.valid)} :
      T!dump_tlb_entry(T!decode(e.entryhi, e.entrylo0, e.entrylo1, e.pagemask)).pgsize
        = T!page_size(job.page_shift)

(***************************************************************************)
(* The unaligned handlers: a branch, and in its delay slot the load or     *)
(* store that traps.  $1 and $2 are the branch's operands, $3 is the base. *)
(* The processor has carried out the branch as far as its link register.   *)
(***************************************************************************)
Ones == {"BLTZ", "BLTZL", "BLTZAL", "BLTZALL", "BGEZ", "BGEZL", "BGEZAL", "BGEZALL",
         "BLEZ", "BLEZL", "BGTZ", "BGTZL", "BEQ", "BEQL", "BNE", "BNEL"}
Branches ==
  [op : Ones, rs : {1}, rt : {2}, imm : {-3, 5}]
  \union [op : {"J", "JAL"}, index : {2}]
  \union [op : {"JR"}, rs : {1, 31}] \union [op : {"JALR"}, rs : {1}, rd : {31, 2}]
  \union {b \in [op : {"BC1"}, cc : {0, 1}, any : {1, 2, 4}, tf : BOOLEAN, nd : BOOLEAN, imm : {5}] :
            b.nd => b.any = 1}
  \union [op : {"SYSCALL"}]
Slots ==
  [op : {"LH", "LHU", "LW", "LWU", "LD", "SH", "SW", "SD", "LB"},
   rs : {3}, rt : {0, 1, 2, 3, 31}, imm : {-1, 1}]

Taken(b, regs, ccodes) ==
  CASE b.op \in {"BLTZ", "BLTZL", "BLTZAL", "BLTZALL"} -> regs[b.rs] < 0
    [] b.op \in {"BGEZ", "BGEZL", "BGEZAL", "BGEZALL"} -> regs[b.rs] >= 0
    [] b.op \in {"BLEZ", "BLEZL"} -> regs[b.rs] <= 0
    [] b.op \in {"BGTZ", "BGTZL"} -> regs[b.rs] > 0
    [] b.op \in {"BEQ", "BEQL"}   -> regs[b.rs] = regs[b.rt]
    [] b.op \in {"BNE", "BNEL"}   -> regs[b.rs] # regs[b.rt]
    [] b.op = "BC1" -> \E c \in b.cc .. b.cc + b.any - 1 : (c \in ccodes) = b.tf
    [] OTHER -> TRUE
IsLikely(b) == b.op \in U!Likely \/ (b.op = "BC1" /\ b.nd)
LinkOf(b) == CASE b.op \in {"JAL"} \union U!LinksIfTaken -> 31
               [] b.op = "JALR" -> b.rd
               [] OTHER -> 0

Trap ==
  /\ job = [op |-> "trap"]
  /\ \E b \in Branches, a \in Slots, r1 \in {-1, 0, 8}, r2 \in {0, 8}, bd \in BOOLEAN,
        base \in {20, 20 + Byte^4}, sign \in {0, 7}, ccodes \in {{}, {1}},
        abi \in {"o32", "n32", "n64"} :
       /\ bd \/ b.op = "SYSCALL"
       /\ base > 20 => abi # "o32" /\ b.op = "JAL"
       /\ ccodes # {} => b.op = "BC1"
       /\ sign # 0 => b.op \in {"BC1", "BEQ", "JAL", "SYSCALL"}
       /\ r1 = 8 \/ (b.op \in Ones) \/ a.op = "LH"
       /\ b.op \in {"JR", "JALR"} => r1 = 8
       /\ LET regs == [r \in {1, 2, 3, 31} |-> CASE r = 1 -> r1 [] r = 2 -> r2
                                                 [] r = 3 -> base [] r = 31 -> 44]
              linked == IF LinkOf(b) = 0 THEN regs ELSE [regs EXCEPT ![LinkOf(b)] = 68]
          IN  /\ IsLikely(b) => Taken(b, regs, ccodes)
              /\ job' = [op |-> "trap", branch |-> b, slot |-> a, sign |-> sign, abi |-> abi,
                         ef |-> [pc |-> 60, bd |-> bd, ccodes |-> ccodes,
                                 regs |-> IF bd THEN linked ELSE regs]]

Text(ef, branch, slot) ==
  [x \in {60} \union (IF ef.bd THEN {64} ELSE {}) |-> IF ef.bd /\ x = 60 THEN branch ELSE slot]
Data(base, sign) == [a \in base - 4 .. base + 12 |-> IF a % 4 = sign % 4 THEN 6 ELSE a % 4]

NextPC(ef, b) ==
  CASE ~ef.bd -> ef.pc + 4
    [] ef.bd /\ b.op \in {"JR", "JALR"} -> ef.regs[b.rs]
    [] ef.bd /\ b.op \in {"J", "JAL"}   -> 64 + 4 * b.index
    [] OTHER -> IF Taken(b, ef.regs, ef.ccodes) THEN ef.pc + 4 + 4 * b.imm ELSE ef.pc + 8

Size(op) == CASE op \in {"LH", "LHU", "SH"} -> 2 [] op \in {"LW", "LWU", "SW"} -> 4
              [] op \in {"LD", "SD"} -> 8
Loaded(mem, ea, op) ==
  LET value[i \in 0 .. Size(op)] == IF i = 0 THEN 0 ELSE value[i - 1] * Byte + mem[ea + i - 1]
      n == Size(op)
  IN  IF op \in {"LHU", "LWU"} \/ mem[ea] < Byte \div 2 THEN value[n] ELSE value[n] - U!Values[n]
WordsOnly == {"LH", "LHU", "LW", "SH", "SW"}
Fits(v, n) == -U!Values[n] <= 2 * v /\ 2 * v < U!Values[n]

Emulates(mem) ==
  LET ef   == job.ef
      b    == job.branch
      a    == job.slot
      load == a.op \in {"LH", "LHU", "LW", "LWU", "LD", "LB"}
      ea   == ef.regs[3] + a.imm
      links == ef.bd /\ b.op \in {"JAL", "JALR"} \union U!LinksIfTaken
                     /\ Taken(b, ef.regs, ef.ccodes)
      Value(n) == LET v == IF a.rt = 0 THEN 0 ELSE ef.regs[a.rt] IN v % U!Values[n]
      r == IF load THEN U!unaligned_load_handler(ef, Text(ef, b, a), mem)
                   ELSE U!unaligned_store_handler(ef, Text(ef, b, a), mem)
  IN  /\ r.fatal = \/ a.op = "LB"
                   \/ job.abi = "o32" /\ a.op \notin WordsOnly
                   \/ job.abi # "n64" /\ ~Fits(ef.regs[3], 4)
                   \/ ef.bd /\ b.op = "SYSCALL"
      /\ r.fatal => r.ef = ef /\ r.mem = mem
      /\ ~r.fatal =>
           /\ r.ef.pc = NextPC(ef, b)
           /\ \A n \in {1, 2, 3} :
                r.ef.regs[n] = IF load /\ n = a.rt THEN Loaded(mem, ea, a.op) ELSE ef.regs[n]
           /\ r.ef.regs[31] = CASE links -> ef.pc + 8
                                [] ~links /\ load /\ a.rt = 31 -> Loaded(mem, ea, a.op)
                                [] OTHER -> ef.regs[31]
           /\ \A x \in DOMAIN mem :
                r.mem[x] = IF ~load /\ x \in ea .. ea + Size(a.op) - 1
                           THEN (Value(Size(a.op)) \div U!Values[ea + Size(a.op) - 1 - x]) % Byte
                           ELSE mem[x]

(* The handler of unhandler.c does what the processor would have done if   *)
(* the access were aligned, the branch of its delay slot included, which   *)
(* takes its operands from before the load; or it gives up, which happens  *)
(* only for an access that it does not know, for a base that is no pointer *)
(* of its own, or for an instruction that is no branch.  The link register *)
(* is another matter: it is set after the load, and it is $31 for JALR     *)
(* too, so that a load into $31 and the old $31 of a JALR that links       *)
(* elsewhere are lost.                                                     *)
TrapEmulates == Called("trap") => Emulates(Data(job.ef.regs[3], job.sign))

(***************************************************************************)
(* tbanal.  The cycles of a trace, as they were on the bus, are packed     *)
(* into triples: a cycle with a data phase has one of its own, of the      *)
(* others up to three share one.                                           *)
(***************************************************************************)
Requests == {None} \union [aid : {"cpu0"}, tid : {0, 1}, cmd : {"READ_SHD"}]
            \union [aid : {"cpu0"}, tid : {0}, cmd : {"WRITE"}]
Answers == {None} \union [rsp : {"mc"}, aid : {"cpu0"}, tid : {0, 1}, code : {"DVal"}]
           \union [rsp : {"mc"}, aid : {"cpu0"}, tid : {0}, code : {"Bus_error"}]
           \union [rsp : {"cpu0"}, aid : {"cpu0"}, tid : {0}, code : {"DVal"}]
Cycles(gaps) == {c \in [gap : gaps, a : Requests, d : Answers] : c.a # None \/ c.d # None}
Simple == [gap : {4}, a : {[aid |-> "cpu0", tid |-> 0, cmd |-> "READ_SHD"]},
           d : {None, [rsp |-> "mc", aid |-> "cpu0", tid |-> 0, code |-> "DVal"]}]

AnalyzeTrace ==
  /\ job = [op |-> "trace"]
  /\ \/ \E x \in Cycles({1}), y \in Cycles({1, 4}), z \in Cycles({1, 4}) :
          job' = [op |-> "trace", cycles |-> <<x, y, z>>]
     \/ \E w \in Simple, x \in Simple, y \in Simple, z \in Simple :
          job' = [op |-> "trace", cycles |-> <<w, x, y, z>>]

Sample(c) == [atrig |-> c.a # None, dtrig |-> c.d # None, count |-> c.gap - 1, a |-> c.a, d |-> c.d]
Unused == [atrig |-> FALSE, dtrig |-> FALSE, count |-> 0, a |-> None, d |-> None]
Stale == [Unused EXCEPT !.atrig = TRUE, !.a = [aid |-> "cpu0", tid |-> 0, cmd |-> "WRITE"]]

Pack(cycles) ==
  LET Alone(k) == cycles[k].d # None
      packed[k \in 1 .. Len(cycles) + 1] ==
        IF k > Len(cycles) THEN <<<<Unused, Stale, Stale>>>>
        ELSE IF Alone(k) THEN <<<<Sample(cycles[k]), Stale, Stale>>>> \o packed[k + 1]
        ELSE IF k = Len(cycles) \/ Alone(k + 1)
             THEN <<<<Sample(cycles[k]), Unused, Stale>>>> \o packed[k + 1]
        ELSE IF k + 1 = Len(cycles) \/ Alone(k + 2)
             THEN <<<<Sample(cycles[k]), Sample(cycles[k + 1]), Unused>>>> \o packed[k + 2]
        ELSE <<<<Sample(cycles[k]), Sample(cycles[k + 1]), Sample(cycles[k + 2])>>>>
             \o packed[k + 3]
  IN  packed[1]

(* A second buffer that begins with the answer to a read before it. *)
Answer == [gap |-> 1, a |-> None,
           d |-> [rsp |-> "mc", aid |-> "cpu0", tid |-> 0, code |-> "DVal"]]

At(cycles, k) ==
  LET time[i \in 1 .. k] == IF i = 1 THEN 0 ELSE time[i - 1] + cycles[i].gap
  IN  time[k]
ReadAt(cycles, j, t) == cycles[j].a # None /\ cycles[j].a.cmd \in B!Reads /\ cycles[j].a.tid = t
AnsweredAt(cycles, k, t) ==
  /\ cycles[k].d # None
  /\ cycles[k].d.tid = t /\ cycles[k].d.code = "DVal" /\ cycles[k].d.rsp # cycles[k].d.aid
(* The cycles j and k of a read and its answer. *)
Pairs(cycles) ==
  {p \in (DOMAIN cycles) \X (DOMAIN cycles) : p[1] <= p[2] /\ \E t \in {0, 1} :
     /\ ReadAt(cycles, p[1], t) /\ AnsweredAt(cycles, p[2], t)
     /\ \A i \in p[1] + 1 .. p[2] : ~ReadAt(cycles, i, t)
     /\ \A i \in p[1] .. p[2] - 1 : ~AnsweredAt(cycles, i, t)}

Delays(c) == {At(c, p[2]) - At(c, p[1]) : p \in Pairs(c)}
Analyzed(c) == B!main(<<Pack(c), Pack(<<Answer>>)>>)

(* tbanal.c bins for every read that is answered in its buffer the time    *)
(* from the one to the other, and nothing for an answer whose read it has  *)
(* not seen: whatever transactions lie between, numbers are used again,    *)
(* answers are missing, and however the cycles are packed. It counts each  *)
(* address phase once. An assertion stops it if such a time has no bin, and*)
(* then only; of traces of the first length without a bin see              *)
(* AssertionHolds.                                                         *)
TraceBinned ==
  Called("trace") =>
    LET c == job.cycles
        Delay(p) == At(c, p[2]) - At(c, p[1])
    IN  \A r \in {Analyzed(c)}, pairs \in {Pairs(c)} :
        /\ At(c, Len(c)) # 8 => r.failed = (\E d \in Delays(c) : d >= 8)
        /\ ~r.failed => \A v \in 0 .. 7 :
             r.read_lat["cpu0", "READ_SHD", "mc"][v] = Cardinality({p \in pairs : Delay(p) = v})
        /\ ~r.failed => \A x \in B!Transactions :
             r.trans_counts["cpu0", x] =
               Cardinality({k \in DOMAIN c : c[k].a # None /\ c[k].a.cmd = x})

(* "assert(value < NHIST)" (tbanal.c:444) never fails if the bins are large*)
(* enough for the times of the reads: a trace that is too long for them is *)
(* "not binning tb length" (614). The first length without a bin fails it: *)
(* see the findings of README.md.                                          *)
AssertionHolds ==
  Called("trace") /\ (\A d \in Delays(job.cycles) : d < 8) => ~Analyzed(job.cycles).failed

(***************************************************************************)
(* The register headers.  Blocks of registers at the addresses that their  *)
(* macros compute, the pairs of a named and a computed address, and every  *)
(* field of a register together with any other.                            *)
(***************************************************************************)
Names == R!Names1250 \union R!Names1480
Range(f) == {f[x] : x \in DOMAIN f}

PlaceBlock ==
  /\ job = [op |-> "block"]
  /\ \E chip \in {"bcm1250", "bcm1480", "bcm1480hs"} :
     \E blocks \in {CASE chip = "bcm1250" -> R!Blocks1250 [] chip = "bcm1480" -> R!Blocks1480
                      [] OTHER -> R!BlocksHS} :
     \E b \in DOMAIN blocks, other \in DOMAIN blocks :
       job' = [op |-> "block", block |-> b, other |-> other, registers |-> Cardinality(DOMAIN blocks[b]),
               at |-> Range(blocks[b]), there |-> Range(blocks[other])]
NameRegister ==
  /\ job = [op |-> "name"]
  /\ \E n \in Names : job' = [op |-> "name", named |-> n[1], computed |-> n[2]]
UseField ==
  /\ job = [op |-> "field"]
  /\ \E tables \in {Fields!Tables} :
     \E t \in DOMAIN tables : \E r \in DOMAIN tables[t] : \E f \in DOMAIN tables[t][r], folds \in BOOLEAN :
       job' = [op |-> "field", reg |-> r, field |-> f, fields |-> tables[t][r], folds |-> folds]

(* Names whose address looks like a slip: the spacing of the mailboxes is  *)
(* written in octal (bcm1480_regs.h:410), and registers of the channels C  *)
(* and D of the second DUART have names 0x100 below them (250-286).        *)
SlippedNames == {\h10028100, \h10028200, \h10028300} \union \h10060400 .. \h100606FF

(* No two registers of a chip have an address in common, all are of 64     *)
(* bits, and where sb1250_regs.h and bcm1480_regs.h name an address it is  *)
(* the one that the macro computes, but for the slips.                     *)
AddressesApart ==
  /\ Called("block") =>
       /\ \A a \in job.at : a % 8 = 0
       /\ IF job.block = job.other THEN Cardinality(job.at) = job.registers
          ELSE job.at \cap job.there = {}
  /\ Called("name") /\ job.named \notin SlippedNames => job.named = job.computed

(* "These constants are the absolute addresses" (bcm1480_regs.h:247,       *)
(* sb1250_regs.h:346): of the registers that the macros beside them        *)
(* compute. SlippedNames are not.                                          *)
NamesCompute == Called("name") => job.named = job.computed

(* Fields of a register that share bits by design: some headers name a     *)
(* group of bits and each of them, the bits of one chip and those of       *)
(* another, what is written and what is read, or what sending and          *)
(* receiving use a bit for.                                                *)
Alternatives(reg, f, g) ==
  \/ /\ reg = "RX_DIAG_DETAIL"
     /\ "STATUS" \in {f, g}
     /\ {f, g} \cap {"PERVCERR", "ALPHATRAINERR", "SPI4PROTOERR", "DIP4ERROR",
                     "ESTOREOVERFLOW", "PUSHPOP_DISTANCE", "ESTORE_DISTANCE"} = {}
  \/ reg = "FRAMECFG" /\ {f, g} = {"IFG_RX", "PRE_LEN"}
  \/ /\ reg = "STATUS"
     /\ <<f[2], f[3]>> = <<g[2], g[3]>>
     /\ \/ f[2] # 2 /\ ("CHANNEL" \in {f[1], g[1]} \/ {f[1], g[1]} = {"DZERO", "DROP"})
        \/ /\ "STATUS_OTHER_ERR" \in {f[1], g[1]}
           /\ {f[1], g[1]} \cap {"SPLIT_EN", "COUNTER_ADDR", "TX_PAUSE_ON"} = {}
        \/ {f[1], g[1]} = {"SPLIT_EN", "COUNTER_ADDR"}
  \/ reg = "MDIO" /\ {f, g} = {"MDIO_DIR", "MDIO_DIR_INPUT"}
  \/ reg = "DMA_CONFIG0" /\ {f, g} = {"CHAIN_SEL", "DESC_TYPE"}
  \/ reg = "DMA_CONFIG1" /\ {f, g} = {"RX_XTRA_STATUS", "TX_CPU_PAUSE"}
  \/ reg = "DM_DSCR_BASE" /\ {f, g} = {"RESET", "ERROR"}

(* Fields that look like slips: 12 bits every 8 for a calendar, four packet*)
(* types at bit 0, the interrupts of eight queues that are shifted by 256  *)
(* and not by 8 times the queue, masks that shift by 64, three bits where  *)
(* the third is a field of its own, two bits too many for the function of a*)
(* trace sequence, and two pointers that are read with the masks of others.*)
Slips(reg, fields) ==
  CASE reg \in {"RX_CALENDAR", "TX_CALENDAR", "PKT_TYPE", "INT", "TEST_DATA", "GLB_ECC_CORRECT"}
                              -> fields
    [] reg = "DRIVE_CFG"      -> {"RTT_BYP_PULLUP"}
    [] reg = "TRACE_SEQUENCE" -> {"FUNCTION"}
    [] reg = "FIFO_PTRS"      -> {"RX_WRPTR", "RX_RDPTR"}
    [] OTHER                  -> {}

M(f) == Access!M(f)
V(f, x) == Access!V(f, x)
G(f, r) == Access!G(f, r)
All(f) == 0 .. f.width - 1
Codes(f) == {{}, All(f)} \union {{b} : b \in All(f)}

ReadsBack(f) == \A c \in Codes(f) : G(f, V(f, c)) = c
Apart(f, g) ==
  \A c \in Codes(f) :
    LET r == V(f, c) \union V(g, All(g))
    IN  /\ G(f, r) = G(f, V(f, c))
        /\ G(g, (V(g, All(g)) \ M(f)) \union V(f, c)) = G(g, V(g, All(g)))

FieldKept(names) ==
  job.field \in names =>
    /\ ReadsBack(job.fields[job.field])
    /\ \A h \in names \ {job.field} :
         Alternatives(job.reg, job.field, h) \/ Apart(job.fields[job.field], job.fields[h])

(* A program reads from a field the code that it put there with the macros *)
(* of sb1250_defs.h, whatever is in another field of the register; and it  *)
(* changes no other field when it clears and sets this one: for the fields *)
(* of all registers but for the slips.                                     *)
FieldsKept ==
  Called("field") => FieldKept((DOMAIN job.fields) \ Slips(job.reg, DOMAIN job.fields))

(* "V_xxx(X) VALUE. This macro computes the value of a K_xxx constant      *)
(* shifted to the correct position in the register", and G_xxx(X) retrieves*)
(* it (sb1250_defs.h:209-217): of every field. Of Slips they do not.       *)
MacrosAccess == Called("field") => FieldKept(DOMAIN job.fields)

(* The headers of include/sibyte keep registers and fields apart and name  *)
(* what their macros compute, but for SlippedNames and Slips: the          *)
(* statements that those break are NamesCompute and MacrosAccess.          *)
HeadersApart == AddressesApart /\ FieldsKept

Init == job \in [op : {"memcpy", "memset", "strcmp", "csum_partial", "csum_copy", "encode",
                       "trap", "trace", "block", "name", "field"}]
Next == Memcpy \/ Memset \/ StrCmp \/ CsumPartial \/ CsumCopy \/ EncodeEntry \/ Trap
        \/ AnalyzeTrace \/ PlaceBlock \/ NameRegister \/ UseField
Spec == Init /\ [][Next]_job
=============================================================================
