# TLA+ models of the SiByte sample software

The repository is a collection of small C and assembly libraries and programs
for the SiByte (Broadcom BCM1250/1480) MIPS64 system-on-chip: spinlocks and
semaphores, an exception and interrupt library, a profiler, TLB utilities, an
unaligned-access handler, a cache-error handler, and optimised string routines.
This directory models the parts that keep state or run concurrently, and the
algorithms of those that do not, checks them with TLC on small instances, and
proves the main invariants with TLAPS for every instance.

## 1. Inventory

For each part: the state it keeps, its operations, what it interacts with, what
is hard about it, and what makes it correct. PROJECT.json names the sources and
lists the hazards at their lines.

**atomic-ops/spinlock.h, semaphore.h.** State: one word of shared memory.
Operations: lock, trylock, release (32 and 64 bits); P and V. They interact
only through the word, with the load-linked / store-conditional pair. Hard: the
interleaving of the ll/sc sequences of several CPUs, a link lost to an interrupt
or an eviction, retries, the trapping add at the largest int. Correct when: the
lock excludes, the semaphore counts, trylock reports what happened, somebody
always gets in.

**libexception/exlib.c, exlib_vectors.S, exlib_set_common_handlers.c,
exhandler_\*.c.** State: the table of handlers and FP save masks per exception
code, the saved vectors and Status:BEV and Cause:IV, the frames on the stack.
Operations: init, shutdown, set a handler or a mask; entry, dispatch and return
of an exception; the handlers that come with the library (panic, abort, enabling
MDMX on demand). It calls intr.c's dispatcher through the table and is called by
it (intr_init and intr_shutdown set the handler). Hard: taking over vectors
through which interrupts come meanwhile; being started again; exceptions in
exception handlers; an FP state that is saved only in part, and one part of it
only if it was usable. Correct when: an exception always enters code that is in
charge, what was found is what is left at shutdown, what was interrupted goes on
with its own registers, and nothing panics that had a handler.

**libexception/intr.c.** State: the handler chain of each of 8 interrupts, the
union of the FP save masks of the chained handlers, what intr_shutdown has
to give back, and Status and Cause themselves. Operations: init, shutdown, the
master enable, the mask bits, the software interrupts, adding and removing
handlers; and the dispatcher, which the exception library calls. Hard: an
interrupt may come between any two accesses of the main program; handlers may
call all the same routines, even change the chain that is being traversed.
Correct when: the interrupted program's registers survive, exactly the
installed handlers run, requests to Status and Cause stick, and a pending
interrupt is eventually served.

**libsbprof.** sbprof.c initialises the two profilers below and writes their
buffers out at exit. sbprof_zbbus.c: the trace buffer of the ZBbus, filled by
hardware, copied out and armed again by an interrupt handler; state: a write
position in a buffer, whether profiling runs, the interrupt's mask as it was
found. sbprof_cpu.c: performance counters sampled by interrupt into a log with
contexts and slots; state: the log, the current context and the slots' periods.
Hard: handlers against start and stop, a full buffer, initialisation that fails
half-way. util/tbanal.c makes statistics of a trace file offline.

**tlb.** tlb.h: one routine per TLB instruction. tlb_utils.c: init_tlb, which
resets a TLB of unknown contents, entry by entry; dumping. tlballoc.c: maps the
physical memory of the firmware at start-up with wired entries, then the stack
and sbrk. tlbconvert.c: a command that decodes and encodes entries. State: the
TLB. Hard: two entries that match one address shut the processor down, even
invalid ones, so that the order of writes matters; page sizes, alignments and
the number of entries at their limits. Correct when: no two entries ever
conflict, what should be mapped is mapped and nothing else.

**unaligned/unhandler.c.** Emulates an unaligned load or store that trapped,
and the branch whose delay slot it sits in. No state of its own. Hard: the next
program counter, the link register, sign extension, partial words.

**cache-err/cerr.S.** The cache error handler: saves two registers at fixed
addresses, decides whether the error is recoverable, invalidates or unlocks.
Hard: the save slots are shared by the processors.

**sb1-opt (memcpy, memset, strcmp, csum_partial, ffs).** Assembly routines over
memory. Hard: alignments, lengths at the boundaries of their unrolled loops,
faults in the middle of a copy, carries.

**include/sibyte.** Headers, nearly half of the repository's lines: the addresses
of the registers of two families of chips, and the fields of each. No state; all
other parts reach the hardware through them. Hard: two thousand macros that only
the hardware tests, some of them with shifts that C does not define. Correct
when: no two registers share an address and no two fields of a register a bit, a
named address is the one its macro computes, and what is put into a field is what
is read from it.

**cp0, libmips_fpu, mdmx, psingle, build scripts.** Wrappers of single
instructions with their tests, generated files.

## 2. Modules

| Module | Models | Kind |
| --- | --- | --- |
| Processors | the processors of Spinlock, Semaphore and Cerr, and where each is | environment |
| LoadLinked | the memory word and its ll/sc links (external) | environment |
| AbstractLock | what spinlock.h promises | abstract specification |
| Spinlock | spinlock.h | detailed; refines AbstractLock |
| AbstractSemaphore | Dijkstra's P and V | abstract specification |
| Semaphore | semaphore.h | detailed; refines AbstractSemaphore |
| InitTlb | tlb_utils.c init_tlb over tlb.h | state machine |
| Exlib | exlib.c, exlib_vectors.S, the handlers of the library | state machine |
| Intr | intr.c over exlib_dispatch and exlib_return | state machine |
| SbprofCpu | sbprof_cpu.c: start, stop, handler, the sample log | state machine |
| SbprofZb | sbprof_zbbus.c: start, stop, handler; sbprof_init2 | state machine |
| Cerr | cerr.S on several processors | state machine |
| TlbAlloc | tlballoc.c: __libcfe_meminit and sbrk | state machine |
| MemOps, Strcmp, Csum | sb1-opt | operators |
| TlbConvert | tlbconvert.c | operators |
| Unhandler | unhandler.c | operators |
| Tbanal | tbanal.c | operators |
| FieldAccess | the field macros of sb1250_defs.h | operators |
| Fields, HspFields, PmFields, McFields, MacFields, SocFields, RegisterFields | the form of a field; bcm1480_hsp.h, bcm1480_pm.h, bcm1480_mc.h, sb1250_mac.h; sb1250_scd.h, sb1250_dma.h and sb1250_mc.h; all of them | tables |
| Registers1250, Registers1480 | sb1250_regs.h, bcm1480_regs.h | operators and tables |
| MC... | the instance of each for TLC; MCAlgorithms that of all operators | |
| ProcessorsProofs | the theorems about Spinlock, Semaphore and Cerr | proofs |
| AlgorithmsProofs | the theorems about MemOps, Strcmp, Csum, TlbConvert and Unhandler, in terms of MCAlgorithms | proofs |
| other ...Proofs | the theorems about the module named | proofs |

Cerr needs no instance and is checked itself. Spinlock, Semaphore and Cerr share
the variable pc and a module of proofs; the names of their parts of a specification
begin with Lock, Sem and Cerr (LockInit, LockNext, LockSpec).

A definition whose comment calls it a mistake for a mutation run is no part of
the specification: it is a plausible bug of one routine, which the property
named beside it in PROJECT.json must notice.

### Spinlock and Semaphore

`lock` (`sem`) is the shared word, `linked` the set of CPUs whose ll link is
open, `pc` where each CPU is, `lockval`, `ret` and `tmp` its arguments, results
and register. One action per instruction that touches the word; the branches
between them depend only on the register and are folded into the preceding
load or sc. The 64-bit routines are the same instructions on a wider word. A
CPU whose link is lost before its sc fails and goes back to the ll, as the beqz
says. The caller is the loop the header prescribes; for the semaphore it may
also release what it never took, which is what the header's note 3 is about.
History: `surplus` counts such releases.

### InitTlb

Addresses are counted in units of 8 kB, what an entry of the minimum page size
maps; an entry is the set of units it matches, its address space or global bit,
and whether it is valid. Each tlb_probe and tlb_write_index is a step (a probe
and the write after it are separate steps, the two lookups of one pass are
not: nothing else runs). The initial TLB is any that works: no two entries
conflict. `safe = 0` is called only for a TLB compatible with the base, as the
comment at lines 95-98 says. History: `skipped` collects the slots found
exactly at a safeaddr.

### Exlib

`status`, `iv`, `vec` and `cerr` are the machine as far as it says where an
exception enters: Status (IE, EXL, BEV, MX), Cause:IV, the three vectors in RAM
and whether the RAM cache error vector holds code. `handlers`, `initted` and
`saved` are the statics of exlib.c, `intr` those of intr.c that concern the
table. `main` is the main program: its place in exlib_init or exlib_shutdown,
the value of Status that it is about to write, the IE bit it will give back, the
vector it is at, and where it goes on. exlib_init and exlib_shutdown go one
access to Status, Cause or one vector at a time, since interrupts come between
them; between two calls the environment may move its vectors, BEV and IV as it
likes. The program starts and stops the library and intr in any order that
exlib.h allows, changes masks and the handler of one code, and uses the
MDMX accumulator, which traps until it is enabled.

`cpu` says what the processor executes: the main program or a handler ("run"), a
handler's return, or the steps of the library around it: entry, dispatch,
restoring Status, restoring registers, eret, or a panic. `frames` is the stack of
exception frames; an interrupt or a fault may come wherever Status lets it, in
handlers too, up to MaxDepth. A frame has Status and EPC as they were, the code,
what was saved of the two groups of FP registers (the caller-saved ones and the
accumulator), and the handler. Registers have no values here but the level of the
context that computed them (`owner`), which is all that ContextKept needs. An
exception before the library is in charge goes to the environment, which handles
it unnoticed (Interrupt with no frame). History: `env` is what the environment had
set up, `want` what the program asked for (IE, handlers) and who uses the
accumulator.

The interrupt dispatcher is one handler here; Intr has its steps.

### Intr

Status is a set of bits: IE and the mask bit of each interrupt. Cause is the
software requests and the lines that devices assert. Main-program routines go
one access at a time, and an interrupt can be taken between any two of them
while IE is set; in interrupt context IE is clear, so what one handler does is
one step. `handler_chains`, `intr_fpsavemask`, `initted`, `orig` are the static
variables, `entry` is handlers[K_CAUSE_EXC_INT] of exlib.c, `main` the call in
progress with its local variables, `ex` the exception frame and the local
variables of the dispatcher (next_ih included). A handler may serve its device,
change the frame's Status, request a software interrupt, remove itself or
another, or add one: HandlerOps says which a given program's handlers do, and each
run of the module says which it is about. A
handler in Shy returns 0. The groups of FP registers are those the masks of
exlib.h name; SCRATCH stands for the two caller-saved registers that
exframe_restore_fp loads the accumulator through. `dirty` collects the groups of
the main program that handlers have overwritten; `want` is what Status and Cause
would be if every request took effect at once; `seen` the handlers owed a call in
this chain and those called.

### SbprofCpu

The log is a sequence of 4-byte words: `cpud->next` is its length times four,
and `last_event` the length behind the open header, or -1. The operators
Backfilled, EnterContext, Report and Sampled are the routines on the pair of
both, composed as the code composes them. Configuration messages are ConfigSize
words that are only counted. sbprof_start is one step, since interrupts are
disabled throughout; sbprof_stop is two, one on each side of the pause in which
it enables them. The handler is split at its samples. `armed` and `over` are the
counters: whether they count, and which have overflowed and frozen the others.
The line is shared with Count/Compare, so that the handler may run without an
overflow. History: `taken` is the list of samples that went under a header with
the slot of the moment, `lost` whether any did not. Decoded reads the log the
way a reader has to, from the front, a message at a time.

### SbprofZb

The hardware takes its own steps: the counter overflows and starts the trace, the
trace buffer fills and freezes, and its interrupt source reaches line 6 of the
processor some time later. When the handler arms the buffer again the line falls
at once or at any later step, as the comment on the read back says (153-154: "Not
a guarantee"); a handler that finds the buffer not frozen takes the interrupt for
spurious (168-175), and arms it once more or not. zbprof_trapfunc is one step
(interrupts are disabled); start and stop are one step per write that the hardware
or the handler can tell from the next. A trace is its number. sbprof_init2 may
fail, which leaves the library marked as initialised without a buffer. The program
may or may not have an interrupt 6 handler of its own (`others`). History: `past`
is whether profiling was started and stopped, IM6 as it was before, and whether
the program's last call asked for samples.

### Cerr

One action per instruction of the fast path that touches the slots, ErrCtl or a
cache; `slot` holds the two words, k0 and k1 have as value the program whose
they are. The error that the processor reports is any combination of the three
bits tested and OtherBits, which stand for the rest of ErrCtl; `bad` is the icache
line that it is about. History: `alone` says that no other processor was
between its save and its restore.

### TlbAlloc

Addresses and sizes are counted in 4 KB pages; an entry is its first page, the two
pages' joint size, the physical page it was given and its valid bit. The program
is chosen in the initial state: its end, the build's VA_START and
MAX_WASTED_PAGESIZE, and the memory map that cfe_enummem will report. One step per
region enumerated, one per entry written, one per region entered, one per sbrk.
`Pair` is the page size computation; it takes the largest size that both tests
allow, which is what the two loops find. `Kept` is what a program keeps of its
bank, the least of `Sizes` that holds it; `Mapped` is the physical range that the
TLB makes of an entry: it ignores the bits of a frame number below the page size,
so that this is the range the code meant only if the entry is `Straight`. The two
arrays of regions have MaxRegions places, and nothing tests whether they are full:
what a program does that overruns them is undefined, and the model ends in
`Overrun`.

### The algorithms

These modules have operators only, without recursive operators: a routine maps a
record of pointers, lengths and memory to another, with the loops of the assembly
as recursive functions over their count, block by block and case by case. In the
runs a byte has eight values, so that sums and words stay small while every width
keeps its proportions; the theorems hold for 256 as well. MCAlgorithms makes a
state of every call with arguments from its sets, and compares the result with a
definition of what should come out, which follows none of the routine's steps: for
memcpy the bytes of the source and the set of bytes written, for strcmp the first
difference, for the checksum the sum of the bytes modulo 63 in place of 65535, for
tlbconvert the processor's translation by the entry, for the unaligned handler the
processor's execution of branch and access, for tbanal the pairs of reads and
answers in the cycles before they were packed into triples.

In csum_partial.S a fault leaves its handler in the state's `exc`; the state then
goes through the entry's fixup. Unhandler is instantiated for the three ABIs.

### The register headers

A register word is the set of its bits that are 1. A field is a record of its
width, its shift S_ and the shift of the mask that its G_ uses (Fields); the
tables name the fields of each register without their common prefix, and families
of fields with a number are functions of it. A word that a header describes twice
(an aligned and an unaligned DMA descriptor, say) is two registers. FieldAccess
builds values and masks by the macros of sb1250_defs.h; its constant `folds` says
what becomes of a shift by 64 or more, which C does not define: a compiler that
folds the constant makes it zero, the processor shifts by the count modulo 64.
MCAlgorithms uses every field with both. Registers1250 and Registers1480 have the
address macros as operators and the offsets as tables; where a header names the
address of a register as well, Names1250 and Names1480 pair it with what the macro
computes. MCAlgorithms makes a state of every block of registers, every such pair
and every field.

## 3. What is checked

| Run | Question | Bounds |
| --- | --- | --- |
| spinlock | refinement of the abstract lock, truthful trylock, lock freedom | 3 CPUs, 2 lock values, 1 lost link |
| semaphore | conservation and trap, refinement, no livelock | 3 CPUs, count 2, largest int 4, 1 lost link |
| init_tlb | no TLB Shutdown, range suffices, reset complete, ends | 3 slots, base 7, all working initial TLBs over units 0..10, spans of 1 and 4 units, 2 address spaces |
| exlib | who is in charge, giving back, contexts, panics, MDMX | 3 exception codes, 2 environments, exceptions 2 deep |
| intr | FP state, traversal, requests, service | 2 interrupts (1 software), 2 handlers with overlapping masks, one shy |
| intr_any_handler | exactness of the save mask | the same, handlers that do everything |
| intr_mdmx_scratch | violated: see Findings | a program that uses MDMX |
| sbprof_cpu | headers, capacity, recovery of the samples, rotation of slots | 24 words, a header at every multiple of 7, 2 counters, 3 slots of 2 ticks |
| sbprof_zb | traces kept, interrupts claimed, line given back, samples come | room for 2 traces, 5 taken |
| cerr | registers kept, only errors that are gone return, recoverable ones do | 2 CPUs, 1 icache set, all 16 combinations of the three bits tested and another |
| tlballoc | entries apart, memory mapped once, heap mapped | 7 entries, pages of 1 to 16, 2 regions at most, 3 starts, 3 builds, 90 memory maps of up to 3 regions, sbrk of -5 to 5 |
| algorithms | each routine against its definition; registers and fields apart | see the sets in MCAlgorithms; all of the modelled headers |

Why the bounds are enough. A third CPU can take the lock between another's ll
and sc while one more spins: any further CPU repeats one of these roles, and the
theorems hold for any number. A count of two is both contended and exhausted
with three CPUs; four is the smallest largest int that is reached only by
surplus releases. Three TLB slots give one moved, one skipped or shrunk and one
untouched at a time; spans of four units straddle the safe range and the base.
init_tlb never reads a V bit, so only valid initial entries are enumerated.
Two environments in turn show a copy of the vectors that is too old; a fault in
a handler that interrupted the main program is the shortest stack in which a
frame must hold what the frame below does not, and the theorems hold for any
depth. Two handlers in one chain are needed for a removal during the traversal,
two interrupts for an order among them and for the loop of the dispatcher; the
masks overlap, so that subtracting instead of recalculating would show. 24 words
hold several headers and chunk limits and are then exhausted at every possible
distance from a header; a third slot distinguishes the next from the other one.
Five traces against room for two go on after the buffer is full, across several
starts. Processors in the cache error handler share only the save slots, and
a handler looks at the ways of one set of its icache, so two processors with one
set suffice. Seven entries, 64 pages of addresses and the regions' sizes let each of
the three run out first, with every remainder that a page size leaves. The
lengths given to the assembly routines reach one turn beyond each of their
unrolled loops, at each alignment; the four kinds of cycles in up to four places
let tbanal's triples have every form.

CHECK_DEADLOCK is off where the program may really stop: exlib_panic and the
unrecoverable cache error end it, a semaphore whose every CPU has trapped has
stopped, and a routine is called once.

Fairness. A CPU inside a lock or semaphore routine keeps executing instructions,
and a lock's critical section ends; nobody is obliged to call. init_tlb, once
called, runs. An exception handler runs on until it returns (weak fairness on
its steps); the processor takes a pending interrupt at the next instruction
while it is enabled, so strong fairness for an interrupt that is enabled over
and over. No fairness for the main program or for devices, but that in SbprofZb
a call of start or stop returns and a program that left interrupts disabled
enables them again. The SCD counter, once on, overflows, the trace buffer fills
and its interrupt arrives: nothing in them waits for the program. Cycles are
counted by counter 0 whenever the counters are not frozen, and the handler
preserves its value while other counters overflow, so that it overflows in the
end however often it is frozen: strong fairness. sbprof_stop's pause ends. A
processor in the cache error handler executes it.

### Assumptions of the runs

`exlib`: the program calls intr_shutdown before exlib_shutdown
(exlib.h:272-275); one that does not, and starts both again, panics at its first
interrupt, since exlib_init puts exhandler_panic into the table (exlib.c:157)
while intr_initted makes intr_init do nothing. Handlers name what they use in
their masks. The processor is the one the library was built for.

`intr`: handlers do not change the frame, and remove none but themselves (what
happens otherwise is the subject of RequestsStick and of InstalledHandlersRun
under Findings). There is one software interrupt, as a second, cleared by a
handler between read and write of Cause, would come back (intr.c:246); the
program clears IE before intr_shutdown, which takes the dispatcher away before it
disables the interrupts (intr.c:77); a handler adds none, since the frame in use
was saved with the mask of before (intr.c:143).

`sbprof_cpu`: BufferFits. sbprof_config_log tests no bound and `bufsize - 20` is
unsigned, so a buffer that cannot hold the configuration and a context is
overrun, although sbprof.h:57-59 lets a size of zero mean that nothing is
collected. While a profile runs the last header has no count yet, so Recovered
speaks of stopped ones; it speaks of samples that have a header.

`sbprof_zb`: the pauses in stop outlast whatever is on its way to the line. No
other source raises line 6. InterruptsClaimed says what cannot go wrong before a
program panics, and SamplesCome speaks of programs that do not; that none does is
SpuriousHarmless, under Findings. Nor does SamplesCome speak of a start after a
stop, as StartCollects does.

`cerr`: ReturnsRecovered asks for an ErrCtl that says something; one of zero is the
subject of ReturnsIndicated, under Findings.

`tlballoc`: ProgramFits for MemoryMappedOnce, StackKeptOut and HeapPagesApart,
since `pa_length - pagesize_2x - 4096` wraps for a bank smaller than what the
program keeps. MemoryMappedOnce speaks of entries at a physical address that is a
multiple of their page size, the two others of all. No build that uses single
pages for HeapGivesMapped, since such a build takes half an entry off the heap's
end wherever that entry lies. VA_START is a multiple of 8 KB: for others the code
computes no page size, though its comment allows them.

`algorithms`: Copies says that the rest of dst is zero if the fault comes no later
than at the first byte of csum_bytes, EncodedMaps how large a page is shown if it
is not the smallest, TraceBinned what is binned if no time is exactly as long as
there are bins; AddressesApart leaves SlippedNames out and FieldsKept `Slips`.
For each of these guards there is, under Findings, the property without it.

### Findings

`intr_mdmx_scratch` is the run that must be violated: exlib.h:180-184 says that
exlib_return restores the context of the exception; with MDMX in use in the
interrupted program (Status:MX) and a handler that saves the accumulator,
exframe_restore_fp uses two FP registers to load it and does not put them back
(exlib.c:462-473).

The definitions below state other things that the repository says of its programs
and that the code does not do. No passing run can check them; what the runs check
beside them excludes the case by a guard that says which. TLC refutes each of them
when it is added to a configuration, as an INVARIANT (StartCollects as a
PROPERTY).

| Definition | Module | Add it to |
| --- | --- | --- |
| InstalledHandlersRun | Intr | MCIntr.cfg with HandlerOps = {"serve", "remove"} |
| RequestsStick | Intr | MCIntr.cfg with HandlerOps = {"serve", "frame"} |
| FirstSampleFits | SbprofCpu | MCSbprofCpu.cfg |
| SpuriousHarmless, StartCollects | SbprofZb | MCSbprofZb.cfg |
| ReturnsIndicated | Cerr | Cerr.cfg |
| StackKeptOut, HeapPagesApart | TlbAlloc | MCTlbAlloc.cfg |
| RestZeroed, PageSizeShown, AssertionHolds, NamesCompute, MacrosAccess | MCAlgorithms | MCAlgorithms.cfg |

- InstalledHandlersRun: a handler must remain valid until it is removed
  (exlib.h:235-237), but one that the handler before it removed is still called
  (intr.c:277).
- RequestsStick, where handlers change the frame: what a handler asks for in its
  frame takes effect when that is restored (exlib.h:301-302), and is undone by the
  main program if it was between the read and the write of Status (intr.c:246-252).
- FirstSampleFits: report_new_context enters a context if a sample fits behind it
  (695-697), but record_sample never fills the last word of the buffer (546) and
  drops that sample.
- SpuriousHarmless: that the line has fallen when the handler returns is no
  guarantee (sbprof_zbbus.c:153-154), and a handler that is called again claims
  nothing (174), so that the program panics.
- StartCollects: sbprof_zbprof_start starts collecting (sbprof.h:114), but not
  after a stop, which never clears zbprof_running (213).
- ReturnsIndicated: an error that is not indicated is to count as unrecoverable
  (cerr.S:129-133); with ErrCtl zero it is acknowledged as recovered (105).
- StackKeptOut, HeapPagesApart: the page size follows the virtual address
  (tlballoc.c:249), while the memory begins one page behind the stack. So the
  page that lines 200-207 leave out is mapped, and pages of the heap are the same
  memory. The default build shows both: with a start of 1 MB and 64 MB kept for
  the program, the page at 64 MB is mapped, and 67 to 71 MB are mapped twice.
- RestZeroed: after a fault the rest of dst is zeroed (csum_partial.S:332), but a
  fault behind the first byte of csum_bytes leaves up to three last bytes as they
  were, since only len is counted there (752).
- PageSizeShown: pages of 4 KB, the default (tlbconvert.c:216-219), are shown as
  pages of 8 KB (95).
- AssertionHolds: a trace that is too long is not binned (tbanal.c:614), but one of
  8192 cycles fails the assertion (444), since 613 tests with `>`. A read that
  takes 8192 cycles or more fails it too.
- NamesCompute, MacrosAccess: the slips of the register headers, all of which are
  listed below.

What else the code does that its comments do not say, met while modelling and
built into the modules and their properties:

- intr: an emptied chain panics as an unhandled interrupt; intrs_to_process is
  computed once, before any handler runs; a remove after intr_shutdown writes the
  mask of the original handler.
- sbprof_zbbus: a late interrupt in the pause of stop arms the counter once more;
  enable_intr sets IE whatever it was before.
- sbprof.c:122 sizes the bus buffer with cpu_bufsize; zb_bufsize is ignored. An
  initialisation that fails leaves sbprof_initted set.
- sbprof_cpu: a sample whose header found no room is in the log but lost to its
  reader (546, 551; the comment at 126-128 says otherwise).
- tlballoc.c:213 fills pa_regions and pa_size without a test: a ninth region is
  written behind them.
- unhandler.c: JALR with another link register than $31 overwrites $31 all the
  same, and a load into $31 in the delay slot of a branch that links is lost.
- csum_partial.S: a buffer of more than the lanes can count overflows them.
- Register headers (the first group is SlippedNames, the next two are Slips of
  MCAlgorithms):
  - bcm1480_regs.h:410 spaces the mailboxes by 0100, which is octal, while
    406-409 are 0x100 apart. The names of channels C and D of the second DUART
    (250-286) are 0x100 below what A_BCM1480_DUART_CHANREG computes.
    A_BCM1480_PMI_INT and PMO_INT (626, 629) round the channel down to a multiple
    of 256, so that all 32 channels get the first register; Registers1480 has
    that one, and no run compares the others.
  - bcm1480_pm.h:167 shifts the interrupts of queue q by 256 times q % 8 in place
    of 8 times: undefined, zero if folded, and queue 0's bits if not. The 64-bit
    masks of bcm1480_mc.h:569 and 784 shift by 64.
  - bcm1480_hsp.h:550 and 621 give a calendar entry 12 bits at each multiple of
    8. G_MAC_RX_WRPTR and G_MAC_RX_RDPTR (sb1250_mac.h:514, 519) use the masks of
    the transmitter. All four packet types have shift 0 (sb1250_mac.h:588-600).
    RTT_BYPASS is a bit of RTT_BYP_PULLUP (bcm1480_mc.h:528). The function of a
    trace sequence (sb1250_scd.h:634) is two bits wider than its four codes need
    and has ASAMPLE and DSAMPLE (648-649) in it.
  - Left out because no program that uses them compiles: the deskew bits
    (bcm1480_hsp.h:100-102), two G_ of the buffer counts (720, 730), V_ of the
    descriptor's SWID (bcm1480_pm.h:327), the event selection by number (578), the
    matched source and destination by number (471, 479), and
    A_BCM1480_SCD_WDOG_BASE (bcm1480_regs.h:327), and G_SCD_TREVT_DATAID
    (sb1250_scd.h:578), whose mask is misspelt.
- memcpy.S: the masked tail rewrites the bytes behind the buffer, in the unit of
  its last byte, with the values it has read there.

## 4. What is proved

| Theorem | Statement |
| --- | --- |
| LockInvHolds, SpinlockMutualExclusion, SpinlockTrylockTellsTruth, SpinlockImplementsLock | LockSpec => []..., LockSpec => TrylockTellsTruth, LockSpec => AbsLock!Spec |
| SemInvHolds, SemaphoreConservation, SemaphoreAtMostLimit, SemaphoreTrap, SemaphoreImplements | SemSpec => []..., SemSpec => AbsSem!Spec |
| CerrInvHolds, CerrRegistersKept, CerrReturnsRecovered, CerrGivesUpJustified | CerrSpec => []... |
| InitTlbNoShutdown, InitTlbRangeSuffices | Spec => []... |
| InitTlbResetComplete, InitTlbCountsDown | Spec => ResetComplete, Spec => [][Run => Left' < Left]_vars, where Left is at most 7 * Size + 3 |
| ExlibInv, ExlibTakenOver, ExlibGivesBack, ExlibContextKept, ExlibPanicJustified | Spec => []... |
| IntrTypeOK, IntrSavesUnion | Spec => []... |
| IntrFPPreserved | "add" \notin HandlerOps => (Spec => []...) |
| IntrRequestsStick | "frame" \notin HandlerOps and OneSoftint => (Spec => []...) |
| IntrEachHandlerRunsOnce | NoneReturns => (Spec => []...) |
| SbprofCpuTypeOK, SbprofCpuInBuffer, SbprofCpuInterruptInvariant, SbprofCpuRoomUsed, SbprofCpuLostOnlyWhenFull, SbprofCpuRecovered | BufferFits => (Spec => []...) |
| SbprofZbInv, SbprofZbTracesKept, SbprofZbInterruptsClaimed, SbprofZbLineGivenBack | Spec => []... |
| TlbAllocEntriesApart, TlbAllocSbrkInHeap, TlbAllocHeapGivesMapped, TlbAllocMemoryMappedOnce | Spec => []... |
| EncodeMaps | EncodedMaps, for every virtual address, every two physical pages that fit their fields, every page size |
| MemcpyIsRight, MemsetIsRight | the copying and the setting of buffers of any length and alignment, in units of 4 or 8 bytes; for memcpy, a source that begins behind the destination's end |
| StrcmpIsRight | the order of any two strings of at most 20 common characters, at any alignments, in both byte orders |
| MemoryRoutinesAreRight | MemoryRoutines in any of these calls |
| CsumPartialIsRight | csum_partial gives the sum of any bytes at any address, for lengths up to 2 * Byte^2 - 8 |
| CsumCopyIsRight | Copies: what csum_partial_copy_user returns and leaves in memory, for any bytes, two buffers of any length and alignment that do not overlap, and any missing pages |
| ChecksumsAreRight | Checksums in any of these calls |
| TrapIsEmulated | Emulates, for any bytes in memory, any registers, any branch whose target is an address and any access |
| TrapsAreEmulated | TrapEmulates in any of these calls |

The assumptions are the ASSUMEs of each module, for all values of the constants.
Cerr asks for one set of the cache at least, and the algorithms for a byte of 8 or
of 256 values. Type correctness of Spinlock, Semaphore, Cerr, InitTlb, Exlib,
Intr, SbprofCpu and SbprofZb is part of their inductive invariants and therefore
in no configuration.

Spinlock: mutual exclusion is not inductive by itself; LockNamesHolder (a held
lock holds its owner's value) and LockLinkFresh (an open link of a CPU about to sc
means the zero it read is still there) make it so. TrylockTellsTruth is an action
property: of all steps of all CPUs only two take a CPU out of a trylock, one that
has just loaded a word that is not zero and returns it, and the sc that stored
the lock value and returns zero.

Semaphore: Conservation is inductive together with SemLinkFresh (what an open link
is about to store was computed from the present count). AtMostLimit and the trap
follow by arithmetic, since the count is never negative.

Cerr: RegistersKept speaks of a processor that was alone, and `alone` is cleared
for those that overlap, so RegistersSaved says at each instruction which of the
two registers the slots hold for a processor that still is alone.
ErrorsReported ties the way through the tests of the fast path to the error bits,
which no other processor changes; it gives ReturnsRecovered, for an ErrCtl that is
not zero, and the converse that no run states: the handler gives up only what it
cannot recover.

InitTlb: the difficulty is that the safe range could run out. MovedBelow says that
slots moved or once skipped lie wholly below safeaddr, and that safeaddr is the
start plus the moves and the skips; as no slot can be found exactly at safeaddr
twice, there are at most Size of each, and both fit in 2 * Size units. FinalLoop
carries that into the last loop, CoveringMatches ties the probe to what it found.
ResetComplete is proved of the step that leaves that loop: FinalLoop says that the
slots before the last are invalid and each in a place of its own. CountsDown is
the safety half of Terminates: `Left` adds up the passes that are left, and no
step of the routine, with any of its branches, leaves it as large as it was; that
it runs on until then is the fairness TLC assumes.

Exlib: the four properties are not inductive, and they lean on each other. Stage
says how far exlib_init and exlib_shutdown have come at each step: which vectors
are whose, and that what was saved is what the environment had; GivesBack and
TakenOver follow from it. Working says what the main program has masked while it
is inside, so that no interrupt comes there; Table, that each handler's mask
covers what it uses, intr's and the one that intr_shutdown will put back too.
ContextKept is the hardest: a value may lie in a register or in a frame, and a
frame need not have it if a deeper one has. Owned states it for every level: along
the frames above a level, up to the first that saved a register group, nothing
younger is found, and if none saved it the register itself is that old. Stack and
Phase give what entry and return need of the frames; InUse keeps MX set from the
level that uses the accumulator upwards, as only then is it saved; Restored
bridges the two steps of the return. The proof has one lemma per action,
and Around and HandlersInCharge say once what an exception handler leaves
alone. The depth of exceptions is a constant of any value.

Intr: MaskExact (the mask is the union of the chained handlers' masks, but for
the one just being linked or unlinked) and EntryExact (the table entry has it
while the dispatcher is installed) are inductive whatever handlers do, and give
SavesUnion. FPPreserved needs FPCovered too: the frame holds whatever a handler
still to run may overwrite. That is where a handler that adds another is excluded:
the frame was saved with the mask of before.

RequestsStick compares Status and Cause with `want`. Agreed says that they are
equal, Editing that a routine between its read and its write holds the value that
it read, up to what the handlers taken in between may have changed back; a
handler that changes the frame makes just this false, and so does a second
software interrupt if the main program requests them; the theorem's hypotheses
exclude both.

EachHandlerRunsOnce holds if none comes back into the chain while it is
traversed, and none is taken away but by itself (NoneReturns): a handler that
another one removed is still called through next_ih, and one that goes and is
added again is called again. LinkedOnce says that a chain has no handler
twice, Traversed that the handlers still to come are those of the chain behind
the one that runs, and that `seen` holds exactly the others.

SbprofCpu: the properties are proved of the operators on the pair of log and
last_event first (what Backfilled, Report and Sampled preserve), then of the
actions. The strengthening says where an open header can be, that no header
but it is without its count, that less than a chunk lies behind it, so that the
count fits 16 bits, and that the log is nearly full whenever no header is open
while a profile runs.

Recovered is about what a reader makes of the log, a recursive function of its
length. What such a function is for every log cannot be had from the library's
induction theorems here, but ReaderIs does without: it shows that any function
that begins as the reader does and goes on as it does from one length to the next
(Reads) is the reader, by the least length at which they would differ. So the
invariant Truthful need only claim that there is a reading that ends with the
samples taken, and each step continues it: BackfilledReads by the count
that closes a header, EnterContextReads by a header, ReportReads by a sample.
Until its count is there the words behind a header are read as messages of their
own, so the open header is where the reading of the closed part (OpenAt) and what
was appended since (Between) meet.

SbprofZb: a program has one profile only, as zbprof_running is never cleared, and
Lives follows it through start and stop: what is chained, masked and enabled at
each step, so that the handler is in the chain whenever the line may rise. Kept
counts the traces: those recorded and the one still frozen, while there is room.
The line may be up in any state of the buffer, as it may fall late, and no
invariant says otherwise; what InterruptsClaimed needs is that a frozen buffer is
read out as long as the handler is in the chain.

TlbAlloc: Ordered says that each entry ends where a later one may begin, and the
last one at va unless va has wrapped, after which nothing is mapped any more.
That Pair divides va, and the 2 GB, keeps the wrap exact. For sbrk: the heap's
limit is its start until the end is known. HeapGivesMapped adds that the
entries fill all from the start of the heap to va (AllMapped), and that in a
build that uses no single pages each of them is valid, since mapping a region
stops before a single page is left. MemoryMappedOnce follows from the same of the
ranges that the code means (`Meant` of the proofs), since a straight entry maps
just that range. It leans on four facts: the
regions noted are apart from one another (RegionsApart) and from the program, its
stack and the page behind (ProgramApart); pa and mem_left are what is left of
the region at hand (Progress); and an entry lies in a region, in the part of it
already passed (EntriesInRegions). From the firmware it takes what
MachineAssumption says: no region begins inside another, and the program ends in
the 512 MB that K0 addresses.

The algorithms have no steps, and their theorems are about calls: each takes an
arbitrary call where the run takes those of its sets. The loops are recursive
functions. What such a function is for every argument cannot be had from the
library's induction theorems here, so Induction is stated of a set of numbers, and
proved from the least number outside it; a loop's claim defines such a set.
That the recursive function exists at all has to be shown too, from one length to
the next (AddsExist and the like).

encode: with a page size that is a power of two the address bits above the page
and those below are quotient and remainder. A virtual address lies in the pair of
pages of the entry exactly if the quotients by twice the page size agree.

memcpy and memset: Finished and AllSet say of the first k bytes what the property
says of all. Each block of the code (the unaligned start, the turns of eight or
four units, the single units, the last bytes) takes such a state to a longer one.

strcmp: the detection of a zero byte is exact in the byte that matters: the first
zero of a word in the order of the characters. Two words that differ are in the
order of their first bytes that do, if they have been turned around on a
little-endian processor.

csum_partial: modulo Byte^2 - 1 a word is the sum of its two halves, and exchanging
the bytes of its pairs multiplies it by Byte. The halves that the main loop adds,
the halfwords of the cleanup and the single bytes are differences of one prefix sum
of the bytes with the weights 1 and Byte; the bound on the length is the one up
to which no lane overflows. That the sum is zero only if its parts are makes the
two representations of zero agree.

The unaligned handler: Values[n] is Byte to the n-th, defined so that the provers
need no powers. ReadFits says that n bytes read are a number below Values[n],
whose first byte tells whether it is in the upper half; so the handler's C
conversion and the processor's sign extension agree (LoadIsRight).
NextIs follows the branches. Possible, which the theorems assume of a call, is what
it takes for the trap to have come: a likely branch
is taken, for its delay slot is not executed otherwise; where the program jumps to,
and what it accesses, is an address of its ABI.

Only model-checked:

- Liveness (SomebodyGetsIn, TakersProgress, Terminates, Served, MdmxServed,
  SlotsRotate, SamplesCome, RecoverableReturns), since TLAPS does not reason about
  fairness or ENABLED here.
- tbanal (TraceBinned), whose property compares two recursive functions of a
  sequence, one of them grouping it in threes.
- HeadersApart, which is about tables without parameters: the run enumerates all
  of them.

## 5. Not modelled

- The other headers of include/sibyte: the fields of the remaining peripherals,
  which are tables of the same form, the codes (K_) of fields, PCI configuration,
  the interrupt numbers, the memory map and the instruction macros of sbmips.h
  that no module uses.
- Generated files and build scripts: they have no behaviour.
- Wrappers of single instructions and of assembly macros (cp0, libmips_fpu, mdmx,
  psingle, most of tlb.h), their tests and the examples: nothing but the
  processor's own semantics.
- Printing: dump_tlb, exframe_dump, cp0dump, prid_decode, the output of tbanal
  and tlbconvert, the path under which a profile is saved, byte and bit order
  of trace files.
- ffs and ffs64 (one count of leading zeros each), cache_err.c (copies cerr.S to
  its vector), the error injection, sbprof_cpu_speed.c.
- In Exlib: the second exception of the kind "coprocessor unusable" that a handler
  may cause while it handles one, range checks of exception codes, the 32-bit
  vectors, which are built from the same source.
- The compiler's freedom to move non-volatile accesses across the spinlock's
  release (spinlock.h:135): it is outside a model that executes accesses in
  program order.
