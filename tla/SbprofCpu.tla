---------------------------- MODULE SbprofCpu ----------------------------
(* CPU profiling of libsbprof (sbprof_cpu.c): performance counters that     *)
(* freeze and interrupt when one of them overflows, a handler that logs a   *)
(* sample for each overflowed counter and rotates the multiplexing slots,   *)
(* and the program that starts and stops the profile.                       *)
(*                                                                          *)
(* The log is a sequence of 4-byte words, so that the code's cpud->next is  *)
(* Len(log) * 4.  Both routines of the program disable interrupts, so each  *)
(* stretch of theirs without enable_intr is one step; the handler runs with *)
(* interrupts disabled and is split at its samples.                         *)
EXTENDS Integers, Sequences, SequencesExt

CONSTANTS
  BufSize,       \* words of the data buffer (sbprof_data_buf_size)
  ConfigSize,    \* words that sbprof_config_log writes
  Chunk,         \* 0x10000 bytes, in words: a new header at every multiple
  CountMod,      \* 2^16: the range of a header's nevents field
  LongMod,       \* words an unsigned long can count, where bufsize - n wraps
  NSlots,        \* num_slots
  TicksPerSlot,  \* 16: cycle interrupts of a slot
  TickMod,       \* 2^32: the range of threshold
  Counters       \* counters in use; counter 0 counts cycles

ASSUME SbprofAssumption ==
  /\ {BufSize, ConfigSize, Chunk, CountMod, LongMod} \subseteq Nat
  /\ {NSlots, TicksPerSlot, TickMod} \subseteq Nat
  /\ 0 < Chunk /\ Chunk < CountMod /\ BufSize < LongMod /\ 5 < LongMod
  /\ 0 < NSlots /\ 0 < TicksPerSlot /\ TicksPerSlot < TickMod
  /\ Counters \subseteq 0..3 /\ 0 \in Counters

VARIABLES
  log, last_event,          \* the buffer up to next; the open header or -1
  slotid, threshold,
  prof_running, prof_int_was_enabled,
  main,                     \* "idle", or "stopping": in sbprof_stop's pause
  installed, im7,           \* sbprof_trapfunc is linked; Status.IM7
  armed, over,              \* counters count; the ones that overflowed
  handling, todo, tick,     \* the handler's progress and its cycles_tick
  taken, lost               \* history: samples logged under a header, in
                            \* order; has one been dropped or left alone?

buffer == <<log, last_event>>
history == <<taken, lost>>
program == <<prof_running, prof_int_was_enabled, main, installed, im7>>
handler == <<handling, todo, tick>>
vars == <<buffer, slotid, threshold, program, armed, over, handler, history>>

Slots == 0..NSlots - 1
Word(kind, arg) == [kind |-> kind, arg |-> arg]
NoHeader == -1

------------------------------------------------------------------------------
(* The log.  b is the pair of log and last_event that a routine works on.   *)

Config == [i \in 1..ConfigSize |-> Word("config", 0)]

\* bufsize - n, in unsigned arithmetic.
Room(n) == IF n <= BufSize THEN BufSize - n ELSE LongMod + BufSize - n

BackfilledWithoutCount(b) ==
  [log |-> IF b.last = Len(b.log) THEN Front(b.log) ELSE b.log,
   last |-> NoHeader]

Backfilled(b) ==
  IF b.last = NoHeader THEN b
  ELSE IF Len(b.log) = b.last
    THEN [log |-> Front(b.log), last |-> NoHeader]
    ELSE [log |-> [b.log EXCEPT ![b.last] =
                     Word("events", (Len(b.log) - b.last) % CountMod)],
          last |-> NoHeader]

\* A new_context message of three words and an event header.
EnterContext(b, slot) ==
  [log |-> b.log \o <<Word("context", slot), Word("rest", 0), Word("rest", 0),
                      Word("events", 0)>>,
   last |-> Len(b.log) + 4]

ReportAnyRoom(b, slot) ==
  LET c == Backfilled(b) IN
    IF Len(c.log) > Room(3) THEN c ELSE EnterContext(c, slot)

Report(b, slot) ==
  LET c == Backfilled(b) IN
    IF Len(c.log) > Room(5) THEN c ELSE EnterContext(c, slot)

SampledOneHeader(b, counter, slot) ==
  IF Len(b.log) >= Room(1) THEN b
  ELSE [b EXCEPT !.log = Append(@, Word("sample", counter))]

Sampled(b, counter, slot) ==
  LET c == [b EXCEPT !.log = Append(@, Word("sample", counter))] IN
    IF Len(b.log) >= Room(1) THEN b
    ELSE IF Len(c.log) % Chunk = 0 THEN Report(c, slot) ELSE c

Current == [log |-> log, last |-> last_event]
BufferIs(b) == log' = b.log /\ last_event' = b.last

------------------------------------------------------------------------------
Init ==
  /\ log = <<>> /\ last_event = 0
  /\ slotid = 0 /\ threshold = 0
  /\ prof_running = FALSE /\ prof_int_was_enabled = FALSE
  /\ main = "idle" /\ installed = FALSE /\ im7 \in BOOLEAN
  /\ armed = FALSE /\ over = {}
  /\ handling = FALSE /\ todo = {} /\ tick = FALSE
  /\ taken = <<>> /\ lost = FALSE

\* sbprof_start of a profile that is not running: configuration, first slot,
\* handler and interrupt mask, all with interrupts disabled.
Start ==
  /\ ~handling /\ main = "idle" /\ ~prof_running
  /\ prof_running' = TRUE
  /\ BufferIs(Report([log |-> Config, last |-> NoHeader], 0))
  /\ threshold' = TicksPerSlot /\ slotid' = 0
  /\ armed' = TRUE /\ over' = {}
  /\ installed' = TRUE /\ prof_int_was_enabled' = im7 /\ im7' = TRUE
  /\ taken' = <<>> /\ lost' = FALSE
  /\ UNCHANGED <<main, handler>>

\* sbprof_stop up to enable_intr: a pending overflow is discarded.
StopBegin ==
  /\ ~handling /\ main = "idle" /\ prof_running
  /\ prof_running' = FALSE
  /\ armed' = FALSE /\ over' = {}
  /\ main' = "stopping"
  /\ UNCHANGED <<buffer, slotid, threshold, prof_int_was_enabled, installed,
                 im7, handler, history>>

\* The rest of sbprof_stop: mask, unlink, close the log.
StopEnd ==
  /\ ~handling /\ main = "stopping"
  /\ im7' = (im7 /\ prof_int_was_enabled)
  /\ installed' = FALSE
  /\ armed' = FALSE /\ over' = {}
  /\ BufferIs(Backfilled(Current))
  /\ main' = "idle"
  /\ UNCHANGED <<slotid, threshold, prof_running, prof_int_was_enabled,
                 handler, history>>

\* Counters overflow; freeze-enable stops all of them with the first.  What
\* overflows while the handler runs is discarded by its writes.
Overflow ==
  /\ armed /\ over = {} /\ ~handling
  /\ over' \in SUBSET Counters \ {{}}
  /\ UNCHANGED <<buffer, slotid, threshold, program, armed, handler, history>>

\* sbprof_cpu_intr reads the counters.  Without an overflow the interrupt is
\* Count/Compare's, which shares the line.
TakeInterrupt ==
  /\ ~handling /\ installed /\ im7
  /\ handling' = TRUE
  /\ todo' = over /\ tick' = (0 \in over)
  /\ UNCHANGED <<buffer, slotid, threshold, program, armed, over, history>>

RecordSample(counter) ==
  LET b == Sampled(Current, counter, slotid)
      kept == Len(log) < Room(1) /\ last_event # NoHeader
  IN /\ handling /\ counter \in todo /\ \A c \in todo : counter <= c
     /\ BufferIs(b)
     /\ todo' = todo \ {counter}
     /\ taken' = IF kept THEN Append(taken, [slot |-> slotid, counter |-> counter])
                 ELSE taken
     /\ lost' = (lost \/ ~kept)
     /\ UNCHANGED <<slotid, threshold, program, armed, over, handling, tick>>

Ticks == IF threshold = 0 THEN TickMod - 1 ELSE threshold - 1
SlotExpires == tick /\ NSlots > 1 /\ Ticks = 0
NextSlot == (slotid + 1) % NSlots

EndInterruptUnarmed ==
  /\ handling /\ todo = {}
  /\ handling' = FALSE /\ tick' = FALSE
  /\ over' = {}
  /\ IF SlotExpires
       THEN /\ threshold' = TicksPerSlot /\ slotid' = NextSlot
            /\ armed' = FALSE
            /\ BufferIs(Report(Current, NextSlot))
       ELSE /\ threshold' = IF tick THEN Ticks ELSE threshold
            /\ UNCHANGED <<slotid, armed, buffer>>
  /\ UNCHANGED <<program, todo, history>>

\* The handler's end: the writes unfreeze the counters, or, when the slot
\* expires, slot_exit and slot_enter do.
EndInterrupt ==
  /\ handling /\ todo = {}
  /\ handling' = FALSE /\ tick' = FALSE
  /\ over' = {}
  /\ IF SlotExpires
       THEN /\ threshold' = TicksPerSlot /\ slotid' = NextSlot
            /\ armed' = TRUE
            /\ BufferIs(Report(Current, NextSlot))
       ELSE /\ threshold' = IF tick THEN Ticks ELSE threshold
            /\ UNCHANGED <<slotid, armed, buffer>>
  /\ UNCHANGED <<program, todo, history>>

Next ==
  \/ Start \/ StopBegin \/ StopEnd
  \/ Overflow \/ TakeInterrupt \/ EndInterrupt
  \/ \E counter \in Counters : RecordSample(counter)

Spec == Init /\ [][Next]_vars

\* The processor executes the handler, and takes an interrupt that stays
\* requested and enabled; sbprof_stop's pause ends.  Counter 0 counts cycles
\* whenever the counters are armed and not frozen, and the handler leaves its
\* count alone, so that it overflows at last, whatever overflows before it.
Fairness ==
  /\ SF_vars(Overflow /\ 0 \in over')
  /\ WF_vars(TakeInterrupt) /\ WF_vars(EndInterrupt)
  /\ WF_vars(\E counter \in Counters : RecordSample(counter))
  /\ WF_vars(StopEnd)

FairSpec == Spec /\ Fairness

------------------------------------------------------------------------------
(* Properties.                                                              *)

WordType == [kind : {"config", "context", "rest", "events", "sample"}, arg : Nat]

\* The state of cpudata_t and of the routines has its type.
TypeOK ==
  /\ log \in Seq(WordType) /\ last_event \in {NoHeader} \cup 0..Len(log)
  /\ slotid \in Slots /\ threshold \in 0..TickMod - 1
  /\ prof_running \in BOOLEAN /\ prof_int_was_enabled \in BOOLEAN
  /\ main \in {"idle", "stopping"} /\ installed \in BOOLEAN /\ im7 \in BOOLEAN
  /\ armed \in BOOLEAN /\ over \subseteq Counters
  /\ handling \in BOOLEAN /\ todo \subseteq Counters /\ tick \in BOOLEAN
  /\ taken \in Seq([slot : Slots, counter : Counters]) /\ lost \in BOOLEAN

\* sbprof_config_log checks no bound, and bufsize - 20 is unsigned: the buffer
\* has to hold the configuration and one context.
BufferFits == ConfigSize <= BufSize /\ 5 <= BufSize

\* Whatever interrupts and slots do, nothing is written behind the buffer that
\* sbprof_cpu_init allocated, if it is large enough for sbprof_start.
InBuffer == Len(log) <= BufSize

\* A closed header announces the samples that follow it, and at least one.
SamplesAt(l, indices) == \A i \in indices : l[i].kind = "sample"
Exact(l, i) ==
  LET n == l[i].arg IN
    0 < n /\ i + n <= Len(l) /\ SamplesAt(l, i + 1..i + n)

\* The interrupt invariant that sbprof_cpu.c:659-665 states: either no header
\* is open, or last_event is behind the one that the samples at the log's end
\* belong to.  Every other header has its count, which fits into 16 bits.
InterruptInvariant ==
  /\ last_event > 0 => /\ log[last_event].kind = "events"
                       /\ SamplesAt(log, last_event + 1..Len(log))
  /\ \A i \in 1..Len(log) :
       log[i].kind = "events" /\ i # last_event => Exact(log, i)

\* What a reader of the log finds: messages are known by their first word, and
\* a word that starts no message ends the reading.
Decode(r, word) ==
  CASE ~r.ok -> r
    [] r.ok /\ r.left > 0 ->
         IF word.kind = "sample"
         THEN [r EXCEPT !.left = @ - 1,
                        !.out = Append(@, [slot |-> r.slot, counter |-> word.arg])]
         ELSE [r EXCEPT !.ok = FALSE]
    [] r.ok /\ r.left = 0 ->
         CASE word.kind = "context" -> [r EXCEPT !.slot = word.arg]
           [] word.kind = "events" -> [r EXCEPT !.left = word.arg]
           [] word.kind = "sample" -> [r EXCEPT !.ok = FALSE]
           [] OTHER -> r

Unread == [ok |-> TRUE, left |-> 0, slot |-> 0, out |-> <<>>]

\* The reader after each word of the log.
Reader[n \in 0..Len(log)] ==
  IF n = 0 THEN Unread ELSE Decode(Reader[n - 1], log[n])

Decoded == Reader[Len(log)].out

Stopped == ~prof_running /\ main = "idle"

\* When a profile has been stopped, its log gives back every sample that went
\* under a header, in order, with the slot and the counter it was taken for.
Recovered == Stopped => Decoded = taken

\* A sample is left without a header only when a context and a sample no longer
\* fit; and under a header it is dropped only when no more than one word is left,
\* which record_sample never fills.
LostOnlyWhenFull ==
  lost => IF last_event = NoHeader THEN Len(log) > BufSize - 5
          ELSE Len(log) >= BufSize - 1

\* The two tests of the room that is left, for messages of three lengths, neither
\* let the log outgrow its buffer nor give it up before its last word
\* (sbprof_cpu.c:546, 703).
RoomUsed == InBuffer /\ LostOnlyWhenFull

\* "If there's enough room in a single, non-full cpud buffer for a new_context
\* message followed by a pc sample, enters the new_context message"
\* (sbprof_cpu.c:695-697): the first sample under a header finds its room. It does
\* not, in the last word: see the findings of README.md.
FirstSampleFits == lost /\ last_event # NoHeader => last_event < Len(log)

\* While a profile runs, every slot has its turn again and again: the handler
\* always leaves the counters armed and unfrozen, and the threshold expires.
SlotsRotate == <>[]prof_running => \A s \in Slots : []<>(slotid = s)

=============================================================================
