------------------------------- MODULE SbprofZb -------------------------------
(***************************************************************************)
(* libsbprof/libsbprof/sbprof_zbbus.c, profiling of the ZBbus, and the     *)
(* initialisation of the library in sbprof.c.                              *)
(*                                                                         *)
(* The hardware: the SCD performance counter, when it overflows, starts    *)
(* the trace buffer; when that is full it freezes and asserts an interrupt *)
(* source; unless masked in the SCD, the source reaches the processor's    *)
(* interrupt line 6, later (line).  zbprof_trapfunc runs with interrupts   *)
(* disabled: it is one step, and so are the parts of start and stop that   *)
(* the program executes with interrupts disabled, if no write to the       *)
(* hardware depends on their order.  The line may also fall late: a reset  *)
(* of the trace buffer is no guarantee that it is down when the handler    *)
(* returns (153-154).                                                      *)
(***************************************************************************)
EXTENDS Integers, Sequences

CONSTANTS
  CpuSize,       \* cpu_bufsize of sbprof_init2, in traces
  MaxTraces      \* bound on the traces the hardware takes

ASSUME SizesAssumption == CpuSize \in Nat /\ MaxTraces \in Nat

VARIABLES
  counting,   \* A_PERF_CNT_CFG: the counter is on
  trace,      \* A_SCD_TRACE_CFG: "off", "armed", "tracing" or "frozen"
  masked,     \* TRACE_FREEZE_INT in INTERRUPT_MASK_0
  line,       \* interrupt line 6 as the processor sees it
  ie, im6,    \* Status:IE and Status:IM6
  others,     \* does the program have a handler of its own for interrupt 6
  sbprof_initted,
  max_tb_samples, \* -1 while sbprof_tbbuf is NULL
  next_tb_sample,
  zbprof_running,
  tb_int_was_enabled,
  chained,    \* zbprof_intr_handle is in the chain of interrupt 6
  main,       \* where the program is: "idle", or in start or stop
  traces,     \* how many traces the hardware has taken
  tbbuf,      \* which of them are in the buffer
  past,       \* history: was profiling started, stopped; IM6 as it was before;
              \* asked: start has been called, and stop not since
  panicked    \* nobody claimed an interrupt: exlib panics

scd == <<counting, trace, masked, line>>
cpu == <<ie, im6, others>>
init == <<sbprof_initted, max_tb_samples>>
prof == <<zbprof_running, tb_int_was_enabled, chained>>
samples == <<next_tb_sample, tbbuf>>
vars == <<scd, cpu, init, prof, samples, main, traces, past, panicked>>

Source == trace = "frozen" /\ ~masked
Idle == main = "idle" /\ ~panicked

Init ==
  /\ counting = FALSE /\ trace = "off" /\ masked = TRUE /\ line = FALSE
  /\ ie \in BOOLEAN /\ others \in BOOLEAN /\ im6 = others
  /\ sbprof_initted = FALSE /\ max_tb_samples = -1 /\ next_tb_sample = 0
  /\ zbprof_running = FALSE /\ tb_int_was_enabled = FALSE /\ chained = FALSE
  /\ main = "idle"
  /\ traces = 0 /\ tbbuf = <<>>
  /\ past = [on |-> "never", im6 |-> FALSE, asked |-> FALSE]
  /\ panicked = FALSE

(***************************************************************************)
(* The hardware.                                                           *)
(***************************************************************************)
Overflow == /\ counting /\ trace = "armed" /\ traces < MaxTraces
            /\ trace' = "tracing"
            /\ UNCHANGED <<counting, masked, line, cpu, init, prof, samples,
                           main, traces, past, panicked>>

Freeze == /\ trace = "tracing"
          /\ trace' = "frozen"
          /\ traces' = traces + 1
          /\ UNCHANGED <<counting, masked, line, cpu, init, prof, samples,
                         main, past, panicked>>

Propagate == /\ line # Source
             /\ line' = Source
             /\ UNCHANGED <<counting, trace, masked, cpu, init, prof, samples,
                            main, traces, past, panicked>>

(***************************************************************************)
(* sbprof_init2 sizes the bus buffer with cpu_bufsize (line 122), and is   *)
(* initialised even if it fails: at cfe_getfwinfo, atexit or either buffer.*)
(***************************************************************************)
sbprof_init2 ==
  /\ Idle /\ ~sbprof_initted
  /\ sbprof_initted' = TRUE
  /\ max_tb_samples' \in {-1, CpuSize}
  /\ UNCHANGED <<scd, cpu, prof, samples, main, traces, past, panicked>>

(* arm_tb: the counter starts, the trace buffer is reset.  The comment at  *)
(* its end says that the read back lets the line fall "probably" before    *)
(* interrupts are enabled: it falls here or later.                         *)
arm_tb == /\ counting' = TRUE /\ trace' = "armed" /\ line' \in {FALSE, line}

(* Mistake for a mutation run: the trace buffer is not armed again. *)
TakesOne ==
  IF next_tb_sample < max_tb_samples
  THEN /\ tbbuf' = Append(tbbuf, traces)
       /\ next_tb_sample' = next_tb_sample + 1
       /\ counting' = FALSE /\ trace' = "off" /\ line' \in {FALSE, line}
  ELSE /\ trace' = "off"
       /\ UNCHANGED <<counting, line, samples>>

(* Mistake for a mutation run: armed, hence empty, before it is read out. *)
ArmsFirst ==
  /\ arm_tb
  /\ IF next_tb_sample < max_tb_samples
     THEN /\ tbbuf' = Append(tbbuf, 0)
          /\ next_tb_sample' = next_tb_sample + 1
     ELSE UNCHANGED samples

(* Of a frozen trace buffer: it is read out and armed again, or reset when *)
(* the buffer is full, then with no read back.                             *)
ReadOut ==
  IF next_tb_sample < max_tb_samples
  THEN /\ tbbuf' = Append(tbbuf, traces)
       /\ next_tb_sample' = next_tb_sample + 1
       /\ arm_tb
  ELSE /\ trace' = "off"
       /\ UNCHANGED <<counting, line, samples>>

(* Lines 168-175, a buffer that is not frozen: the interrupt is spurious,  *)
(* and the handler does not claim it; it arms the buffer once more if the  *)
(* source has not fallen either, which nothing here decides.               *)
Spurious == /\ \/ arm_tb
               \/ UNCHANGED <<counting, trace, line>>
            /\ UNCHANGED samples

(* An interrupt of line 6: somebody claims it, or intr.c panics.           *)
zbprof_trapfunc ==
  /\ ie /\ im6 /\ line /\ ~panicked
  /\ IF chained /\ trace = "frozen" THEN ReadOut /\ UNCHANGED panicked
     ELSE /\ panicked' = ~others
          /\ IF chained THEN Spurious ELSE UNCHANGED <<counting, trace, line, samples>>
  /\ UNCHANGED <<masked, cpu, init, prof, main, traces, past>>

(***************************************************************************)
(* sbprof_zbprof_start.                                                    *)
(***************************************************************************)
CallStart == /\ Idle /\ max_tb_samples >= 0
             /\ ie' = FALSE
             /\ main' = IF zbprof_running THEN "enable" ELSE "map"
             /\ past' = IF past.on = "never"
                        THEN [on |-> "starting", im6 |-> im6, asked |-> TRUE]
                        ELSE [past EXCEPT !.asked = TRUE]
             /\ UNCHANGED <<scd, im6, init, prof, samples, traces, panicked,
                            others>>

(* Mistake for a mutation run: the handler comes after the enabling. *)
HandlerForgotten ==
  /\ main = "map"
  /\ zbprof_running' = TRUE
  /\ masked' = FALSE
  /\ tb_int_was_enabled' = im6 /\ im6' = TRUE
  /\ main' = "arm"
  /\ UNCHANGED <<counting, trace, line, ie, chained, init, samples, traces,
                 past, panicked, others>>

(* Lines 215-234. *)
MapInterrupts ==
  /\ main = "map"
  /\ zbprof_running' = TRUE
  /\ masked' = FALSE
  /\ chained' = TRUE
  /\ tb_int_was_enabled' = im6 /\ im6' = TRUE
  /\ main' = "arm"
  /\ UNCHANGED <<counting, trace, line, ie, init, samples, traces, past,
                 panicked, others>>

(* Lines 237-275: events and sequences, then the first arm_tb. *)
Arm == /\ main = "arm"
       /\ arm_tb
       /\ main' = "enable"
       /\ past' = [past EXCEPT !.on = "on"]
       /\ UNCHANGED <<masked, cpu, init, prof, samples, traces, panicked>>

(* enable_intr at the end of either routine, whatever IE was before. *)
EnableIntr == /\ main = "enable"
              /\ ie' = TRUE /\ main' = "idle"
              /\ UNCHANGED <<scd, im6, init, prof, samples, traces, past,
                             panicked, others>>

(***************************************************************************)
(* sbprof_zbprof_stop.  zbprof_running stays set, so that a later start    *)
(* only enables interrupts, and a later stop does all of this again.       *)
(***************************************************************************)
CallStop == /\ Idle
            /\ ie' = FALSE
            /\ main' = IF zbprof_running THEN "quiet" ELSE "enable"
            /\ past' = [past EXCEPT !.asked = FALSE]
            /\ UNCHANGED <<scd, im6, init, prof, samples, traces, panicked,
                           others>>

(* Lines 291-297. *)
Quiet == /\ main = "quiet"
         /\ counting' = FALSE /\ masked' = TRUE
         /\ ie' = TRUE
         /\ main' = "pause"
         /\ UNCHANGED <<trace, line, im6, init, prof, samples, traces, past,
                        panicked, others>>

(* Mistake for a mutation run: no wait for the last interrupts. *)
NoPause == /\ main = "pause"
           /\ ie' = FALSE
           /\ main' = "remove"
           /\ UNCHANGED <<scd, im6, init, prof, samples, traces, past,
                          panicked, others>>

(* Lines 299-303: the pauses outlast whatever is on its way to the line.   *)
Pause == /\ main = "pause"
         /\ line = Source /\ ~(ie /\ im6 /\ line)
         /\ ie' = FALSE
         /\ main' = "remove"
         /\ UNCHANGED <<scd, im6, init, prof, samples, traces, past, panicked,
                        others>>

(* Lines 305-307.  To unlink a handler twice does no harm here, as the     *)
(* other handlers of the chain stay the same.                              *)
Remove == /\ main = "remove"
          /\ im6' = (im6 /\ tb_int_was_enabled)
          /\ chained' = FALSE
          /\ main' = "enable"
          /\ past' = [past EXCEPT !.on = "off"]
          /\ UNCHANGED <<scd, ie, init, zbprof_running, tb_int_was_enabled,
                         samples, traces, panicked, others>>

(* What else the program does: its own interrupt 6 handler, and IE. *)
SwitchIE == /\ Idle
            /\ ie' = ~ie
            /\ UNCHANGED <<scd, im6, init, prof, samples, main, traces, past,
                           panicked, others>>

Hardware == Overflow \/ Freeze \/ Propagate
Routines == \/ MapInterrupts \/ Arm
            \/ Quiet \/ Pause \/ Remove \/ EnableIntr
Next == \/ ~panicked /\ (Hardware \/ sbprof_init2 \/ CallStart \/ CallStop
                          \/ Routines \/ SwitchIE)
        \/ zbprof_trapfunc

(* The hardware does its part; the processor takes an interrupt that stays *)
(* asserted, if the program enables interrupts again and again; start and  *)
(* stop return.  Nothing is asked of when the program calls them.          *)
Fairness ==
  /\ WF_vars(~panicked /\ Overflow) /\ WF_vars(~panicked /\ Freeze)
  /\ WF_vars(~panicked /\ Propagate)
  /\ SF_vars(zbprof_trapfunc)
  /\ WF_vars(~panicked /\ Routines)
  /\ WF_vars(~panicked /\ ~ie /\ SwitchIE)

Spec == Init /\ [][Next]_vars /\ Fairness

-----------------------------------------------------------------------------
Full == next_tb_sample >= max_tb_samples

(* What the buffer holds is every trace that froze since the start, in     *)
(* order and none twice, but the one that waits for its interrupt, and it  *)
(* never holds more than there is room for: the interrupt reads the trace  *)
(* out before it arms the buffer again.                                    *)
TracesKept ==
  /\ Len(tbbuf) = next_tb_sample
  /\ max_tb_samples >= 0 => next_tb_sample <= max_tb_samples
  /\ \A i \in 1 .. Len(tbbuf) : tbbuf[i] = i
  /\ ~Full /\ past.on = "on" =>
       traces = next_tb_sample + (IF trace = "frozen" THEN 1 ELSE 0)

(* An interrupt of the trace buffer finds the handler in the chain, from   *)
(* before the first trace to after the last, whenever the routines are     *)
(* called; and the trace that it announces is read out, or there is no     *)
(* room for it, before the program can panic.  What it may panic about is  *)
(* the same interrupt again, when the line falls late: SpuriousHarmless.   *)
InterruptsClaimed ==
  panicked => chained /\ trace # "frozen" /\ (Full \/ Len(tbbuf) = traces)

(* "Interrupt is spurious if trace buffer is not frozen" (165): a line that*)
(* has not fallen when the handler returns, which 153-154 expect, does not *)
(* end the program. It does if no other handler claims line 6: see the     *)
(* findings of README.md.                                                  *)
SpuriousHarmless == ~panicked

(* After a stop, interrupt line 6 is masked again unless the program had   *)
(* enabled it before the start, the source is masked in the SCD, and no    *)
(* interrupt is under way that would find no handler.                      *)
LineGivenBack ==
  past.on = "off" /\ main \notin {"quiet", "pause", "remove"} =>
    im6 = past.im6 /\ masked /\ ~line /\ ~chained

(* Another trace is recorded, unless the program no longer wants it. *)
Another(n) == next_tb_sample > n \/ ~past.asked \/ panicked

(* From the first start until stop is called, as long as there is room,    *)
(* another trace is recorded: whether the line falls early or late and     *)
(* whatever is armed again, no trace buffer stays frozen or off. After a   *)
(* stop a start collects nothing any more, against StartCollects below, and*)
(* a program may panic, against SpuriousHarmless.                          *)
SamplesCome ==
  \A n \in 0 .. MaxTraces - 1 :
    past.asked /\ past.on = "on" /\ ~Full /\ next_tb_sample = n ~> Another(n)

(* "sbprof_zbprof_start: Start collecting ZBBus profiles" (sbprof.h:114):  *)
(* and so does every start, also one after a stop. The code keeps this only*)
(* of the first: see the findings of README.md.                            *)
StartCollects ==
  \A n \in 0 .. MaxTraces - 1 :
    past.asked /\ main = "idle" /\ ~Full /\ next_tb_sample = n ~> Another(n)
------------------------------------------------------------------------------
(***************************************************************************)
(* What makes the first three inductive: the life of a profile, of which a *)
(* program has one only; and what a line that is up can mean.              *)
(***************************************************************************)
Flags ==
  {counting, masked, line, ie, im6, others, sbprof_initted, zbprof_running,
   tb_int_was_enabled, chained, panicked} \subseteq BOOLEAN
TypeOK ==
  /\ Flags
  /\ trace \in {"off", "armed", "tracing", "frozen"}
  /\ max_tb_samples \in {-1, CpuSize} /\ next_tb_sample \in Nat /\ traces \in Nat
  /\ tbbuf \in Seq(Nat)
  /\ main \in {"idle", "map", "arm", "enable", "quiet", "pause", "remove"}
  /\ past \in [on : {"never", "starting", "on", "off"}, im6 : BOOLEAN, asked : BOOLEAN]

Untouched ==
  /\ ~zbprof_running /\ ~chained /\ masked /\ im6 = others /\ next_tb_sample = 0

Lives ==
  /\ ~sbprof_initted => max_tb_samples = -1
  /\ past.on = "never" => Untouched /\ main \in {"idle", "enable"}
  /\ past.on = "starting" =>
       /\ sbprof_initted /\ max_tb_samples = CpuSize /\ past.im6 = others
       /\ \/ main = "map" /\ Untouched
          \/ /\ main = "arm" /\ chained /\ ~masked /\ im6 /\ zbprof_running
             /\ tb_int_was_enabled = others /\ next_tb_sample = 0
  /\ past.on \in {"never", "starting"} => trace = "off" /\ traces = 0 /\ ~line
  /\ past.on \in {"on", "off"} =>
       /\ sbprof_initted /\ max_tb_samples = CpuSize /\ past.im6 = others
       /\ zbprof_running /\ tb_int_was_enabled = others
       /\ main \in {"idle", "enable", "quiet", "pause", "remove"}
  /\ past.on = "on" =>
       /\ chained /\ im6 /\ (masked <=> main \in {"pause", "remove"})
       /\ main = "remove" => ~line
  /\ past.on = "off" => ~chained /\ masked /\ im6 = others /\ ~line

Kept ==
  /\ Len(tbbuf) = next_tb_sample
  /\ max_tb_samples >= 0 => next_tb_sample <= max_tb_samples
  /\ \A i \in 1 .. Len(tbbuf) : tbbuf[i] = i
  /\ past.on = "on" /\ ~Full =>
       /\ traces = next_tb_sample + (IF trace = "frozen" THEN 1 ELSE 0)
       /\ trace # "off"
  /\ panicked => past.on = "on" /\ trace # "frozen"

Inv == TypeOK /\ Lives /\ Kept
=============================================================================
