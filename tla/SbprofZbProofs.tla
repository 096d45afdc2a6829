---------------------------- MODULE SbprofZbProofs ----------------------------
(* Proofs about SbprofZb: for a buffer of any size and any number of traces,  *)
(* the log of the bus profiler is complete, its interrupts find their         *)
(* handler, and the interrupt line is given back.                             *)
EXTENDS SbprofZb, SequenceTheorems, TLAPS

LEMMA Appended ==
  ASSUME NEW s \in Seq(Nat), NEW e \in Nat
  PROVE  /\ Append(s, e) \in Seq(Nat) /\ Len(Append(s, e)) = Len(s) + 1
         /\ \A i \in 1 .. Len(s) : Append(s, e)[i] = s[i]
         /\ Append(s, e)[Len(s) + 1] = e
  BY AppendProperties

LEMMA InitInv == Init => Inv
<1> SUFFICES ASSUME Init PROVE Inv
  OBVIOUS
<1>1. TypeOK
  <2>1. Flags
    BY DEF Init, Flags
  <2> QED
    BY <2>1, SizesAssumption DEF Init, TypeOK
<1>2. Lives
  BY DEF Init, Lives, Untouched
<1>3. Kept
  BY SizesAssumption DEF Init, Kept
<1> QED
  BY <1>1, <1>2, <1>3 DEF Inv

------------------------------------------------------------------------------
(* The hardware.                                                              *)

LEMMA OverflowStep == ASSUME Inv, Overflow PROVE Inv'
<1>1. TypeOK'
  BY DEF Overflow, Inv, TypeOK, Flags, cpu, init, prof, samples
<1>2. Lives'
  BY DEF Overflow, Inv, Lives, Untouched, cpu, init, prof, samples
<1>3. Kept'
  BY DEF Overflow, Inv, Kept, Full, init, samples
<1> QED
  BY <1>1, <1>2, <1>3 DEF Inv

LEMMA FreezeStep == ASSUME Inv, ~panicked, Freeze PROVE Inv'
<1>1. TypeOK'
  BY DEF Freeze, Inv, TypeOK, Flags, cpu, init, prof, samples
<1>2. Lives'
  BY DEF Freeze, Inv, Lives, Untouched, cpu, init, prof, samples
<1>3. Kept'
  BY DEF Freeze, Inv, TypeOK, Kept, Full, init, samples
<1> QED
  BY <1>1, <1>2, <1>3 DEF Inv

LEMMA PropagateStep == ASSUME Inv, Propagate PROVE Inv'
<1>1. TypeOK'
  BY DEF Propagate, Inv, TypeOK, Flags, Source, cpu, init, prof, samples
<1>2. Lives'
  BY DEF Propagate, Inv, Lives, Untouched, Source, cpu, init, prof, samples
<1>3. Kept'
  BY DEF Propagate, Inv, Kept, Full, Source, init, samples
<1> QED
  BY <1>1, <1>2, <1>3 DEF Inv

------------------------------------------------------------------------------
(* The interrupt.  It comes while a profile is on, with the handler chained.  *)

LEMMA TrapfuncStep == ASSUME Inv, zbprof_trapfunc PROVE Inv'
<1>1. /\ line /\ ~panicked /\ past.on = "on" /\ chained /\ main # "remove"
      /\ max_tb_samples = CpuSize
      /\ ~Full => traces = next_tb_sample + (IF trace = "frozen" THEN 1 ELSE 0)
      /\ ~Full => trace # "off"
  BY DEF zbprof_trapfunc, Inv, TypeOK, Lives, Kept
<1>2. CASE trace = "frozen" /\ next_tb_sample < max_tb_samples
  <2>1. /\ tbbuf' = Append(tbbuf, traces) /\ next_tb_sample' = next_tb_sample + 1
        /\ counting' = TRUE /\ trace' = "armed" /\ line' \in {FALSE, line}
        /\ UNCHANGED <<masked, cpu, init, prof, main, traces, past, panicked>>
    BY <1>1, <1>2 DEF zbprof_trapfunc, ReadOut, arm_tb
  <2>2. /\ tbbuf' \in Seq(Nat) /\ Len(tbbuf') = Len(tbbuf) + 1
        /\ \A i \in 1 .. Len(tbbuf) : tbbuf'[i] = tbbuf[i]
        /\ tbbuf'[Len(tbbuf) + 1] = traces
    BY <2>1, Appended DEF Inv, TypeOK
  <2>3. TypeOK'
    <3>1. Flags'
      BY <2>1 DEF Inv, TypeOK, Flags, cpu, init, prof
    <3> QED
      BY <2>1, <2>2, <3>1 DEF Inv, TypeOK, init
  <2>4. Lives'
    BY <1>1, <2>1 DEF Inv, Lives, cpu, init, prof
  <2>5. Kept'
    <3>1. /\ Len(tbbuf) = next_tb_sample /\ next_tb_sample \in Nat
          /\ traces = next_tb_sample + 1
      BY <1>1, <1>2, SizesAssumption DEF Inv, TypeOK, Kept, Full
    <3>2. \A i \in 1 .. Len(tbbuf') : tbbuf'[i] = i
      BY <1>1, <2>2, <3>1 DEF Inv, Kept
    <3>3. max_tb_samples' >= 0 => next_tb_sample' <= max_tb_samples'
      BY <1>1, <1>2, <2>1, <3>1, SizesAssumption DEF init
    <3> QED
      BY <1>1, <2>1, <2>2, <3>1, <3>2, <3>3 DEF Kept
  <2> QED
    BY <2>3, <2>4, <2>5 DEF Inv
<1>3. CASE trace = "frozen" /\ ~(next_tb_sample < max_tb_samples)
  <2>1. /\ trace' = "off"
        /\ UNCHANGED <<counting, line, samples, masked, cpu, init, prof, main,
                       traces, past, panicked>>
    BY <1>1, <1>3 DEF zbprof_trapfunc, ReadOut
  <2>2. TypeOK'
    BY <2>1 DEF Inv, TypeOK, Flags, cpu, init, prof, samples
  <2>3. Lives'
    BY <1>1, <2>1 DEF Inv, Lives, cpu, init, prof, samples
  <2>4. Full'
    BY <1>3, <1>1, <2>1, SizesAssumption DEF Full, init, samples, Inv, TypeOK
  <2>5. Kept'
    BY <1>1, <2>1, <2>4 DEF Inv, Kept, init, samples
  <2> QED
    BY <2>2, <2>3, <2>5 DEF Inv
<1>4. CASE trace # "frozen"
  <2>1. /\ panicked' \in BOOLEAN /\ line' \in {FALSE, line}
        /\ \/ counting' = TRUE /\ trace' = "armed"
           \/ UNCHANGED <<counting, trace>>
        /\ UNCHANGED <<samples, masked, cpu, init, prof, main, traces, past>>
    <3>1. panicked' = ~others /\ Spurious
      BY <1>1, <1>4 DEF zbprof_trapfunc
    <3>2. UNCHANGED <<masked, cpu, init, prof, main, traces, past>>
      BY DEF zbprof_trapfunc
    <3> QED
      BY <3>1, <3>2 DEF Spurious, arm_tb
  <2>2. TypeOK'
    <3>1. Flags'
      BY <2>1 DEF Inv, TypeOK, Flags, cpu, init, prof
    <3> QED
      BY <2>1, <3>1 DEF Inv, TypeOK, init, samples
  <2>3. Lives'
    BY <1>1, <2>1 DEF Inv, Lives, cpu, init, prof, samples
  <2>4. Kept'
    BY <1>1, <1>4, <2>1 DEF Inv, Kept, Full, init, samples
  <2> QED
    BY <2>2, <2>3, <2>4 DEF Inv
<1> QED
  BY <1>2, <1>3, <1>4

------------------------------------------------------------------------------
(* sbprof_init2, sbprof_zbprof_start and sbprof_zbprof_stop.                  *)

LEMMA Init2Step == ASSUME Inv, sbprof_init2 PROVE Inv'
<1>1. TypeOK'
  BY DEF sbprof_init2, Inv, TypeOK, Flags, scd, cpu, prof, samples
<1>2. Lives'
  BY DEF sbprof_init2, Inv, Lives, Untouched, scd, cpu, prof, samples
<1>3. Kept'
  BY SizesAssumption
  DEF sbprof_init2, Inv, TypeOK, Lives, Untouched, Kept, Full, scd, samples
<1> QED
  BY <1>1, <1>2, <1>3 DEF Inv

LEMMA CallStartStep == ASSUME Inv, CallStart PROVE Inv'
<1>1. TypeOK'
  BY DEF CallStart, Inv, TypeOK, Flags, scd, init, prof, samples
<1>2. Lives'
  BY DEF CallStart, Idle, Inv, TypeOK, Lives, Untouched, scd, init, prof, samples
<1>3. Kept'
  BY DEF CallStart, Inv, Kept, Full, scd, init, samples
<1> QED
  BY <1>1, <1>2, <1>3 DEF Inv

LEMMA MapInterruptsStep == ASSUME Inv, MapInterrupts PROVE Inv'
<1>1. TypeOK'
  BY DEF MapInterrupts, Inv, TypeOK, Flags, init, samples
<1>2. Lives'
  BY DEF MapInterrupts, Inv, TypeOK, Lives, Untouched, init, samples
<1>3. Kept'
  BY DEF MapInterrupts, Inv, Kept, Full, init, samples
<1> QED
  BY <1>1, <1>2, <1>3 DEF Inv

LEMMA ArmStep == ASSUME Inv, Arm PROVE Inv'
<1>1. TypeOK'
  BY DEF Arm, arm_tb, Inv, TypeOK, Flags, cpu, init, prof, samples
<1>2. Lives'
  BY DEF Arm, arm_tb, Inv, TypeOK, Lives, Untouched, cpu, init, prof, samples
<1>3. Kept'
  BY DEF Arm, arm_tb, Inv, TypeOK, Lives, Untouched, Kept, Full, init, samples
<1> QED
  BY <1>1, <1>2, <1>3 DEF Inv

LEMMA EnableIntrStep == ASSUME Inv, EnableIntr PROVE Inv'
<1>1. TypeOK'
  BY DEF EnableIntr, Inv, TypeOK, Flags, scd, init, prof, samples
<1>2. Lives'
  BY DEF EnableIntr, Inv, Lives, Untouched, scd, init, prof, samples
<1>3. Kept'
  BY DEF EnableIntr, Inv, Kept, Full, scd, init, samples
<1> QED
  BY <1>1, <1>2, <1>3 DEF Inv

LEMMA CallStopStep == ASSUME Inv, CallStop PROVE Inv'
<1>1. TypeOK'
  BY DEF CallStop, Inv, TypeOK, Flags, scd, init, prof, samples
<1>2. Lives'
  BY DEF CallStop, Idle, Inv, Lives, Untouched, scd, init, prof, samples
<1>3. Kept'
  BY DEF CallStop, Inv, Kept, Full, scd, init, samples
<1> QED
  BY <1>1, <1>2, <1>3 DEF Inv

LEMMA QuietStep == ASSUME Inv, Quiet PROVE Inv'
<1>1. TypeOK'
  BY DEF Quiet, Inv, TypeOK, Flags, init, prof, samples
<1>2. Lives'
  BY DEF Quiet, Inv, Lives, Untouched, init, prof, samples
<1>3. Kept'
  BY DEF Quiet, Inv, Kept, Full, init, samples
<1> QED
  BY <1>1, <1>2, <1>3 DEF Inv

(* The wait ends with the line down, since the source is masked.              *)
LEMMA PauseStep == ASSUME Inv, Pause PROVE Inv'
<1>1. TypeOK'
  BY DEF Pause, Inv, TypeOK, Flags, scd, init, prof, samples
<1>2. Lives'
  BY DEF Pause, Source, Inv, Lives, Untouched, scd, init, prof, samples
<1>3. Kept'
  BY DEF Pause, Inv, Kept, Full, scd, init, samples
<1> QED
  BY <1>1, <1>2, <1>3 DEF Inv

LEMMA RemoveStep == ASSUME Inv, ~panicked, Remove PROVE Inv'
<1>1. TypeOK'
  BY DEF Remove, Inv, TypeOK, Flags, scd, init, samples
<1>2. Lives'
  BY DEF Remove, Inv, TypeOK, Lives, Untouched, scd, init, samples
<1>3. Kept'
  <2>1. past'.on = "off" /\ ~panicked'
    BY DEF Remove, Inv, TypeOK, Kept
  <2> QED
    BY <2>1 DEF Remove, Inv, Kept, scd, init, samples
<1> QED
  BY <1>1, <1>2, <1>3 DEF Inv

LEMMA SwitchIEStep == ASSUME Inv, SwitchIE PROVE Inv'
<1>1. TypeOK'
  BY DEF SwitchIE, Inv, TypeOK, Flags, scd, init, prof, samples
<1>2. Lives'
  BY DEF SwitchIE, Inv, Lives, Untouched, scd, init, prof, samples
<1>3. Kept'
  BY DEF SwitchIE, Inv, Kept, Full, scd, init, samples
<1> QED
  BY <1>1, <1>2, <1>3 DEF Inv

------------------------------------------------------------------------------
LEMMA Stutter == ASSUME Inv, UNCHANGED vars PROVE Inv'
<1>1. TypeOK'
  BY DEF vars, scd, cpu, init, prof, samples, Inv, TypeOK, Flags
<1>2. Lives'
  BY DEF vars, scd, cpu, init, prof, samples, Inv, Lives, Untouched
<1>3. Kept'
  BY DEF vars, scd, init, samples, Inv, Kept, Full
<1> QED
  BY <1>1, <1>2, <1>3 DEF Inv

(* The invariant of the bus profiler holds for every size of its buffer.      *)
THEOREM SbprofZbInv == Spec => []Inv
<1>1. Inv /\ [Next]_vars => Inv'
  BY OverflowStep, FreezeStep, PropagateStep, TrapfuncStep, Init2Step, CallStartStep,
     MapInterruptsStep, ArmStep, EnableIntrStep, CallStopStep, QuietStep, PauseStep,
     RemoveStep, SwitchIEStep, Stutter
  DEF Next, Hardware, Routines
<1> QED
  BY <1>1, InitInv, PTL DEF Spec

(* Every trace since the start is in the buffer, in order and once, as long   *)
(* as there is room (zbprof_trapfunc).                                        *)
THEOREM SbprofZbTracesKept == Spec => []TracesKept
<1>1. Inv => TracesKept
  BY DEF Inv, TypeOK, Kept, TracesKept
<1> QED
  BY <1>1, SbprofZbInv, PTL

(* However late an interrupt of the trace buffer comes, its handler is in the *)
(* chain, and its trace has been read out before an interrupt that comes once *)
(* more, since the line falls late, may make the program panic                *)
(* (zbprof_trapfunc, sbprof_zbprof_stop).                                     *)
THEOREM SbprofZbInterruptsClaimed == Spec => []InterruptsClaimed
<1>1. Inv => InterruptsClaimed
  BY DEF Inv, TypeOK, Lives, Kept, InterruptsClaimed
<1> QED
  BY <1>1, SbprofZbInv, PTL

(* After a stop the interrupt line is as it was before the start.             *)
THEOREM SbprofZbLineGivenBack == Spec => []LineGivenBack
<1>1. Inv => LineGivenBack
  BY DEF Inv, Lives, LineGivenBack
<1> QED
  BY <1>1, SbprofZbInv, PTL
=============================================================================
