-------------------------------- MODULE Tbanal --------------------------------
(***************************************************************************)
(* libsbprof/util/tbanal.c: the statistics of trace buffers of the ZBbus.  *)
(*                                                                         *)
(* A buffer is a sequence of at most 256 triples of samples.  A sample is  *)
(* a record of the fields that are looked at: atrig and dtrig, count, and  *)
(* a and d, the address and the data phase (or NoPhase where a_valid or    *)
(* d_valid of a second pass trace is not set).  A triple that begins with  *)
(* a D-sample holds data in its other two places.                          *)
(*                                                                         *)
(* Histograms are functions on the values below NHIST; the state of the    *)
(* program is a record, in which failed says that an assertion ended it.   *)
(***************************************************************************)
EXTENDS Integers, Sequences

CONSTANTS
  NHIST,          \* 8192
  Readers,        \* agents that read: AGT_CPU0 .. AGT_SCD
  Agents,         \* all agents
  Tids,           \* transaction numbers
  NoPhase

Reads == {"READ_SHD", "READ_EXC"}
Transactions == Reads \union {"WRITE", "WR_INV", "INV", "NOP"}
UNKNOWN == [trans |-> "COUNT", time |-> 0]

hist_init == [v \in 0 .. NHIST - 1 |-> 0]

Start == [curtime |-> 0, failed |-> FALSE, idle |-> hist_init, tb_length |-> hist_init,
          last_read |-> [r \in Readers, t \in Tids |-> UNKNOWN],
          read_lat |-> [r \in Readers, x \in Reads, a \in Agents |-> hist_init],
          trans_counts |-> [a \in Agents, x \in Transactions |-> 0]]

Insert(hist, value) == [hist EXCEPT ![value] = @ + 1]
Failed(s) == [s EXCEPT !.failed = TRUE]

(* The time that passes before a sample, and how it is binned. *)
Time(s, cb) ==
  LET gap == cb.count + 1
  IN  IF gap >= NHIST THEN Failed(s)
      ELSE [s EXCEPT !.curtime = @ + gap, !.idle = Insert(@, gap)]

APhase(s, a) ==
  LET counted == [s EXCEPT !.trans_counts[<<a.aid, a.cmd>>] = @ + 1]
  IN  IF a.cmd \in Reads
      THEN [counted EXCEPT !.last_read[<<a.aid, a.tid>>] =
                             [trans |-> a.cmd, time |-> s.curtime]]
      ELSE counted

(* A response that is not the data of a write belongs to the last read.  *)
DPhase(s, d) ==
  LET last  == s.last_read[d.aid, d.tid]
      delta == s.curtime - last.time
  IN  IF d.rsp = d.aid \/ d.code # "DVal" \/ last.trans = "COUNT" THEN s
      ELSE IF delta >= NHIST THEN Failed(s)
      ELSE [s EXCEPT !.read_lat[<<d.aid, last.trans, d.rsp>>] = Insert(@, delta),
                     !.last_read[<<d.aid, d.tid>>] = UNKNOWN]

analyze_cntrl(s, cb, first) ==
  LET timed  == IF first \/ s.failed THEN s ELSE Time(s, cb)
      phaseA == IF cb.a = NoPhase THEN timed ELSE APhase(timed, cb.a)
  IN  IF timed.failed THEN timed
      ELSE IF cb.d = NoPhase THEN phaseA ELSE DPhase(phaseA, cb.d)

(* FALSE at the end of the trace. *)
Used(tb) == tb[1].atrig \/ tb[1].dtrig

Samples(tb) ==
  IF tb[1].dtrig \/ ~tb[2].atrig THEN <<tb[1]>>
  ELSE IF ~tb[3].atrig THEN <<tb[1], tb[2]>> ELSE tb

analyze_bundle(s, tb, first) ==
  LET samples == Samples(tb)
      after[k \in 0 .. Len(samples)] ==
        IF k = 0 THEN s
        ELSE analyze_cntrl(after[k - 1], samples[k], first /\ k = 1)
  IN  after[Len(samples)]

(* Mistake for a mutation run: the reads of the last buffer are kept. *)
Reset_time(s) == [s EXCEPT !.curtime = 0]

Reset(s) == [s EXCEPT !.curtime = 0, !.last_read = Start.last_read]

(* curtime = NHIST passes the test, and fails the assertion. *)
Length(s) ==
  IF s.failed \/ s.curtime > NHIST THEN s
  ELSE IF s.curtime = NHIST THEN Failed(s)
  ELSE [s EXCEPT !.tb_length = Insert(@, s.curtime)]

tbanal(s, buffer) ==
  LET used == IF \A i \in DOMAIN buffer : Used(buffer[i]) THEN Len(buffer)
              ELSE (CHOOSE i \in DOMAIN buffer :
                      /\ ~Used(buffer[i])
                      /\ \A j \in 1 .. i - 1 : Used(buffer[j])) - 1
      after[k \in 0 .. used] ==
        IF k = 0 THEN Reset(s)
        ELSE analyze_bundle(after[k - 1], buffer[k], k = 1)
  IN  IF s.failed THEN s ELSE Length(after[used])

(* main: one buffer after the other. *)
main(buffers) ==
  LET after[k \in 0 .. Len(buffers)] ==
        IF k = 0 THEN Start ELSE tbanal(after[k - 1], buffers[k])
  IN  after[Len(buffers)]
=============================================================================
