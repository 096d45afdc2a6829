------------------------------- MODULE Unhandler -------------------------------
(***************************************************************************)
(* unaligned/unhandler.c: the handlers that carry out an unaligned load or *)
(* store, and the branch in whose delay slot it is, in an exception frame. *)
(*                                                                         *)
(* A byte has Byte values, a C long PtrBytes bytes, a register eight; so   *)
(* sign extension and truncation are the code's, with smaller numbers.     *)
(* Memory and text are functions on addresses; instructions are records of *)
(* their fields, their name in op.  Copying in and out does not fail here, *)
(* as with unhandler_exlib.h.                                              *)
(***************************************************************************)
EXTENDS Integers

CONSTANTS
  Byte,       \* 256
  PtrBytes,   \* sizeof (EXC_INTPTR_TYPE)
  mips64,     \* __mips64
  Segment     \* the 2^28 bytes that a jump stays in

(***************************************************************************)
(* C's integers.                                                           *)
(***************************************************************************)
(* The values of n bytes. *)
Values[n \in Nat] == IF n = 0 THEN 1 ELSE Values[n - 1] * Byte

Unsigned(v, n) == v % Values[n]
Signed(v, n) == LET u == v % Values[n]
                IN  IF u < Values[n] \div 2 THEN u ELSE u - Values[n]
Pointer(v) == Signed(v, PtrBytes)

COPYIN(mem, a, n) ==
  LET read[i \in 0 .. n] == IF i = 0 THEN 0 ELSE read[i - 1] * Byte + mem[a + i - 1]
  IN  read[n]
COPYOUT(mem, a, n, v) ==
  [b \in DOMAIN mem |->
     IF b \in a .. a + n - 1 THEN (v \div Values[a + n - 1 - b]) % Byte ELSE mem[b]]

GET_EXC_REG(regs, r) == IF r = 0 THEN 0 ELSE regs[r]
SET_EXC_REG(regs, r, v) == IF r = 0 THEN regs ELSE [regs EXCEPT ![r] = v]

(***************************************************************************)
(* calculate_next_pc.                                                      *)
(***************************************************************************)
Likely == {"BLTZL", "BGEZL", "BLTZALL", "BGEZALL", "BEQL", "BNEL", "BLEZL", "BGTZL"}
Conditional == Likely \union
  {"BLTZ", "BGEZ", "BLTZAL", "BGEZAL", "BEQ", "BNE", "BLEZ", "BGTZ", "BC1"}
LinksIfTaken == {"BLTZAL", "BGEZAL", "BLTZALL", "BGEZALL"}

(* BC1: any of 1, 2 or 4 condition codes from cc on is tf; nd is "likely". *)
CodesOfBranch(i) == i.cc .. i.cc + i.any - 1
CopRecognised(i) == i.nd => i.any = 1
CopCondition(i, ccodes) ==
  i.nd \/ \E cc \in CodesOfBranch(i) : (cc \in ccodes) = i.tf

Condition(ef, i) ==
  LET rs == GET_EXC_REG(ef.regs, i.rs)
      rt == GET_EXC_REG(ef.regs, i.rt)
  IN  \/ i.op \in Likely
      \/ i.op = "BC1" /\ CopCondition(i, ef.ccodes)
      \/ i.op \in {"BLTZ", "BLTZAL"} /\ rs < 0
      \/ i.op \in {"BGEZ", "BGEZAL"} /\ rs >= 0
      \/ i.op = "BEQ" /\ rs = rt
      \/ i.op = "BNE" /\ rs # rt
      \/ i.op = "BLEZ" /\ rs <= 0
      \/ i.op = "BGTZ" /\ rs > 0

Recognised(i) == \/ i.op \in {"J", "JAL", "JR", "JALR"} \union (Conditional \ {"BC1"})
                 \/ i.op = "BC1" /\ CopRecognised(i)

Goes(pc, ra) == [ok |-> TRUE, pc |-> Pointer(pc), ra |-> ra]

Jump(pc, i) == ((pc + 4) \div Segment) * Segment + 4 * i.index

Branch(ef, pc, i) ==
  CASE i.op \in {"JR", "JALR"} -> Goes(GET_EXC_REG(ef.regs, i.rs), i.op = "JALR")
    [] i.op \in {"J", "JAL"}   -> Goes(Jump(pc, i), i.op = "JAL")
    [] i.op \in Conditional    ->
         IF Condition(ef, i) THEN Goes(pc + 4 + 4 * i.imm, i.op \in LinksIfTaken)
                             ELSE Goes(pc + 8, FALSE)

calculate_next_pc(ef, pc, bd, text) ==
  IF ~bd THEN Goes(pc + 4, FALSE)
  ELSE IF Recognised(text[pc]) THEN Branch(ef, pc, text[pc])
  ELSE [ok |-> FALSE, pc |-> pc, ra |-> FALSE]

(***************************************************************************)
(* The handlers.  A result is the frame and the memory that the program    *)
(* goes on with; fatal leaves both alone, for EXC_FATAL.                   *)
(***************************************************************************)
Width == [LH |-> 2, LHU |-> 2, LW |-> 4, LWU |-> 4, LD |-> 8,
          SH |-> 2, SW |-> 4, SD |-> 8]
Only64 == {"LWU", "LD", "SD"}
Loads == {"LH", "LHU", "LW", "LWU", "LD"} \ (IF mips64 THEN {} ELSE Only64)
Stores == {"SH", "SW", "SD"} \ (IF mips64 THEN {} ELSE Only64)

Fatal(ef, mem) == [fatal |-> TRUE, ef |-> ef, mem |-> mem]

(* Where the instruction itself is, and what it addresses. *)
Fault(ef, pc) == IF ef.bd THEN pc + 4 ELSE pc
Base(ef, a) == GET_EXC_REG(ef.regs, a.rs)
Address(ef, a) == Pointer(Base(ef, a) + a.imm)
Narrow(v) == Pointer(v) # v

(* handled: the link register comes last. *)
Handled(ef, next, regs, mem) ==
  [fatal |-> FALSE, mem |-> mem,
   ef |-> [ef EXCEPT !.pc = next.pc,
             !.regs = IF next.ra THEN SET_EXC_REG(regs, 31, ef.pc + 8) ELSE regs]]

(* Mistake for a mutation run: the load goes first, and may change the     *)
(* operands of the branch.                                                 *)
LoadFirst(ef, text, mem) ==
  LET a    == text[Fault(ef, ef.pc)]
      regs == SET_EXC_REG(ef.regs, a.rt,
                IF a.op \in {"LHU", "LWU"}
                THEN COPYIN(mem, Address(ef, a), Width[a.op])
                ELSE Signed(COPYIN(mem, Address(ef, a), Width[a.op]), Width[a.op]))
      next == calculate_next_pc([ef EXCEPT !.regs = regs], ef.pc, ef.bd, text)
  IN  IF Narrow(ef.pc) \/ ef.pc % 4 # 0 \/ ~next.ok \/ Narrow(Base(ef, a))
         \/ a.op \notin Loads
      THEN Fatal(ef, mem)
      ELSE Handled(ef, next, regs, mem)

unaligned_load_handler(ef, text, mem) ==
  IF Narrow(ef.pc) \/ ef.pc % 4 # 0 THEN Fatal(ef, mem)
  ELSE LET next == calculate_next_pc(ef, ef.pc, ef.bd, text)
           a    == text[Fault(ef, ef.pc)]
           val  == COPYIN(mem, Address(ef, a), Width[a.op])
       IN  IF ~next.ok \/ Narrow(Base(ef, a)) \/ a.op \notin Loads
           THEN Fatal(ef, mem)
           ELSE Handled(ef, next,
                  SET_EXC_REG(ef.regs, a.rt, IF a.op \in {"LHU", "LWU"} THEN val
                                             ELSE Signed(val, Width[a.op])),
                  mem)

(* The store handler does not test that the program counter is aligned.    *)
unaligned_store_handler(ef, text, mem) ==
  IF Narrow(ef.pc) THEN Fatal(ef, mem)
  ELSE LET next == calculate_next_pc(ef, ef.pc, ef.bd, text)
           a    == text[Fault(ef, ef.pc)]
           val  == GET_EXC_REG(ef.regs, a.rt)
       IN  IF ~next.ok \/ Narrow(Base(ef, a)) \/ a.op \notin Stores
           THEN Fatal(ef, mem)
           ELSE Handled(ef, next, ef.regs,
                  COPYOUT(mem, Address(ef, a), Width[a.op],
                          Unsigned(val, Width[a.op])))
=============================================================================
