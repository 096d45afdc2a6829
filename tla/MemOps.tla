-------------------------------- MODULE MemOps --------------------------------
(***************************************************************************)
(* sb1-opt/memcpy.S and sb1-opt/memset.S.  Both work in units of NBYTES,   *)
(* the width of a register: 4, or 8 with USE_DOUBLE.                       *)
(*                                                                         *)
(* A state of a routine is a record of its pointers, of what is left to    *)
(* do, of the memory, and of the bytes it has written so far (a byte of    *)
(* the program next to the buffer may not be among them unless the program *)
(* is told).  Memory is a function on addresses.  Prefetches and the       *)
(* scheduling of loads and stores inside a block are left out.             *)
(***************************************************************************)
EXTENDS Integers

CONSTANTS
  NBYTES,     \* bytes of a unit
  Byte        \* values of a byte

(***************************************************************************)
(* memcpy.  Copy(s, n) moves n bytes and goes on behind them.              *)
(***************************************************************************)
Advance(s, n) ==
  [s EXCEPT !.dst = s.dst + n, !.src = s.src + n, !.len = s.len - n]

Copy(s, n) ==
  Advance([s EXCEPT
            !.mem = [a \in DOMAIN s.mem |->
                       IF a \in s.dst .. s.dst + n - 1
                       THEN s.mem[s.src + (a - s.dst)] ELSE s.mem[a]],
            !.written = s.written \union (s.dst .. s.dst + n - 1)], n)

CopyUnits(s, count) ==
  LET after[k \in 0 .. count] == IF k = 0 THEN s ELSE Copy(after[k - 1], NBYTES)
  IN  after[count]

(* copy_bytes_checklen: at most NBYTES - 1 of them are ever left. *)
CopyBytes(s) ==
  LET after[k \in 0 .. s.len] == IF k = 0 THEN s ELSE Copy(after[k - 1], 1)
  IN  after[s.len]

(* Mistake for a mutation run: the unit of src is not masked. *)
CopyMasked_all(s) == IF s.len = 0 THEN s ELSE Copy(s, NBYTES)

(* copy_bytes_aligned: the last unit of dst is read, masked with what is   *)
(* left of src, and all of it is written.                                  *)
CopyMasked(s) ==
  IF s.len = 0 THEN s
  ELSE [Copy(s, s.len) EXCEPT
          !.written = s.written \union (s.dst .. s.dst + NBYTES - 1)]

CopyFour(s) == IF s.len >= 4 * NBYTES THEN CopyUnits(s, 4) ELSE s

both_aligned(s) ==
  LET body == CopyUnits(s, 8 * (s.len \div (8 * NBYTES)))
      four == CopyFour(body)
  IN  CopyMasked(CopyUnits(four, four.len \div NBYTES))

src_unaligned_dst_aligned(s) ==
  LET body == CopyUnits(s, 4 * (s.len \div (4 * NBYTES)))
  IN  CopyBytes(CopyUnits(body, body.len \div NBYTES))

(* One LDFIRST/LDREST and an STFIRST bring dst to a unit's boundary. *)
dst_unaligned(s) ==
  LET mod == s.dst % NBYTES
      up  == Copy(s, NBYTES - mod)
  IN  IF s.src % NBYTES = mod THEN both_aligned(up) ELSE src_unaligned_dst_aligned(up)

memcpy(mem, dst, src, len) ==
  LET s == [mem |-> mem, dst |-> dst, src |-> src, len |-> len, written |-> {}]
  IN  IF len < NBYTES THEN CopyBytes(s)
      ELSE IF dst % NBYTES # 0 THEN dst_unaligned(s)
      ELSE IF src % NBYTES # 0 THEN src_unaligned_dst_aligned(s)
      ELSE both_aligned(s)

(***************************************************************************)
(* memset.  The value of the byte fills a register; stores take the bytes  *)
(* of the register.                                                        *)
(***************************************************************************)
replicate_byte(val) ==
  LET two  == val * Byte + val
      four == two * Byte^2 + two
  IN  IF NBYTES = 8 THEN four * Byte^4 + four ELSE four

(* What the byte k of a register counts: Byte^k, by its two halves. *)
Weight(k) == Byte^(k % 4) * Byte^(4 * (k \div 4))

(* The n first bytes of the register, from the one of weight NBYTES - 1 on *)
(* (STFIRST, STORE), or its last byte (sb).                                *)
Fill(s, n, lowest) ==
  [s EXCEPT !.dst = s.dst + n, !.len = s.len - n,
            !.mem = [a \in DOMAIN s.mem |->
                       IF a \in s.dst .. s.dst + n - 1
                       THEN (s.val \div Weight(IF lowest THEN 0
                                               ELSE NBYTES - 1 - (a - s.dst))) % Byte
                       ELSE s.mem[a]],
            !.written = s.written \union (s.dst .. s.dst + n - 1)]

FillUnits(s, count) ==
  LET after[k \in 0 .. count] ==
        IF k = 0 THEN s ELSE Fill(after[k - 1], NBYTES, FALSE)
  IN  after[count]

(* set_bytes_checklen *)
FillBytes(s) ==
  LET after[k \in 0 .. s.len] == IF k = 0 THEN s ELSE Fill(after[k - 1], 1, TRUE)
  IN  after[s.len]

(* set_many; the units that DO_UNIT counts, fifteen at most; the bytes. *)
aligned(s) ==
  LET many == FillUnits(s, 16 * (s.len \div (16 * NBYTES)))
  IN  FillBytes(FillUnits(many, many.len \div NBYTES))

memset(mem, dst, val, len) ==
  LET mod == dst % NBYTES
      s   == [mem |-> mem, dst |-> dst, len |-> len, written |-> {},
              val |-> IF val = 0 THEN 0 ELSE replicate_byte(val)]
  IN  IF mod = 0 THEN aligned(s)
      ELSE IF len < NBYTES THEN FillBytes(s)
      ELSE aligned(Fill(s, NBYTES - mod, FALSE))
=============================================================================
