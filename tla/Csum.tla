--------------------------------- MODULE Csum ---------------------------------
(***************************************************************************)
(* sb1-opt/csum_partial.S: the Internet checksum of a buffer, and the      *)
(* checksum of a buffer that is copied and whose pages may be missing.     *)
(* The file is built for units of four bytes only.                         *)
(*                                                                         *)
(* Memory is a function on addresses.  The bytes of src from srcEnd on     *)
(* cannot be read, those of dst from dstEnd on cannot be written; both are *)
(* boundaries of pages.  A step that faults leaves in exc the handler of   *)
(* its entry in __ex_table, and no later step does anything.               *)
(***************************************************************************)
EXTENDS Integers

CONSTANTS
  Byte,       \* values of a byte
  MIPSEB      \* __MIPSEB__

NBYTES == 4
EFAULT == 14

Odd(a) == a % 2
Weight(p) == Byte^(IF MIPSEB THEN NBYTES - 1 - p ELSE p)
Word == Byte^NBYTES

(* n bytes from a on, at the positions of a unit from p on. *)
Value(mem, a, n, p) ==
  LET sum[i \in 0 .. n] ==
        IF i = 0 THEN 0 ELSE sum[i - 1] + mem[a + i - 1] * Weight(p + i - 1)
  IN  sum[n]
LDHALFU(mem, a) == Value(mem, a, 2, IF MIPSEB THEN 2 ELSE 0)

(* A byte in the high or the low half of its pair. *)
EvenByte(b) == IF MIPSEB THEN b * Byte ELSE b
OddByte(b)  == IF MIPSEB THEN b ELSE b * Byte

(* The two halves of a pair change places, in every pair. *)
swap(sum) == (sum \div Byte) + (sum % Byte) * Byte^(NBYTES - 1)
Turned(swapped, sum) == IF swapped THEN swap(sum) ELSE sum

(***************************************************************************)
(* csum_partial.                                                           *)
(***************************************************************************)
(* big_csum: 8 units to a turn, their halves in sum0 and sum1. *)
big_csum(mem, src, units) ==
  LET Half(k) ==   \* the first or the second half of each unit
        LET sum[u \in 0 .. units] ==
              IF u = 0 THEN 0
              ELSE sum[u - 1] + LDHALFU(mem, src + (u - 1) * NBYTES + k * (NBYTES \div 2))
        IN  sum[units]
  IN  <<Half(0), Half(1)>>

cleanup(mem, src, limithw) ==
  LET sum[k \in 0 .. (limithw - src) \div 2] ==
        IF k = 0 THEN 0 ELSE sum[k - 1] + LDHALFU(mem, src + 2 * (k - 1))
  IN  sum[(limithw - src) \div 2]

csum_partial(mem, src, len, partial_sum) ==
  LET byteswap == Odd(src) = 1
      limit    == src + len
      limithw  == limit - Odd(limit)
      start    == src + Odd(src)
      first    == IF byteswap THEN OddByte(mem[src]) ELSE 0
      last     == IF start # limit /\ limithw # limit THEN EvenByte(mem[limithw]) ELSE 0
      units    == 8 * ((limit - start) \div (8 * NBYTES))
      Sum(partial, big) == (partial % Byte^2) + first + big[1]
                           + cleanup(mem, start + units * NBYTES, limithw)
                           + (partial \div Byte^2) + big[2] + last
  IN  IF len = 0 THEN partial_sum
      ELSE Turned(byteswap,
                  Sum(Turned(byteswap, partial_sum), big_csum(mem, start, units)) % Word)

(***************************************************************************)
(* csum_partial_copy_user.                                                 *)
(***************************************************************************)
(* Mistake for a mutation run: the carry is lost. *)
Add0_nocarry(s, v) == [s EXCEPT !.sum0 = (s.sum0 + v) % Word]

Add0(s, v) ==
  LET sum == (s.sum0 + v) % Word
  IN  [s EXCEPT !.sum0 = sum, !.carry0 = s.carry0 + (IF sum < v THEN 1 ELSE 0)]
Add1(s, v) ==
  LET sum == (s.sum1 + v) % Word
  IN  [s EXCEPT !.sum1 = sum, !.carry1 = s.carry1 + (IF sum < v THEN 1 ELSE 0)]

Faults(s, a, n) == a + n > s.srcEnd
Raise(s, handler) == [s EXCEPT !.exc = handler]

(* Bytes k .. k + n - 1 of what is left go to dst. *)
STORE(s, k, n) ==
  LET stored == [s EXCEPT !.mem = [a \in DOMAIN s.mem |->
                   IF a \in (s.dst + k .. s.dst + k + n - 1) /\ a < s.dstEnd
                   THEN s.mem[s.src + (a - s.dst)] ELSE s.mem[a]]]
  IN  IF s.dst + k + n > s.dstEnd THEN Raise(stored, "s_exc") ELSE stored

Advance(s, n) ==
  IF s.exc # "none" THEN s
  ELSE [s EXCEPT !.src = s.src + n, !.dst = s.dst + n, !.len = s.len - n]

(* The handler of a load of unit u: only when the very first byte cannot   *)
(* be read is there nothing to copy.                                       *)
LoadHandler(s, u) == IF u = 0 /\ Faults(s, s.src, 1) THEN "l_exc" ELSE "l_exc_copy"

Unit(s, u) == Value(s.mem, s.src + u * NBYTES, NBYTES, 0)

(* Four units are loaded and summed, those of even number in sum0, before  *)
(* they are stored; eight make a turn.                                     *)
FourUnits(s, u) ==
  IF s.exc # "none" THEN s
  ELSE IF Faults(s, s.src + u * NBYTES, 4 * NBYTES) THEN Raise(s, LoadHandler(s, u))
  ELSE STORE(Add1(Add0(Add1(Add0(s, Unit(s, u)), Unit(s, u + 1)), Unit(s, u + 2)),
                  Unit(s, u + 3)),
             u * NBYTES, 4 * NBYTES)

EightUnits(s) == Advance(FourUnits(FourUnits(s, 0), 4), 8 * NBYTES)

OneUnit(s) ==
  IF s.exc # "none" THEN s
  ELSE IF Faults(s, s.src, NBYTES) THEN Raise(s, LoadHandler(s, 0))
  ELSE Advance(STORE(Add0(s, Unit(s, 0)), 0, NBYTES), NBYTES)

Units(s) ==
  LET turns == s.len \div (8 * NBYTES)
      ones  == (s.len % (8 * NBYTES)) \div NBYTES
      eight[k \in 0 .. turns] == IF k = 0 THEN s ELSE EightUnits(eight[k - 1])
      one[k \in 0 .. ones] == IF k = 0 THEN eight[turns] ELSE OneUnit(one[k - 1])
  IN  one[ones]

(* The unit that holds the last bytes is read, and the bytes are stored. *)
cleanup_bytes_both_aligned(s) ==
  IF s.exc # "none" \/ s.len = 0 THEN s
  ELSE IF Faults(s, s.src, 1) THEN Raise(s, "l_exc")
  ELSE Advance(STORE(Add0(s, Value(s.mem, s.src, s.len, 0)), 0, s.len), s.len)

(* Each byte has been counted off len when the next one is loaded, while   *)
(* src and dst stay.                                                       *)
csum_bytes(s) ==
  LET Byte1(t, i) ==   \* byte i, counted from 0
        LET b == t.mem[t.src + i]
        IN  IF t.exc # "none" THEN t
            ELSE IF Faults(t, t.src + i, 1) THEN Raise(t, LoadHandler(t, i))
            ELSE [STORE(Add0(t, IF Odd(i) = 1 THEN OddByte(b) ELSE EvenByte(b)), i, 1)
                    EXCEPT !.len = t.len - 1]
      after[k \in 0 .. s.len] == IF k = 0 THEN s ELSE Byte1(after[k - 1], k - 1)
  IN  after[s.len]

dst_unaligned(s) ==
  LET mod == s.dst % NBYTES
      n   == NBYTES - mod
  IN  IF Faults(s, s.src, NBYTES) THEN Raise(s, LoadHandler(s, 0))
      ELSE Advance(STORE(Add0(s, Value(s.mem, s.src, n, mod)), 0, n), n)

(* dst is aligned from here on, and src if it was aligned like dst. *)
LastBytes(s) ==
  IF s.src % NBYTES = 0 THEN cleanup_bytes_both_aligned(s) ELSE csum_bytes(s)

Copied(s) ==
  IF s.len < NBYTES THEN csum_bytes(s)
  ELSE LastBytes(Units(IF s.dst % NBYTES = 0 THEN s ELSE dst_unaligned(s)))

finish(s) ==
  LET lo    == (s.sum0 + s.sum1) % Word
      carry == s.carry0 + s.carry1 + (IF lo < s.sum1 THEN 1 ELSE 0)
      sum   == (lo + carry) % Word
  IN  (sum + (IF sum < carry THEN 1 ELSE 0)) % Word

(* memset of what is left. *)
l_exc(s) ==
  [s EXCEPT !.mem = [a \in DOMAIN s.mem |->
                       IF a \in s.dst .. s.dst + s.len - 1 THEN 0 ELSE s.mem[a]]]

(* A byte at a time until the load faults again. *)
l_exc_copy(s) ==
  LET copy[k \in 0 .. s.len] ==
        IF k = 0 THEN s
        ELSE LET t == copy[k - 1]
             IN  IF Faults(t, t.src, 1) THEN t
                 ELSE [t EXCEPT !.mem[t.dst] = t.mem[t.src], !.src = t.src + 1,
                                !.dst = t.dst + 1, !.len = t.len - 1]
  IN  l_exc(copy[s.len])

Handled(s) ==
  CASE s.exc = "l_exc"      -> l_exc(s)
    [] s.exc = "l_exc_copy" -> l_exc_copy(s)
    [] OTHER                -> s

Result(s, swapped) ==
  [mem |-> Handled(s).mem, err |-> IF s.exc = "none" THEN 0 ELSE -EFAULT,
   sum |-> Turned(swapped, finish(s))]

csum_partial_copy_user(mem, src, dst, len, partial_sum, srcEnd, dstEnd) ==
  LET byteswap == len >= NBYTES /\ Odd(dst) = 1
  IN  Result(Copied([mem |-> mem, src |-> src, dst |-> dst, len |-> len, exc |-> "none",
                     srcEnd |-> srcEnd, dstEnd |-> dstEnd, sum0 |-> 0, carry0 |-> 0,
                     carry1 |-> 0, sum1 |-> Turned(byteswap, partial_sum)]),
             byteswap)
=============================================================================
