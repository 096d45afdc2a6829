-------------------------------- MODULE Strcmp --------------------------------
(***************************************************************************)
(* sb1-opt/strcmp.S.  Strings are functions on addresses with a zero in    *)
(* their range; when both begin on a unit's boundary they are compared a   *)
(* unit at a time, three units to a turn of the loop, and the end of the   *)
(* string is found with the trick of const1 and const2.                    *)
(***************************************************************************)
EXTENDS Integers

CONSTANTS
  NBYTES,     \* bytes of a unit
  Byte,       \* values of a byte
  MIPSEL      \* __MIPSEL__: the first byte of a unit is its lowest

Weight(i) == Byte^(IF MIPSEL THEN i ELSE NBYTES - 1 - i)

LOAD(mem, a) ==
  LET read[i \in 0 .. NBYTES] ==
        IF i = 0 THEN 0 ELSE read[i - 1] + Weight(i - 1) * mem[a + i - 1]
  IN  read[NBYTES]

Wrap == Byte^NBYTES
Digit(x, i) == (x \div Byte^i) % Byte
High(d) == d >= Byte \div 2

(* const2: a borrow of one from every byte. *)
const2 == LET sum[i \in 0 .. NBYTES] == IF i = 0 THEN 0 ELSE sum[i - 1] + Byte^(i - 1)
          IN  Wrap - sum[NBYTES]

(* (x + const2) & ~x & const1, tested for not being zero. *)
ZeroSeen(x) == \E i \in 0 .. NBYTES - 1 :
  High(Digit((x + const2) % Wrap, i)) /\ ~High(Digit(x, i))

Sign(x, y) == IF x < y THEN -1 ELSE 1

(* unaligned_loop, four bytes to a turn. *)
unaligned_loop(s, t, a, b) ==
  LET at[i \in Nat] ==
        IF s[a + i] # t[b + i] THEN Sign(s[a + i], t[b + i])
        ELSE IF s[a + i] = 0 THEN 0
        ELSE at[i + 1]
  IN  at[0]

(* Equal units with the end in them are equal strings; unequal ones are    *)
(* looked at byte by byte.                                                 *)
zero_detected(s, t, a, b) ==
  IF LOAD(s, a) = LOAD(t, b) THEN 0 ELSE unaligned_loop(s, t, a, b)

(* Mistake for a mutation run: the units are compared although the end may *)
(* be before the byte that differs.                                        *)
early_mismatch_word(s, t, a, b) ==
  IF MIPSEL THEN zero_detected(s, t, a, b) ELSE Sign(LOAD(s, a), LOAD(t, b))

(* Big-endian units without an end order the strings. *)
early_mismatch(s, t, a, b) ==
  IF MIPSEL \/ ZeroSeen(LOAD(s, a)) THEN zero_detected(s, t, a, b)
  ELSE Sign(LOAD(s, a), LOAD(t, b))

(* The third unit of a turn has no early exit for a mismatch when          *)
(* big-endian: it tests for the end first, then for the mismatch.          *)
Third(k) == k % 3 = 2

aligned_loop(s, t, a, b) ==
  LET turn[k \in Nat] ==
        LET t0 == LOAD(s, a + k * NBYTES)
            t1 == LOAD(t, b + k * NBYTES)
        IN  IF t0 # t1 /\ ~(Third(k) /\ ~MIPSEL)
            THEN early_mismatch(s, t, a + k * NBYTES, b + k * NBYTES)
            ELSE IF ZeroSeen(t0)
                 THEN zero_detected(s, t, a + k * NBYTES, b + k * NBYTES)
            ELSE IF t0 # t1 THEN Sign(t0, t1)
            ELSE turn[k + 1]
  IN  turn[0]

strcmp(s, t, a, b) ==
  IF a % NBYTES = 0 /\ b % NBYTES = 0 THEN aligned_loop(s, t, a, b)
  ELSE unaligned_loop(s, t, a, b)
=============================================================================
