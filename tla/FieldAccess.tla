----------------------------- MODULE FieldAccess -----------------------------
(***************************************************************************)
(* The macros of sb1250_defs.h by which programs build and read the fields *)
(* of a register. A word is the set of the bits that are 1 in it, so that  *)
(* "or" is union and "and" is intersection.                                *)
(* A shift by 64 or more is undefined in C: a compiler that folds it makes *)
(* it zero, the processor's shift takes the low six bits of the count.     *)
(***************************************************************************)
EXTENDS Integers

CONSTANT folds    \* such a shift is zero

AllBits == 0 .. 63

(* The bits of x that a shift by n moves, and where they get to. *)
Moved(x, n) == IF folds /\ n >= 64 THEN {} ELSE x
Left(x, n)  == {b + (n % 64) : b \in Moved(x, n)} \cap AllBits
Right(x, n) == {b - (n % 64) : b \in Moved(x, n)} \cap AllBits

(* 2^v - 1: the bits below bit v. *)
Below(v) == IF folds /\ v >= 64 THEN AllBits ELSE 0 .. (v % 64) - 1

SB_MAKEMASK(v, n)    == Left(Below(v), n)
SB_MAKEVALUE(v, n)   == Left(v, n)
(* Mistake for a mutation run: the other fields are not masked out. *)
SB_GETVALUE_nomask(v, n, m) == Right(v, n)
SB_GETVALUE(v, n, m) == Right(v \cap m, n)

(* A field f: its width, its shift S_..., and the shift of the mask that its *)
(* G_... takes.  A code of it is a word of the bits below its width.          *)
M(f)    == SB_MAKEMASK(f.width, f.shift)
V(f, x) == SB_MAKEVALUE(x, f.shift)
G(f, r) == SB_GETVALUE(r, f.shift, SB_MAKEMASK(f.width, f.get))
=============================================================================
