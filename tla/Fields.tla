------------------------------- MODULE Fields --------------------------------
(* Where the fields of a register are, as FieldAccess takes them. *)
EXTENDS Integers, TLC

(* A field of several bits: S_..., M_..., V_... and G_... agree.            *)
F(width, shift) == [width |-> width, shift |-> shift, get |-> shift]
(* A single bit has a mask only, with which programs set and test it.       *)
B(bit) == F(1, bit)
=============================================================================
