---------------------------- MODULE MCTlbAlloc ----------------------------
(* Instances of TlbAlloc: a bank of 32 pages at 0 that holds the program,   *)
(* and another one, in both orders; and a region more than there is room    *)
(* for.                                                                     *)
EXTENDS TlbAlloc

Memory(at, n) == [pa |-> at, size |-> n, available |-> TRUE]
Taken(at, n) == [pa |-> at, size |-> n, available |-> FALSE]

MCMaps ==
  {<<Memory(0, n), Taken(n, 32 - n), Memory(64, m)>> : n \in {3, 8, 17, 28}, m \in 0..20}
  \cup {<<Memory(64, m), Memory(0, n)>> : n \in {3, 30, 45}, m \in {7, 16}}
  \cup {<<Memory(0, 16), Memory(64, 3), Memory(80, 3)>>}
MCIncrements == -5..5
=============================================================================
