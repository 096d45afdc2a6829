------------------------------ MODULE MCInitTlb ------------------------------
(***************************************************************************)
(* All working TLBs over a small address space.  With a base of 7 the safe *)
(* range is 1 .. 6, directly below it; entries of the minimum              *)
(* size and of the next one (four units, aligned) start inside it, before  *)
(* it and past the base, in two address spaces or globally.  The code      *)
(* never reads a V bit, so that valid entries stand for the others too.    *)
(***************************************************************************)
EXTENDS InitTlb

CONSTANT
  MaskedVPN   \* does tlbr clear the VPN2 bits under the page mask

Large(p) == 4 * (p \div 4) .. 4 * (p \div 4) + 3

MCSpans == {{p} : p \in 0 .. Base + Size} \union {Large(p) : p \in 0 .. Base + Size}

MCEntries ==
  {e \in [vpn : 0 .. Base + Size, span : MCSpans, asid : {0, 1},
          global : BOOLEAN, valid : {TRUE}] :
     /\ e.vpn \in e.span
     /\ MaskedVPN => \A p \in e.span : e.vpn <= p
     /\ e.global => e.asid = 0}

MCInitialTLBs == {t \in [Slots -> MCEntries] : NoConflictIn(t)}
=============================================================================
