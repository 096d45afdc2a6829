----------------------------- MODULE LoadLinked -----------------------------
(***************************************************************************)
(* One word of shared memory accessed with the MIPS load-linked /          *)
(* store-conditional pair and with plain stores.  This is the processor as *)
(* the inline assembly of spinlock.h and semaphore.h relies on it, so it   *)
(* is external to the code: ll reads the word and opens a link; a store to *)
(* the word by any processor closes the links of the others; sc stores     *)
(* only while the link of its own processor is open, and closes it.  An    *)
(* exception return or an eviction may close a link at any time.           *)
(***************************************************************************)
EXTENDS Naturals, Processors

CONSTANT
  MaxLost   \* bound on the links lost to interrupts and evictions

ASSUME MaxLostAssumption == MaxLost \in Nat

VARIABLES
  linked,   \* the set of processors whose link to the word is open
  lost      \* links lost so far

(* ll: the value read is the current word. *)
LoadLink(c, word) == linked' = linked \union {c} /\ UNCHANGED <<word, lost>>

(* sc with an open link: the store happens and every link is closed. *)
StoreCondOK(c, word, v) == c \in linked /\ word' = v /\ linked' = {} /\ UNCHANGED lost

(* sc without one: nothing is stored. *)
StoreCondFail(c, word) == c \notin linked /\ UNCHANGED <<word, linked, lost>>

(* A plain store always happens and closes every link to the word. *)
Store(word, v) == word' = v /\ linked' = {} /\ UNCHANGED lost

(* The processor loses its link without any store: interrupt, eviction. *)
LoseLink(c, word) ==
  /\ lost < MaxLost
  /\ c \in linked /\ linked' = linked \ {c}
  /\ lost' = lost + 1
  /\ UNCHANGED word
=============================================================================
