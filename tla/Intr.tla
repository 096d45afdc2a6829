-------------------------------- MODULE Intr --------------------------------
(***************************************************************************)
(* libexception/libexception/intr.c, the interrupt dispatcher, on top of   *)
(* exlib_dispatch and exlib_return (exlib.c, exlib_vectors.S): one         *)
(* processor, its main program calling the intr_ routines, and interrupts  *)
(* that arrive between any two of its accesses to Status and Cause.        *)
(*                                                                         *)
(* Status is the set of its bits that matter: IE and the mask bit of each  *)
(* interrupt.  exlib_init has run (exlib.h:146): the dispatch table entry  *)
(* for interrupts starts as exhandler_panic.  Interrupt context keeps IE   *)
(* clear, so what a handler does to Status, Cause and the chains is one    *)
(* step; what the main program does is one step per access.                *)
(***************************************************************************)
EXTENDS Integers, FiniteSetsExt, SequencesExt

CONSTANTS
  Ints,        \* interrupt numbers, 0 .. 7 in the code
  SoftInts,    \* those requested through Cause by software
  Handlers,    \* the struct ihand of the program
  FPMask,      \* ih_fpsavemask of each: the FP register groups it uses
  HwFP,        \* FP register groups this processor has
  MXEnabled,   \* does the main program use MDMX (Status:MX)
  Shy,         \* handlers that return 0 and leave their device alone
  FromMain,    \* handlers that the main program adds; handlers add the rest
  MainOps,     \* routines the main program calls
  HandlerOps,  \* what a handler does beside serving its device
  ShutdownMasked,  \* does the program clear IE before intr_shutdown
  NULL

IE == -1      \* the bit of Status that is no interrupt's mask bit
FPGroups == HwFP \union UNION {FPMask[h] : h \in Handlers}
LiveFP == HwFP \ (IF MXEnabled THEN {} ELSE {"MDMXACC"})
MayLose == IF MXEnabled THEN {"SCRATCH"} ELSE {}

ASSUME IntsAssumption == Ints \subseteq 0 .. 7 /\ SoftInts \subseteq Ints
ASSUME HandlersAssumption ==
  /\ NULL \notin Handlers /\ FromMain \subseteq Handlers
  /\ FPMask \in [Handlers -> SUBSET FPGroups]

VARIABLES
  status,      \* C0_STATUS
  soft,        \* software requests in C0_CAUSE
  line,        \* interrupts that devices assert
  entry,       \* handlers[K_CAUSE_EXC_INT] of exlib.c
  initted,     \* intr_initted
  orig,        \* orig_handler, orig_fpsavemask, orig_ie_bits
  handler_chains,
  intr_fpsavemask,
  main,        \* the main program's call in progress
  ex,          \* the exception being handled: frame and loop variables
  dirty,       \* FP groups overwritten since the last exception was taken
  want,        \* history: Status and Cause if each request took effect at once
  seen         \* history: handlers owed a call, and called, in this chain

state == <<entry, initted, orig, handler_chains, intr_fpsavemask>>
vars == <<status, soft, line, state, main, ex, dirty, want, seen>>

AllBits == Ints \union {IE}
Pending == soft \union line
Linked(c, n) == {c[n][k] : k \in DOMAIN c[n]}
AllLinked(c) == UNION {Linked(c, n) : n \in Ints}

Idle == [call |-> "none", int |-> NULL, ih |-> NULL, at |-> "idle", val |-> {}]
NoException == [ctx |-> "main", status |-> {}, fp |-> {}, todo |-> {},
                int |-> NULL, ih |-> NULL, handled |-> FALSE]

(* exlib_set_fpsavemask stores only what the processor has.                *)
exlib_fpsavemask(m) == m \intersect HwFP

(* What exlib_set_common_handlers put in the table: EXFPSAVEMASK_ALL.      *)
CommonEntry == [func |-> "panic", mask |-> exlib_fpsavemask(FPGroups)]

Init ==
  /\ status = {} /\ soft = {} /\ line = {}
  /\ entry = CommonEntry
  /\ initted = FALSE
  /\ orig = [handler |-> "panic", mask |-> {}, bits |-> {}]
  /\ handler_chains = [n \in Ints |-> <<>>]
  /\ intr_fpsavemask = {}
  /\ main = Idle
  /\ ex = NoException
  /\ dirty = {}
  /\ want = [status |-> {}, soft |-> {}]
  /\ seen = [owed |-> {}, called |-> {}]

(***************************************************************************)
(* The routines as functions of what they change.                          *)
(***************************************************************************)
(* mod_status_bits and mod_cause_bits: the new value of the register.      *)
mod_bits(old, set, bits) == IF set THEN old \union bits ELSE old \ bits

(* Mistake for a mutation run: the new mask is not given to exlib. *)
ExtendForgetsEntry(h) ==
  /\ intr_fpsavemask' = intr_fpsavemask \union FPMask[h]
  /\ UNCHANGED entry

(* intr_handler_add appends at the end of the chain, and stores the mask   *)
(* if it does not hold the registers of h yet.                             *)
link(c, n, h) == [c EXCEPT ![n] = Append(@, h)]
Extend(h) ==
  IF FPMask[h] \subseteq intr_fpsavemask
  THEN UNCHANGED <<intr_fpsavemask, entry>>
  ELSE /\ intr_fpsavemask' = intr_fpsavemask \union FPMask[h]
       /\ entry' = [entry EXCEPT !.mask = exlib_fpsavemask(intr_fpsavemask')]

(* intr_handler_remove takes h out of chain n, wherever in it it is.       *)
Without(s, h) == RemoveAt(s, CHOOSE j \in DOMAIN s : s[j] = h)
unlink(c, n, h) ==
  IF h \in Linked(c, n) THEN [c EXCEPT ![n] = Without(@, h)] ELSE c

(* Mistake for a mutation run: its registers are just taken out.           *)
RecalculateSubtracts(h, chains) ==
  /\ intr_fpsavemask' = intr_fpsavemask \ FPMask[h]
  /\ entry' = [entry EXCEPT !.mask = exlib_fpsavemask(intr_fpsavemask')]

(* and recalculates the mask if h had one.                                *)
UnionMask(c) == UNION {FPMask[h] : h \in AllLinked(c)}
Recalculate(h, chains) ==
  IF FPMask[h] # {}
  THEN /\ intr_fpsavemask' = UnionMask(chains)
       /\ entry' = [entry EXCEPT !.mask = exlib_fpsavemask(intr_fpsavemask')]
  ELSE UNCHANGED <<intr_fpsavemask, entry>>

(* ih->ih_next: NULL at the end, and in a handler that was removed.        *)
Precedes(c, h, g) ==
  \E n \in Ints : \E k \in 1 .. Len(c[n]) - 1 : c[n][k] = h /\ c[n][k + 1] = g
ih_next(c, h) ==
  IF \E g \in Handlers : Precedes(c, h, g)
  THEN CHOOSE g \in Handlers : Precedes(c, h, g)
  ELSE NULL
ih_first(c, n) == IF c[n] = <<>> THEN NULL ELSE c[n][1]

-----------------------------------------------------------------------------
(***************************************************************************)
(* The main program.  A call is a record; its field "at" is the next       *)
(* access.  The routines that modify Status all go through mod_status_bits *)
(* (read, write), and so do the ones that only want IE out of the way.     *)
(***************************************************************************)
Running == ex.ctx = "main"

(* The bits the first mod_status_bits of a call sets or clears. *)
Bits(c) == IF c.call \in {"enable_int", "disable_int"} THEN {c.int}
           ELSE IF c.call \in {"init", "shutdown"} THEN AllBits ELSE {IE}
Sets(c) == c.call \in {"set_ie", "enable_int"}

(* What follows that write in the routines that go on. *)
Follows == [add |-> "link", remove |-> "unlink", init |-> "install",
            shutdown |-> "restore"]
GoesOn(c) == c.call \in DOMAIN Follows

Call(op, n, h, at) ==
  /\ Running /\ main.at = "idle" /\ op \in MainOps
  /\ main' = [Idle EXCEPT !.call = op, !.int = n, !.ih = h, !.at = at]
  /\ UNCHANGED <<status, soft, line, ex, dirty, want, seen>>

CallIE == /\ \E op \in {"set_ie", "clear_ie"} : Call(op, NULL, NULL, "read")
          /\ UNCHANGED state

CallInt == /\ \E op \in {"enable_int", "disable_int"}, n \in Ints :
                Call(op, n, NULL, "read")
           /\ UNCHANGED state

CallSoftint == /\ \E op \in {"set_softint", "clear_softint"}, n \in SoftInts :
                    Call(op, n, NULL, "read_cause")
               /\ UNCHANGED state

(* A struct ihand is used for one interrupt at a time (exlib.h:329-331).   *)
CallAdd == /\ \E n \in Ints, h \in FromMain \ AllLinked(handler_chains) :
                Call("add", n, h, "read")
           /\ UNCHANGED state

(* It may find that a handler has removed it meanwhile, or itself.         *)
CallRemove == /\ \E n \in Ints, h \in Handlers : Call("remove", n, h, "read")
              /\ UNCHANGED state

(* intr_init, lines 56-63; exlib_init has nothing left to do. *)
CallInit ==
  /\ ~initted
  /\ Call("init", NULL, NULL, "read")
  /\ initted' = TRUE
  /\ orig' = [orig EXCEPT !.handler = entry.func, !.mask = entry.mask]
  /\ UNCHANGED <<entry, handler_chains, intr_fpsavemask>>

(* intr_shutdown, lines 73-78. *)
CallShutdown ==
  /\ initted
  /\ ShutdownMasked => IE \notin status
  /\ Call("shutdown", NULL, NULL, "read")
  /\ initted' = FALSE
  /\ entry' = [func |-> orig.handler, mask |-> exlib_fpsavemask(orig.mask)]
  /\ UNCHANGED <<orig, handler_chains, intr_fpsavemask>>

(* mfc0 of Status (line 246) or Cause (line 209). *)
Read ==
  /\ Running /\ main.at \in {"read", "read_cause"}
  /\ main' = IF main.at = "read"
             THEN [main EXCEPT !.at = "write", !.val = status]
             ELSE [main EXCEPT !.at = "write_cause", !.val = soft]
  /\ UNCHANGED <<status, soft, line, state, ex, dirty, want, seen>>

(* mtc0 of Status (line 252); what it read is the "old" the routine keeps. *)
WriteStatus ==
  /\ Running /\ main.at = "write"
  /\ status' = mod_bits(main.val, Sets(main), Bits(main))
  /\ IF GoesOn(main)
     THEN /\ main' = [main EXCEPT !.at = Follows[main.call],
                                  !.val = @ \intersect Bits(main)]
          /\ UNCHANGED want
     ELSE /\ main' = Idle
          /\ want' = [want EXCEPT !.status = mod_bits(@, Sets(main), Bits(main))]
  /\ UNCHANGED <<soft, line, state, ex, dirty, seen>>

(* mtc0 of Cause (line 215). *)
WriteCause ==
  /\ Running /\ main.at = "write_cause"
  /\ soft' = mod_bits(main.val, main.call = "set_softint", {main.int})
  /\ want' = [want EXCEPT !.soft =
                mod_bits(@, main.call = "set_softint", {main.int})]
  /\ main' = Idle
  /\ UNCHANGED <<status, line, state, ex, dirty, seen>>

(* intr_handler_add, lines 136-139. *)
Link ==
  /\ Running /\ main.at = "link"
  /\ handler_chains' = link(handler_chains, main.int, main.ih)
  /\ main' = [main EXCEPT !.at = "mask"]
  /\ UNCHANGED <<status, soft, line, entry, initted, orig, intr_fpsavemask,
                 ex, dirty, want, seen>>

(* Lines 143-147. *)
Mask ==
  /\ Running /\ main.at = "mask"
  /\ Extend(main.ih)
  /\ main' = [main EXCEPT !.at = "restore"]
  /\ UNCHANGED <<status, soft, line, initted, orig, handler_chains, ex, dirty,
                 want, seen>>

(* intr_handler_remove, lines 161-180. *)
Unlink ==
  /\ Running /\ main.at = "unlink"
  /\ handler_chains' = unlink(handler_chains, main.int, main.ih)
  /\ main' = [main EXCEPT !.at =
                IF main.ih \in Linked(handler_chains, main.int) THEN "remask"
                ELSE "restore"]
  /\ UNCHANGED <<status, soft, line, entry, initted, orig, intr_fpsavemask,
                 ex, dirty, want, seen>>

Remask ==
  /\ Running /\ main.at = "remask"
  /\ Recalculate(main.ih, handler_chains)
  /\ main' = [main EXCEPT !.at = "restore"]
  /\ UNCHANGED <<status, soft, line, initted, orig, handler_chains, ex, dirty,
                 want, seen>>

(* The end of intr_init, lines 64-67. *)
Install ==
  /\ Running /\ main.at = "install"
  /\ orig' = [orig EXCEPT !.bits = main.val]
  /\ entry' = [func |-> "intr", mask |-> exlib_fpsavemask(intr_fpsavemask)]
  /\ want' = [want EXCEPT !.status = status]
  /\ main' = Idle
  /\ UNCHANGED <<status, soft, line, initted, handler_chains, intr_fpsavemask,
                 ex, dirty, seen>>

(* The second mod_status_bits of a call (lines 81, 149, 183).  IE is clear *)
(* now, so nothing comes between its read and its write.                   *)
Restore ==
  /\ Running /\ main.at = "restore"
  /\ status' = mod_bits(status, TRUE,
                        IF main.call = "shutdown" THEN orig.bits ELSE main.val)
  /\ want' = IF main.call = "shutdown" THEN [want EXCEPT !.status = status']
             ELSE want
  /\ main' = Idle
  /\ UNCHANGED <<soft, line, state, ex, dirty, seen>>

Main == \/ CallIE \/ CallInt \/ CallSoftint \/ CallAdd \/ CallRemove
        \/ CallInit \/ CallShutdown \/ Read \/ WriteStatus \/ WriteCause
        \/ Link \/ Mask \/ Unlink \/ Remask \/ Install \/ Restore

-----------------------------------------------------------------------------
(***************************************************************************)
(* Interrupt context.                                                      *)
(***************************************************************************)
(* exhandler_intr dispatches what the frame says is both asserted and      *)
(* enabled.  First a mistake for a mutation run: the loop ends before 0.   *)
intrs_but_last == (Pending \intersect status) \ {0}
intrs_to_process == Pending \intersect status

(* The accumulator is saved only if MX was set, and else is not in use.    *)
(* Moving it to and from the frame takes two caller-saved FP registers,    *)
(* after the registers of the frame are back.                              *)
exframe_save_fp(m) == m \ (IF MXEnabled THEN {} ELSE {"MDMXACC"})
Scratch(fp) == IF "MDMXACC" \in fp THEN {"SCRATCH"} ELSE {}
exframe_restore_fp(fp) == dirty' = (dirty \ fp) \union Scratch(fp)

(* The FP registers are saved before the function in the table is called;  *)
(* exhandler_panic does not return.                                        *)
exlib_dispatch ==
  [NoException EXCEPT
     !.ctx = IF entry.func = "intr" THEN "dispatch" ELSE "panic",
     !.status = status, !.fp = exframe_save_fp(entry.mask),
     !.todo = intrs_to_process]

\* A mistake: Status is left as the handlers ran with it.
ReturnKeepsStatus ==
  /\ ex.ctx = "dispatch" /\ ex.todo = {}
  /\ ex' = NoException
  /\ exframe_restore_fp(ex.fp)
  /\ seen' = [owed |-> {}, called |-> {}]
  /\ UNCHANGED <<status, soft, line, state, main, want>>

Raise(n) ==
  /\ n \in Ints \ (SoftInts \union line)
  /\ line' = line \union {n}
  /\ UNCHANGED <<status, soft, state, main, ex, dirty, want, seen>>

(* exlib_dispatch_asm saves the frame and clears IE.                       *)
TakeInterrupt ==
  /\ Running /\ IE \in status /\ Pending \intersect status # {}
  /\ ex' = exlib_dispatch
  /\ status' = status \ {IE}
  /\ dirty' = {}
  /\ UNCHANGED <<soft, line, state, main, want, seen>>

(* The for loop of exhandler_intr, and the start of run_intr_chain. *)
StartChain ==
  /\ ex.ctx = "dispatch" /\ ex.todo # {}
  /\ LET n == Max(ex.todo)
     IN  /\ ex' = [ex EXCEPT !.ctx = "chain", !.todo = @ \ {n}, !.int = n,
                             !.ih = ih_first(handler_chains, n),
                             !.handled = FALSE]
         /\ seen' = [owed |-> Linked(handler_chains, n), called |-> {}]
  /\ UNCHANGED <<status, soft, line, state, main, dirty, want>>

(* Mistake for a mutation run: ih->ih_next is read after the handler ran. *)
next_ih_uncached(h, gone) ==
  IF h \in gone THEN NULL ELSE ih_next(handler_chains, h)

(* run_intr_chain: line 277 reads ih_next before the handler runs, which   *)
(* may remove itself, but not the one that follows: that one is called all *)
(* the same; line 278 collects answers.                                    *)
next_ih(h, gone) == ih_next(handler_chains, h)
handled(h) == ex.handled \/ h \notin Shy

(***************************************************************************)
(* run_intr_chain, lines 275-279: next_ih is read, then the handler runs.  *)
(* It serves its device or takes back the software request, unless it is   *)
(* shy; beside that it may change bits of the frame's Status, raise        *)
(* software requests, and remove handlers ("gone") or add them.            *)
(***************************************************************************)
HandlerStep(set, bits, raised, gone) ==
  LET h == ex.ih
      served == IF h \in Shy THEN {} ELSE {ex.int}
  IN  /\ ex.ctx = "chain" /\ h # NULL
      /\ ex' = [ex EXCEPT !.ih = next_ih(h, gone), !.handled = handled(h),
                          !.status = mod_bits(@, set, bits)]
      /\ line' = line \ served
      /\ soft' = (soft \ served) \union raised
      /\ dirty' = dirty \union (FPMask[h] \intersect LiveFP)
      /\ want' = [status |-> mod_bits(want.status, set, bits),
                  soft |-> (want.soft \ served) \union raised]
      /\ seen' = [owed |-> seen.owed \ gone, called |-> seen.called \union {h}]
      /\ UNCHANGED <<status, initted, orig, main>>

HandlerServes ==
  /\ "serve" \in HandlerOps
  /\ HandlerStep(TRUE, {}, {}, {})
  /\ UNCHANGED <<handler_chains, intr_fpsavemask, entry>>

(* intr_set_ie (ef) and the like: lines 236-244. *)
HandlerSetsFrame ==
  /\ "frame" \in HandlerOps
  /\ \E set \in BOOLEAN, b \in AllBits : HandlerStep(set, {b}, {}, {})
  /\ UNCHANGED <<handler_chains, intr_fpsavemask, entry>>

HandlerSetsSoftint ==
  /\ "softint" \in HandlerOps
  /\ \E n \in SoftInts : HandlerStep(TRUE, {}, {n}, {})
  /\ UNCHANGED <<handler_chains, intr_fpsavemask, entry>>

RemoveFromHandler(n, h) ==
  /\ HandlerStep(TRUE, {}, {}, {h})
  /\ handler_chains' = unlink(handler_chains, n, h)
  /\ IF h \in Linked(handler_chains, n) THEN Recalculate(h, handler_chains')
     ELSE UNCHANGED <<intr_fpsavemask, entry>>

HandlerRemovesItself ==
  /\ "remove_self" \in HandlerOps
  /\ RemoveFromHandler(ex.int, ex.ih)

HandlerRemovesOther ==
  /\ "remove" \in HandlerOps
  /\ \E n \in Ints : \E h \in Linked(handler_chains, n) \ {ex.ih} :
       RemoveFromHandler(n, h)

HandlerAdds ==
  /\ "add" \in HandlerOps
  /\ HandlerStep(TRUE, {}, {}, {})
  /\ \E n \in Ints, h \in Handlers \ (FromMain \union AllLinked(handler_chains)) :
       /\ handler_chains' = link(handler_chains, n, h)
       /\ Extend(h)

RunHandler == \/ HandlerServes \/ HandlerSetsFrame \/ HandlerSetsSoftint
              \/ HandlerRemovesItself \/ HandlerRemovesOther \/ HandlerAdds

(* Lines 280-281: nobody wanted the interrupt. *)
EndChain ==
  /\ ex.ctx = "chain" /\ ex.ih = NULL
  /\ ex' = [ex EXCEPT !.ctx = IF ex.handled THEN "dispatch" ELSE "panic"]
  /\ UNCHANGED <<status, soft, line, state, main, dirty, want, seen>>

(* exlib_return: Status and the FP registers saved come from the frame.    *)
Return ==
  /\ ex.ctx = "dispatch" /\ ex.todo = {}
  /\ ex' = NoException
  /\ status' = ex.status
  /\ exframe_restore_fp(ex.fp)
  /\ seen' = [owed |-> {}, called |-> {}]
  /\ UNCHANGED <<soft, line, state, main, want>>

Interrupt == TakeInterrupt \/ StartChain \/ RunHandler \/ EndChain \/ Return

Next == Main \/ Interrupt \/ \E n \in Ints : Raise(n)

Spec == Init /\ [][Next]_vars

(* An exception handler runs on until it returns; and the processor takes  *)
(* an enabled interrupt at the next instruction, so it never overlooks one *)
(* that is enabled again and again.                                        *)
FairSpec ==
  /\ Spec
  /\ WF_vars(StartChain \/ RunHandler \/ EndChain \/ Return)
  /\ \A n \in Ints : SF_vars(n \in Pending \intersect status /\ TakeInterrupt)

-----------------------------------------------------------------------------
TypeOK ==
  /\ status \subseteq AllBits /\ soft \subseteq SoftInts
  /\ line \subseteq Ints \ SoftInts
  /\ entry \in [func : {"intr", "panic"}, mask : SUBSET FPGroups]
  /\ initted \in BOOLEAN
  /\ orig \in [handler : {"intr", "panic"}, mask : SUBSET FPGroups,
               bits : SUBSET AllBits]
  /\ handler_chains \in [Ints -> Seq(Handlers)]
  /\ intr_fpsavemask \subseteq FPGroups
  /\ main \in [call : {"none", "set_ie", "clear_ie", "enable_int",
                       "disable_int", "set_softint", "clear_softint", "add",
                       "remove", "init", "shutdown"},
               int : Ints \union {NULL}, ih : Handlers \union {NULL},
               at : {"idle", "read", "write", "read_cause", "write_cause",
                     "link", "mask", "unlink", "remask", "install", "restore"},
               val : SUBSET AllBits]
  /\ ex \in [ctx : {"main", "dispatch", "chain", "panic"},
             status : SUBSET AllBits, fp : SUBSET FPGroups, todo : SUBSET Ints,
             int : Ints \union {NULL}, ih : Handlers \union {NULL},
             handled : BOOLEAN]
  /\ dirty \subseteq FPGroups \union {"SCRATCH"}
  /\ want \in [status : SUBSET AllBits, soft : SUBSET SoftInts]
  /\ seen \in [owed : SUBSET Handlers, called : SUBSET Handlers]

(* The interrupted program finds its FP registers as it left them: every   *)
(* group a handler uses was saved in the frame, although the union of the  *)
(* masks changes as handlers come and go (exlib.h:239-241, intr.c:141-147, *)
(* 171-180); but for the two that exframe_restore_fp takes for itself when *)
(* the program uses MDMX (exlib.c:462-473).                                *)
FPPreserved ==
  Running => dirty \subseteq MayLose

(* And without that exception: an interrupt changes no FP register of the  *)
(* program, as exlib.h:180-184 promises of exlib_return.                   *)
AllFPPreserved == Running => dirty = {}

(* While the dispatcher is installed, exactly the registers of the chained *)
(* handlers are saved, whenever an interrupt can come (exlib.h:239-241).   *)
SavesUnion ==
  initted /\ main.at \notin {"mask", "remask"} /\ entry.func = "intr" =>
    entry.mask = UnionMask(handler_chains) \intersect HwFP

(* Where handlers remove at most themselves on the way: a handler about to *)
(* run is installed and has not run before for this interrupt, and a       *)
(* traversal ends only when every handler that was installed when it began,*)
(* and stayed, has run (intr.c:275-279).                                   *)
EachHandlerRunsOnce ==
  ex.ctx = "chain" =>
    IF ex.ih = NULL THEN seen.owed \subseteq seen.called
    ELSE ex.ih \in Linked(handler_chains, ex.int) \ seen.called

(* The struct ihand "must remain valid until the handler is removed"       *)
(* (exlib.h:236-237), and no longer: a handler about to run is installed,  *)
(* whatever the handlers before it removed. The code keeps this only of    *)
(* handlers that remove themselves: see the findings of README.md.         *)
InstalledHandlersRun ==
  ex.ctx = "chain" /\ ex.ih # NULL => ex.ih \in Linked(handler_chains, ex.int)

(* Where handlers leave the frame alone: interrupts do not undo what the   *)
(* main program asked of Status and Cause, nor does its read, interrupted, *)
(* its write (exlib.h:292-311). Where handlers ask for changes of the      *)
(* frame's Status it would also say that they last, which the code does not*)
(* keep: see the findings of README.md.                                    *)
RequestsStick ==
  Running /\ main.at = "idle" => status = want.status /\ soft = want.soft

(* An interrupt that the main program leaves enabled, again and again,     *)
(* does not stay pending for ever, unless the program panics, and then not *)
(* for an interrupt that somebody was there to handle (exlib.h:227-230).   *)
Served ==
  \A n \in Ints :
    []<>(Running /\ {IE, n} \subseteq status)
      => []<>(n \notin Pending)
         \/ <>(ex.ctx = "panic" /\ seen.owed \subseteq Shy)

-----------------------------------------------------------------------------
(***************************************************************************)
(* What makes SavesUnion inductive for any handlers, and FPPreserved in a  *)
(* program whose handlers add no handlers.                                 *)
(***************************************************************************)
(* intr_fpsavemask is the union of the chained handlers' masks, but between *)
(* the two steps of the main program's adding or removing one.             *)
MaskExact ==
  /\ main.at \notin {"mask", "remask"} => intr_fpsavemask = UnionMask(handler_chains)
  /\ main.at = "mask" =>
       UnionMask(handler_chains) = intr_fpsavemask \union FPMask[main.ih]
  /\ main.at = "remask" =>
       intr_fpsavemask = UnionMask(handler_chains) \union FPMask[main.ih]

(* Between those two steps no interrupt comes.                             *)
Closed ==
  /\ main.at \in {"link", "mask"} => Running /\ IE \notin status /\ main.call = "add"
  /\ main.at \in {"unlink", "remask"} =>
       Running /\ IE \notin status /\ main.call = "remove"

(* The arguments of a call are what its caller may pass. *)
Arguments ==
  /\ main.call \in {"add", "remove"} => main.int \in Ints /\ main.ih \in Handlers
  /\ main.call \in {"enable_int", "disable_int"} => main.int \in Ints
  /\ main.at \in {"read_cause", "write_cause"} =>
       main.int \in SoftInts /\ main.val \subseteq SoftInts

Installing == /\ main.call = "init" => initted
              /\ main.at = "install" => main.call = "init"

EntryExact ==
  /\ orig.handler = "panic"
  /\ entry.func = "intr" => initted /\ entry.mask = intr_fpsavemask \intersect HwFP

(* The frame holds whatever a handler still to run might overwrite.        *)
FrameCovers ==
  ex.ctx \in {"dispatch", "chain"} =>
    /\ dirty \subseteq ex.fp \union MayLose
    /\ "MDMXACC" \in ex.fp => MXEnabled
    /\ UnionMask(handler_chains) \intersect LiveFP \subseteq ex.fp
    /\ ex.ctx = "chain" /\ ex.ih # NULL =>
         FPMask[ex.ih] \intersect LiveFP \subseteq ex.fp

FPCovered == "add" \notin HandlerOps => FPPreserved /\ FrameCovers

Inv == /\ TypeOK /\ Arguments /\ Installing /\ MaskExact /\ Closed
       /\ EntryExact /\ FPCovered
=============================================================================
