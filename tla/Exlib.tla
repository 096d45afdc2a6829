-------------------------------- MODULE Exlib --------------------------------
(***************************************************************************)
(* libexception/libexception/exlib.c and exlib_vectors.S: taking over the  *)
(* exception vectors and giving them back, the table of handlers, and the  *)
(* way of an exception through exlib_dispatch and exlib_return, with       *)
(* exceptions in exception handlers.  Module Intr has the steps of the     *)
(* interrupt dispatcher; here it is one handler, installed by intr_init.   *)
(*                                                                         *)
(* One processor.  An exception enters where Status:BEV, Cause:IV and the  *)
(* vectors in RAM say; until exlib has taken them over, the environment    *)
(* (the firmware, or a library that ran before) handles it unnoticed.      *)
(* exlib_init has found the processor it was built for (lines 86-101).     *)
(***************************************************************************)
EXTENDS Integers, Sequences

CONSTANTS
  HasMDMX,    \* exlib_mdmx: does the processor have MDMX
  Need,       \* FP register groups that the program's handlers use, by code
  EnvVectors, \* what the environment may have in the RAM vectors
  MaxDepth    \* bound on exceptions in exceptions

(* Of the 32 codes: interrupts, MDMX unusable, and any other, whose        *)
(* handler the program may replace.  CALLER stands for the caller-saved FP *)
(* registers without the two that module Intr calls SCRATCH.               *)
Codes == {"INT", "MDMX", "OTHER"}
Vectors == <<"tlb", "xtlb", "gen">>
FPGroups == {"CALLER", "MDMXACC"}
Levels == 0 .. MaxDepth

ASSUME NeedAssumption ==
  /\ Need \in [{"INT", "OTHER"} -> SUBSET FPGroups]
  /\ HasMDMX \in BOOLEAN
  /\ ~HasMDMX => \A c \in DOMAIN Need : "MDMXACC" \notin Need[c]
ASSUME DepthAssumption == MaxDepth \in Nat \ {0}
ASSUME EnvAssumption == "exlib" \notin EnvVectors

VARIABLES
  status,   \* C0_STATUS, of which IE, EXL, BEV and MX
  iv,       \* Cause:IV
  vec,      \* what the RAM vectors hold
  cerr,     \* does the RAM cache error vector hold code
  handlers, \* the table: function and FP save mask per code
  initted,  \* exlib_initted
  saved,    \* orig_status_bev_was_set, orig_cause_iv_was_set, old_vec_*
  intr,     \* intr.c: intr_initted, orig_handler, orig_fpsavemask, orig_ie_bits
  main,     \* the main program: where it is in exlib_init or exlib_shutdown
  cpu,      \* what the processor executes, EPC and Cause:ExcCode
  frames,   \* the exframes on the stack, innermost last
  owner,    \* at which level the value in each FP group was computed
  env,      \* history: BEV, IV and vectors as the environment set them
  want      \* history: what the program asked for, and what it has in use

machine == <<status, iv, vec, cerr>>
library == <<handlers, initted, saved, intr>>
context == <<cpu, frames, owner>>
vars == <<machine, library, main, context, env, want>>

Level == Len(frames)
Top == frames[Level]
MainRuns == Level = 0 /\ cpu.phase = "run"
Idle == [at |-> "idle", val |-> {}, ie |-> {}, n |-> 1, next |-> "idle"]
AtIdle == MainRuns /\ main.at = "idle"
Free == AtIdle /\ ~want.mdmx
IE(s) == s \intersect {"IE"}
AllVectors(v) == [n \in {"tlb", "xtlb", "gen"} |-> v]
NoHandler == [func |-> "none", mask |-> {}]

(* The environment: the firmware in ROM, or code in the RAM vectors. *)
EnvSetup == [bev : BOOLEAN, iv : BOOLEAN, vec : EnvVectors]

Init ==
  /\ env \in EnvSetup
  /\ status \in {s \union (IF env.bev THEN {"BEV"} ELSE {}) : s \in {{}, {"IE"}}}
  /\ iv = env.iv /\ vec = AllVectors(env.vec)
  /\ cerr = ~env.bev
  /\ handlers = [c \in Codes |-> NoHandler]
  /\ initted = FALSE
  /\ saved = [bev |-> FALSE, iv |-> FALSE, vec |-> AllVectors("none")]
  /\ intr = [initted |-> FALSE, orig |-> NoHandler, ie |-> {}]
  /\ main = Idle
  /\ cpu = [phase |-> "run", epc |-> [level |-> 0, phase |-> "run"],
            code |-> "INT"]
  /\ frames = <<>>
  /\ owner = [g \in FPGroups |-> 0]
  /\ want = [ie |-> IE(status), installed |-> {}, mdmx |-> FALSE, acc |-> {}]

(* exlib_set_fpsavemask stores only what the processor has. *)
FpMask(m) == IF HasMDMX THEN m ELSE m \ {"MDMXACC"}

(* Mistake for a mutation run: the loop comes last. *)
CommonLoopLast == [c \in Codes |-> [func |-> "panic", mask |-> FpMask(FPGroups)]]

(* exlib_set_common_handlers: everything panics but MDMX unusable. *)
Common ==
  [c \in Codes |->
     IF c = "MDMX" THEN [func |-> "mdmxenable", mask |-> {}]
     ELSE [func |-> "panic", mask |-> FpMask(FPGroups)]]

-----------------------------------------------------------------------------
(***************************************************************************)
(* exlib_init and exlib_shutdown.  They work on a copy of Status, read     *)
(* once (val); main.next is what the caller does afterwards.               *)
(***************************************************************************)
CallInit(next) ==
  /\ Free
  /\ ~initted
  /\ initted' = TRUE
  /\ main' = [Idle EXCEPT !.at = "init_read", !.next = next]
  /\ want' = [want EXCEPT !.installed = {}]
  /\ UNCHANGED <<machine, handlers, saved, context, env>>

exlib_init == CallInit("idle") /\ UNCHANGED intr

(* mfc0 of Status in either routine (lines 103 and 199). *)
ReadStatus ==
  /\ MainRuns /\ main.at \in {"init_read", "shut_read"}
  /\ main' = [main EXCEPT !.at = IF @ = "init_read" THEN "init_mask" ELSE "shut_mask",
                          !.val = status, !.ie = IE(status)]
  /\ UNCHANGED <<machine, library, context, env, want>>

(* Mistake for a mutation run: interrupts are left enabled. *)
LeaveIEEnabled ==
  /\ MainRuns /\ main.at \in {"init_mask", "shut_mask"}
  /\ main' = [main EXCEPT !.at = IF @ = "init_mask" THEN "save" ELSE "give_back",
                          !.n = 1]
  /\ UNCHANGED <<machine, library, context, env, want>>

(* "Disable interrupts while adjusting vectors." *)
MaskInterrupts ==
  /\ MainRuns /\ main.at \in {"init_mask", "shut_mask"}
  /\ status' = main.val \ {"IE"}
  /\ main' = [main EXCEPT !.at = IF @ = "init_mask" THEN "save" ELSE "give_back",
                          !.val = status', !.n = 1]
  /\ UNCHANGED <<iv, vec, cerr, library, context, env, want>>

(* Mistake for a mutation run: the old vectors are saved only once. *)
SaveOnce ==
  /\ MainRuns /\ main.at = "save"
  /\ saved' = [saved EXCEPT !.bev = "BEV" \in main.val,
                 !.vec = IF "BEV" \in main.val \/ @["gen"] # "none" THEN @ ELSE vec]
  /\ cerr' = (cerr \/ "BEV" \in main.val)
  /\ handlers' = Common
  /\ main' = [main EXCEPT !.at = "install"]
  /\ UNCHANGED <<status, iv, vec, initted, intr, context, env, want>>

(* Lines 117-157: with BEV set the RAM vectors hold nothing, and a cache   *)
(* error must be sent on to ROM; else they hold what is to be restored.    *)
Save ==
  /\ MainRuns /\ main.at = "save"
  /\ saved' = [saved EXCEPT !.bev = "BEV" \in main.val,
                            !.vec = IF "BEV" \in main.val THEN @ ELSE vec]
  /\ cerr' = (cerr \/ "BEV" \in main.val)
  /\ handlers' = Common
  /\ main' = [main EXCEPT !.at = "install"]
  /\ UNCHANGED <<status, iv, vec, initted, intr, context, env, want>>

(* One INSTALL_VECTOR of lines 159-171. *)
Install ==
  /\ MainRuns /\ main.at = "install" /\ main.n \in DOMAIN Vectors
  /\ vec' = [vec EXCEPT ![Vectors[main.n]] = "exlib"]
  /\ main' = [main EXCEPT !.n = @ + 1]
  /\ UNCHANGED <<status, iv, cerr, library, context, env, want>>

(* "Use RAM vectors, not ROM (bootstrap) vectors." *)
LeaveRom ==
  /\ MainRuns /\ main.at = "install" /\ main.n \notin DOMAIN Vectors
  /\ status' = main.val \ {"BEV"}
  /\ main' = [main EXCEPT !.at = "cause", !.val = status']
  /\ UNCHANGED <<iv, vec, cerr, library, context, env, want>>

(* Lines 177-180. *)
ClearIV ==
  /\ MainRuns /\ main.at = "cause"
  /\ saved' = [saved EXCEPT !.iv = iv]
  /\ iv' = FALSE
  /\ main' = [main EXCEPT !.at = "enable"]
  /\ UNCHANGED <<status, vec, cerr, handlers, initted, intr, context, env, want>>

(* exlib_shutdown, lines 195-197; the program has called intr_shutdown     *)
(* before, as exlib.h:272-277 asks.                                        *)
exlib_shutdown ==
  /\ Free /\ ~intr.initted
  /\ initted
  /\ initted' = FALSE
  /\ main' = [Idle EXCEPT !.at = "shut_read"]
  /\ UNCHANGED <<machine, handlers, saved, intr, context, env, want>>

(* Lines 213-224: BEV, or the old vectors one by one. *)
GiveBack ==
  /\ MainRuns /\ main.at = "give_back"
  /\ IF saved.bev
     THEN /\ status' = main.val \union {"BEV"}
          /\ main' = [main EXCEPT !.at = "restore_iv", !.val = status']
          /\ UNCHANGED vec
     ELSE /\ IF main.n \in DOMAIN Vectors
             THEN /\ vec' = [vec EXCEPT ![Vectors[main.n]] =
                               saved.vec[Vectors[main.n]]]
                  /\ main' = [main EXCEPT !.n = @ + 1]
             ELSE main' = [main EXCEPT !.at = "restore_iv"] /\ UNCHANGED vec
          /\ UNCHANGED status
  /\ UNCHANGED <<iv, cerr, library, context, env, want>>

(* Lines 226-231. *)
RestoreIV ==
  /\ MainRuns /\ main.at = "restore_iv"
  /\ iv' = (iv \/ saved.iv)
  /\ main' = [main EXCEPT !.at = "enable"]
  /\ UNCHANGED <<status, vec, cerr, library, context, env, want>>

(* The end of both routines. *)
Enable ==
  /\ MainRuns /\ main.at = "enable"
  /\ status' = IF main.ie = {} THEN status ELSE main.val \union main.ie
  /\ main' = [Idle EXCEPT !.at = main.next]
  /\ UNCHANGED <<iv, vec, cerr, library, context, env, want>>

-----------------------------------------------------------------------------
(***************************************************************************)
(* What the main program does between those calls.                         *)
(***************************************************************************)
(* Another library takes the vectors, or gives them back to the ROM. *)
Environment ==
  /\ Free /\ ~initted
  /\ env' \in EnvSetup
  /\ status' = (status \ {"BEV"}) \union (IF env'.bev THEN {"BEV"} ELSE {})
  /\ iv' = env'.iv /\ vec' = AllVectors(env'.vec)
  /\ cerr' = (cerr \/ ~env'.bev)
  /\ UNCHANGED <<library, main, context, want>>

(* intr_set_ie and intr_clear_ie with no frame. *)
SwitchIE ==
  /\ Free
  /\ status' = IF "IE" \in status THEN status \ {"IE"} ELSE status \union {"IE"}
  /\ want' = [want EXCEPT !.ie = {"IE"} \ @]
  /\ UNCHANGED <<iv, vec, cerr, library, main, context, env>>

(* intr_init marks itself first and initialises exlib if nobody has. *)
intr_init ==
  /\ ~intr.initted
  /\ intr' = [intr EXCEPT !.initted = TRUE]
  /\ \/ CallInit("intr_init")
     \/ /\ Free /\ initted
        /\ main' = [Idle EXCEPT !.at = "intr_init"]
        /\ UNCHANGED <<machine, handlers, initted, saved, context, env, want>>

(* Its rest, intr.c:62-67; the program's interrupt handlers use Need. *)
IntrInstall ==
  /\ MainRuns /\ main.at = "intr_init"
  /\ intr' = [intr EXCEPT !.orig = handlers["INT"], !.ie = IE(status)]
  /\ status' = status \ {"IE"}
  /\ want' = [want EXCEPT !.ie = {}]
  /\ handlers' = [handlers EXCEPT !["INT"] =
                    [func |-> "intr", mask |-> FpMask(Need["INT"])]]
  /\ main' = Idle
  /\ UNCHANGED <<iv, vec, cerr, initted, saved, context, env>>

(* intr.c:73-81; module Intr has the window between its steps. *)
intr_shutdown ==
  /\ Free /\ intr.initted
  /\ intr' = [intr EXCEPT !.initted = FALSE]
  /\ handlers' = [handlers EXCEPT !["INT"] =
                    [intr.orig EXCEPT !.mask = FpMask(@)]]
  /\ status' = (status \ {"IE"}) \union intr.ie
  /\ want' = [want EXCEPT !.ie = intr.ie]
  /\ UNCHANGED <<iv, vec, cerr, initted, saved, main, context, env>>

(* The program's own handler: exlib_set_fpsavemask, then exlib_set_handler. *)
SetMask ==
  /\ Free /\ initted
  /\ handlers' = [handlers EXCEPT !["OTHER"].mask = FpMask(Need["OTHER"])]
  /\ main' = [Idle EXCEPT !.at = "set_handler"]
  /\ UNCHANGED <<machine, initted, saved, intr, context, env, want>>

SetHandler ==
  /\ MainRuns /\ main.at = "set_handler"
  /\ handlers' = [handlers EXCEPT !["OTHER"].func = "user"]
  /\ main' = Idle
  /\ want' = [want EXCEPT !.installed = @ \union {"OTHER"}]
  /\ UNCHANGED <<machine, initted, saved, intr, context, env>>

-----------------------------------------------------------------------------
(***************************************************************************)
(* Exceptions.  cpu.phase is what executes at the innermost level: "run",  *)
(* a program or a handler; "entry" and "dispatch", exlib_dispatch_asm and  *)
(* exlib_dispatch; "return", "restore" and "eret", the parts of            *)
(* exlib_return; "panic", which does not return.                           *)
(***************************************************************************)
Target == IF "BEV" \in status THEN "rom" ELSE IF iv THEN "iv" ELSE vec["gen"]
Interruptible == "IE" \in status /\ "EXL" \notin status

(* The processor: EPC is where to come back to, EXL is set. *)
Take(code) ==
  /\ Level < MaxDepth
  /\ cpu' = [phase |-> "entry", code |-> code,
             epc |-> [level |-> Level, phase |-> cpu.phase]]
  /\ status' = status \union {"EXL"}
  /\ UNCHANGED <<iv, vec, cerr, library, main, frames, owner, env>>

(* One that the environment handles changes nothing here. *)
Interrupt == /\ Interruptible /\ Target = "exlib"
             /\ Take("INT") /\ UNCHANGED want

(* Of its own doing a program takes exceptions while exlib is in charge.   *)
Runs(funcs) == Level > 0 /\ cpu.phase = "run" /\ Top.func \in funcs
Ready == (Free /\ initted) \/ Runs({"user", "intr"})

Fault == Ready /\ Take("OTHER") /\ UNCHANGED want

(* A program that executes an MDMX instruction without Status:MX.  The     *)
(* main program retries it until it works (want.mdmx).                     *)
MdmxUnusable ==
  /\ "MX" \notin status
  /\ \/ AtIdle /\ initted /\ want' = [want EXCEPT !.mdmx = TRUE]
     \/ Runs({"user", "intr"}) /\ "MDMXACC" \in Need[Top.code] /\ UNCHANGED want
  /\ Take("MDMX")

MainUsesMdmx ==
  /\ AtIdle /\ "MX" \in status
  /\ owner' = [owner EXCEPT !["MDMXACC"] = 0]
  /\ want' = [want EXCEPT !.mdmx = FALSE, !.acc = @ \union {0}]
  /\ UNCHANGED <<machine, library, main, cpu, frames, env>>

(* The FP part of an exframe: at which level a saved value was computed.   *)
NotSaved == -1
NothingSaved == [g \in FPGroups |-> NotSaved]

(* Mistake for a mutation run: the frame's Status is stored too late. *)
SaveAfterMasking ==
  /\ cpu.phase = "entry"
  /\ status' = status \ {"EXL", "IE"}
  /\ frames' = Append(frames, [code |-> cpu.code, epc |-> cpu.epc,
                               status |-> status', fp |-> NothingSaved, func |-> "none"])
  /\ cpu' = [cpu EXCEPT !.phase = "dispatch"]
  /\ UNCHANGED <<iv, vec, cerr, library, main, owner, env, want>>

(* exlib_dispatch_asm: EXL and IE go when everything is in the frame.      *)
exlib_dispatch_asm ==
  /\ cpu.phase = "entry"
  /\ frames' = Append(frames, [code |-> cpu.code, epc |-> cpu.epc,
                               status |-> status, fp |-> NothingSaved, func |-> "none"])
  /\ status' = status \ {"EXL", "IE"}
  /\ cpu' = [cpu EXCEPT !.phase = "dispatch"]
  /\ UNCHANGED <<iv, vec, cerr, library, main, owner, env, want>>

(* The accumulator is saved only for a program that had it in use.         *)
exframe_save_fp(mask) ==
  [g \in FPGroups |->
     IF g \in mask /\ (g = "MDMXACC" => "MX" \in Top.status) THEN owner[g]
     ELSE NotSaved]

exlib_dispatch ==
  /\ cpu.phase = "dispatch"
  /\ LET h == handlers[Top.code]
     IN  /\ frames' = [frames EXCEPT ![Level].fp = exframe_save_fp(h.mask),
                                     ![Level].func = h.func]
         /\ cpu' = [cpu EXCEPT !.phase = IF h.func = "panic" THEN "panic" ELSE "run"]
  /\ UNCHANGED <<machine, library, main, owner, env, want>>

(* Mistake for a mutation run: MX is set at once, and lost on return. *)
EnableMxNow ==
  /\ Runs({"mdmxenable"})
  /\ IF ~HasMDMX \/ "MX" \in Top.status
     THEN cpu' = [cpu EXCEPT !.phase = "panic"] /\ UNCHANGED status
     ELSE /\ cpu' = [cpu EXCEPT !.phase = "return"]
          /\ status' = status \union {"MX"}
  /\ UNCHANGED <<iv, vec, cerr, library, main, frames, owner, env, want>>

exhandler_mdmxenable ==
  /\ Runs({"mdmxenable"})
  /\ IF ~HasMDMX \/ "MX" \in Top.status
     THEN cpu' = [cpu EXCEPT !.phase = "panic"] /\ UNCHANGED frames
     ELSE /\ cpu' = [cpu EXCEPT !.phase = "return"]
          /\ frames' = [frames EXCEPT ![Level].status = @ \union {"MX"}]
  /\ UNCHANGED <<machine, library, main, owner, env, want>>

(* The program's handlers compute in the FP registers they announced, may  *)
(* enable interrupts again, and return.                                    *)
HandlerComputes ==
  /\ Runs({"user", "intr"})
  /\ "MDMXACC" \in Need[Top.code] => "MX" \in status
  /\ owner' = [g \in FPGroups |-> IF g \in Need[Top.code] THEN Level ELSE owner[g]]
  /\ want' = [want EXCEPT !.acc =
                IF "MDMXACC" \in Need[Top.code] THEN @ \union {Level} ELSE @]
  /\ UNCHANGED <<machine, library, main, cpu, frames, env>>

HandlerEnablesIE ==
  /\ Runs({"user", "intr"})
  /\ status' = status \union {"IE"}
  /\ UNCHANGED <<iv, vec, cerr, library, main, context, env, want>>

HandlerReturns ==
  /\ Runs({"user", "intr"})
  /\ cpu' = [cpu EXCEPT !.phase = "return"]
  /\ UNCHANGED <<machine, library, main, frames, owner, env, want>>

(* exlib_return: Status first, "and make sure that EXL is set". *)
RestoreStatus ==
  /\ cpu.phase = "return"
  /\ status' = Top.status \union {"EXL"}
  /\ cpu' = [cpu EXCEPT !.phase = "restore"]
  /\ UNCHANGED <<iv, vec, cerr, library, main, frames, owner, env, want>>

(* exframe_restore_fp, EPC and the other registers. *)
RestoreRegisters ==
  /\ cpu.phase = "restore"
  /\ owner' = [g \in FPGroups |-> IF Top.fp[g] # NotSaved THEN Top.fp[g] ELSE owner[g]]
  /\ cpu' = [cpu EXCEPT !.phase = "eret", !.epc = Top.epc]
  /\ UNCHANGED <<machine, library, main, frames, env, want>>

Eret ==
  /\ cpu.phase = "eret"
  /\ status' = status \ {"EXL"}
  /\ frames' = SubSeq(frames, 1, cpu.epc.level)
  /\ cpu' = [cpu EXCEPT !.phase = cpu.epc.phase]
  /\ want' = [want EXCEPT !.acc = @ \ {Level}]
  /\ UNCHANGED <<iv, vec, cerr, library, main, owner, env>>

Init_Shutdown == \/ exlib_init \/ exlib_shutdown \/ ReadStatus \/ MaskInterrupts
                 \/ Save \/ Install \/ LeaveRom \/ ClearIV \/ GiveBack
                 \/ RestoreIV \/ Enable
Program == \/ Environment \/ SwitchIE \/ intr_init \/ IntrInstall \/ intr_shutdown
           \/ SetMask \/ SetHandler \/ Fault \/ MdmxUnusable \/ MainUsesMdmx
Library == \/ exlib_dispatch_asm \/ exlib_dispatch \/ exhandler_mdmxenable
           \/ RestoreStatus \/ RestoreRegisters \/ Eret
Handler == HandlerComputes \/ HandlerEnablesIE \/ HandlerReturns

Next == Init_Shutdown \/ Program \/ Interrupt \/ Library \/ Handler

Spec == Init /\ [][Next]_vars

(* What executes goes on: a handler returns, a program gets to its MDMX    *)
(* instruction, and interrupts do not come before every single instruction *)
(* of it for ever, at any level.                                           *)
Onward == HandlerReturns \/ RestoreStatus \/ MdmxUnusable \/ MainUsesMdmx
FairSpec ==
  /\ Spec
  /\ WF_vars(Library)
  /\ \A l \in Levels : SF_vars(Level = l /\ Onward)

-----------------------------------------------------------------------------
(* The state has its type.                                                 *)
Bits == {"IE", "EXL", "BEV", "MX"}
Funcs == {"none", "panic", "mdmxenable", "user", "intr"}
VectorTable == [{"tlb", "xtlb", "gen"} -> EnvVectors \union {"exlib", "none"}]
Entry == [func : Funcs, mask : SUBSET FPGroups]
Phases == {"run", "entry", "dispatch", "return", "restore", "eret", "panic"}
Starting == {"init_read", "init_mask", "save"}
Resting == {"idle", "intr_init", "set_handler"}
Masking == {"save", "install", "cause", "enable", "give_back", "restore_iv"}
Points == Starting \union Resting \union Masking \union {"shut_read", "shut_mask"}
Origin == [level : Levels, phase : Phases]
Frame == [code : Codes, epc : Origin, status : SUBSET Bits,
          fp : [FPGroups -> Levels \union {NotSaved}], func : Funcs]

MachineType ==
  status \in SUBSET Bits /\ iv \in BOOLEAN /\ cerr \in BOOLEAN /\ vec \in VectorTable
LibraryType ==
  /\ handlers \in [Codes -> Entry] /\ initted \in BOOLEAN
  /\ saved \in [bev : BOOLEAN, iv : BOOLEAN, vec : VectorTable]
  /\ intr \in [initted : BOOLEAN, orig : Entry, ie : SUBSET {"IE"}]
MainType ==
  main \in [at : Points, val : SUBSET Bits, ie : SUBSET {"IE"}, n : 1 .. 4,
           next : {"idle", "intr_init"}]
ContextType ==
  /\ cpu \in [phase : Phases, epc : Origin, code : Codes]
  /\ frames \in Seq(Frame) /\ Level \in Levels
  /\ owner \in [FPGroups -> Levels]
HistoryType ==
  /\ env \in EnvSetup
  /\ want \in [ie : SUBSET {"IE"}, installed : SUBSET {"OTHER"}, mdmx : BOOLEAN,
               acc : SUBSET Levels]
TypeOK == MachineType /\ LibraryType /\ MainType /\ ContextType /\ HistoryType

(* Whoever can be interrupted is interrupted into code that is in charge:  *)
(* exlib's from the end of exlib_init to the beginning of exlib_shutdown,  *)
(* with a table to dispatch from, and the environment's own otherwise,     *)
(* never half-installed vectors (exlib.c:105-115, 173-186, 201-211).       *)
VectorsAgree ==
  Interruptible =>
    \/ Target = "exlib" /\ handlers["INT"].func # "none"
    \/ /\ Target = IF env.bev THEN "rom" ELSE IF env.iv THEN "iv" ELSE env.vec
       /\ initted => main.at \in {"init_read", "init_mask"}

(* A cache error, which nothing can mask, never enters an empty RAM vector *)
(* (exlib.c:120-146).                                                      *)
CacheErrorsHandled == "BEV" \notin status => cerr
TakenOver == VectorsAgree /\ CacheErrorsHandled

(* After exlib_shutdown the environment finds BEV, IV and, if it uses      *)
(* them, all its vectors as it set them, however often the library was     *)
(* started and stopped (exlib.h:155-160, exlib.c:213-231).                 *)
GivesBack ==
  main.at = "idle" /\ ~initted =>
    /\ ("BEV" \in status) = env.bev /\ iv = env.iv
    /\ ~env.bev => vec = AllVectors(env.vec)

(* What an exception interrupts goes on as if nothing had happened: the    *)
(* return goes where the exception came from, no FP register in use holds  *)
(* a value of an exception handler's, and the master interrupt enable is   *)
(* as the main program left it (exlib.h:180-184, exlib_vectors.S:165-175,  *)
(* 201-206).                                                               *)
ContextKept ==
  /\ cpu.phase = "eret" => cpu.epc = Top.epc /\ cpu.epc.level = Level - 1
  /\ cpu.phase = "run" =>
       /\ owner["CALLER"] <= Level
       /\ Level \in want.acc => owner["MDMXACC"] <= Level
  /\ AtIdle => IE(status) = want.ie

(* Nothing panics that somebody was to handle: interrupts after intr_init, *)
(* exceptions with a handler of the program's, MDMX unusable on a          *)
(* processor that has MDMX, in the program or in any handler (exlib.h:     *)
(* 149-152, 264-271, exhandler_mdmxenable.c:42-48).                        *)
PanicJustified ==
  cpu.phase = "panic" =>
    CASE Top.code = "INT" -> ~intr.initted \/ main.at # "idle"
      [] Top.code = "OTHER" -> "OTHER" \notin want.installed
      [] Top.code = "MDMX" -> ~HasMDMX

-----------------------------------------------------------------------------
(***************************************************************************)
(* What makes these invariants inductive.                                  *)
(***************************************************************************)
AsEnv ==
  /\ ("BEV" \in status) = env.bev /\ iv = env.iv
  /\ ~env.bev => vec = AllVectors(env.vec)
Tabled ==
  /\ handlers["INT"].func \in {"panic", "intr"}
  /\ handlers["MDMX"].func = "mdmxenable"
  /\ handlers["OTHER"].func \in {"panic", "user"}
Ours == "BEV" \notin status /\ ~iv /\ vec = AllVectors("exlib") /\ Tabled
Vecs == saved.bev = env.bev /\ (~env.bev => saved.vec = AllVectors(env.vec))
Saved == saved.iv = env.iv /\ Vecs

(* How far exlib_init and exlib_shutdown have come.                        *)
Stage ==
  /\ main.at \in Starting => initted /\ AsEnv /\ want.installed = {}
  /\ main.at = "save" => main.n = 1
  /\ main.at = "install" =>
       /\ initted /\ cerr /\ ("BEV" \in status) = env.bev /\ iv = env.iv
       /\ Vecs /\ Tabled
       /\ \A i \in 1 .. 3 : i < main.n => vec[Vectors[i]] = "exlib"
  /\ main.at = "cause" =>
       /\ initted /\ "BEV" \notin status /\ iv = env.iv /\ Vecs /\ Tabled
       /\ vec = AllVectors("exlib")
  /\ main.at \in {"idle", "enable"} => IF initted THEN Ours /\ Saved ELSE AsEnv
  /\ main.at \in {"intr_init", "set_handler"} => initted /\ Ours /\ Saved
  /\ main.at \in {"shut_read", "shut_mask"} => ~initted /\ Ours /\ Saved
  /\ main.at = "give_back" =>
       /\ ~initted /\ "BEV" \notin status /\ ~iv /\ Saved
       /\ ~env.bev => \A i \in 1 .. 3 : i < main.n => vec[Vectors[i]] = env.vec
  /\ main.at = "restore_iv" =>
       /\ ~initted /\ ("BEV" \in status) = env.bev /\ ~iv /\ Saved
       /\ ~env.bev => vec = AllVectors(env.vec)

(* What the main program works with, and where it may be interrupted.      *)
Working ==
  /\ main.at \in Masking => main.val = status /\ "IE" \notin status
  /\ main.at \in {"init_mask", "shut_mask"} =>
       /\ ("BEV" \in main.val) = ("BEV" \in status)
       /\ 0 \in want.acc => "MX" \in main.val
  /\ main.at \in Masking \union {"init_mask", "shut_mask"} => main.ie = want.ie
  /\ main.at \notin Masking =>
       want.ie = IE(IF Level > 0 THEN frames[1].status ELSE status)
  /\ ~MainRuns =>
       \/ main.at = "idle" /\ initted
       \/ main.at \in {"intr_init", "set_handler", "shut_read", "shut_mask"}

(* The handlers of the table save what they use.                           *)
Covers(h, c) == h.func \in {"user", "intr"} => Need[c] \subseteq h.mask
Table ==
  /\ Covers(handlers["INT"], "INT") /\ Covers(handlers["OTHER"], "OTHER")
  /\ main.next = "intr_init" => initted
  /\ main.at = "set_handler" => Need["OTHER"] \subseteq handlers["OTHER"].mask
  /\ "OTHER" \in want.installed => handlers["OTHER"].func = "user"
  /\ intr.initted =>
       /\ initted
       /\ \/ /\ main.at \in Resting \ {"intr_init"}
             /\ handlers["INT"].func = "intr"
             /\ intr.orig.func \in {"panic", "intr"} /\ Covers(intr.orig, "INT")
          \/ main.at = "intr_init"
          \/ main.at \notin Resting /\ main.next = "intr_init"

(* A frame goes back to the level below it, where a handler was            *)
(* interrupted that saved what it uses.                                    *)
Stack ==
  \A i \in 1 .. Level :
    /\ frames[i].epc.level = i - 1
    /\ frames[i].epc.phase \in {"run", "return"}
    /\ frames[i].epc.phase = "return" => i > 1
    /\ "BEV" \notin frames[i].status
    /\ i < Level => frames[i].func \in {"user", "intr"}
    /\ frames[i].func \in {"user", "intr"} =>
         /\ frames[i].code # "MDMX"
         /\ \A g \in Need[frames[i].code] :
              frames[i].fp[g] = NotSaved =>
                g = "MDMXACC" /\ "MX" \notin frames[i].status

(* What holds in each phase of an exception.                               *)
Phase ==
  /\ cpu.phase \notin {"run", "entry"} => Level > 0
  /\ cpu.phase \in {"entry", "restore", "eret"} => "EXL" \in status
  /\ cpu.phase = "entry" =>
       /\ cpu.epc.level = Level /\ Level < MaxDepth
       /\ cpu.epc.phase \in {"run", "return"}
       /\ cpu.epc.phase = "return" => Level > 0
       /\ Level > 0 => Top.func \in {"user", "intr"}
       /\ cpu.code = "MDMX" => "MX" \notin status
  /\ cpu.phase = "dispatch" =>
       Top.func = "none" /\ Top.fp = NothingSaved /\ "IE" \notin status
  /\ cpu.phase \in {"run", "return"} /\ Level > 0 =>
       /\ Top.func \in {"mdmxenable", "user", "intr"}
       /\ Top.func = "mdmxenable" => "IE" \notin status /\ Top.code = "MDMX"
  /\ cpu.phase = "dispatch" \/ (cpu.phase = "run" /\ Level > 0) =>
       (Top.code = "MDMX" => "MX" \notin Top.status)
  /\ cpu.phase \in {"restore", "eret"} => status = Top.status \union {"EXL"}
  /\ cpu.phase = "eret" => cpu.epc = Top.epc
  /\ cpu.phase = "panic" => "IE" \notin status

(* A level that uses the accumulator runs with MX, and so do those above.  *)
InUse ==
  \A i \in want.acc :
    /\ i <= Level
    /\ \A j \in 1 .. Level : i < j => "MX" \in frames[j].status
    /\ "MX" \in status \/ (i = Level /\ cpu.phase \in {"restore", "eret"})

(* No level finds a value that was computed above it, neither in the       *)
(* registers nor in the frames that they will be restored from.            *)
Unsaved(g, i, k) ==
  \A j \in 1 .. Level : i < j /\ j < k => frames[j].fp[g] = NotSaved
Owned ==
  \A g \in FPGroups, i \in 0 .. Level :
    g = "CALLER" \/ i \in want.acc =>
      /\ Unsaved(g, i, Level + 1) =>
           owner[g] <= i \/ (i = Level /\ cpu.phase = "eret")
      /\ \A k \in 1 .. Level :
           i < k /\ Unsaved(g, i, k) => frames[k].fp[g] <= i
Restored ==
  cpu.phase = "eret" =>
    \A g \in FPGroups : Top.fp[g] # NotSaved => owner[g] = Top.fp[g]

Inv ==
  /\ TypeOK /\ CacheErrorsHandled /\ Stage /\ Working /\ Table
  /\ Stack /\ Phase /\ PanicJustified /\ InUse /\ Owned /\ Restored

-----------------------------------------------------------------------------

(* A program that executes an MDMX instruction gets it executed, or there  *)
(* is a panic (exlib.h:149-152).                                           *)
MdmxServed == want.mdmx ~> ~want.mdmx \/ cpu.phase = "panic"
=============================================================================
