----------------------------- MODULE ExlibProofs -----------------------------
(* Proofs about Exlib: for any contents of the environment's vectors, any     *)
(* registers that handlers use and any depth of exceptions in exceptions, the *)
(* vectors are taken over and given back whole, what was interrupted goes on  *)
(* with its own registers, and nothing panics that somebody was to handle.    *)
EXTENDS Exlib, SequenceTheorems, TLAPS

(* Stacks of frames.                                                          *)

LEMMA Pushed ==
  ASSUME NEW F, NEW s \in Seq(F), NEW e \in F
  PROVE  /\ Append(s, e) \in Seq(F) /\ Len(Append(s, e)) = Len(s) + 1
         /\ \A i \in 1 .. Len(s) : Append(s, e)[i] = s[i]
         /\ Append(s, e)[Len(s) + 1] = e
  BY AppendProperties

LEMMA Popped ==
  ASSUME NEW F, NEW s \in Seq(F), NEW k \in 0 .. Len(s)
  PROVE  /\ SubSeq(s, 1, k) \in Seq(F) /\ Len(SubSeq(s, 1, k)) = k
         /\ \A i \in 1 .. k : SubSeq(s, 1, k)[i] = s[i]
  BY SubSeqProperties

LEMMA Replaced ==
  ASSUME NEW F, NEW s \in Seq(F), NEW i \in 1 .. Len(s), NEW e \in F
  PROVE  /\ [s EXCEPT ![i] = e] \in Seq(F) /\ Len([s EXCEPT ![i] = e]) = Len(s)
         /\ \A j \in 1 .. Len(s) : [s EXCEPT ![i] = e][j] = IF j = i THEN e ELSE s[j]
  BY ExceptSeq

------------------------------------------------------------------------------
(* Where interrupts are masked, and what is true at the start.                *)

LEMMA InitInv == Init => Inv
<1> SUFFICES ASSUME Init PROVE Inv
  OBVIOUS
<1>1. TypeOK
  <2>1. MachineType
    BY DEF Init, MachineType, EnvSetup, Bits, VectorTable, AllVectors
  <2>2. LibraryType
    BY DEF Init, LibraryType, VectorTable, AllVectors, Entry, Funcs, NoHandler
  <2>3. MainType
    BY DEF Init, MainType, Idle, Points, Resting
  <2>4. ContextType
    BY DepthAssumption DEF Init, ContextType, Origin, Phases, Codes, Levels, Level
  <2>5. HistoryType
    BY DEF Init, HistoryType, IE
  <2> QED
    BY <2>1, <2>2, <2>3, <2>4, <2>5 DEF TypeOK
<1>2. CacheErrorsHandled
  BY DEF Init, CacheErrorsHandled, EnvSetup
<1>3. Stage
  BY DEF Init, Stage, AsEnv, Idle, EnvSetup, Starting
<1>4. Working /\ Table
  BY DEF Init, Working, Table, Covers, Idle, Masking, MainRuns, Level, NoHandler,
     Codes
<1>5. Stack /\ Phase /\ PanicJustified /\ InUse /\ Restored
  BY DEF Init, Stack, Phase, PanicJustified, InUse, Restored, Level
<1>6. Owned
  BY DEF Init, Owned, Level, FPGroups
<1> QED
  BY <1>1, <1>2, <1>4, <1>5, <1>6, <1>3 DEF Inv

LEMMA PointsAre ==
  Points = {"idle", "init_read", "init_mask", "save", "install", "cause", "enable",
            "intr_init", "set_handler", "shut_read", "shut_mask", "give_back",
            "restore_iv"}
  BY DEF Points, Starting, Resting, Masking

(* A step of the main program disturbs no exception.                          *)
LEMMA MainStep ==
  ASSUME Inv, MainRuns, UNCHANGED context, want'.acc = want.acc,
         0 \in want.acc => "MX" \in status'
  PROVE  Stack' /\ Phase' /\ PanicJustified' /\ InUse' /\ Owned' /\ Restored'
<1>1. /\ Level = 0 /\ Level' = 0 /\ cpu' = cpu /\ cpu.phase = "run"
      /\ owner' = owner /\ frames' = frames
  BY DEF MainRuns, context, Level
<1>2. Stack' /\ Phase' /\ PanicJustified' /\ Restored'
  BY <1>1 DEF Stack, Phase, PanicJustified, Restored
<1>3. InUse'
  <2>1. \A i \in want.acc : i = 0
    BY <1>1 DEF Inv, InUse, TypeOK, HistoryType, Levels
  <2> QED
    BY <2>1, <1>1 DEF InUse
<1>4. Owned'
  BY <1>1 DEF Inv, Owned, Unsaved
<1> QED
  BY <1>2, <1>3, <1>4

(* One step of exlib_init, exlib_shutdown or of the program between them.     *)
LEMMA exlib_initStep == ASSUME Inv, exlib_init PROVE Inv'
<1>1. MainRuns /\ UNCHANGED context /\ want'.acc = want.acc
  BY DEF exlib_init, CallInit, Free, AtIdle
<1>2. /\ Level = 0 /\ Level' = 0 /\ cpu.phase = "run" /\ cpu' = cpu
      /\ frames' = frames /\ owner' = owner /\ MainRuns'
  BY <1>1 DEF MainRuns, context, Level
<1>3. /\ main'.at = "init_read" /\ main'.val = {} /\ main'.ie = {}
      /\ main'.n = 1 /\ main'.next = "idle"
  BY DEF exlib_init, CallInit, Idle
<1>4. main' = [at |-> main'.at, val |-> main'.val, ie |-> main'.ie,
               n |-> main'.n, next |-> main'.next]
  BY DEF exlib_init, CallInit, Free, AtIdle, IE, Idle, Inv, TypeOK, MainType
<1>5. 0 \in want.acc => "MX" \in status'
  BY <1>2 DEF exlib_init, CallInit, machine, Inv, InUse
<1>6. MachineType'
  BY DEF exlib_init, CallInit, machine, Inv, TypeOK, MachineType
<1>7. LibraryType'
  BY DEF exlib_init, CallInit, Inv, TypeOK, LibraryType
<1>8. MainType'
  BY <1>3, <1>4, PointsAre DEF MainType
<1>9. ContextType'
  BY <1>2 DEF Inv, TypeOK, ContextType
<1>10. HistoryType'
  BY DEF exlib_init, CallInit, Inv, TypeOK, HistoryType
<1>11. CacheErrorsHandled'
  BY DEF exlib_init, CallInit, machine, Inv, CacheErrorsHandled
<1>12. Stage'
  BY DEF exlib_init, CallInit, Free, AtIdle, machine, Inv, Stage, AsEnv
<1>13. Working'
  BY <1>2 DEF exlib_init, CallInit, Free, AtIdle, machine, Inv, Working, Masking
<1>14. Table'
  BY DEF exlib_init, CallInit, Inv, Table
<1> QED
  BY <1>1, <1>5, <1>6, <1>7, <1>8, <1>9, <1>10, <1>11, <1>12, <1>13, <1>14, MainStep
     DEF Inv, TypeOK

LEMMA ReadStatusStep == ASSUME Inv, ReadStatus PROVE Inv'
<1>1. MainRuns /\ UNCHANGED context /\ want'.acc = want.acc
  BY DEF ReadStatus
<1>2. /\ Level = 0 /\ Level' = 0 /\ cpu.phase = "run" /\ cpu' = cpu
      /\ frames' = frames /\ owner' = owner /\ MainRuns'
  BY <1>1 DEF MainRuns, context, Level
<1>3. /\ main'.at = (IF main.at = "init_read" THEN "init_mask" ELSE "shut_mask")
      /\ main'.val = status /\ main'.ie = IE(status)
      /\ main'.n = main.n /\ main'.next = main.next
  BY DEF ReadStatus
<1>4. main' = [at |-> main'.at, val |-> main'.val, ie |-> main'.ie,
               n |-> main'.n, next |-> main'.next]
  BY DEF ReadStatus, Free, AtIdle, IE, Idle, Inv, TypeOK, MainType
<1>5. 0 \in want.acc => "MX" \in status'
  BY <1>2 DEF ReadStatus, machine, Inv, InUse
<1>6. MachineType'
  BY DEF ReadStatus, machine, Inv, TypeOK, MachineType
<1>7. LibraryType'
  BY DEF ReadStatus, library, Inv, TypeOK, LibraryType
<1>8. MainType'
  BY <1>3, <1>4, PointsAre DEF IE, Inv, TypeOK, MainType, MachineType
<1>9. ContextType'
  BY <1>2 DEF Inv, TypeOK, ContextType
<1>10. HistoryType'
  BY DEF ReadStatus, Inv, TypeOK, HistoryType
<1>11. CacheErrorsHandled'
  BY DEF ReadStatus, machine, Inv, CacheErrorsHandled
<1>12. Stage'
  BY DEF ReadStatus, machine, library, Inv, Stage, AsEnv, Ours, Tabled, Vecs, Saved,
     Starting
<1>13. Working'
  BY <1>2, <1>5 DEF ReadStatus, machine, Inv, Working, Masking
<1>14. Table'
  BY DEF ReadStatus, library, Inv, Table, Resting
<1> QED
  BY <1>1, <1>5, <1>6, <1>7, <1>8, <1>9, <1>10, <1>11, <1>12, <1>13, <1>14, MainStep
     DEF Inv, TypeOK

LEMMA MaskInterruptsStep == ASSUME Inv, MaskInterrupts PROVE Inv'
<1>1. MainRuns /\ UNCHANGED context /\ want'.acc = want.acc
  BY DEF MaskInterrupts
<1>2. /\ Level = 0 /\ Level' = 0 /\ cpu.phase = "run" /\ cpu' = cpu
      /\ frames' = frames /\ owner' = owner /\ MainRuns'
  BY <1>1 DEF MainRuns, context, Level
<1>3. /\ main'.at = (IF main.at = "init_mask" THEN "save" ELSE "give_back")
      /\ main'.val = main.val \ {"IE"} /\ main'.ie = main.ie
      /\ main'.n = 1 /\ main'.next = main.next
  BY DEF MaskInterrupts
<1>4. main' = [at |-> main'.at, val |-> main'.val, ie |-> main'.ie,
               n |-> main'.n, next |-> main'.next]
  BY DEF MaskInterrupts, Free, AtIdle, IE, Idle, Inv, TypeOK, MainType
<1>5. 0 \in want.acc => "MX" \in status'
  BY DEF MaskInterrupts, Inv, Working
<1>6. MachineType'
  BY DEF MaskInterrupts, Inv, TypeOK, MachineType, MainType
<1>7. LibraryType'
  BY DEF MaskInterrupts, library, Inv, TypeOK, LibraryType
<1>8. MainType'
  BY <1>3, <1>4, PointsAre DEF Inv, TypeOK, MainType
<1>9. ContextType'
  BY <1>2 DEF Inv, TypeOK, ContextType
<1>10. HistoryType'
  BY DEF MaskInterrupts, Inv, TypeOK, HistoryType
<1>11. CacheErrorsHandled'
  BY DEF MaskInterrupts, Inv, CacheErrorsHandled, Working
<1>12. Stage'
  BY DEF MaskInterrupts, library, Inv, Stage, Working, AsEnv, Ours, Vecs, Saved,
     Starting
<1>13. Working'
  BY <1>2 DEF MaskInterrupts, Inv, Working, Masking
<1>14. Table'
  BY DEF MaskInterrupts, library, Inv, Table, Resting
<1> QED
  BY <1>1, <1>5, <1>6, <1>7, <1>8, <1>9, <1>10, <1>11, <1>12, <1>13, <1>14, MainStep
     DEF Inv, TypeOK

LEMMA SaveStep == ASSUME Inv, Save PROVE Inv'
<1>1. MainRuns /\ UNCHANGED context /\ want'.acc = want.acc
  BY DEF Save
<1>2. /\ Level = 0 /\ Level' = 0 /\ cpu.phase = "run" /\ cpu' = cpu
      /\ frames' = frames /\ owner' = owner /\ MainRuns'
  BY <1>1 DEF MainRuns, context, Level
<1>3. /\ main'.at = "install" /\ main'.val = main.val /\ main'.ie = main.ie
      /\ main'.n = main.n /\ main'.next = main.next
  BY DEF Save
<1>4. main' = [at |-> main'.at, val |-> main'.val, ie |-> main'.ie,
               n |-> main'.n, next |-> main'.next]
  BY DEF Save, Inv, TypeOK, MainType
<1>5. 0 \in want.acc => "MX" \in status'
  BY <1>2 DEF Save, Inv, InUse
<1>6. MachineType'
  BY DEF Save, Inv, TypeOK, MachineType
<1>7. LibraryType'
  <2>1. handlers' \in [Codes -> Entry]
    <3>1. FpMask(FPGroups) \in SUBSET FPGroups
      BY DEF FpMask
    <3> QED
      BY <3>1 DEF Save, Common, Entry, Funcs
  <2>2. saved' \in [bev : BOOLEAN, iv : BOOLEAN, vec : VectorTable]
    <3>1. saved' = [saved EXCEPT !.bev = saved'.bev, !.vec = saved'.vec]
      BY DEF Save, Inv, TypeOK, LibraryType
    <3>2. saved'.bev = ("BEV" \in main.val) /\ saved'.vec \in {saved.vec, vec}
      BY DEF Save, Inv, TypeOK, LibraryType
    <3>3. saved'.bev \in BOOLEAN
      BY <3>2
    <3> QED
      BY <3>1, <3>2, <3>3 DEF Inv, TypeOK, LibraryType, MachineType
  <2> QED
    BY <2>1, <2>2 DEF Save, Inv, TypeOK, LibraryType
<1>8. MainType'
  BY <1>3, <1>4, PointsAre DEF Inv, TypeOK, MainType
<1>9. ContextType'
  BY <1>2 DEF Inv, TypeOK, ContextType
<1>10. HistoryType'
  BY DEF Save, Inv, TypeOK, HistoryType
<1>11. CacheErrorsHandled'
  BY <1>3 DEF Save, Common, FpMask, Free, AtIdle, IE, machine, Inv,
     CacheErrorsHandled, Stage, Working, Masking, Starting
<1>12. Stage'
  <2>1. /\ status' = status /\ main.val = status /\ env' = env /\ iv' = iv
        /\ initted' = initted /\ vec' = vec /\ AsEnv /\ initted
    BY DEF Save, Inv, Stage, Working, Masking, Starting
  <2>2. Tabled'
    BY DEF Save, Common, Tabled, Codes
  <2>3. saved'.bev = ("BEV" \in status)
    BY <2>1 DEF Save, Inv, TypeOK, LibraryType
  <2>4. "BEV" \notin status => saved'.vec = vec
    BY <2>1 DEF Save, Inv, TypeOK, LibraryType
  <2>5. Vecs'
    BY <2>1, <2>3, <2>4 DEF Vecs, AsEnv
  <2>6. cerr'
    BY <2>1 DEF Save, Inv, CacheErrorsHandled
  <2>7. main'.at = "install" /\ main'.n = 1
    BY <1>3 DEF Save, Inv, Stage
  <2> QED
    BY <2>1, <2>2, <2>5, <2>6, <2>7 DEF Stage, Starting, AsEnv
<1>13. Working'
  BY <1>2 DEF Save, Inv, Working, Masking
<1>14. Table'
  BY DEF Save, Common, Inv, Table, Covers, Stage, Resting, Starting, Codes
<1> QED
  BY <1>1, <1>5, <1>6, <1>7, <1>8, <1>9, <1>10, <1>11, <1>12, <1>13, <1>14, MainStep
     DEF Inv, TypeOK

LEMMA InstallStep == ASSUME Inv, Install PROVE Inv'
<1>1. MainRuns /\ UNCHANGED context /\ want'.acc = want.acc
  BY DEF Install
<1>2. /\ Level = 0 /\ Level' = 0 /\ cpu.phase = "run" /\ cpu' = cpu
      /\ frames' = frames /\ owner' = owner /\ MainRuns'
  BY <1>1 DEF MainRuns, context, Level
<1>3. /\ main'.at = "install" /\ main'.val = main.val /\ main'.ie = main.ie
      /\ main'.n = main.n + 1 /\ main'.next = main.next
  BY DEF Install
<1>4. main' = [at |-> main'.at, val |-> main'.val, ie |-> main'.ie,
               n |-> main'.n, next |-> main'.next]
  BY DEF Install, Inv, TypeOK, MainType
<1>5. 0 \in want.acc => "MX" \in status'
  BY <1>2 DEF Install, Inv, InUse
<1>6. MachineType'
  BY DEF Install, Vectors, Inv, TypeOK, MachineType, VectorTable
<1>7. LibraryType'
  BY DEF Install, library, Inv, TypeOK, LibraryType
<1>8. MainType'
  BY DEF Install, Vectors, Inv, TypeOK, MainType
<1>9. ContextType'
  BY <1>2 DEF Inv, TypeOK, ContextType
<1>10. HistoryType'
  BY DEF Install, Inv, TypeOK, HistoryType
<1>11. CacheErrorsHandled'
  BY DEF Install, Inv, CacheErrorsHandled
<1>12. Stage'
  BY DEF Install, Vectors, library, Inv, TypeOK, MachineType, Stage, Tabled, Vecs,
     Starting, VectorTable
<1>13. Working'
  BY <1>2 DEF Install, Inv, Working
<1>14. Table'
  BY DEF Install, library, Inv, Table
<1> QED
  BY <1>1, <1>5, <1>6, <1>7, <1>8, <1>9, <1>10, <1>11, <1>12, <1>13, <1>14, MainStep
     DEF Inv, TypeOK

LEMMA LeaveRomStep == ASSUME Inv, LeaveRom PROVE Inv'
<1>1. MainRuns /\ UNCHANGED context /\ want'.acc = want.acc
  BY DEF LeaveRom
<1>2. /\ Level = 0 /\ Level' = 0 /\ cpu.phase = "run" /\ cpu' = cpu
      /\ frames' = frames /\ owner' = owner /\ MainRuns'
  BY <1>1 DEF MainRuns, context, Level
<1>3. /\ main'.at = "cause" /\ main'.val = main.val \ {"BEV"} /\ main'.ie = main.ie
      /\ main'.n = main.n /\ main'.next = main.next
  BY DEF LeaveRom
<1>4. main' = [at |-> main'.at, val |-> main'.val, ie |-> main'.ie,
               n |-> main'.n, next |-> main'.next]
  BY DEF LeaveRom, Vectors, Free, AtIdle, IE, Idle, Inv, TypeOK, MainType
<1>5. 0 \in want.acc => "MX" \in status'
  BY <1>2 DEF LeaveRom, Inv, Working, InUse, Masking
<1>6. MachineType'
  BY DEF LeaveRom, Inv, TypeOK, MachineType, MainType
<1>7. LibraryType'
  BY DEF LeaveRom, library, Inv, TypeOK, LibraryType
<1>8. MainType'
  BY <1>3, <1>4, PointsAre DEF Inv, TypeOK, MainType
<1>9. ContextType'
  BY <1>2 DEF Inv, TypeOK, ContextType
<1>10. HistoryType'
  BY DEF LeaveRom, Inv, TypeOK, HistoryType
<1>11. CacheErrorsHandled'
  BY DEF LeaveRom, Inv, CacheErrorsHandled, Stage
<1>12. Stage'
  BY DEF LeaveRom, Vectors, library, Inv, TypeOK, MachineType, MainType, Stage,
     Tabled, Vecs, Starting, AllVectors, VectorTable
<1>13. Working'
  BY <1>2 DEF LeaveRom, Inv, Working, Masking
<1>14. Table'
  BY DEF LeaveRom, library, Inv, Table, Resting
<1> QED
  BY <1>1, <1>5, <1>6, <1>7, <1>8, <1>9, <1>10, <1>11, <1>12, <1>13, <1>14, MainStep
     DEF Inv, TypeOK

LEMMA ClearIVStep == ASSUME Inv, ClearIV PROVE Inv'
<1>1. MainRuns /\ UNCHANGED context /\ want'.acc = want.acc
  BY DEF ClearIV, Free, AtIdle, IE, Inv, TypeOK, HistoryType
<1>2. /\ Level = 0 /\ Level' = 0 /\ cpu.phase = "run" /\ cpu' = cpu
      /\ frames' = frames /\ owner' = owner /\ MainRuns'
  BY <1>1 DEF MainRuns, context, Level
<1>3. /\ main'.at = "enable" /\ main'.val = main.val /\ main'.ie = main.ie
      /\ main'.n = main.n /\ main'.next = main.next
  BY DEF ClearIV
<1>4. main' = [at |-> main'.at, val |-> main'.val, ie |-> main'.ie,
               n |-> main'.n, next |-> main'.next]
  BY DEF ClearIV, Free, AtIdle, IE, Idle, Inv, TypeOK, MainType
<1>5. 0 \in want.acc => "MX" \in status'
  BY <1>2 DEF ClearIV, Inv, InUse
<1>6. MachineType'
  BY <1>3 DEF ClearIV, Free, AtIdle, IE, machine, Inv, TypeOK, MachineType, MainType,
     LibraryType, HistoryType, Bits, EnvSetup, VectorTable, AllVectors
<1>7. LibraryType'
  BY DEF ClearIV, Inv, TypeOK, LibraryType, MachineType
<1>8. MainType'
  BY <1>3, <1>4, PointsAre DEF Inv, TypeOK, MainType
<1>9. ContextType'
  BY <1>2 DEF Inv, TypeOK, ContextType
<1>10. HistoryType'
  BY DEF ClearIV, Inv, TypeOK, HistoryType
<1>11. CacheErrorsHandled'
  BY DEF ClearIV, Inv, CacheErrorsHandled
<1>12. Stage'
  BY DEF ClearIV, Inv, Stage, Ours, Tabled, Vecs, Saved, Starting
<1>13. Working'
  BY <1>2 DEF ClearIV, Inv, Working, Masking
<1>14. Table'
  BY DEF ClearIV, Inv, Table, Resting
<1> QED
  BY <1>1, <1>5, <1>6, <1>7, <1>8, <1>9, <1>10, <1>11, <1>12, <1>13, <1>14, MainStep
     DEF Inv, TypeOK

LEMMA exlib_shutdownStep == ASSUME Inv, exlib_shutdown PROVE Inv'
<1>1. MainRuns /\ UNCHANGED context /\ want'.acc = want.acc
  BY DEF exlib_shutdown, Free, AtIdle
<1>2. /\ Level = 0 /\ Level' = 0 /\ cpu.phase = "run" /\ cpu' = cpu
      /\ frames' = frames /\ owner' = owner /\ MainRuns'
  BY <1>1 DEF MainRuns, context, Level
<1>3. /\ main'.at = "shut_read" /\ main'.val = {} /\ main'.ie = {}
      /\ main'.n = 1 /\ main'.next = "idle"
  BY DEF exlib_shutdown, Idle
<1>4. main' = [at |-> main'.at, val |-> main'.val, ie |-> main'.ie,
               n |-> main'.n, next |-> main'.next]
  BY DEF exlib_shutdown, Idle
<1>5. 0 \in want.acc => "MX" \in status'
  BY <1>2 DEF exlib_shutdown, machine, Inv, InUse
<1>6. MachineType'
  BY DEF exlib_shutdown, machine, Inv, TypeOK, MachineType
<1>7. LibraryType'
  BY NeedAssumption DEF exlib_shutdown, Free, AtIdle, IE, library, Inv, TypeOK,
     LibraryType, MachineType, Entry, Funcs, Codes, FPGroups
<1>8. MainType'
  BY <1>3, <1>4, PointsAre DEF MainType
<1>9. ContextType'
  BY <1>2 DEF Inv, TypeOK, ContextType
<1>10. HistoryType'
  BY DEF exlib_shutdown, Inv, TypeOK, HistoryType
<1>11. CacheErrorsHandled'
  BY DEF exlib_shutdown, machine, Inv, CacheErrorsHandled
<1>12. Stage'
  BY DEF exlib_shutdown, Free, AtIdle, machine, Inv, Stage, Ours, Tabled, Vecs, Saved,
     Starting
<1>13. Working'
  BY <1>2 DEF exlib_shutdown, Free, AtIdle, machine, Inv, Working, Masking
<1>14. Table'
  BY <1>3 DEF exlib_shutdown, Inv, Table
<1> QED
  BY <1>1, <1>5, <1>6, <1>7, <1>8, <1>9, <1>10, <1>11, <1>12, <1>13, <1>14, MainStep
     DEF Inv, TypeOK

LEMMA GiveBackStep == ASSUME Inv, GiveBack PROVE Inv'
<1>1. MainRuns /\ UNCHANGED context /\ want'.acc = want.acc
  BY DEF GiveBack
<1>2. /\ Level = 0 /\ Level' = 0 /\ cpu.phase = "run" /\ cpu' = cpu
      /\ frames' = frames /\ owner' = owner /\ MainRuns'
  BY <1>1 DEF MainRuns, context, Level
<1>3. \/ main'.at = "restore_iv" /\ main'.n = main.n
      \/ main'.at = "give_back" /\ main'.n = main.n + 1 /\ main.n \in 1 .. 3
  <2>1. CASE saved.bev
    BY <2>1 DEF GiveBack, Vectors, Inv, TypeOK, MainType
  <2>2. CASE ~saved.bev /\ main.n \in DOMAIN Vectors
    BY <2>2 DEF GiveBack, Vectors, Inv, TypeOK, MainType
  <2>3. CASE ~saved.bev /\ main.n \notin DOMAIN Vectors
    BY <2>3 DEF GiveBack, Vectors, Inv, TypeOK, MainType
  <2> QED
    BY <2>1, <2>2, <2>3
<1>4. /\ main'.val = (IF saved.bev THEN main.val \union {"BEV"} ELSE main.val)
      /\ main'.ie = main.ie /\ main'.next = main.next
  BY DEF GiveBack, Vectors, Free, AtIdle, IE, Idle, Inv, TypeOK, MainType
<1>5. main' = [at |-> main'.at, val |-> main'.val, ie |-> main'.ie,
               n |-> main'.n, next |-> main'.next]
  BY DEF GiveBack, Vectors, Free, AtIdle, IE, Idle, Inv, TypeOK, MainType
<1>6. 0 \in want.acc => "MX" \in status'
  BY <1>2 DEF GiveBack, Inv, Working, InUse, Masking
<1>7. MachineType'
  BY DEF GiveBack, Inv, TypeOK, MachineType, MainType, LibraryType, Bits, VectorTable
<1>8. LibraryType'
  BY DEF GiveBack, library, Inv, TypeOK, LibraryType
<1>9. MainType'
  BY <1>3, <1>4, <1>5, PointsAre DEF Inv, TypeOK, MainType, Bits
<1>10. ContextType'
  BY <1>2 DEF Inv, TypeOK, ContextType
<1>11. HistoryType'
  BY DEF GiveBack, Inv, TypeOK, HistoryType
<1>12. CacheErrorsHandled'
  BY DEF GiveBack, Inv, CacheErrorsHandled
<1>13. Stage'
  <2>1. /\ ~initted /\ "BEV" \notin status /\ ~iv /\ Saved /\ main.val = status
        /\ (~env.bev => \A i \in 1 .. 3 : i < main.n => vec[Vectors[i]] = env.vec)
        /\ env' = env /\ iv' = iv /\ saved' = saved /\ initted' = initted
    BY DEF GiveBack, library, Inv, Stage, Working, Masking
  <2>2. Saved'
    BY <2>1 DEF Saved, Vecs
  <2>3. CASE saved.bev
    <3>1. "BEV" \in status' /\ main'.at = "restore_iv" /\ env.bev
      BY <2>1, <2>3 DEF GiveBack, Saved, Vecs, Inv, TypeOK, MainType
    <3> QED
      BY <2>1, <2>2, <3>1 DEF Stage, Starting
  <2>4. CASE ~saved.bev /\ main.n \in DOMAIN Vectors
    <3>1. /\ status' = status /\ main'.at = "give_back" /\ main'.n = main.n + 1
          /\ main.n \in 1 .. 3 /\ ~env.bev
          /\ vec' = [vec EXCEPT ![Vectors[main.n]] = saved.vec[Vectors[main.n]]]
      BY <2>1, <2>4 DEF GiveBack, Vectors, Saved, Vecs, Inv, TypeOK, MainType
    <3>2. vec \in VectorTable /\ saved.vec = AllVectors(env.vec)
      BY <2>1, <3>1 DEF Saved, Vecs, Inv, TypeOK, MachineType
    <3>3. \A i \in 1 .. 3 : i < main'.n => vec'[Vectors[i]] = env.vec
      BY <2>1, <3>1, <3>2 DEF Vectors, VectorTable, AllVectors
    <3> QED
      BY <2>1, <2>2, <3>1, <3>3 DEF Stage, Starting
  <2>5. CASE ~saved.bev /\ main.n \notin DOMAIN Vectors
    <3>1. /\ status' = status /\ main'.at = "restore_iv" /\ vec' = vec
          /\ main.n = 4 /\ ~env.bev
      BY <2>1, <2>5 DEF GiveBack, Vectors, Saved, Vecs, Inv, TypeOK, MainType
    <3>2. vec = AllVectors(env.vec)
      BY <2>1, <3>1 DEF Vectors, VectorTable, AllVectors, Inv, TypeOK, MachineType
    <3> QED
      BY <2>1, <2>2, <3>1, <3>2 DEF Stage, Starting, Inv, TypeOK, HistoryType,
         EnvSetup
  <2> QED
    BY <2>3, <2>4, <2>5
<1>14. Working'
  BY <1>2, <1>3, <1>4 DEF GiveBack, Inv, Working, Masking
<1>15. Table'
  BY <1>3, <1>4 DEF GiveBack, library, Inv, Table, Stage
<1> QED
  BY <1>1, <1>6, <1>7, <1>8, <1>9, <1>10, <1>11, <1>12, <1>13, <1>14, <1>15, MainStep
     DEF Inv, TypeOK

LEMMA RestoreIVStep == ASSUME Inv, RestoreIV PROVE Inv'
<1>1. MainRuns /\ UNCHANGED context /\ want'.acc = want.acc
  BY DEF RestoreIV
<1>2. /\ Level = 0 /\ Level' = 0 /\ cpu.phase = "run" /\ cpu' = cpu
      /\ frames' = frames /\ owner' = owner /\ MainRuns'
  BY <1>1 DEF MainRuns, context, Level
<1>3. /\ main'.at = "enable" /\ main'.val = main.val /\ main'.ie = main.ie
      /\ main'.n = main.n /\ main'.next = main.next
  BY DEF RestoreIV
<1>4. main' = [at |-> main'.at, val |-> main'.val, ie |-> main'.ie,
               n |-> main'.n, next |-> main'.next]
  BY DEF RestoreIV, Free, AtIdle, IE, Idle, Inv, TypeOK, MainType
<1>5. 0 \in want.acc => "MX" \in status'
  BY <1>2 DEF RestoreIV, Inv, InUse
<1>6. MachineType'
  BY DEF RestoreIV, Inv, TypeOK, MachineType
<1>7. LibraryType'
  BY DEF RestoreIV, library, Inv, TypeOK, LibraryType
<1>8. MainType'
  BY <1>3, <1>4, PointsAre DEF Inv, TypeOK, MainType
<1>9. ContextType'
  BY <1>2 DEF Inv, TypeOK, ContextType
<1>10. HistoryType'
  BY DEF RestoreIV, Inv, TypeOK, HistoryType
<1>11. CacheErrorsHandled'
  BY DEF RestoreIV, Inv, CacheErrorsHandled
<1>12. Stage'
  BY DEF RestoreIV, library, Inv, TypeOK, LibraryType, Stage, AsEnv, Saved, Starting
<1>13. Working'
  BY <1>2 DEF RestoreIV, Inv, Working, Masking
<1>14. Table'
  BY DEF RestoreIV, library, Inv, Table, Stage
<1> QED
  BY <1>1, <1>5, <1>6, <1>7, <1>8, <1>9, <1>10, <1>11, <1>12, <1>13, <1>14, MainStep
     DEF Inv, TypeOK

LEMMA EnableStep == ASSUME Inv, Enable PROVE Inv'
<1>1. MainRuns /\ UNCHANGED context /\ want'.acc = want.acc
  BY DEF Enable, Free, AtIdle, IE, Inv, TypeOK, HistoryType
<1>2. /\ Level = 0 /\ Level' = 0 /\ cpu.phase = "run" /\ cpu' = cpu
      /\ frames' = frames /\ owner' = owner /\ MainRuns'
  BY <1>1 DEF MainRuns, context, Level
<1>3. /\ main'.at = main.next /\ main'.val = {} /\ main'.ie = {}
      /\ main'.n = 1 /\ main'.next = "idle"
  BY DEF Enable, Idle
<1>4. main' = [at |-> main'.at, val |-> main'.val, ie |-> main'.ie,
               n |-> main'.n, next |-> main'.next]
  BY DEF Enable, Idle
<1>5. 0 \in want.acc => "MX" \in status'
  BY <1>2 DEF Enable, Inv, Working, InUse, Masking
<1>6. MachineType'
  BY DEF Enable, Inv, TypeOK, MachineType, MainType, Bits
<1>7. LibraryType'
  BY DEF Enable, library, Inv, TypeOK, LibraryType
<1>8. MainType'
  BY <1>3, <1>4, PointsAre DEF Inv, TypeOK, MainType
<1>9. ContextType'
  BY <1>2 DEF Inv, TypeOK, ContextType
<1>10. HistoryType'
  BY DEF Enable, Inv, TypeOK, HistoryType
<1>11. CacheErrorsHandled'
  BY DEF Enable, Inv, CacheErrorsHandled, Working, Masking
<1>12. Stage'
  <2>1. /\ IF initted THEN Ours /\ Saved ELSE AsEnv
        /\ main'.at \in {"idle", "intr_init"}
        /\ main'.at = "intr_init" => initted
    BY <1>3 DEF Enable, Inv, TypeOK, MainType, Stage, Table
  <2>2. ("BEV" \in status') = ("BEV" \in status)
    BY DEF Enable, Inv, TypeOK, MainType, Working, Masking
  <2>3. UNCHANGED <<iv, vec, cerr, library, env, want>>
    BY DEF Enable
  <2>4. (Ours => Ours') /\ (Saved => Saved') /\ (AsEnv => AsEnv')
    BY <2>2, <2>3 DEF Ours, Saved, AsEnv, Tabled, Vecs, library
  <2> QED
    BY <2>1, <2>3, <2>4 DEF Stage, Starting, library
<1>13. Working'
  BY <1>2 DEF Enable, IE, Inv, TypeOK, MainType, Working, Masking
<1>14. Table'
  BY <1>3 DEF Enable, library, Inv, TypeOK, MainType, Table, Resting
<1> QED
  BY <1>1, <1>5, <1>6, <1>7, <1>8, <1>9, <1>10, <1>11, <1>12, <1>13, <1>14, MainStep
     DEF Inv, TypeOK

LEMMA EnvironmentStep == ASSUME Inv, Environment PROVE Inv'
<1>1. MainRuns /\ UNCHANGED context /\ want'.acc = want.acc
  BY DEF Environment, Free, AtIdle
<1>2. /\ Level = 0 /\ Level' = 0 /\ cpu.phase = "run" /\ cpu' = cpu
      /\ frames' = frames /\ owner' = owner /\ MainRuns'
  BY <1>1 DEF MainRuns, context, Level
<1>3. main' = main
  BY DEF Environment
<1>4. 0 \in want.acc => "MX" \in status'
  BY <1>2 DEF Environment, Inv, InUse
<1>5. MachineType'
  BY DEF Environment, Inv, TypeOK, MachineType, Bits, EnvSetup, VectorTable,
     AllVectors
<1>6. LibraryType'
  BY DEF Environment, library, Inv, TypeOK, LibraryType
<1>7. MainType'
  BY <1>3 DEF Inv, TypeOK, MainType
<1>8. ContextType'
  BY <1>2 DEF Inv, TypeOK, ContextType
<1>9. HistoryType'
  BY DEF Environment, Inv, TypeOK, HistoryType
<1>10. CacheErrorsHandled'
  BY <1>3 DEF Environment, Free, AtIdle, IE, machine, Inv, CacheErrorsHandled, Stage,
     Working, Masking, Starting
<1>11. Stage'
  BY DEF Environment, Free, AtIdle, library, Inv, Stage, AsEnv, EnvSetup
<1>12. Working'
  BY <1>2 DEF Environment, Free, AtIdle, IE, Inv, Working, Masking
<1>13. Table'
  BY DEF Environment, library, Inv, Table
<1> QED
  BY <1>1, <1>4, <1>5, <1>6, <1>7, <1>8, <1>9, <1>10, <1>11, <1>12, <1>13, MainStep
     DEF Inv, TypeOK

LEMMA SwitchIEStep == ASSUME Inv, SwitchIE PROVE Inv'
<1>1. MainRuns /\ UNCHANGED context /\ want'.acc = want.acc
  BY DEF SwitchIE, Free, AtIdle
<1>2. /\ Level = 0 /\ Level' = 0 /\ cpu.phase = "run" /\ cpu' = cpu
      /\ frames' = frames /\ owner' = owner /\ MainRuns'
  BY <1>1 DEF MainRuns, context, Level
<1>3. main' = main
  BY DEF SwitchIE
<1>4. 0 \in want.acc => "MX" \in status'
  BY <1>2 DEF SwitchIE, Inv, InUse
<1>5. MachineType'
  BY DEF SwitchIE, Inv, TypeOK, MachineType, Bits
<1>6. LibraryType'
  BY DEF SwitchIE, library, Inv, TypeOK, LibraryType
<1>7. MainType'
  BY <1>3 DEF Inv, TypeOK, MainType
<1>8. ContextType'
  BY <1>2 DEF Inv, TypeOK, ContextType
<1>9. HistoryType'
  BY DEF SwitchIE, Inv, TypeOK, HistoryType
<1>10. CacheErrorsHandled'
  BY DEF SwitchIE, Inv, CacheErrorsHandled
<1>11. Stage'
  BY DEF SwitchIE, library, Inv, Stage, AsEnv, Ours, Tabled, Vecs, Saved
<1>12. Working'
  BY <1>2 DEF SwitchIE, Free, AtIdle, IE, Inv, Working, Masking
<1>13. Table'
  BY DEF SwitchIE, library, Inv, Table
<1> QED
  BY <1>1, <1>4, <1>5, <1>6, <1>7, <1>8, <1>9, <1>10, <1>11, <1>12, <1>13, MainStep
     DEF Inv, TypeOK

LEMMA intr_initStep == ASSUME Inv, intr_init PROVE Inv'
<1>1. MainRuns /\ UNCHANGED context /\ want'.acc = want.acc
  BY DEF intr_init, CallInit, Free, AtIdle, IE, Inv, TypeOK, HistoryType
<1>2. /\ Level = 0 /\ Level' = 0 /\ cpu.phase = "run" /\ cpu' = cpu
      /\ frames' = frames /\ owner' = owner /\ MainRuns'
  BY <1>1 DEF MainRuns, context, Level
<1>3. \/ ~initted /\ main'.at = "init_read" /\ main'.next = "intr_init"
      \/ initted /\ main'.at = "intr_init" /\ main'.next = "idle"
  <2>1. CASE CallInit("intr_init")
    BY <2>1 DEF CallInit, Idle
  <2>2. CASE initted /\ main' = [Idle EXCEPT !.at = "intr_init"]
    BY <2>2 DEF Idle
  <2> QED
    BY <2>1, <2>2 DEF intr_init
<1>4. main'.val = {} /\ main'.ie = {} /\ main'.n = 1
  <2>1. CASE CallInit("intr_init")
    BY <2>1 DEF CallInit, Idle
  <2>2. CASE initted /\ main' = [Idle EXCEPT !.at = "intr_init"]
    BY <2>2 DEF Idle
  <2> QED
    BY <2>1, <2>2 DEF intr_init
<1>5. main' = [at |-> main'.at, val |-> main'.val, ie |-> main'.ie,
               n |-> main'.n, next |-> main'.next]
  BY DEF intr_init, CallInit, Free, AtIdle, IE, Idle, Inv, TypeOK, MainType
<1>6. 0 \in want.acc => "MX" \in status'
  BY <1>2 DEF intr_init, CallInit, machine, Inv, InUse
<1>7. MachineType'
  BY DEF intr_init, CallInit, machine, Inv, TypeOK, MachineType
<1>8. LibraryType'
  BY NeedAssumption DEF intr_init, CallInit, Free, AtIdle, IE, library, Inv, TypeOK,
     LibraryType, MachineType, Entry, Funcs, Codes, FPGroups
<1>9. MainType'
  BY <1>3, <1>4, <1>5, PointsAre DEF MainType
<1>10. ContextType'
  BY <1>2 DEF Inv, TypeOK, ContextType
<1>11. HistoryType'
  BY DEF intr_init, CallInit, Inv, TypeOK, HistoryType
<1>12. CacheErrorsHandled'
  BY DEF intr_init, CallInit, machine, Inv, CacheErrorsHandled
<1>13. Stage'
  BY <1>3 DEF intr_init, CallInit, Free, AtIdle, machine, Inv, TypeOK, HistoryType,
     Stage, AsEnv, Ours, Tabled, Vecs, Saved, Starting
<1>14. Working'
  BY <1>2, <1>3 DEF intr_init, CallInit, Free, AtIdle, machine, Inv, TypeOK,
     HistoryType, Working, Masking
<1>15. Table'
  BY <1>3 DEF intr_init, CallInit, Inv, TypeOK, HistoryType, Table, Resting
<1> QED
  BY <1>1, <1>6, <1>7, <1>8, <1>9, <1>10, <1>11, <1>12, <1>13, <1>14, <1>15, MainStep
     DEF Inv, TypeOK

LEMMA IntrInstallStep == ASSUME Inv, IntrInstall PROVE Inv'
<1>1. MainRuns /\ UNCHANGED context /\ want'.acc = want.acc
  BY DEF IntrInstall
<1>2. /\ Level = 0 /\ Level' = 0 /\ cpu.phase = "run" /\ cpu' = cpu
      /\ frames' = frames /\ owner' = owner /\ MainRuns'
  BY <1>1 DEF MainRuns, context, Level
<1>3. /\ main'.at = "idle" /\ main'.val = {} /\ main'.ie = {}
      /\ main'.n = 1 /\ main'.next = "idle"
  BY DEF IntrInstall, Idle
<1>4. main' = [at |-> main'.at, val |-> main'.val, ie |-> main'.ie,
               n |-> main'.n, next |-> main'.next]
  BY DEF IntrInstall, Idle
<1>5. 0 \in want.acc => "MX" \in status'
  BY <1>2 DEF IntrInstall, Inv, InUse
<1>6. MachineType'
  BY DEF IntrInstall, Inv, TypeOK, MachineType
<1>7. LibraryType'
  BY NeedAssumption DEF IntrInstall, FpMask, Free, AtIdle, IE, library, Inv, TypeOK,
     LibraryType, MachineType, Entry, Funcs, Codes, FPGroups
<1>8. MainType'
  BY <1>3, <1>4, PointsAre DEF MainType
<1>9. ContextType'
  BY <1>2 DEF Inv, TypeOK, ContextType
<1>10. HistoryType'
  BY DEF IntrInstall, Inv, TypeOK, HistoryType
<1>11. CacheErrorsHandled'
  BY DEF IntrInstall, Inv, CacheErrorsHandled
<1>12. Stage'
  BY <1>3 DEF IntrInstall, Inv, Stage, Ours, Tabled, Vecs, Saved, Starting
<1>13. Working'
  BY <1>2, <1>3 DEF IntrInstall, IE, Working, Masking
<1>14. Table'
  BY <1>3, NeedAssumption DEF IntrInstall, FpMask, Inv, TypeOK, LibraryType, Table,
     Covers, Stage, Resting, Ours, Tabled, Codes
<1> QED
  BY <1>1, <1>5, <1>6, <1>7, <1>8, <1>9, <1>10, <1>11, <1>12, <1>13, <1>14, MainStep
     DEF Inv, TypeOK

LEMMA intr_shutdownStep == ASSUME Inv, intr_shutdown PROVE Inv'
<1>1. MainRuns /\ UNCHANGED context /\ want'.acc = want.acc
  BY DEF intr_shutdown, Free, AtIdle
<1>2. /\ Level = 0 /\ Level' = 0 /\ cpu.phase = "run" /\ cpu' = cpu
      /\ frames' = frames /\ owner' = owner /\ MainRuns'
  BY <1>1 DEF MainRuns, context, Level
<1>3. main' = main
  BY DEF intr_shutdown
<1>4. 0 \in want.acc => "MX" \in status'
  BY <1>2 DEF intr_shutdown, Inv, InUse
<1>5. MachineType'
  BY DEF intr_shutdown, Inv, TypeOK, MachineType, LibraryType, Bits
<1>6. LibraryType'
  BY NeedAssumption DEF intr_shutdown, FpMask, Free, AtIdle, IE, library, Inv, TypeOK,
     LibraryType, MachineType, Entry, Funcs, Codes, FPGroups
<1>7. MainType'
  BY <1>3 DEF Inv, TypeOK, MainType
<1>8. ContextType'
  BY <1>2 DEF Inv, TypeOK, ContextType
<1>9. HistoryType'
  BY DEF intr_shutdown, Inv, TypeOK, HistoryType, LibraryType
<1>10. CacheErrorsHandled'
  BY DEF intr_shutdown, Inv, CacheErrorsHandled
<1>11. Stage'
  <2>1. initted /\ Ours /\ Saved /\ intr.orig.func \in {"panic", "intr"}
    BY DEF intr_shutdown, Free, AtIdle, Inv, Stage, Table, Resting
  <2>2. /\ UNCHANGED <<iv, vec, cerr, initted, saved, main, env>>
        /\ "BEV" \notin status' /\ want'.installed = want.installed
    BY <2>1 DEF intr_shutdown, Ours, Inv, TypeOK, LibraryType
  <2>3. Tabled'
    BY <2>1 DEF intr_shutdown, Ours, Tabled
  <2>4. Ours' /\ Saved'
    BY <2>1, <2>2, <2>3 DEF Ours, Saved, Vecs
  <2>5. main.at = "idle"
    BY DEF intr_shutdown, Free, AtIdle
  <2> QED
    BY <2>1, <2>2, <2>4, <2>5 DEF Stage, Starting
<1>12. Working'
  <2>1. intr.ie \in SUBSET {"IE"} /\ main.at = "idle" /\ main' = main
    BY DEF intr_shutdown, Free, AtIdle, Inv, TypeOK, LibraryType
  <2>2. want'.ie = intr.ie /\ status' = (status \ {"IE"}) \union intr.ie
    BY DEF intr_shutdown, Inv, TypeOK, HistoryType
  <2>3. IE(status') = want'.ie
    BY <2>1, <2>2 DEF IE
  <2> QED
    BY <1>2, <2>1, <2>3 DEF Working, Masking
<1>13. Table'
  BY NeedAssumption DEF intr_shutdown, FpMask, Free, AtIdle, Inv, Table, Covers,
     Resting
<1> QED
  BY <1>1, <1>4, <1>5, <1>6, <1>7, <1>8, <1>9, <1>10, <1>11, <1>12, <1>13, MainStep
     DEF Inv, TypeOK

LEMMA SetMaskStep == ASSUME Inv, SetMask PROVE Inv'
<1>1. MainRuns /\ UNCHANGED context /\ want'.acc = want.acc
  BY DEF SetMask, Free, AtIdle
<1>2. /\ Level = 0 /\ Level' = 0 /\ cpu.phase = "run" /\ cpu' = cpu
      /\ frames' = frames /\ owner' = owner /\ MainRuns'
  BY <1>1 DEF MainRuns, context, Level
<1>3. /\ main'.at = "set_handler" /\ main'.val = {} /\ main'.ie = {}
      /\ main'.n = 1 /\ main'.next = "idle"
  BY DEF SetMask, Idle
<1>4. main' = [at |-> main'.at, val |-> main'.val, ie |-> main'.ie,
               n |-> main'.n, next |-> main'.next]
  BY DEF SetMask, Idle
<1>5. 0 \in want.acc => "MX" \in status'
  BY <1>2 DEF SetMask, machine, Inv, InUse
<1>6. MachineType'
  BY DEF SetMask, machine, Inv, TypeOK, MachineType
<1>7. LibraryType'
  BY NeedAssumption DEF SetMask, FpMask, Inv, TypeOK, LibraryType, Entry, Codes
<1>8. MainType'
  BY <1>3, <1>4, PointsAre DEF MainType
<1>9. ContextType'
  BY <1>2 DEF Inv, TypeOK, ContextType
<1>10. HistoryType'
  BY DEF SetMask, Inv, TypeOK, HistoryType
<1>11. CacheErrorsHandled'
  BY DEF SetMask, machine, Inv, CacheErrorsHandled
<1>12. Stage'
  BY DEF SetMask, Free, AtIdle, machine, Inv, Stage, Ours, Tabled, Vecs, Saved,
     Starting
<1>13. Working'
  BY <1>2 DEF SetMask, Free, AtIdle, machine, Inv, Working, Masking
<1>14. Table'
  BY NeedAssumption DEF SetMask, FpMask, Free, AtIdle, Inv, TypeOK, LibraryType,
     Table, Covers, Resting, Codes
<1> QED
  BY <1>1, <1>5, <1>6, <1>7, <1>8, <1>9, <1>10, <1>11, <1>12, <1>13, <1>14, MainStep
     DEF Inv, TypeOK

LEMMA SetHandlerStep == ASSUME Inv, SetHandler PROVE Inv'
<1>1. MainRuns /\ UNCHANGED context /\ want'.acc = want.acc
  BY DEF SetHandler
<1>2. /\ Level = 0 /\ Level' = 0 /\ cpu.phase = "run" /\ cpu' = cpu
      /\ frames' = frames /\ owner' = owner /\ MainRuns'
  BY <1>1 DEF MainRuns, context, Level
<1>3. /\ main'.at = "idle" /\ main'.val = {} /\ main'.ie = {}
      /\ main'.n = 1 /\ main'.next = "idle"
  BY DEF SetHandler, Idle
<1>4. main' = [at |-> main'.at, val |-> main'.val, ie |-> main'.ie,
               n |-> main'.n, next |-> main'.next]
  BY DEF SetHandler, Idle
<1>5. 0 \in want.acc => "MX" \in status'
  BY <1>2 DEF SetHandler, machine, Inv, InUse
<1>6. MachineType'
  BY DEF SetHandler, machine, Inv, TypeOK, MachineType
<1>7. LibraryType'
  BY DEF SetHandler, Inv, TypeOK, LibraryType, Entry, Funcs, Codes
<1>8. MainType'
  BY <1>3, <1>4, PointsAre DEF MainType
<1>9. ContextType'
  BY <1>2 DEF Inv, TypeOK, ContextType
<1>10. HistoryType'
  BY DEF SetHandler, Inv, TypeOK, HistoryType
<1>11. CacheErrorsHandled'
  BY DEF SetHandler, machine, Inv, CacheErrorsHandled
<1>12. Stage'
  BY <1>3 DEF SetHandler, machine, Inv, Stage, Ours, Tabled, Vecs, Saved, Starting
<1>13. Working'
  BY <1>2, <1>3 DEF SetHandler, machine, Inv, Working, Masking
<1>14. Table'
  BY <1>3 DEF SetHandler, Inv, TypeOK, LibraryType, Table, Covers, Resting, Codes
<1> QED
  BY <1>1, <1>5, <1>6, <1>7, <1>8, <1>9, <1>10, <1>11, <1>12, <1>13, <1>14, MainStep
     DEF Inv, TypeOK

LEMMA MainSteps ==
  ASSUME Inv, Init_Shutdown \/ Environment \/ SwitchIE \/ intr_init \/ IntrInstall
              \/ intr_shutdown \/ SetMask \/ SetHandler
  PROVE  Inv'
  BY exlib_initStep, ReadStatusStep, MaskInterruptsStep, SaveStep, InstallStep,
     LeaveRomStep, ClearIVStep, exlib_shutdownStep, GiveBackStep, RestoreIVStep,
     EnableStep, EnvironmentStep, SwitchIEStep, intr_initStep, IntrInstallStep,
     intr_shutdownStep, SetMaskStep, SetHandlerStep DEF Init_Shutdown

------------------------------------------------------------------------------
(* Exceptions.  While one is handled the main program stands still, where     *)
(* exlib is in charge.                                                        *)

Quiet ==
  \/ main.at = "idle" /\ initted
  \/ main.at \in {"intr_init", "set_handler", "shut_read", "shut_mask"}

LEMMA InCharge == ASSUME Inv, Quiet PROVE Ours /\ Saved /\ main.at \notin Masking
  BY DEF Inv, Stage, Quiet, Masking

LEMMA HandlersInCharge == ASSUME Inv, ~MainRuns PROVE Quiet
  BY DEF Inv, Working, Quiet

(* What is around an exception stays as it is.                                *)
LEMMA Around ==
  ASSUME Inv, Quiet, UNCHANGED <<iv, vec, cerr, library, main, env>>,
         status' \in SUBSET Bits, "BEV" \notin status',
         want'.ie = want.ie, want'.installed = want.installed,
         0 \in want'.acc => 0 \in want.acc \/ main.at = "idle",
         IE(IF Level' > 0 THEN frames'[1].status ELSE status') = want.ie
  PROVE  /\ MachineType' /\ LibraryType' /\ MainType'
         /\ CacheErrorsHandled' /\ Stage' /\ Working' /\ Table'
<1>1. Ours /\ Saved /\ main.at \notin Masking
  BY InCharge
<1>2. MachineType' /\ LibraryType' /\ MainType'
  BY DEF library, Inv, TypeOK, MachineType, LibraryType, MainType
<1>3. CacheErrorsHandled'
  BY <1>1 DEF Inv, CacheErrorsHandled, Ours
<1>4. Ours' /\ Saved'
  BY <1>1 DEF Ours, Saved, Vecs, Tabled, library
<1>5. Stage'
  <2>1. main' = main /\ initted' = initted
    BY DEF library
  <2>2. CASE main.at = "idle" /\ initted
    BY <2>1, <2>2, <1>4 DEF Stage, Starting
  <2>3. CASE main.at \in {"intr_init", "set_handler"}
    BY <2>1, <2>3, <1>4 DEF Inv, Stage, Starting
  <2>4. CASE main.at \in {"shut_read", "shut_mask"}
    BY <2>1, <2>4, <1>4 DEF Inv, Stage, Starting
  <2> QED
    BY <2>2, <2>3, <2>4 DEF Quiet
<1>6. Working'
  <2>1. main' = main /\ initted' = initted
    BY DEF library
  <2>2. main.at \in {"init_mask", "shut_mask"} => (0 \in want.acc => "MX" \in main.val)
    BY DEF Inv, Working
  <2>3. main.at = "shut_mask" => "BEV" \notin main.val /\ main.ie = want.ie
    BY <1>1 DEF Inv, Working, Ours
  <2> QED
    BY <1>1, <2>1, <2>2, <2>3 DEF Working, Quiet, Masking
<1>7. Table'
  BY DEF Inv, Table, Covers, library
<1> QED
  BY <1>2, <1>3, <1>5, <1>6, <1>7

LEMMA TakeStep ==
  ASSUME Inv, Quiet, NEW code \in Codes, Take(code), cpu.phase \in {"run", "return"},
         cpu.phase = "return" => Level > 0,
         Level > 0 => Top.func \in {"user", "intr"},
         code = "MDMX" => "MX" \notin status,
         want' = [want EXCEPT !.mdmx = want'.mdmx], want'.mdmx \in BOOLEAN
  PROVE  Inv'
<1>1. /\ frames' = frames /\ Level' = Level /\ Top' = Top /\ owner' = owner
      /\ status' = status \union {"EXL"} /\ Level < MaxDepth
      /\ cpu' = [phase |-> "entry", code |-> code,
                 epc |-> [level |-> Level, phase |-> cpu.phase]]
  BY DEF Take, Level, Top
<1>2. cpu'.phase = "entry" /\ cpu'.code = code
      /\ cpu'.epc.level = Level /\ cpu'.epc.phase = cpu.phase
  BY <1>1
<1>3. want'.ie = want.ie /\ want'.installed = want.installed /\ want'.acc = want.acc
      /\ HistoryType'
  BY DEF Take, Inv, TypeOK, HistoryType
<1>4. ContextType'
  BY <1>1 DEF Inv, TypeOK, ContextType, Origin, Phases
<1>5. /\ MachineType' /\ LibraryType' /\ MainType'
      /\ CacheErrorsHandled' /\ Stage' /\ Working' /\ Table'
  <2>1. UNCHANGED <<iv, vec, cerr, library, main, env>>
    BY DEF Take
  <2>2. status' \in SUBSET Bits /\ "BEV" \notin status'
    BY <1>1, InCharge DEF Inv, TypeOK, MachineType, Bits, Ours
  <2>3. IE(IF Level' > 0 THEN frames'[1].status ELSE status') = want.ie
    <3>1. IE(IF Level > 0 THEN frames[1].status ELSE status) = want.ie
      BY InCharge DEF Inv, Working
    <3>2. IE(status') = IE(status)
      BY <1>1 DEF IE
    <3> QED
      BY <1>1, <3>1, <3>2
  <2> QED
    BY <1>3, <2>1, <2>2, <2>3, Around
<1>6. Stack'
  BY <1>1 DEF Inv, Stack
<1>7. Phase' /\ PanicJustified' /\ Restored'
  BY <1>1, <1>2 DEF Phase, PanicJustified, Restored
<1>8. InUse'
  BY <1>1, <1>2, <1>3 DEF Inv, InUse
<1>9. Owned'
  BY <1>1, <1>2, <1>3 DEF Inv, Owned, Unsaved
<1> QED
  BY <1>3, <1>4, <1>5, <1>6, <1>7, <1>8, <1>9 DEF Inv, TypeOK

(* An exception is taken where Status and the table are as they should be.    *)
LEMMA Taken == ASSUME Inv, Interrupt \/ Fault \/ MdmxUnusable PROVE Inv'
<1>1. CASE Interrupt
  <2>1. "IE" \in status /\ "EXL" \notin status /\ Target = "exlib" /\ want' = want
    BY <1>1 DEF Interrupt, Interruptible
  <2>2. /\ cpu.phase \in {"run", "return"}
        /\ cpu.phase = "return" => Level > 0
        /\ Level > 0 => Top.func \in {"user", "intr"}
    <3>1. cpu.phase \in Phases
      BY DEF Inv, TypeOK, ContextType
    <3> QED
      BY <2>1, <3>1 DEF Inv, Phase, Phases
  <2>3. Quiet
    <3>1. CASE ~MainRuns
      BY <3>1, HandlersInCharge
    <3>2. CASE MainRuns
      <4>1. main.at \notin Masking
        BY <2>1 DEF Inv, Working
      <4>2. ~AsEnv
        <5>1. "BEV" \notin status /\ ~iv /\ vec["gen"] = "exlib"
          BY <2>1 DEF Target
        <5> QED
          BY <5>1, EnvAssumption DEF AsEnv, AllVectors, Inv, TypeOK, HistoryType,
             EnvSetup
      <4>3. main.at \in Points
        BY DEF Inv, TypeOK, MainType
      <4> QED
        BY <4>1, <4>2, <4>3, PointsAre DEF Inv, Stage, Quiet, Masking, Starting
    <3> QED
      BY <3>1, <3>2
  <2>4. Take("INT")
    BY <1>1 DEF Interrupt
  <2> QED
    BY <2>1, <2>2, <2>3, <2>4, TakeStep DEF Codes, Inv, TypeOK, HistoryType
<1>2. CASE Fault
  <2>1. Take("OTHER") /\ want' = want /\ Ready
    BY <1>2 DEF Fault
  <2>2. cpu.phase = "run" /\ (Level > 0 => Top.func \in {"user", "intr"})
    BY <2>1 DEF Ready, Free, AtIdle, MainRuns, Runs
  <2>3. Quiet
    <3>1. CASE Free /\ initted
      BY <3>1 DEF Free, AtIdle, Quiet
    <3>2. CASE Runs({"user", "intr"})
      BY <3>2, HandlersInCharge DEF Runs, MainRuns
    <3> QED
      BY <2>1, <3>1, <3>2 DEF Ready
  <2> QED
    BY <2>1, <2>2, <2>3, TakeStep DEF Codes, Inv, TypeOK, HistoryType
<1>3. CASE MdmxUnusable
  <2>1. Take("MDMX") /\ "MX" \notin status
    BY <1>3 DEF MdmxUnusable
  <2>2. cpu.phase = "run" /\ (Level > 0 => Top.func \in {"user", "intr"})
    BY <1>3 DEF MdmxUnusable, AtIdle, MainRuns, Runs
  <2>3. Quiet
    <3>1. CASE AtIdle /\ initted
      BY <3>1 DEF AtIdle, Quiet
    <3>2. CASE Runs({"user", "intr"})
      BY <3>2, HandlersInCharge DEF Runs, MainRuns
    <3> QED
      BY <1>3, <3>1, <3>2 DEF MdmxUnusable
  <2>4. want' = [want EXCEPT !.mdmx = want'.mdmx] /\ want'.mdmx \in BOOLEAN
    <3>1. want' = want \/ want' = [want EXCEPT !.mdmx = TRUE]
      BY <1>3 DEF MdmxUnusable
    <3>2. want'.mdmx \in {want.mdmx, TRUE}
      BY <3>1 DEF Inv, TypeOK, HistoryType
    <3>3. want.mdmx \in BOOLEAN
      BY DEF Inv, TypeOK, HistoryType
    <3>4. want'.mdmx \in BOOLEAN
      BY <3>2, <3>3
    <3> QED
      BY <3>1, <3>4 DEF Inv, TypeOK, HistoryType
  <2> QED
    BY <2>1, <2>2, <2>3, <2>4, TakeStep DEF Codes
<1> QED
  BY <1>1, <1>2, <1>3

------------------------------------------------------------------------------
(* The steps of the library and of the handlers.                              *)

LEMMA TopFrame ==
  ASSUME Inv, Level > 0
  PROVE  Level \in 1 .. Len(frames) /\ Level \in 1 .. Level /\ Top \in Frame
  BY DEF Inv, TypeOK, ContextType, Level, Top

LEMMA MainIE ==
  ASSUME Inv, Quiet
  PROVE  IE(IF Level > 0 THEN frames[1].status ELSE status) = want.ie
  BY InCharge DEF Inv, Working

LEMMA Levelled ==
  ASSUME Inv PROVE Level \in Nat /\ Level \in Levels /\ MaxDepth \in Nat
  BY DepthAssumption DEF Inv, TypeOK, ContextType, Levels

(* The exception's frame is laid on the stack.                                *)
LEMMA DispatchAsmStep == ASSUME Inv, exlib_dispatch_asm PROVE Inv'
<1> DEFINE f == [code |-> cpu.code, epc |-> cpu.epc, status |-> status,
                 fp |-> NothingSaved, func |-> "none"]
<1>1. /\ cpu.phase = "entry" /\ frames' = Append(frames, f)
      /\ status' = status \ {"EXL", "IE"}
      /\ cpu' = [cpu EXCEPT !.phase = "dispatch"]
      /\ UNCHANGED <<iv, vec, cerr, library, main, owner, env, want>>
  BY DEF exlib_dispatch_asm
<1>2. /\ cpu.epc.level = Level /\ Level < MaxDepth /\ Level \in Nat
      /\ MaxDepth \in Nat
      /\ cpu.epc.phase \in {"run", "return"} /\ (cpu.epc.phase = "return" => Level > 0)
      /\ (Level > 0 => Top.func \in {"user", "intr"})
      /\ (cpu.code = "MDMX" => "MX" \notin status)
  BY <1>1, Levelled DEF Inv, Phase
<1>3. f \in Frame
  BY DEF Frame, Inv, TypeOK, ContextType, MachineType, NothingSaved, Funcs
<1>4. /\ frames' \in Seq(Frame) /\ Level' = Level + 1
      /\ \A i \in 1 .. Level : frames'[i] = frames[i]
      /\ frames'[Level + 1] = f
  BY <1>1, <1>3, Pushed DEF Level, Inv, TypeOK, ContextType
<1>5. cpu'.phase = "dispatch" /\ Top' = f /\ ContextType'
  <2>1. /\ cpu' \in [phase : Phases, epc : Origin, code : Codes]
        /\ cpu'.phase = "dispatch"
    BY <1>1 DEF Inv, TypeOK, ContextType, Phases
  <2>2. Level' \in Levels
    BY <1>2, <1>4 DEF Levels
  <2> QED
    BY <1>1, <1>4, <2>1, <2>2 DEF Top, Inv, TypeOK, ContextType
<1>6. f.code = cpu.code /\ f.epc = cpu.epc /\ f.status = status
      /\ f.fp = NothingSaved /\ f.func = "none"
  OBVIOUS
<1> HIDE DEF f
<1>7. Quiet
  BY <1>1, HandlersInCharge DEF MainRuns
<1>8. /\ MachineType' /\ LibraryType' /\ MainType'
      /\ CacheErrorsHandled' /\ Stage' /\ Working' /\ Table'
  <2>1. status' \in SUBSET Bits /\ "BEV" \notin status'
    BY <1>1, <1>7, InCharge DEF Inv, TypeOK, MachineType, Ours
  <2>2. IE(IF Level' > 0 THEN frames'[1].status ELSE status') = want.ie
    <3>1. CASE Level = 0
      BY <3>1, <1>4, <1>6, <1>7, MainIE
    <3>2. CASE Level > 0
      BY <3>2, <1>2, <1>4, <1>7, MainIE
    <3> QED
      BY <1>2, <3>1, <3>2
  <2> QED
    BY <1>1, <1>7, <2>1, <2>2, Around
<1>9. Stack'
  <2> SUFFICES ASSUME NEW i \in 1 .. Level'
               PROVE  /\ frames'[i].epc.level = i - 1
                      /\ frames'[i].epc.phase \in {"run", "return"}
                      /\ frames'[i].epc.phase = "return" => i > 1
                      /\ "BEV" \notin frames'[i].status
                      /\ i < Level' => frames'[i].func \in {"user", "intr"}
                      /\ frames'[i].func \in {"user", "intr"} =>
                           /\ frames'[i].code # "MDMX"
                           /\ \A g \in Need[frames'[i].code] :
                                frames'[i].fp[g] = NotSaved =>
                                  g = "MDMXACC" /\ "MX" \notin frames'[i].status
    BY DEF Stack
  <2>1. CASE i = Level + 1
    BY <2>1, <1>2, <1>4, <1>6, <1>7, InCharge DEF Ours
  <2>2. CASE i \in 1 .. Level
    <3>1. frames'[i] = frames[i]
      BY <2>2, <1>4
    <3>2. frames[i].func \in {"user", "intr"}
      BY <2>2, <1>2 DEF Inv, Stack, Top
    <3> QED
      BY <2>2, <3>1, <3>2 DEF Inv, Stack
  <2> QED
    BY <1>2, <1>4, <2>1, <2>2
<1>10. Phase'
  BY <1>1, <1>2, <1>4, <1>5, <1>6 DEF Phase
<1>11. PanicJustified' /\ Restored'
  BY <1>5 DEF PanicJustified, Restored
<1>12. \A i \in want.acc : i \in Nat /\ i <= Level /\ "MX" \in status
  BY <1>1 DEF Inv, InUse, TypeOK, HistoryType, Levels
<1>13. InUse'
  <2> SUFFICES ASSUME NEW i \in want.acc
               PROVE  /\ i <= Level + 1 /\ "MX" \in status'
                      /\ \A j \in 1 .. Level + 1 : i < j => "MX" \in frames'[j].status
    BY <1>1, <1>4 DEF InUse
  <2>1. i <= Level + 1 /\ "MX" \in status'
    BY <1>1, <1>2, <1>12
  <2>2. \A j \in 1 .. Level : i < j => "MX" \in frames'[j].status
    BY <1>4 DEF Inv, InUse
  <2>3. "MX" \in frames'[Level + 1].status
    BY <1>4, <1>6, <1>12
  <2> QED
    BY <1>2, <2>1, <2>2, <2>3
<1>14. Owned'
  <2> SUFFICES ASSUME NEW g \in FPGroups, NEW i \in 0 .. Level + 1,
                      g = "CALLER" \/ i \in want.acc
               PROVE  /\ Unsaved(g, i, Level + 1)' => owner[g] <= i
                      /\ \A k \in 1 .. Level + 1 :
                           i < k /\ Unsaved(g, i, k)' => frames'[k].fp[g] <= i
    BY <1>1, <1>4 DEF Owned
  <2>1. /\ \A k \in 1 .. Level + 1 : Unsaved(g, i, k)' => Unsaved(g, i, k)
        /\ Unsaved(g, i, Level + 1)' => Unsaved(g, i, Level + 1)
    BY <1>2, <1>4 DEF Unsaved
  <2>2. owner[g] \in Nat
    BY <1>2 DEF Inv, TypeOK, ContextType, Levels
  <2>3. CASE i \in 0 .. Level
    <3>1. Unsaved(g, i, Level + 1)' => owner[g] <= i
      BY <2>1, <2>3, <1>1, <1>2 DEF Inv, Owned
    <3>2. \A k \in 1 .. Level : i < k /\ Unsaved(g, i, k)' => frames'[k].fp[g] <= i
      BY <2>1, <2>3, <1>2, <1>4 DEF Inv, Owned
    <3>3. frames'[Level + 1].fp[g] = NotSaved
      BY <1>4, <1>6 DEF NothingSaved
    <3> QED
      BY <3>1, <3>2, <3>3, <1>2 DEF NotSaved
  <2>4. CASE i = Level + 1
    <3>1. g = "CALLER"
      BY <2>4, <1>2, <1>12
    <3>2. owner[g] <= Level
      BY <3>1, <1>1, <1>2 DEF Inv, Owned, Unsaved
    <3> QED
      BY <2>4, <3>2, <2>2, <1>2
  <2> QED
    BY <1>2, <2>3, <2>4
<1> QED
  BY <1>1, <1>5, <1>8, <1>9, <1>10, <1>11, <1>13, <1>14 DEF Inv, TypeOK, HistoryType

(* A step of the innermost exception that lays no frame down nor takes one    *)
(* off: what is left to show is about the top frame and the registers.        *)
LEMMA TopStep ==
  ASSUME Inv, ~MainRuns, UNCHANGED <<iv, vec, cerr, library, main, env>>,
         UNCHANGED want \/ want' = [want EXCEPT !.acc = @ \union {Level}],
         status' \in SUBSET Bits, "BEV" \notin status',
         Level > 0, frames' \in Seq(Frame), Level' = Level,
         \A i \in 1 .. Level : i < Level => frames'[i] = frames[i],
         Top'.epc = Top.epc, IE(Top'.status) = IE(Top.status),
         "BEV" \notin Top'.status,
         cpu' \in [phase : Phases, epc : Origin, code : Codes],
         owner' \in [FPGroups -> Levels]
  PROVE  /\ TypeOK' /\ CacheErrorsHandled' /\ Stage' /\ Working' /\ Table'
         /\ Top' = frames'[Level] /\ Top = frames[Level]
<1>1. Quiet /\ Level \in Nat /\ Level \in Levels
  BY HandlersInCharge, Levelled
<1>2. Top' = frames'[Level] /\ Top = frames[Level]
  BY DEF Top
<1>3. want'.ie = want.ie /\ want'.installed = want.installed
      /\ (0 \in want'.acc => 0 \in want.acc) /\ HistoryType'
  BY <1>1 DEF Inv, TypeOK, HistoryType
<1>4. IE(frames'[1].status) = want.ie
  <2>1. IE(frames[1].status) = want.ie
    BY <1>1, MainIE
  <2>2. CASE Level = 1
    BY <2>1, <2>2, <1>2
  <2>3. CASE Level > 1
    BY <2>1, <2>3, <1>1
  <2> QED
    BY <1>1, <2>2, <2>3
<1>5. /\ MachineType' /\ LibraryType' /\ MainType'
      /\ CacheErrorsHandled' /\ Stage' /\ Working' /\ Table'
  BY <1>1, <1>3, <1>4, Around
<1>6. ContextType'
  BY <1>1 DEF ContextType
<1> QED
  BY <1>2, <1>3, <1>5, <1>6 DEF TypeOK

(* The invariant's parts about the frames, when those below the top stay.     *)
LEMMA StackStep ==
  ASSUME Inv, Level > 0, Level' = Level, Top = frames[Level], Top' = frames'[Level],
         \A i \in 1 .. Level : i < Level => frames'[i] = frames[i],
         Top'.epc = Top.epc, "BEV" \notin Top'.status,
         Top'.func \in {"user", "intr"} =>
           /\ Top'.code # "MDMX"
           /\ \A g \in Need[Top'.code] :
                Top'.fp[g] = NotSaved => g = "MDMXACC" /\ "MX" \notin Top'.status
  PROVE  Stack'
<1>1. Level \in Nat
  BY Levelled
<1> SUFFICES ASSUME NEW i \in 1 .. Level
             PROVE  /\ frames'[i].epc.level = i - 1
                    /\ frames'[i].epc.phase \in {"run", "return"}
                    /\ frames'[i].epc.phase = "return" => i > 1
                    /\ "BEV" \notin frames'[i].status
                    /\ i < Level => frames'[i].func \in {"user", "intr"}
                    /\ frames'[i].func \in {"user", "intr"} =>
                         /\ frames'[i].code # "MDMX"
                         /\ \A g \in Need[frames'[i].code] :
                              frames'[i].fp[g] = NotSaved =>
                                g = "MDMXACC" /\ "MX" \notin frames'[i].status
  BY DEF Stack
<1>2. CASE i = Level
  BY <1>1, <1>2 DEF Inv, Stack
<1>3. CASE i < Level
  <2>1. frames'[i] = frames[i]
    BY <1>3
  <2> QED
    BY <1>3, <2>1 DEF Inv, Stack
<1> QED
  BY <1>1, <1>2, <1>3

LEMMA SameFrames ==
  ASSUME Inv, frames' = frames, ~MainRuns, Level > 0
  PROVE  /\ frames' \in Seq(Frame) /\ Level' = Level /\ Top' = Top
         /\ \A i \in 1 .. Level : i < Level => frames'[i] = frames[i]
         /\ "BEV" \notin Top.status /\ "BEV" \notin status /\ Stack'
<1>1. Level' = Level /\ Top' = Top
  BY DEF Level, Top
<1>2. "BEV" \notin status
  BY HandlersInCharge, InCharge DEF Ours
<1>3. "BEV" \notin Top.status
  BY TopFrame DEF Inv, Stack, Top
<1> QED
  BY <1>1, <1>2, <1>3 DEF Inv, Stack, TypeOK, ContextType

LEMMA HandlerReturnsStep == ASSUME Inv, HandlerReturns PROVE Inv'
<1>1. /\ Level > 0 /\ cpu.phase = "run" /\ Top.func \in {"user", "intr"}
      /\ cpu' = [cpu EXCEPT !.phase = "return"]
      /\ status' = status /\ frames' = frames /\ owner' = owner /\ want' = want
      /\ UNCHANGED <<iv, vec, cerr, library, main, env>> /\ ~MainRuns
  BY DEF HandlerReturns, Runs, machine, MainRuns
<1>2. cpu' \in [phase : Phases, epc : Origin, code : Codes] /\ cpu'.phase = "return"
  BY <1>1 DEF Inv, TypeOK, ContextType, Phases
<1>3. /\ TypeOK' /\ CacheErrorsHandled' /\ Stage' /\ Working' /\ Table' /\ Stack'
      /\ Level' = Level /\ Top' = Top
  <2>1. status \in SUBSET Bits /\ owner \in [FPGroups -> Levels]
    BY DEF Inv, TypeOK, MachineType, ContextType
  <2> QED
    BY <2>1, <1>1, <1>2, SameFrames, TopStep
<1>4. Phase' /\ PanicJustified' /\ Restored'
  BY <1>1, <1>3 DEF Phase, PanicJustified, Restored
<1>5. InUse'
  BY <1>1, <1>2, <1>3 DEF Inv, InUse
<1>6. Owned'
  BY <1>1, <1>2, <1>3 DEF Inv, Owned, Unsaved
<1> QED
  BY <1>3, <1>4, <1>5, <1>6 DEF Inv

LEMMA HandlerEnablesIEStep == ASSUME Inv, HandlerEnablesIE PROVE Inv'
<1>1. /\ Level > 0 /\ cpu.phase = "run" /\ Top.func \in {"user", "intr"}
      /\ status' = status \union {"IE"}
      /\ cpu' = cpu /\ frames' = frames /\ owner' = owner /\ want' = want
      /\ UNCHANGED <<iv, vec, cerr, library, main, env>> /\ ~MainRuns
  BY DEF HandlerEnablesIE, Runs, context, MainRuns
<1>2. /\ TypeOK' /\ CacheErrorsHandled' /\ Stage' /\ Working' /\ Table' /\ Stack'
      /\ Level' = Level /\ Top' = Top
  <2>1. status' \in SUBSET Bits /\ owner \in [FPGroups -> Levels]
        /\ cpu \in [phase : Phases, epc : Origin, code : Codes]
    BY <1>1 DEF Inv, TypeOK, MachineType, ContextType, Bits
  <2>2. "BEV" \notin status'
    BY <1>1, SameFrames
  <2> QED
    BY <2>1, <2>2, <1>1, SameFrames, TopStep
<1>3. Phase' /\ PanicJustified' /\ Restored'
  BY <1>1, <1>2 DEF Inv, Phase, PanicJustified, Restored
<1>4. InUse'
  BY <1>1, <1>2 DEF Inv, InUse
<1>5. Owned'
  BY <1>1, <1>2 DEF Inv, Owned, Unsaved
<1> QED
  BY <1>2, <1>3, <1>4, <1>5 DEF Inv

LEMMA RestoreStatusStep == ASSUME Inv, RestoreStatus PROVE Inv'
<1>1. /\ Level > 0 /\ cpu.phase = "return" /\ status' = Top.status \union {"EXL"}
      /\ cpu' = [cpu EXCEPT !.phase = "restore"]
      /\ frames' = frames /\ owner' = owner /\ want' = want
      /\ UNCHANGED <<iv, vec, cerr, library, main, env>> /\ ~MainRuns
  BY DEF RestoreStatus, Inv, Phase, MainRuns
<1>2. cpu' \in [phase : Phases, epc : Origin, code : Codes] /\ cpu'.phase = "restore"
  BY <1>1 DEF Inv, TypeOK, ContextType, Phases
<1>3. /\ TypeOK' /\ CacheErrorsHandled' /\ Stage' /\ Working' /\ Table' /\ Stack'
      /\ Level' = Level /\ Top' = Top
  <2>1. Top.status \in SUBSET Bits /\ owner \in [FPGroups -> Levels]
    BY <1>1, TopFrame DEF Frame, Inv, TypeOK, ContextType
  <2>2. status' \in SUBSET Bits /\ "BEV" \notin status'
    BY <2>1, <1>1, SameFrames DEF Bits
  <2> QED
    BY <2>1, <2>2, <1>1, <1>2, SameFrames, TopStep
<1>4. Phase' /\ PanicJustified' /\ Restored'
  BY <1>1, <1>2, <1>3 DEF Phase, PanicJustified, Restored
<1>5. InUse'
  <2> SUFFICES ASSUME NEW i \in want.acc
               PROVE  /\ i <= Level
                      /\ \A j \in 1 .. Level : i < j => "MX" \in frames[j].status
                      /\ "MX" \in status' \/ i = Level
    BY <1>1, <1>2, <1>3 DEF InUse
  <2>1. i \in Nat /\ Level \in Nat /\ i <= Level
        /\ \A j \in 1 .. Level : i < j => "MX" \in frames[j].status
    BY Levelled DEF Inv, InUse, TypeOK, HistoryType, Levels
  <2> QED
    BY <2>1, <1>1 DEF Top
<1>6. Owned'
  BY <1>1, <1>2, <1>3 DEF Inv, Owned, Unsaved
<1> QED
  BY <1>3, <1>4, <1>5, <1>6 DEF Inv

(* The registers of the frame come back, and with them what the level below   *)
(* had in them.                                                               *)
LEMMA RestoreRegistersStep == ASSUME Inv, RestoreRegisters PROVE Inv'
<1>1. /\ Level > 0 /\ cpu.phase = "restore" /\ status' = status
      /\ owner' = [g \in FPGroups |-> IF Top.fp[g] # NotSaved THEN Top.fp[g] ELSE owner[g]]
      /\ cpu' = [cpu EXCEPT !.phase = "eret", !.epc = Top.epc]
      /\ frames' = frames /\ want' = want
      /\ UNCHANGED <<iv, vec, cerr, library, main, env>> /\ ~MainRuns
  BY DEF RestoreRegisters, Inv, Phase, MainRuns, machine
<1>2. Top \in Frame
  BY <1>1, TopFrame
<1>3. /\ cpu' \in [phase : Phases, epc : Origin, code : Codes]
      /\ cpu'.phase = "eret" /\ cpu'.epc = Top.epc
  BY <1>1, <1>2 DEF Inv, TypeOK, ContextType, Phases, Frame
<1>4. owner' \in [FPGroups -> Levels]
  BY <1>1, <1>2 DEF Frame, Inv, TypeOK, ContextType
<1>5. /\ TypeOK' /\ CacheErrorsHandled' /\ Stage' /\ Working' /\ Table' /\ Stack'
      /\ Level' = Level /\ Top' = Top
  <2>1. status \in SUBSET Bits
    BY DEF Inv, TypeOK, MachineType
  <2> QED
    BY <2>1, <1>1, <1>3, <1>4, SameFrames, TopStep
<1>6. Phase' /\ PanicJustified'
  BY <1>1, <1>3, <1>5 DEF Inv, Phase, PanicJustified
<1>7. Restored'
  BY <1>1, <1>5 DEF Restored
<1>8. InUse'
  BY <1>1, <1>3, <1>5 DEF Inv, InUse
<1>9. Owned'
  <2> SUFFICES ASSUME NEW g \in FPGroups, NEW i \in 0 .. Level,
                      g = "CALLER" \/ i \in want.acc
               PROVE  Unsaved(g, i, Level + 1) => owner'[g] <= i \/ i = Level
    BY <1>1, <1>3, <1>5 DEF Inv, Owned, Unsaved
  <2>1. CASE i < Level /\ Unsaved(g, i, Level + 1)
    <3>1. Top.fp[g] = NotSaved
      BY <2>1, <1>1, Levelled DEF Unsaved, Top
    <3>2. owner'[g] = owner[g]
      BY <3>1, <1>1
    <3> QED
      BY <2>1, <3>2, <1>1 DEF Inv, Owned
  <2> QED
    BY <2>1, Levelled
<1> QED
  BY <1>5, <1>6, <1>7, <1>8, <1>9 DEF Inv

(* The handler saved every register it computes in that a level below needs.  *)
LEMMA HandlerComputesStep == ASSUME Inv, HandlerComputes PROVE Inv'
<1> DEFINE Uses == Need[Top.code]
<1>1. /\ Level > 0 /\ cpu.phase = "run" /\ Top.func \in {"user", "intr"}
      /\ ("MDMXACC" \in Uses => "MX" \in status)
      /\ owner' = [g \in FPGroups |-> IF g \in Uses THEN Level ELSE owner[g]]
      /\ want' = [want EXCEPT !.acc = IF "MDMXACC" \in Uses THEN @ \union {Level} ELSE @]
      /\ status' = status /\ cpu' = cpu /\ frames' = frames
      /\ UNCHANGED <<iv, vec, cerr, library, main, env>> /\ ~MainRuns
  BY DEF HandlerComputes, Runs, machine, MainRuns
<1>2. want'.acc = IF "MDMXACC" \in Uses THEN want.acc \union {Level} ELSE want.acc
  BY <1>1 DEF Inv, TypeOK, HistoryType
<1>3. Level \in 1 .. Level /\ Level \in Nat /\ Level \in Levels /\ Top = frames[Level]
  BY <1>1, Levelled DEF Top
<1>4. \A g \in Uses : Top.fp[g] = NotSaved => g = "MDMXACC" /\ "MX" \notin Top.status
  BY <1>1, <1>3 DEF Inv, Stack
<1> HIDE DEF Uses
<1>5. /\ TypeOK' /\ CacheErrorsHandled' /\ Stage' /\ Working' /\ Table' /\ Stack'
      /\ Level' = Level /\ Top' = Top
  <2>1. /\ status \in SUBSET Bits /\ owner' \in [FPGroups -> Levels]
        /\ cpu \in [phase : Phases, epc : Origin, code : Codes]
    BY <1>1, <1>3 DEF Inv, TypeOK, MachineType, ContextType
  <2>2. UNCHANGED want \/ want' = [want EXCEPT !.acc = @ \union {Level}]
    BY <1>1 DEF Inv, TypeOK, HistoryType
  <2> QED
    BY <2>1, <2>2, <1>1, SameFrames, TopStep
<1>6. Phase' /\ PanicJustified' /\ Restored'
  BY <1>1, <1>5 DEF Inv, Phase, PanicJustified, Restored
<1>7. InUse'
  <2> SUFFICES ASSUME NEW i \in want'.acc
               PROVE  /\ i <= Level /\ "MX" \in status
                      /\ \A j \in 1 .. Level : i < j => "MX" \in frames[j].status
    BY <1>1, <1>5 DEF InUse
  <2>1. CASE i \in want.acc
    BY <2>1, <1>1 DEF Inv, InUse
  <2>2. CASE i = Level /\ "MDMXACC" \in Uses
    BY <2>2, <1>1, <1>3
  <2> QED
    BY <2>1, <2>2, <1>2
<1>8. Owned'
  <2> SUFFICES ASSUME NEW g \in FPGroups, NEW i \in 0 .. Level,
                      g = "CALLER" \/ i \in want'.acc
               PROVE  /\ Unsaved(g, i, Level + 1) => owner'[g] <= i
                      /\ \A k \in 1 .. Level :
                           i < k /\ Unsaved(g, i, k) => frames[k].fp[g] <= i
    BY <1>1, <1>5 DEF Owned, Unsaved
  <2>1. CASE i = Level
    <3>1. \A k \in 1 .. Level : ~(i < k)
      BY <2>1, <1>3
    <3>2. owner'[g] <= Level
      <4>1. CASE g \in Uses
        BY <4>1, <1>1, <1>3
      <4>2. CASE g \notin Uses
        <5>1. g = "CALLER" \/ i \in want.acc
          BY <4>2, <1>2 DEF FPGroups
        <5>2. Unsaved(g, i, Level + 1)
          BY <2>1, <1>3 DEF Unsaved
        <5> QED
          BY <4>2, <5>1, <5>2, <2>1, <1>1 DEF Inv, Owned
      <4> QED
        BY <4>1, <4>2
    <3> QED
      BY <2>1, <3>1, <3>2
  <2>2. CASE i < Level
    <3>1. g = "CALLER" \/ i \in want.acc
      BY <2>2, <1>2, <1>3
    <3>2. \A k \in 1 .. Level : i < k /\ Unsaved(g, i, k) => frames[k].fp[g] <= i
      BY <3>1 DEF Inv, Owned
    <3>3. CASE g \notin Uses
      BY <3>1, <3>3, <1>1, <2>2 DEF Inv, Owned
    <3>4. CASE g \in Uses
      <4>1. i \in want.acc => "MX" \in Top.status
        BY <2>2, <1>3 DEF Inv, InUse
      <4>2. Top.fp[g] # NotSaved
        BY <3>1, <3>4, <4>1, <1>4
      <4>3. ~Unsaved(g, i, Level + 1)
        BY <2>2, <4>2, <1>3 DEF Unsaved
      <4> QED
        BY <3>2, <4>3
    <3> QED
      BY <3>2, <3>3, <3>4
  <2> QED
    BY <2>1, <2>2, <1>3
<1> QED
  BY <1>5, <1>6, <1>7, <1>8 DEF Inv

(* What a level is owed does not change with the rest of a frame.             *)
LEMMA Kept ==
  ASSUME Inv, Level' = Level, owner' = owner, want' = want, status' = status,
         cpu.phase \notin {"restore", "eret"},
         \A i \in 1 .. Level :
           /\ frames'[i].fp = frames[i].fp
           /\ "MX" \in frames[i].status => "MX" \in frames'[i].status
  PROVE  InUse' /\ Owned'
<1>1. InUse'
  <2> SUFFICES ASSUME NEW i \in want.acc
               PROVE  /\ i <= Level /\ "MX" \in status
                      /\ \A j \in 1 .. Level : i < j => "MX" \in frames'[j].status
    BY DEF InUse
  <2> QED
    BY DEF Inv, InUse
<1>2. Owned'
  <2> SUFFICES ASSUME NEW g \in FPGroups, NEW i \in 0 .. Level,
                      g = "CALLER" \/ i \in want.acc
               PROVE  /\ Unsaved(g, i, Level + 1)' => owner[g] <= i
                      /\ \A k \in 1 .. Level :
                           i < k /\ Unsaved(g, i, k)' => frames'[k].fp[g] <= i
    BY DEF Owned
  <2>1. Unsaved(g, i, Level + 1)' => Unsaved(g, i, Level + 1)
    BY DEF Unsaved
  <2>2. Unsaved(g, i, Level + 1) => owner[g] <= i
    BY DEF Inv, Owned
  <2>3. \A k \in 1 .. Level : i < k /\ Unsaved(g, i, k) => frames[k].fp[g] <= i
    BY DEF Inv, Owned
  <2>4. \A k \in 1 .. Level : Unsaved(g, i, k)' => Unsaved(g, i, k)
    BY DEF Unsaved
  <2> QED
    BY <2>1, <2>2, <2>3, <2>4
<1> QED
  BY <1>1, <1>2

(* MDMX is enabled in the frame, or the processor has none.                   *)
LEMMA MdmxEnableStep == ASSUME Inv, exhandler_mdmxenable PROVE Inv'
<1> DEFINE f == [Top EXCEPT !.status = @ \union {"MX"}]
<1>1. /\ Level > 0 /\ cpu.phase = "run" /\ Top.func = "mdmxenable"
      /\ status' = status /\ owner' = owner /\ want' = want
      /\ UNCHANGED <<iv, vec, cerr, library, main, env>> /\ ~MainRuns
  BY DEF exhandler_mdmxenable, Runs, machine, MainRuns
<1>2. "IE" \notin status /\ Top.code = "MDMX" /\ "MX" \notin Top.status
  BY <1>1 DEF Inv, Phase
<1>3. /\ Level \in 1 .. Len(frames) /\ Level \in 1 .. Level /\ Top \in Frame
      /\ Level \in Nat /\ Top = frames[Level]
  BY <1>1, TopFrame, Levelled DEF Top
<1>4. status \in SUBSET Bits /\ owner \in [FPGroups -> Levels]
      /\ cpu \in [phase : Phases, epc : Origin, code : Codes]
  BY DEF Inv, TypeOK, MachineType, ContextType
<1>5. CASE ~HasMDMX
  <2>1. frames' = frames /\ cpu' = [cpu EXCEPT !.phase = "panic"]
    BY <1>5, <1>1 DEF exhandler_mdmxenable
  <2>2. cpu' \in [phase : Phases, epc : Origin, code : Codes] /\ cpu'.phase = "panic"
    BY <2>1, <1>4 DEF Phases
  <2>3. /\ TypeOK' /\ CacheErrorsHandled' /\ Stage' /\ Working' /\ Table'
        /\ Stack' /\ Level' = Level /\ Top' = Top
    BY <1>1, <1>4, <2>1, <2>2, SameFrames, TopStep
  <2>4. Phase' /\ PanicJustified' /\ Restored'
    BY <1>1, <1>2, <1>5, <2>2, <2>3 DEF Phase, PanicJustified, Restored
  <2>5. InUse'
    BY <1>1, <2>1, <2>2, <2>3 DEF Inv, InUse
  <2>6. Owned'
    BY <1>1, <2>1, <2>2, <2>3 DEF Inv, Owned, Unsaved
  <2> QED
    BY <2>3, <2>4, <2>5, <2>6 DEF Inv
<1>6. CASE HasMDMX
  <2>1. /\ frames' = [frames EXCEPT ![Level] = f] /\ cpu' = [cpu EXCEPT !.phase = "return"]
    BY <1>6, <1>1, <1>2, <1>3 DEF exhandler_mdmxenable
  <2>2. cpu' \in [phase : Phases, epc : Origin, code : Codes] /\ cpu'.phase = "return"
    BY <2>1, <1>4 DEF Phases
  <2>3. /\ f \in Frame /\ f.code = Top.code /\ f.epc = Top.epc /\ f.fp = Top.fp
        /\ f.func = Top.func /\ f.status = Top.status \union {"MX"}
    BY <1>3 DEF Frame, Bits
  <2> HIDE DEF f
  <2>4. /\ frames' \in Seq(Frame) /\ Level' = Level /\ Top' = f
        /\ \A i \in 1 .. Level : frames'[i] = IF i = Level THEN f ELSE frames[i]
    <3>1. frames \in Seq(Frame) /\ Level = Len(frames)
      BY DEF Inv, TypeOK, ContextType, Level
    <3>2. /\ frames' \in Seq(Frame) /\ Len(frames') = Len(frames)
          /\ \A i \in 1 .. Len(frames) : frames'[i] = IF i = Level THEN f ELSE frames[i]
      BY <3>1, <2>1, <2>3, <1>3, Replaced
    <3> QED
      BY <3>1, <3>2, <1>3 DEF Level, Top
  <2>5. "BEV" \notin f.status /\ IE(f.status) = IE(Top.status) /\ "BEV" \notin status
    <3>1. "BEV" \notin Top.status /\ "BEV" \notin status
      BY <1>1, <1>3, HandlersInCharge, InCharge DEF Inv, Stack, Ours
    <3> QED
      BY <3>1, <2>3 DEF IE
  <2>6. TypeOK' /\ CacheErrorsHandled' /\ Stage' /\ Working' /\ Table'
    <3>1. /\ Top'.epc = Top.epc /\ IE(Top'.status) = IE(Top.status)
          /\ "BEV" \notin Top'.status
      BY <2>3, <2>4, <2>5
    <3>2. \A i \in 1 .. Level : i < Level => frames'[i] = frames[i]
      BY <2>4
    <3> QED
      BY <1>1, <1>4, <2>2, <2>4, <2>5, <3>1, <3>2, TopStep
  <2>7. Stack'
    <3>1. /\ Top' = frames'[Level] /\ Top'.epc = Top.epc /\ "BEV" \notin Top'.status
          /\ Top'.func \notin {"user", "intr"}
          /\ \A i \in 1 .. Level : i < Level => frames'[i] = frames[i]
      BY <1>1, <1>3, <2>3, <2>4, <2>5
    <3> QED
      BY <1>1, <1>3, <2>4, <3>1, StackStep
  <2>8. Phase' /\ PanicJustified' /\ Restored'
    BY <1>1, <1>2, <2>2, <2>3, <2>4 DEF Phase, PanicJustified, Restored
  <2>9. InUse' /\ Owned'
    <3>1. \A i \in 1 .. Level :
            /\ frames'[i].fp = frames[i].fp
            /\ "MX" \in frames[i].status => "MX" \in frames'[i].status
      BY <1>3, <2>3, <2>4
    <3> QED
      BY <1>1, <2>4, <3>1, Kept
  <2> QED
    BY <2>6, <2>7, <2>8, <2>9 DEF Inv
<1> QED
  BY <1>5, <1>6

(* The registers are saved, and the function of the table is called.          *)
LEMMA DispatchStep == ASSUME Inv, exlib_dispatch PROVE Inv'
<1> DEFINE h == handlers[Top.code]  saves == exframe_save_fp(h.mask)
           f == [Top EXCEPT !.fp = saves, !.func = h.func]
           phase == IF h.func = "panic" THEN "panic" ELSE "run"
<1>1. /\ cpu.phase = "dispatch" /\ cpu' = [cpu EXCEPT !.phase = phase]
      /\ status' = status /\ owner' = owner /\ want' = want
      /\ UNCHANGED <<iv, vec, cerr, library, main, env>> /\ ~MainRuns
  BY DEF exlib_dispatch, machine, MainRuns
<1>2. /\ Level > 0 /\ Top.func = "none" /\ Top.fp = NothingSaved /\ "IE" \notin status
      /\ (Top.code = "MDMX" => "MX" \notin Top.status)
  BY <1>1 DEF Inv, Phase
<1>3. /\ Level \in 1 .. Len(frames) /\ Level \in 1 .. Level /\ Top \in Frame
      /\ Level \in Nat /\ Top = frames[Level]
  BY <1>2, TopFrame, Levelled DEF Top
<1>4. /\ status \in SUBSET Bits /\ owner \in [FPGroups -> Levels] /\ MaxDepth \in Nat
      /\ cpu \in [phase : Phases, epc : Origin, code : Codes]
  BY Levelled DEF Inv, TypeOK, MachineType, ContextType
<1>5. h \in Entry /\ Quiet /\ Ours /\ Top.code \in Codes
  BY <1>1, <1>3, HandlersInCharge, InCharge DEF Frame, Inv, TypeOK, LibraryType
<1>6. /\ Top.code = "MDMX" => h.func = "mdmxenable"
      /\ Top.code = "INT" => h.func \in {"panic", "intr"}
      /\ Top.code = "OTHER" => h.func \in {"panic", "user"}
      /\ Top.code \in {"INT", "OTHER"} => Covers(h, Top.code)
  BY <1>5 DEF Ours, Tabled, Inv, Table
<1>7. /\ saves \in [FPGroups -> Levels \union {NotSaved}]
      /\ \A g \in FPGroups : saves[g] \in {owner[g], NotSaved}
      /\ \A g \in h.mask : saves[g] = NotSaved => g = "MDMXACC" /\ "MX" \notin Top.status
  BY <1>4, <1>5 DEF exframe_save_fp, Entry, NotSaved, Levels
<1>8. frames' = [frames EXCEPT ![Level] = f]
  BY <1>3 DEF exlib_dispatch
<1>9. cpu' \in [phase : Phases, epc : Origin, code : Codes] /\ cpu'.phase = phase
  BY <1>1, <1>4 DEF Phases
<1>10. /\ f \in Frame /\ f.code = Top.code /\ f.epc = Top.epc /\ f.status = Top.status
       /\ f.fp = saves /\ f.func = h.func
  BY <1>3, <1>5, <1>7 DEF Frame, Entry
<1> HIDE DEF f, saves, h
<1>11. /\ frames' \in Seq(Frame) /\ Level' = Level /\ Top' = f
       /\ \A i \in 1 .. Level : frames'[i] = IF i = Level THEN f ELSE frames[i]
  <2>1. frames \in Seq(Frame) /\ Level = Len(frames)
    BY DEF Inv, TypeOK, ContextType, Level
  <2>2. /\ frames' \in Seq(Frame) /\ Len(frames') = Len(frames)
        /\ \A i \in 1 .. Len(frames) : frames'[i] = IF i = Level THEN f ELSE frames[i]
    BY <2>1, <1>3, <1>8, <1>10, Replaced
  <2> QED
    BY <2>1, <2>2, <1>3 DEF Level, Top
<1>12. /\ Top'.epc = Top.epc /\ Top'.status = Top.status /\ "BEV" \notin Top.status
       /\ "BEV" \notin status
       /\ \A i \in 1 .. Level : i < Level => frames'[i] = frames[i]
  BY <1>3, <1>5, <1>10, <1>11 DEF Inv, Stack, Ours
<1>13. /\ TypeOK' /\ CacheErrorsHandled' /\ Stage' /\ Working' /\ Table'
       /\ Top' = frames'[Level]
  BY <1>1, <1>2, <1>4, <1>9, <1>11, <1>12, TopStep
<1>14. Stack'
  <2>1. f.func \in {"user", "intr"} =>
          /\ f.code # "MDMX"
          /\ \A g \in Need[f.code] :
               f.fp[g] = NotSaved => g = "MDMXACC" /\ "MX" \notin f.status
    BY <1>5, <1>6, <1>7, <1>10 DEF Covers, Codes
  <2> QED
    BY <2>1, <1>2, <1>3, <1>11, <1>12, <1>13, StackStep
<1>15. Phase' /\ Restored'
  BY <1>1, <1>2, <1>5, <1>6, <1>10, <1>11 DEF Phase, Restored, Codes
<1>16. PanicJustified'
  <2>1. UNCHANGED <<intr, main, want>> /\ Top'.code = Top.code
    BY <1>1, <1>10, <1>11 DEF library
  <2>2. CASE h.func = "panic"
    <3>1. Top.code \in {"INT", "OTHER"} /\ h = handlers[Top.code]
      BY <2>2, <1>5, <1>6 DEF Codes, h
    <3>2. Top.code = "INT" => ~intr.initted \/ main.at # "idle"
      BY <2>2, <3>1 DEF Inv, Table, Resting
    <3>3. Top.code = "OTHER" => "OTHER" \notin want.installed
      BY <2>2, <3>1 DEF Inv, Table
    <3> QED
      BY <2>1, <3>1, <3>2, <3>3 DEF PanicJustified
  <2>3. CASE h.func # "panic"
    BY <2>3, <1>9 DEF PanicJustified
  <2> QED
    BY <2>2, <2>3
<1>17. InUse'
  <2> SUFFICES ASSUME NEW i \in want.acc
               PROVE  /\ i <= Level /\ "MX" \in status
                      /\ \A j \in 1 .. Level : i < j => "MX" \in frames'[j].status
    BY <1>1, <1>11 DEF InUse
  <2>1. /\ i <= Level /\ "MX" \in status
        /\ \A j \in 1 .. Level : i < j => "MX" \in frames[j].status
    BY <1>1 DEF Inv, InUse
  <2>2. \A j \in 1 .. Level : frames'[j].status = frames[j].status
    BY <1>3, <1>10, <1>11
  <2> QED
    BY <2>1, <2>2
<1>18. Owned'
  <2> SUFFICES ASSUME NEW g \in FPGroups, NEW i \in 0 .. Level,
                      g = "CALLER" \/ i \in want.acc
               PROVE  /\ Unsaved(g, i, Level + 1)' => owner[g] <= i
                      /\ \A k \in 1 .. Level :
                           i < k /\ Unsaved(g, i, k)' => frames'[k].fp[g] <= i
    BY <1>1, <1>11 DEF Owned
  <2>1. \A j \in 1 .. Level : j < Level => frames'[j].fp[g] = frames[j].fp[g]
    BY <1>12
  <2>2. frames[Level].fp[g] = NotSaved
    BY <1>2, <1>3 DEF NothingSaved
  <2>3. \A k \in 1 .. Level : Unsaved(g, i, k)' => Unsaved(g, i, k)
    BY <2>1, <1>11, <1>3 DEF Unsaved
  <2>4. /\ \A k \in 1 .. Level : k = Level /\ Unsaved(g, i, k)' => Unsaved(g, i, Level + 1)
        /\ Unsaved(g, i, Level + 1)' => Unsaved(g, i, Level + 1)
    BY <2>1, <2>2, <1>11, <1>3 DEF Unsaved
  <2>5. Unsaved(g, i, Level + 1) => owner[g] <= i
    BY <1>1 DEF Inv, Owned
  <2>6. \A k \in 1 .. Level : i < k /\ Unsaved(g, i, k) => frames[k].fp[g] <= i
    BY DEF Inv, Owned
  <2>7. frames'[Level].fp[g] \in {owner[g], NotSaved}
    BY <1>3, <1>7, <1>10, <1>11
  <2>8. \A k \in 1 .. Level : i < k /\ Unsaved(g, i, k)' => frames'[k].fp[g] <= i
    <3> SUFFICES ASSUME NEW k \in 1 .. Level, i < k, Unsaved(g, i, k)'
                 PROVE  frames'[k].fp[g] <= i
      OBVIOUS
    <3>1. CASE k = Level
      <4>1. owner[g] <= i
        BY <3>1, <2>4, <2>5
      <4>2. NotSaved <= i
        BY DEF NotSaved
      <4>3. frames'[k].fp[g] \in {owner[g], NotSaved}
        BY <3>1, <2>7
      <4> QED
        BY <4>1, <4>2, <4>3
    <3>2. CASE k < Level
      BY <3>2, <2>1, <2>3, <2>6
    <3> QED
      BY <3>1, <3>2, <1>3
  <2> QED
    BY <2>4, <2>5, <2>8
<1> QED
  BY <1>13, <1>14, <1>15, <1>16, <1>17, <1>18 DEF Inv

(* The exception returns to what it came from.                                *)
LEMMA EretStep == ASSUME Inv, Eret PROVE Inv'
<1> DEFINE n == Level - 1
<1>1. /\ cpu.phase = "eret" /\ status' = status \ {"EXL"}
      /\ frames' = SubSeq(frames, 1, cpu.epc.level)
      /\ cpu' = [cpu EXCEPT !.phase = cpu.epc.phase]
      /\ want' = [want EXCEPT !.acc = @ \ {Level}]
      /\ UNCHANGED <<iv, vec, cerr, library, main, owner, env>> /\ ~MainRuns
  BY DEF Eret, MainRuns
<1>2. Level > 0 /\ cpu.epc = Top.epc /\ status = Top.status \union {"EXL"}
  BY <1>1 DEF Inv, Phase
<1>3. /\ Level \in 1 .. Level /\ Level \in Nat /\ Level \in Levels /\ MaxDepth \in Nat
      /\ n \in Nat /\ Level = n + 1 /\ Top = frames[Level] /\ Top \in Frame
  BY <1>2, TopFrame, Levelled DEF Top
<1> HIDE DEF n
<1>4. /\ cpu.epc.level = n /\ cpu.epc.phase \in {"run", "return"}
      /\ cpu.epc.phase = "return" => Level > 1
      /\ "BEV" \notin Top.status
      /\ \A i \in 1 .. n : frames[i].func \in {"user", "intr"} /\ frames[i].code # "MDMX"
  BY <1>2, <1>3 DEF Inv, Stack
<1>5. /\ frames' \in Seq(Frame) /\ Level' = n /\ n \in Levels
      /\ \A i \in 1 .. n : frames'[i] = frames[i]
  <2>1. frames \in Seq(Frame) /\ n \in 0 .. Len(frames)
    BY <1>3 DEF Inv, TypeOK, ContextType, Level
  <2> QED
    BY <2>1, <1>1, <1>3, <1>4, Popped DEF Level, Levels
<1>6. /\ cpu' \in [phase : Phases, epc : Origin, code : Codes]
      /\ cpu'.phase = cpu.epc.phase
  BY <1>1, <1>4 DEF Inv, TypeOK, ContextType, Phases
<1>7. /\ want'.acc = want.acc \ {Level} /\ want'.ie = want.ie
      /\ want'.installed = want.installed
      /\ HistoryType'
  BY <1>1 DEF Inv, TypeOK, HistoryType
<1>8. ContextType'
  BY <1>1, <1>5, <1>6 DEF Inv, TypeOK, ContextType
<1>9. /\ MachineType' /\ LibraryType' /\ MainType'
      /\ CacheErrorsHandled' /\ Stage' /\ Working' /\ Table'
  <2>1. Quiet
    BY <1>1, HandlersInCharge
  <2>2. status' \in SUBSET Bits /\ "BEV" \notin status'
    BY <1>1, <2>1, InCharge DEF Inv, TypeOK, MachineType, Ours
  <2>3. IE(frames[1].status) = want.ie
    BY <2>1, <1>2, MainIE
  <2>4. IE(IF Level' > 0 THEN frames'[1].status ELSE status') = want.ie
    <3>1. CASE n = 0
      <4>1. IE(status') = IE(Top.status)
        BY <1>1, <1>2 DEF IE
      <4> QED
        BY <3>1, <4>1, <2>3, <1>3, <1>5
    <3>2. CASE n > 0
      BY <3>2, <2>3, <1>3, <1>5
    <3> QED
      BY <1>3, <3>1, <3>2
  <2> QED
    BY <1>1, <1>7, <2>1, <2>2, <2>4, Around
<1>10. Stack'
  <2> SUFFICES ASSUME NEW i \in 1 .. n
               PROVE  /\ frames[i].epc.level = i - 1
                      /\ frames[i].epc.phase \in {"run", "return"}
                      /\ frames[i].epc.phase = "return" => i > 1
                      /\ "BEV" \notin frames[i].status
                      /\ frames[i].func \in {"user", "intr"}
                      /\ frames[i].func \in {"user", "intr"} =>
                           /\ frames[i].code # "MDMX"
                           /\ \A g \in Need[frames[i].code] :
                                frames[i].fp[g] = NotSaved =>
                                  g = "MDMXACC" /\ "MX" \notin frames[i].status
    BY <1>5 DEF Stack
  <2>1. i \in 1 .. Level
    BY <1>3
  <2> QED
    BY <2>1, <1>4 DEF Inv, Stack
<1>11. Phase' /\ PanicJustified' /\ Restored'
  <2>1. n > 0 => Top'.func \in {"user", "intr"} /\ Top'.code # "MDMX"
    BY <1>3, <1>4, <1>5 DEF Top
  <2>2. cpu'.phase \in {"run", "return"} /\ (cpu'.phase = "return" => n > 0)
    BY <1>3, <1>4, <1>6
  <2>3. Phase'
    BY <2>1, <2>2, <1>5 DEF Phase
  <2> QED
    BY <2>2, <2>3 DEF PanicJustified, Restored
<1>12. InUse'
  <2> SUFFICES ASSUME NEW i \in want.acc, i # Level
               PROVE  /\ i <= n /\ "MX" \in status'
                      /\ \A j \in 1 .. n : i < j => "MX" \in frames[j].status
    BY <1>5, <1>7 DEF InUse
  <2>1. i \in Nat /\ i <= Level
        /\ \A j \in 1 .. Level : i < j => "MX" \in frames[j].status
    BY <1>3 DEF Inv, InUse, TypeOK, HistoryType, Levels
  <2>2. i <= n
    BY <2>1, <1>3
  <2>3. "MX" \in Top.status
    BY <2>1, <2>2, <1>3
  <2> QED
    BY <2>1, <2>2, <2>3, <1>1, <1>2, <1>3
<1>13. Owned'
  <2>1. ASSUME NEW g \in FPGroups, NEW i \in 0 .. n, g = "CALLER" \/ i \in want.acc
        PROVE  /\ (\A j \in 1 .. n : i < j => frames[j].fp[g] = NotSaved)
                     => owner[g] <= i
               /\ \A k \in 1 .. n :
                    i < k /\ (\A j \in 1 .. n :
                                i < j /\ j < k => frames[j].fp[g] = NotSaved)
                      => frames[k].fp[g] <= i
    <3>1. i \in 0 .. Level /\ i < Level
      BY <1>3
    <3>2. \A k \in 1 .. Level : i < k /\ Unsaved(g, i, k) => frames[k].fp[g] <= i
      BY <2>1, <3>1 DEF Inv, Owned
    <3>3. \A k \in 1 .. n : i < k /\ (\A j \in 1 .. n :
                                       i < j /\ j < k => frames[j].fp[g] = NotSaved)
                             => frames[k].fp[g] <= i
      BY <3>2, <1>3 DEF Unsaved
    <3>4. ASSUME \A j \in 1 .. n : i < j => frames[j].fp[g] = NotSaved
          PROVE  owner[g] <= i
      <4>1. CASE Top.fp[g] = NotSaved
        <5>1. Unsaved(g, i, Level + 1)
          BY <4>1, <3>4, <1>3 DEF Unsaved
        <5> QED
          BY <5>1, <2>1, <3>1, <1>3 DEF Inv, Owned
      <4>2. CASE Top.fp[g] # NotSaved
        <5>1. owner[g] = Top.fp[g]
          BY <4>2, <1>1 DEF Inv, Restored
        <5>2. Unsaved(g, i, Level)
          BY <3>4, <1>3 DEF Unsaved
        <5> QED
          BY <5>1, <5>2, <3>1, <3>2, <1>3
      <4> QED
        BY <4>1, <4>2
    <3> QED
      BY <3>3, <3>4
  <2>2. ASSUME NEW g \in FPGroups, NEW i \in 0 .. Level',
               g = "CALLER" \/ i \in want'.acc,
               \A j \in 1 .. Level' : i < j /\ j < Level' + 1 => frames'[j].fp[g] = NotSaved
        PROVE  owner'[g] <= i
    <3>1. \A j \in 1 .. n : i < j => frames[j].fp[g] = NotSaved
      BY <2>2, <1>5, <1>3
    <3>2. i \in 0 .. n /\ (g = "CALLER" \/ i \in want.acc)
      BY <2>2, <1>5, <1>7
    <3> QED
      BY <3>1, <3>2, <2>1, <1>1
  <2>3. ASSUME NEW g \in FPGroups, NEW i \in 0 .. Level',
               g = "CALLER" \/ i \in want'.acc, NEW k \in 1 .. Level', i < k,
               \A j \in 1 .. Level' : i < j /\ j < k => frames'[j].fp[g] = NotSaved
        PROVE  frames'[k].fp[g] <= i
    <3>1. \A j \in 1 .. n : i < j /\ j < k => frames[j].fp[g] = NotSaved
      BY <2>3, <1>5, <1>3
    <3>2. i \in 0 .. n /\ k \in 1 .. n /\ (g = "CALLER" \/ i \in want.acc)
      BY <2>3, <1>5, <1>7
    <3>3. frames[k].fp[g] <= i
      BY <3>1, <3>2, <2>1, <2>3
    <3> QED
      BY <3>2, <3>3, <1>5
  <2> QED
    BY <2>2, <2>3 DEF Owned, Unsaved
<1> QED
  BY <1>7, <1>8, <1>9, <1>10, <1>11, <1>12, <1>13 DEF Inv, TypeOK

LEMMA MainUsesMdmxStep == ASSUME Inv, MainUsesMdmx PROVE Inv'
<1>1. /\ Level = 0 /\ cpu.phase = "run" /\ main.at = "idle" /\ "MX" \in status
      /\ owner' = [owner EXCEPT !["MDMXACC"] = 0]
      /\ want' = [want EXCEPT !.mdmx = FALSE, !.acc = @ \union {0}]
      /\ UNCHANGED <<machine, library, main, cpu, frames, env>>
  BY DEF MainUsesMdmx, AtIdle, MainRuns
<1>2. status' = status /\ cpu' = cpu /\ frames' = frames /\ Level' = 0 /\ main' = main
  BY <1>1 DEF Level, machine
<1>3. /\ want'.acc = want.acc \union {0} /\ want'.ie = want.ie
      /\ want'.installed = want.installed /\ HistoryType'
  BY <1>1, Levelled DEF Inv, TypeOK, HistoryType, Levels
<1>4. /\ owner' \in [FPGroups -> Levels] /\ owner'["MDMXACC"] = 0
      /\ owner'["CALLER"] = owner["CALLER"]
  BY <1>1 DEF Inv, TypeOK, ContextType, FPGroups
<1>5. TypeOK'
  BY <1>1, <1>2, <1>3, <1>4 DEF Inv, TypeOK, MachineType, LibraryType, MainType,
     ContextType, machine, library
<1>6. CacheErrorsHandled' /\ Stage'
  BY <1>1 DEF machine, library, Inv, CacheErrorsHandled, Stage, Ours, Saved, AsEnv,
     Vecs, Tabled
<1>7. Working' /\ Table'
  BY <1>1, <1>2 DEF Inv, Working, Table, library, MainRuns
<1>8. Stack' /\ Phase' /\ PanicJustified' /\ Restored'
  <2>1. Stack'
    BY <1>2 DEF Stack
  <2>2. cpu'.phase = "run"
    BY <1>1
  <2> QED
    BY <2>1, <2>2, <1>2 DEF Phase, PanicJustified, Restored
<1>9. InUse'
  BY <1>1, <1>2, <1>3 DEF Inv, InUse
<1>10. Owned'
  <2>1. owner["CALLER"] <= 0
    BY <1>1 DEF Inv, Owned, Unsaved, FPGroups
  <2> QED
    BY <1>2, <1>4, <2>1 DEF Owned, FPGroups
<1> QED
  BY <1>5, <1>6, <1>7, <1>8, <1>9, <1>10 DEF Inv

------------------------------------------------------------------------------
(* The theorems.                                                              *)

LEMMA Stutter == ASSUME Inv, UNCHANGED vars PROVE Inv'
<1>1. /\ TypeOK' /\ CacheErrorsHandled' /\ Stage' /\ Working' /\ Table' /\ Phase'
  BY DEF vars, machine, library, context, Inv, TypeOK, MachineType, LibraryType,
     MainType, ContextType, HistoryType, Level, CacheErrorsHandled, Stage, Ours,
     Saved, AsEnv, Vecs, Tabled, Working, MainRuns, Table, Phase, Top
<1>2. /\ frames' = frames /\ Level' = Level /\ Top' = Top /\ cpu' = cpu
      /\ owner' = owner
      /\ status' = status /\ want' = want /\ intr' = intr /\ main' = main
  BY DEF vars, machine, library, context, Level, Top
<1>3. Stack'
  BY <1>2 DEF Inv, Stack
<1>4. PanicJustified'
  BY <1>2 DEF Inv, PanicJustified
<1>5. InUse' /\ Restored'
  BY <1>2 DEF Inv, InUse, Restored
<1>6. Owned'
  BY <1>2 DEF Inv, Owned, Unsaved
<1> QED
  BY <1>1, <1>3, <1>4, <1>5, <1>6 DEF Inv

LEMMA NextInv == ASSUME Inv, Next PROVE Inv'
<1>1. CASE Interrupt \/ Fault \/ MdmxUnusable
  BY <1>1, Taken
<1>2. CASE Init_Shutdown \/ Environment \/ SwitchIE \/ intr_init \/ IntrInstall
           \/ intr_shutdown \/ SetMask \/ SetHandler
  BY <1>2, MainSteps
<1>3. CASE MainUsesMdmx
  BY <1>3, MainUsesMdmxStep
<1>4. CASE Library
  BY <1>4, DispatchAsmStep, DispatchStep, MdmxEnableStep, RestoreStatusStep,
     RestoreRegistersStep, EretStep DEF Library
<1>5. CASE Handler
  BY <1>5, HandlerComputesStep, HandlerEnablesIEStep, HandlerReturnsStep DEF Handler
<1> QED
  BY <1>1, <1>2, <1>3, <1>4, <1>5 DEF Next, Program

(* The invariant of module Exlib holds for every environment, every use of    *)
(* the FP registers and every depth of exceptions.                            *)
THEOREM ExlibInv == Spec => []Inv
<1>1. Inv /\ [Next]_vars => Inv'
  BY NextInv, Stutter
<1> QED
  BY <1>1, InitInv, PTL DEF Spec

(* Whoever can be interrupted is interrupted into code that is in charge, and *)
(* cache errors never enter an empty vector (exlib.c:105-186, 201-231).       *)
THEOREM ExlibTakenOver == Spec => []TakenOver
<1>1. Inv => VectorsAgree
  <2> SUFFICES ASSUME Inv, "IE" \in status, "EXL" \notin status
               PROVE  \/ Target = "exlib" /\ handlers["INT"].func # "none"
                      \/ /\ Target = IF env.bev THEN "rom" ELSE IF env.iv THEN "iv" ELSE env.vec
                         /\ initted => main.at \in {"init_read", "init_mask"}
    BY DEF VectorsAgree, Interruptible
  <2>1. main.at \notin Masking /\ main.at \in Points
    BY DEF Inv, Working, TypeOK, MainType
  <2>2. CASE Ours
    BY <2>2 DEF Ours, Tabled, Target, AllVectors
  <2>3. CASE AsEnv /\ (initted => main.at \in {"init_read", "init_mask"})
    BY <2>3 DEF AsEnv, Target, AllVectors
  <2> QED
    BY <2>1, <2>2, <2>3, PointsAre DEF Inv, Stage, Masking, Starting
<1>2. Inv => TakenOver
  BY <1>1 DEF Inv, TakenOver
<1> QED
  BY <1>2, ExlibInv, PTL

(* After exlib_shutdown the environment finds what it left (exlib.h:155-160). *)
THEOREM ExlibGivesBack == Spec => []GivesBack
<1>1. Inv => GivesBack
  BY DEF Inv, Stage, AsEnv, GivesBack
<1> QED
  BY <1>1, ExlibInv, PTL

(* What an exception interrupts goes on with its own registers and interrupt  *)
(* enable, whatever exceptions came in the handlers of exceptions             *)
(* (exlib.h:180-184).                                                         *)
THEOREM ExlibContextKept == Spec => []ContextKept
<1>1. Inv => ContextKept
  <2> SUFFICES ASSUME Inv PROVE ContextKept
    OBVIOUS
  <2>1. cpu.phase = "eret" => cpu.epc = Top.epc /\ cpu.epc.level = Level - 1
    BY Levelled DEF Inv, Phase, Stack, Top
  <2>2. ASSUME cpu.phase = "run", NEW g \in FPGroups, g = "CALLER" \/ Level \in want.acc
        PROVE  owner[g] <= Level
    BY <2>2, Levelled DEF Inv, Owned, Unsaved
  <2>3. AtIdle => IE(status) = want.ie
    BY DEF AtIdle, MainRuns, Inv, Working, Masking
  <2> QED
    BY <2>1, <2>2, <2>3 DEF ContextKept, FPGroups
<1> QED
  BY <1>1, ExlibInv, PTL

(* Nothing panics that somebody was to handle (exlib.h:149-152, 264-271).     *)
THEOREM ExlibPanicJustified == Spec => []PanicJustified
<1>1. Inv => PanicJustified
  BY DEF Inv
<1> QED
  BY <1>1, ExlibInv, PTL

==============================================================================
