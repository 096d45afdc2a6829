----------------------------- MODULE IntrProofs -----------------------------
(***************************************************************************)
(* Proofs about Intr for any set of handlers, any masks, any processor and *)
(* any program, its operations restricted where a theorem says so.         *)
(***************************************************************************)
EXTENDS Intr, SequenceTheorems, TLAPS

(* Taking a handler out of a chain shifts what comes behind it.            *)
LEMMA WithoutIs ==
  ASSUME NEW S, NEW s \in Seq(S), NEW h, \E j \in DOMAIN s : s[j] = h
  PROVE  \E j \in DOMAIN s :
           /\ s[j] = h
           /\ Without(s, h) \in Seq(S) /\ Len(Without(s, h)) = Len(s) - 1
           /\ \A k \in 1 .. Len(s) - 1 :
                Without(s, h)[k] = IF k < j THEN s[k] ELSE s[k + 1]
<1> DEFINE j == CHOOSE j \in DOMAIN s : s[j] = h
           u == SubSeq(s, 1, j - 1)
           v == SubSeq(s, j + 1, Len(s))
<1>1. j \in 1 .. Len(s) /\ s[j] = h /\ Without(s, h) = u \o v
  BY DEF Without, RemoveAt
<1> HIDE DEF j
<1>2. /\ u \in Seq(S) /\ Len(u) = j - 1
      /\ \A k \in 1 .. j - 1 : u[k] = s[k]
  <2>1. 1 \in 1 .. Len(s) + 1 /\ j - 1 \in 0 .. Len(s) /\ j - 1 \in Nat
    BY <1>1
  <2> QED
    BY <2>1
<1>3. /\ v \in Seq(S) /\ Len(v) = Len(s) - j
      /\ \A k \in 1 .. Len(s) - j : v[k] = s[k + j]
  BY <1>1
<1> HIDE DEF u, v
<1>4. u \o v \in Seq(S) /\ Len(u \o v) = Len(s) - 1
  <2>1. u \o v \in Seq(S) /\ Len(u \o v) = Len(u) + Len(v)
    BY <1>2, <1>3, ConcatProperties
  <2>2. (j - 1) + (Len(s) - j) = Len(s) - 1
    BY <1>1
  <2> QED
    BY <1>2, <1>3, <2>1, <2>2
<1>5. ASSUME NEW k \in 1 .. Len(s) - 1
      PROVE  (u \o v)[k] = IF k < j THEN s[k] ELSE s[k + 1]
  <2>1. CASE k < j
    <3>1. k \in 1 .. j - 1
      BY <1>1, <2>1
    <3>2. (u \o v)[k] = u[k]
      BY <1>2, <1>3, <3>1
    <3> QED
      BY <1>2, <2>1, <3>1, <3>2
  <2>2. CASE ~(k < j)
    <3>1. (u \o v)[k] = v[k - (j - 1)]
      BY <1>1, <1>2, <1>3, <2>2
    <3>2. k - (j - 1) \in 1 .. Len(s) - j /\ (k - (j - 1)) + j = k + 1
      BY <1>1, <2>2
    <3> QED
      BY <1>3, <2>2, <3>1, <3>2
  <2> QED
    BY <2>1, <2>2
<1>6. /\ j \in DOMAIN s /\ s[j] = h
      /\ Without(s, h) \in Seq(S) /\ Len(Without(s, h)) = Len(s) - 1
      /\ \A k \in 1 .. Len(s) - 1 :
           Without(s, h)[k] = IF k < j THEN s[k] ELSE s[k + 1]
  BY <1>1, <1>4, <1>5
<1> QED
  BY <1>6

(* So it takes out no other handler, and adds none.                        *)
LEMMA WithoutLinked ==
  ASSUME NEW S, NEW s \in Seq(S), NEW h, \E j \in DOMAIN s : s[j] = h
  PROVE  /\ Without(s, h) \in Seq(S)
         /\ \A k \in DOMAIN Without(s, h) :
              \E j \in DOMAIN s : Without(s, h)[k] = s[j]
         /\ \A j \in DOMAIN s : s[j] = h
              \/ \E k \in DOMAIN Without(s, h) : Without(s, h)[k] = s[j]
<1> DEFINE w == Without(s, h)
<1>1. PICK i \in DOMAIN s :
        /\ s[i] = h
        /\ w \in Seq(S) /\ Len(w) = Len(s) - 1
        /\ \A k \in 1 .. Len(s) - 1 : w[k] = IF k < i THEN s[k] ELSE s[k + 1]
  <2>1. \E j \in DOMAIN s : s[j] = h
    OBVIOUS
  <2> QED
    BY <2>1, WithoutIs, Zenon
<1> HIDE DEF w
<1>2. DOMAIN w = 1 .. Len(s) - 1 /\ DOMAIN s = 1 .. Len(s) /\ Len(s) \in Nat
  BY <1>1
<1>3. ASSUME NEW k \in DOMAIN w PROVE \E j \in DOMAIN s : w[k] = s[j]
  <2>1. k \in DOMAIN s /\ k + 1 \in DOMAIN s
    BY <1>2
  <2> QED
    BY <1>1, <1>2, <2>1
<1>4. ASSUME NEW j \in DOMAIN s, s[j] # h PROVE \E k \in DOMAIN w : w[k] = s[j]
  <2>1. CASE j < i
    <3>1. j \in DOMAIN w
      BY <1>1, <1>2, <2>1
    <3> QED
      BY <1>1, <1>2, <2>1, <3>1
  <2>2. CASE j > i
    <3>1. j - 1 \in DOMAIN w /\ ~(j - 1 < i) /\ (j - 1) + 1 = j
      BY <1>1, <1>2, <2>2
    <3> QED
      BY <1>1, <1>2, <3>1
  <2> QED
    BY <1>1, <1>2, <1>4, <2>1, <2>2
<1> QED
  BY <1>1, <1>3, <1>4 DEF w

LEMMA UnlinkType ==
  ASSUME NEW c \in [Ints -> Seq(Handlers)], NEW n, NEW h
  PROVE  /\ unlink(c, n, h) \in [Ints -> Seq(Handlers)]
         /\ UnionMask(unlink(c, n, h)) \subseteq UnionMask(c)
         /\ UnionMask(c) \subseteq UnionMask(unlink(c, n, h)) \union FPMask[h]
<1> DEFINE d == unlink(c, n, h)
<1>1. CASE h \notin Linked(c, n) \/ n \notin Ints
  <2>1. d = c
    BY <1>1 DEF unlink
  <2> QED
    BY <2>1
<1>2. CASE h \in Linked(c, n) /\ n \in Ints
  <2>1. d = [c EXCEPT ![n] = Without(c[n], h)]
    BY <1>2 DEF unlink
  <2>2. c[n] \in Seq(Handlers) /\ \E j \in DOMAIN c[n] : c[n][j] = h
    BY <1>2 DEF Linked
  <2>3. /\ Without(c[n], h) \in Seq(Handlers)
        /\ \A k \in DOMAIN Without(c[n], h) :
             \E j \in DOMAIN c[n] : Without(c[n], h)[k] = c[n][j]
        /\ \A j \in DOMAIN c[n] : c[n][j] = h
             \/ \E k \in DOMAIN Without(c[n], h) : Without(c[n], h)[k] = c[n][j]
    BY <2>2, WithoutLinked
  <2>4. \A m \in Ints : /\ Linked(d, m) \subseteq Linked(c, m)
                        /\ Linked(c, m) \subseteq Linked(d, m) \union {h}
    <3> TAKE m \in Ints
    <3>1. CASE m = n
      <4>1. d[m] = Without(c[n], h)
        BY <1>2, <2>1, <3>1
      <4> HIDE DEF d
      <4> QED
        BY <2>3, <3>1, <4>1 DEF Linked
    <3>2. CASE m # n
      BY <2>1, <3>2 DEF Linked
    <3> QED
      BY <3>1, <3>2
  <2>5. AllLinked(d) \subseteq AllLinked(c) /\ AllLinked(c) \subseteq AllLinked(d) \union {h}
    BY <2>4 DEF AllLinked
  <2>6. d \in [Ints -> Seq(Handlers)]
    BY <2>1, <2>3
  <2> HIDE DEF d
  <2>7. /\ UnionMask(d) \subseteq UnionMask(c)
        /\ UnionMask(c) \subseteq UnionMask(d) \union FPMask[h]
    BY <2>5 DEF UnionMask
  <2> QED
    BY <2>6, <2>7 DEF d
<1> QED
  BY <1>1, <1>2

LEMMA LinkType ==
  ASSUME NEW c \in [Ints -> Seq(Handlers)], NEW n \in Ints, NEW h \in Handlers
  PROVE  /\ link(c, n, h) \in [Ints -> Seq(Handlers)]
         /\ \A m \in Ints :
              Linked(link(c, n, h), m) = IF m = n THEN Linked(c, m) \union {h} ELSE Linked(c, m)
         /\ AllLinked(link(c, n, h)) = AllLinked(c) \union {h}
         /\ UnionMask(link(c, n, h)) = UnionMask(c) \union FPMask[h]
<1> DEFINE d == link(c, n, h)
<1>1. d = [c EXCEPT ![n] = Append(c[n], h)]
  BY DEF link
<1>2. \A m \in Ints : Linked(d, m) = IF m = n THEN Linked(c, m) \union {h} ELSE Linked(c, m)
  <2> TAKE m \in Ints
  <2>1. CASE m = n
    <3>1. d[m] = Append(c[n], h)
      BY <1>1, <2>1
    <3>2. /\ DOMAIN Append(c[n], h) = 1 .. Len(c[n]) + 1
          /\ \A k \in 1 .. Len(c[n]) : Append(c[n], h)[k] = c[n][k]
          /\ Append(c[n], h)[Len(c[n]) + 1] = h
          /\ DOMAIN c[n] = 1 .. Len(c[n]) /\ Len(c[n]) \in Nat
      OBVIOUS
    <3> DEFINE a == Append(c[n], h)
    <3>3. Linked(d, m) = {a[k] : k \in 1 .. Len(c[n]) + 1}
      BY <3>1, <3>2 DEF Linked
    <3>4. Linked(c, n) = {a[k] : k \in 1 .. Len(c[n])}
      BY <3>2 DEF Linked
    <3>5. a[Len(c[n]) + 1] = h /\ Len(c[n]) \in Nat
      BY <3>2
    <3> HIDE DEF a, d
    <3>6. 1 .. Len(c[n]) + 1 = (1 .. Len(c[n])) \union {Len(c[n]) + 1}
      BY <3>5
    <3>7. {a[k] : k \in 1 .. Len(c[n]) + 1} = {a[k] : k \in 1 .. Len(c[n])} \union {h}
      BY <3>5, <3>6
    <3> QED
      BY <2>1, <3>3, <3>4, <3>7
  <2>2. CASE m # n
    BY <1>1, <2>2 DEF Linked
  <2> QED
    BY <2>1, <2>2
<1>3. AllLinked(d) = AllLinked(c) \union {h}
  BY <1>2 DEF AllLinked
<1>4. d \in [Ints -> Seq(Handlers)]
  BY <1>1
<1> HIDE DEF d
<1>5. UnionMask(d) = UnionMask(c) \union FPMask[h]
  BY <1>3 DEF UnionMask
<1> QED
  BY <1>2, <1>3, <1>4, <1>5 DEF d

(* What run_intr_chain may call next comes out of the chains.              *)
LEMMA NextIsLinked ==
  ASSUME NEW c \in [Ints -> Seq(Handlers)]
  PROVE  /\ \A n \in Ints : ih_first(c, n) \in AllLinked(c) \union {NULL}
         /\ \A h : ih_next(c, h) \in AllLinked(c) \union {NULL}
         /\ AllLinked(c) \subseteq Handlers
<1>1. \A n \in Ints : Linked(c, n) \subseteq AllLinked(c) /\ Linked(c, n) \subseteq Handlers
  BY DEF Linked, AllLinked
<1>2. ASSUME NEW n \in Ints PROVE ih_first(c, n) \in AllLinked(c) \union {NULL}
  <2>1. CASE c[n] = <<>>
    BY <2>1 DEF ih_first
  <2>2. CASE c[n] # <<>>
    <3>1. 1 \in DOMAIN c[n]
      BY <2>2
    <3> QED
      BY <1>1, <2>2, <3>1 DEF ih_first, Linked
  <2> QED
    BY <2>1, <2>2
<1>3. ASSUME NEW h PROVE ih_next(c, h) \in AllLinked(c) \union {NULL}
  <2>1. ASSUME NEW g \in Handlers, Precedes(c, h, g) PROVE g \in AllLinked(c)
    <3>1. PICK n \in Ints : \E k \in 1 .. Len(c[n]) - 1 : c[n][k + 1] = g
      BY <2>1 DEF Precedes
    <3>2. g \in Linked(c, n)
      BY <3>1 DEF Linked
    <3> QED
      BY <1>1, <3>2
  <2> QED
    BY <2>1 DEF ih_next
<1> QED
  BY <1>1, <1>2, <1>3 DEF AllLinked

LEMMA MaxIsIn ==
  ASSUME NEW S \in SUBSET Ints, S # {}
  PROVE  Max(S) \in S
<1>1. \E m \in S : \A y \in S : m >= y
  <2>1. S \subseteq 0 .. 7
    BY IntsAssumption
  <2>2. PICK x \in S : TRUE
    OBVIOUS
  <2> QED
    BY <2>1, <2>2
<1> QED
  BY <1>1 DEF Max

-----------------------------------------------------------------------------
LEMMA InitInv == Init => Inv
<1> SUFFICES ASSUME Init PROVE Inv
  OBVIOUS
<1> USE DEF Init
<1>1. TypeOK
  <2>1. /\ entry \in [func : {"intr", "panic"}, mask : SUBSET FPGroups]
        /\ orig \in [handler : {"intr", "panic"}, mask : SUBSET FPGroups,
                     bits : SUBSET AllBits]
    BY DEF FPGroups, CommonEntry, exlib_fpsavemask
  <2>2. handler_chains \in [Ints -> Seq(Handlers)]
    OBVIOUS
  <2>3. want \in [status : SUBSET AllBits, soft : SUBSET SoftInts]
        /\ seen \in [owed : SUBSET Handlers, called : SUBSET Handlers]
    OBVIOUS
  <2> QED
    BY <2>1, <2>2, <2>3 DEF TypeOK, Idle, NoException
<1>2. UnionMask(handler_chains) = {}
  BY DEF UnionMask, AllLinked, Linked
<1>3. Arguments /\ Closed /\ Installing
  BY DEF Arguments, Closed, Installing, Idle
<1>4. FPPreserved /\ EntryExact
  BY DEF FPPreserved, EntryExact, CommonEntry
<1>5. MaskExact /\ FPCovered
  BY <1>2, <1>4 DEF MaskExact, FPCovered, FrameCovers, NoException, Idle
<1> QED
  BY <1>1, <1>3, <1>4, <1>5 DEF Inv

(* A call begins: it has its arguments and has done nothing yet.           *)
LEMMA CallStep ==
  ASSUME Inv, NEW op \in MainOps, NEW n \in Ints \union {NULL},
         NEW h \in Handlers \union {NULL}, NEW at \in {"read", "read_cause"},
         Call(op, n, h, at), UNCHANGED <<handler_chains, intr_fpsavemask>>,
         op \in {"set_ie", "clear_ie", "enable_int", "disable_int",
                 "set_softint", "clear_softint", "add", "remove", "init",
                 "shutdown"},
         op \in {"add", "remove"} => n \in Ints /\ h \in Handlers,
         op \in {"enable_int", "disable_int"} => n \in Ints,
         at = "read_cause" => n \in SoftInts,
         entry' \in [func : {"intr", "panic"}, mask : SUBSET FPGroups],
         initted' \in BOOLEAN,
         orig' \in [handler : {"intr", "panic"}, mask : SUBSET FPGroups,
                    bits : SUBSET AllBits],
         EntryExact', op = "init" => initted'
  PROVE  Inv'
<1>1. /\ main' = [call |-> op, int |-> n, ih |-> h, at |-> at, val |-> {}]
      /\ UNCHANGED <<status, soft, line, ex, dirty, want, seen>>
      /\ main.at = "idle" /\ Running
  BY DEF Call, Idle
<1>2. TypeOK'
  BY <1>1 DEF Inv, TypeOK
<1>3. Arguments' /\ Closed' /\ Installing'
  BY <1>1 DEF Arguments, Closed, Installing
<1>4. FPCovered'
  BY <1>1 DEF Inv, FPCovered, FPPreserved, FrameCovers, Running
<1>5. MaskExact'
  BY <1>1 DEF Inv, MaskExact
<1> QED
  BY <1>2, <1>3, <1>4, <1>5 DEF Inv

LEMMA MasksTyped ==
  ASSUME NEW c \in [Ints -> Seq(Handlers)]
  PROVE  /\ UnionMask(c) \subseteq FPGroups
         /\ \A h \in Handlers : FPMask[h] \subseteq FPGroups
         /\ \A h \in AllLinked(c) : FPMask[h] \subseteq UnionMask(c)
         /\ HwFP \subseteq FPGroups
BY HandlersAssumption, NextIsLinked DEF UnionMask, FPGroups

LEMMA CallsInv ==
  ASSUME Inv, CallIE \/ CallInt \/ CallSoftint \/ CallAdd \/ CallRemove
              \/ CallInit \/ CallShutdown
  PROVE  Inv'
<1>0. /\ entry \in [func : {"intr", "panic"}, mask : SUBSET FPGroups]
      /\ initted \in BOOLEAN
      /\ orig \in [handler : {"intr", "panic"}, mask : SUBSET FPGroups,
                   bits : SUBSET AllBits]
      /\ handler_chains \in [Ints -> Seq(Handlers)]
      /\ EntryExact
  BY DEF Inv, TypeOK
<1>1. ASSUME NEW op, NEW n \in Ints \union {NULL}, NEW h \in Handlers \union {NULL},
             NEW at \in {"read", "read_cause"}, Call(op, n, h, at), UNCHANGED state,
             op \in {"set_ie", "clear_ie", "enable_int", "disable_int",
                     "set_softint", "clear_softint", "add", "remove"},
             op \in {"add", "remove"} => n \in Ints /\ h \in Handlers,
             op \in {"enable_int", "disable_int"} => n \in Ints,
             at = "read_cause" => n \in SoftInts
      PROVE  Inv'
  <2>1. EntryExact'
    BY <1>0, <1>1 DEF EntryExact, state
  <2>2. op \in MainOps
    BY <1>1 DEF Call
  <2>3. /\ UNCHANGED <<handler_chains, intr_fpsavemask>>
        /\ entry' = entry /\ initted' = initted /\ orig' = orig
    BY <1>1 DEF state
  <2>4. /\ entry' \in [func : {"intr", "panic"}, mask : SUBSET FPGroups]
        /\ initted' \in BOOLEAN
        /\ orig' \in [handler : {"intr", "panic"}, mask : SUBSET FPGroups,
                      bits : SUBSET AllBits]
    BY <1>0, <2>3
  <2>5. op # "init"
    BY <1>1
  <2> QED
    BY <1>1, <2>1, <2>2, <2>3, <2>4, <2>5, CallStep
<1>2. CASE CallIE
  <2>1. PICK op \in {"set_ie", "clear_ie"} : Call(op, NULL, NULL, "read")
    BY <1>2 DEF CallIE
  <2> QED
    BY <1>1, <1>2, <2>1 DEF CallIE
<1>3. CASE CallInt
  <2>1. PICK op \in {"enable_int", "disable_int"}, n \in Ints : Call(op, n, NULL, "read")
    BY <1>3 DEF CallInt
  <2> QED
    BY <1>1, <1>3, <2>1 DEF CallInt
<1>4. CASE CallSoftint
  <2>1. PICK op \in {"set_softint", "clear_softint"}, n \in SoftInts :
          Call(op, n, NULL, "read_cause")
    BY <1>4 DEF CallSoftint
  <2>2. n \in Ints \union {NULL} /\ op \notin {"add", "remove", "enable_int", "disable_int"}
    BY <2>1, IntsAssumption
  <2>3. UNCHANGED state
    BY <1>4 DEF CallSoftint
  <2> QED
    BY <1>1, <2>1, <2>2, <2>3
<1>5. CASE CallAdd
  <2>1. PICK n \in Ints, h \in FromMain \ AllLinked(handler_chains) :
          Call("add", n, h, "read")
    BY <1>5 DEF CallAdd
  <2> QED
    BY <1>1, <1>5, <2>1, HandlersAssumption DEF CallAdd
<1>6. CASE CallRemove
  <2>1. PICK n \in Ints, h \in Handlers : Call("remove", n, h, "read")
    BY <1>6 DEF CallRemove
  <2> QED
    BY <1>1, <1>6, <2>1 DEF CallRemove
<1>7. CASE CallInit
  <2>1. /\ ~initted /\ initted' = TRUE
        /\ orig' = [orig EXCEPT !.handler = entry.func, !.mask = entry.mask]
        /\ UNCHANGED <<entry, handler_chains, intr_fpsavemask>>
        /\ Call("init", NULL, NULL, "read")
    BY <1>7 DEF CallInit
  <2>2. entry.func = "panic"
    BY <1>0, <2>1 DEF EntryExact
  <2>3. EntryExact'
    BY <1>0, <2>1, <2>2 DEF EntryExact
  <2>4. "init" \in MainOps
    BY <2>1 DEF Call
  <2> QED
    BY <1>0, <2>1, <2>3, <2>4, CallStep
<1>8. CASE CallShutdown
  <2>1. /\ initted' = FALSE
        /\ entry' = [func |-> orig.handler, mask |-> exlib_fpsavemask(orig.mask)]
        /\ UNCHANGED <<orig, handler_chains, intr_fpsavemask>>
        /\ Call("shutdown", NULL, NULL, "read")
    BY <1>8 DEF CallShutdown
  <2>2. EntryExact'
    BY <1>0, <2>1 DEF EntryExact
  <2>3. entry' \in [func : {"intr", "panic"}, mask : SUBSET FPGroups]
    BY <1>0, <2>1 DEF exlib_fpsavemask
  <2>4. "shutdown" \in MainOps
    BY <2>1 DEF Call
  <2> QED
    BY <1>0, <2>1, <2>2, <2>3, <2>4, CallStep
<1> QED
  BY <1>2, <1>3, <1>4, <1>5, <1>6, <1>7, <1>8

-----------------------------------------------------------------------------
(* A call of the library as far as it has come.                            *)
MainType ==
  [call : {"none", "set_ie", "clear_ie", "enable_int", "disable_int", "set_softint",
           "clear_softint", "add", "remove", "init", "shutdown"},
   int : Ints \union {NULL}, ih : Handlers \union {NULL},
   at : {"idle", "read", "write", "read_cause", "write_cause", "link", "mask", "unlink",
         "remask", "install", "restore"},
   val : SUBSET AllBits]

(* The accesses of a call in progress.                                     *)
LEMMA AccessInv ==
  ASSUME Inv, Read \/ WriteStatus \/ WriteCause \/ Link \/ Mask \/ Unlink
              \/ Remask \/ Install \/ Restore
  PROVE  Inv'
<1> USE DEF Inv, MainType
<1>0. /\ TypeOK
      /\ handler_chains \in [Ints -> Seq(Handlers)]
      /\ main \in MainType
  BY DEF TypeOK
<1>1. CASE Read
  <2>1. /\ UNCHANGED <<status, soft, line, state, ex, dirty, want, seen>>
        /\ main.at \in {"read", "read_cause"} /\ Running
        /\ main' = IF main.at = "read"
                   THEN [main EXCEPT !.at = "write", !.val = status]
                   ELSE [main EXCEPT !.at = "write_cause", !.val = soft]
    BY <1>1 DEF Read
  <2>2. TypeOK'
    <3>1. status \in SUBSET AllBits /\ soft \in SUBSET AllBits
      BY <1>0, IntsAssumption DEF TypeOK, AllBits
    <3>2. main' \in MainType
      <4> HIDE DEF Inv
      <4> QED
        BY <1>0, <2>1, <3>1
    <3> HIDE DEF Inv
    <3> QED
      BY <1>0, <2>1, <3>2 DEF TypeOK, state
  <2>3. Arguments'
    BY <1>0, <2>1 DEF Arguments, TypeOK
  <2>4. Closed' /\ MaskExact' /\ Installing'
    BY <1>0, <2>1 DEF Closed, MaskExact, Installing, state
  <2>5. EntryExact' /\ FPCovered'
    BY <2>1 DEF EntryExact, FPCovered, FPPreserved, FrameCovers, Running, state
  <2> QED
    BY <2>2, <2>3, <2>4, <2>5
<1>2. CASE WriteStatus
  <2>1. /\ UNCHANGED <<soft, line, state, ex, dirty, seen>>
        /\ Running /\ main.at = "write"
        /\ status' = mod_bits(main.val, Sets(main), Bits(main))
    BY <1>2 DEF WriteStatus
  <2>2. Bits(main) \subseteq AllBits
    BY <1>0 DEF Bits, Arguments, AllBits
  <2>3. status' \subseteq AllBits
    BY <1>0, <2>1, <2>2 DEF mod_bits
  <2>4. CASE GoesOn(main)
    <3>1. /\ main' = [main EXCEPT !.at = Follows[main.call],
                                  !.val = main.val \intersect Bits(main)]
          /\ UNCHANGED want
      BY <1>2, <2>4 DEF WriteStatus
    <3>2. /\ Follows[main.call] \in {"link", "unlink", "install", "restore"}
          /\ Follows[main.call] = "link" => main.call = "add"
          /\ Follows[main.call] = "unlink" => main.call = "remove"
          /\ Follows[main.call] = "install" => main.call = "init"
      BY <2>4 DEF GoesOn, Follows
    <3>3. TypeOK'
      <4>1. main' \in MainType
        <5> HIDE DEF Inv
        <5> QED
          BY <1>0, <3>1, <3>2
      <4> HIDE DEF Inv
      <4> QED
        BY <1>0, <2>1, <2>3, <3>1, <4>1 DEF TypeOK, state
    <3>4. main.call \in {"add", "remove"} => IE \notin status'
      BY <2>1 DEF Bits, Sets, mod_bits
    <3>5. Arguments' /\ Closed' /\ Installing' /\ MaskExact'
      BY <1>0, <2>1, <3>1, <3>2, <3>4
         DEF Arguments, Closed, Installing, MaskExact, Running, state
    <3>6. EntryExact' /\ FPCovered'
      BY <2>1 DEF EntryExact, FPCovered, FPPreserved, FrameCovers, Running, state
    <3> QED
      BY <3>3, <3>5, <3>6
  <2>5. CASE ~GoesOn(main)
    <3>1. /\ main' = Idle
          /\ want' = [want EXCEPT !.status =
                        mod_bits(want.status, Sets(main), Bits(main))]
      BY <1>2, <2>5 DEF WriteStatus
    <3>2. want' \in [status : SUBSET AllBits, soft : SUBSET SoftInts]
      BY <1>0, <2>2, <3>1 DEF TypeOK, mod_bits
    <3>3. TypeOK'
      BY <1>0, <2>1, <2>3, <3>1, <3>2 DEF TypeOK, state, Idle
    <3>4. Arguments' /\ Closed' /\ Installing' /\ MaskExact'
      BY <2>1, <3>1 DEF Arguments, Closed, Installing, MaskExact, Idle, state
    <3>5. EntryExact' /\ FPCovered'
      BY <2>1 DEF EntryExact, FPCovered, FPPreserved, FrameCovers, Running, state
    <3> QED
      BY <3>3, <3>4, <3>5
  <2> QED
    BY <2>4, <2>5
<1>3. CASE WriteCause
  <2>1. /\ UNCHANGED <<status, line, state, ex, dirty, seen>>
        /\ Running /\ main.at = "write_cause" /\ main' = Idle
        /\ soft' = mod_bits(main.val, main.call = "set_softint", {main.int})
        /\ want' = [want EXCEPT !.soft =
                      mod_bits(want.soft, main.call = "set_softint", {main.int})]
    BY <1>3 DEF WriteCause
  <2>2. main.int \in SoftInts /\ main.val \subseteq SoftInts
    BY <2>1 DEF Arguments
  <2>3. soft' \subseteq SoftInts
    BY <2>1, <2>2 DEF mod_bits
  <2>4. want' \in [status : SUBSET AllBits, soft : SUBSET SoftInts]
    BY <1>0, <2>1, <2>2 DEF TypeOK, mod_bits
  <2>5. TypeOK'
    BY <1>0, <2>1, <2>3, <2>4 DEF TypeOK, state, Idle
  <2>6. Arguments' /\ Closed' /\ Installing' /\ MaskExact'
    BY <2>1 DEF Arguments, Closed, Installing, MaskExact, Idle, state
  <2>7. EntryExact' /\ FPCovered'
    BY <2>1 DEF EntryExact, FPCovered, FPPreserved, FrameCovers, Running, state
  <2> QED
    BY <2>5, <2>6, <2>7
<1>4. CASE Link
  <2>1. /\ UNCHANGED <<status, soft, line, entry, initted, orig, intr_fpsavemask,
                       ex, dirty, want, seen>>
        /\ Running /\ main.at = "link" /\ main' = [main EXCEPT !.at = "mask"]
        /\ handler_chains' = link(handler_chains, main.int, main.ih)
    BY <1>4 DEF Link
  <2>2. main.call = "add" /\ main.int \in Ints /\ main.ih \in Handlers
        /\ IE \notin status
    BY <2>1 DEF Closed, Arguments
  <2>3. /\ handler_chains' \in [Ints -> Seq(Handlers)]
        /\ UnionMask(handler_chains') =
             UnionMask(handler_chains) \union FPMask[main.ih]
    BY <1>0, <2>1, <2>2, LinkType
  <2>4. TypeOK'
    BY <1>0, <2>1, <2>3 DEF TypeOK
  <2>5. Arguments' /\ Closed' /\ Installing'
    BY <1>0, <2>1, <2>2 DEF Arguments, Closed, Installing, Running
  <2>6. MaskExact'
    BY <1>0, <2>1, <2>3 DEF MaskExact
  <2>7. EntryExact' /\ FPCovered'
    BY <2>1 DEF EntryExact, FPCovered, FPPreserved, FrameCovers, Running
  <2> QED
    BY <2>4, <2>5, <2>6, <2>7
<1>5. CASE Mask
  <2>1. /\ UNCHANGED <<status, soft, line, initted, orig, handler_chains, ex,
                       dirty, want, seen>>
        /\ Running /\ main.at = "mask" /\ main' = [main EXCEPT !.at = "restore"]
        /\ Extend(main.ih)
    BY <1>5 DEF Mask
  <2>2. main.ih \in Handlers /\ FPMask[main.ih] \subseteq FPGroups
    BY <2>1, HandlersAssumption DEF Closed, Arguments
  <2>3. /\ intr_fpsavemask' = intr_fpsavemask \union FPMask[main.ih]
        /\ intr_fpsavemask' \subseteq FPGroups
        /\ entry' \in [func : {"intr", "panic"}, mask : SUBSET FPGroups]
        /\ EntryExact'
    BY <1>0, <2>1, <2>2 DEF Extend, TypeOK, EntryExact, exlib_fpsavemask
  <2>4. TypeOK'
    BY <1>0, <2>1, <2>3 DEF TypeOK
  <2>5. Arguments' /\ Closed' /\ Installing'
    BY <1>0, <2>1 DEF Arguments, Closed, Installing
  <2>6. MaskExact'
    BY <1>0, <2>1, <2>3 DEF MaskExact
  <2>7. FPCovered'
    BY <2>1 DEF FPCovered, FPPreserved, FrameCovers, Running
  <2> QED
    BY <2>3, <2>4, <2>5, <2>6, <2>7
<1>6. CASE Unlink
  <2>1. /\ UNCHANGED <<status, soft, line, entry, initted, orig, intr_fpsavemask,
                       ex, dirty, want, seen>>
        /\ Running /\ main.at = "unlink" /\ main.call = "remove" /\ IE \notin status
        /\ handler_chains' = unlink(handler_chains, main.int, main.ih)
    BY <1>6 DEF Unlink, Closed
  <2>2. \/ /\ main' = [main EXCEPT !.at = "remask"]
           /\ main.ih \in Linked(handler_chains, main.int)
        \/ /\ main' = [main EXCEPT !.at = "restore"]
           /\ main.ih \notin Linked(handler_chains, main.int)
    BY <1>6 DEF Unlink
  <2>3. /\ handler_chains' \in [Ints -> Seq(Handlers)]
        /\ UnionMask(handler_chains') \subseteq UnionMask(handler_chains)
        /\ UnionMask(handler_chains) \subseteq
             UnionMask(handler_chains') \union FPMask[main.ih]
    BY <1>0, <2>1, UnlinkType
  <2>4. main.int \in Ints
    BY <2>1 DEF Arguments
  <2>5. /\ TypeOK' /\ Arguments' /\ Closed' /\ Installing' /\ MaskExact'
    <3>1. CASE /\ main' = [main EXCEPT !.at = "remask"]
               /\ main.ih \in Linked(handler_chains, main.int)
      <4>1. TypeOK'
        <5> HIDE DEF Inv
        <5>1. main' \in MainType
          BY <1>0, <3>1
        <5> QED
          BY <1>0, <2>1, <2>3, <5>1 DEF TypeOK
      <4>2. Arguments' /\ Closed' /\ Installing'
        BY <1>0, <2>1, <3>1 DEF Arguments, Closed, Installing, Running
      <4>3. main.ih \in AllLinked(handler_chains)
        BY <2>4, <3>1 DEF AllLinked
      <4>4. FPMask[main.ih] \subseteq UnionMask(handler_chains)
        BY <1>0, <4>3, MasksTyped
      <4>5. MaskExact'
        BY <1>0, <2>1, <2>3, <3>1, <4>4 DEF MaskExact
      <4> QED
        BY <4>1, <4>2, <4>5
    <3>2. CASE /\ main' = [main EXCEPT !.at = "restore"]
               /\ main.ih \notin Linked(handler_chains, main.int)
      <4>1. handler_chains' = handler_chains
        BY <2>1, <3>2 DEF unlink
      <4>2. TypeOK'
        <5> HIDE DEF Inv
        <5>1. main' \in MainType
          BY <1>0, <3>2
        <5> QED
          BY <1>0, <2>1, <4>1, <5>1 DEF TypeOK
      <4>3. Arguments' /\ Closed' /\ Installing' /\ MaskExact'
        BY <1>0, <2>1, <3>2, <4>1 DEF Arguments, Closed, Installing, MaskExact, Running
      <4> QED
        BY <4>2, <4>3
    <3> QED
      BY <2>2, <3>1, <3>2
  <2>6. EntryExact' /\ FPCovered'
    BY <2>1 DEF EntryExact, FPCovered, FPPreserved, FrameCovers, Running
  <2> QED
    BY <2>5, <2>6
<1>7. CASE Remask
  <2>1. /\ UNCHANGED <<status, soft, line, initted, orig, handler_chains, ex,
                       dirty, want, seen>>
        /\ Running /\ main.at = "remask" /\ main' = [main EXCEPT !.at = "restore"]
        /\ Recalculate(main.ih, handler_chains)
    BY <1>7 DEF Remask
  <2>2. /\ UnionMask(handler_chains) = intr_fpsavemask'
        /\ intr_fpsavemask' \subseteq FPGroups
        /\ entry' \in [func : {"intr", "panic"}, mask : SUBSET FPGroups]
        /\ EntryExact'
    <3>1. intr_fpsavemask = UnionMask(handler_chains) \union FPMask[main.ih]
      BY <2>1 DEF MaskExact
    <3>2. /\ UnionMask(handler_chains) \subseteq FPGroups
          /\ entry \in [func : {"intr", "panic"}, mask : SUBSET FPGroups]
          /\ EntryExact
      BY <1>0, MasksTyped DEF TypeOK
    <3>3. CASE FPMask[main.ih] = {}
      BY <2>1, <3>1, <3>2, <3>3 DEF Recalculate, EntryExact
    <3>4. CASE FPMask[main.ih] # {}
      BY <2>1, <3>2, <3>4 DEF Recalculate, EntryExact, exlib_fpsavemask
    <3> QED
      BY <3>3, <3>4
  <2>4. TypeOK'
    BY <1>0, <2>1, <2>2 DEF TypeOK
  <2>5. Arguments' /\ Closed' /\ Installing'
    BY <1>0, <2>1 DEF Arguments, Closed, Installing
  <2>6. MaskExact'
    BY <1>0, <2>1, <2>2 DEF MaskExact
  <2>7. FPCovered'
    BY <2>1 DEF FPCovered, FPPreserved, FrameCovers, Running
  <2> QED
    BY <2>2, <2>4, <2>5, <2>6, <2>7
<1>8. CASE Install
  <2>1. /\ UNCHANGED <<status, soft, line, initted, handler_chains,
                       intr_fpsavemask, ex, dirty, seen>>
        /\ Running /\ main.at = "install" /\ main' = Idle
        /\ orig' = [orig EXCEPT !.bits = main.val]
        /\ entry' = [func |-> "intr", mask |-> exlib_fpsavemask(intr_fpsavemask)]
        /\ want' = [want EXCEPT !.status = status]
    BY <1>8 DEF Install
  <2>2. initted
    BY <2>1 DEF Installing
  <2>3. entry' \in [func : {"intr", "panic"}, mask : SUBSET FPGroups] /\ EntryExact'
    BY <1>0, <2>1, <2>2 DEF TypeOK, EntryExact, exlib_fpsavemask
  <2>4. TypeOK'
    BY <1>0, <2>1, <2>3 DEF TypeOK, Idle
  <2>5. Arguments' /\ Closed' /\ Installing' /\ MaskExact'
    BY <2>1 DEF Arguments, Closed, Installing, MaskExact, Idle
  <2>7. FPCovered'
    BY <2>1 DEF FPCovered, FPPreserved, FrameCovers, Running
  <2> QED
    BY <2>3, <2>4, <2>5, <2>7
<1>9. CASE Restore
  <2>1. /\ UNCHANGED <<soft, line, state, ex, dirty, seen>>
        /\ Running /\ main' = Idle
        /\ status' = mod_bits(status, TRUE,
                        IF main.call = "shutdown" THEN orig.bits ELSE main.val)
        /\ want' = want \/ want' = [want EXCEPT !.status = status']
    BY <1>9 DEF Restore
  <2>2. status' \subseteq AllBits
    BY <1>0, <2>1 DEF TypeOK, mod_bits
  <2>3. want' \in [status : SUBSET AllBits, soft : SUBSET SoftInts]
    <3>1. want \in [status : SUBSET AllBits, soft : SUBSET SoftInts]
      BY <1>0 DEF TypeOK
    <3> QED
      BY ONLY <2>1, <2>2, <3>1
  <2>4. TypeOK'
    BY <1>0, <2>1, <2>2, <2>3 DEF TypeOK, Idle, state
  <2>5. Arguments' /\ Closed' /\ Installing' /\ MaskExact'
    BY <1>9, <2>1 DEF Restore, Arguments, Closed, Installing, MaskExact, Idle, state
  <2>7. EntryExact' /\ FPCovered'
    BY <2>1 DEF EntryExact, FPCovered, FPPreserved, FrameCovers, Running, state
  <2> QED
    BY <2>4, <2>5, <2>7
<1> QED
  BY <1>1, <1>2, <1>3, <1>4, <1>5, <1>6, <1>7, <1>8, <1>9

-----------------------------------------------------------------------------
(* A handler's step, whatever it does to the chains, as long as it keeps   *)
(* the mask equal to their union, and enlarges that only by adding.        *)
LEMMA HandlerInv ==
  ASSUME Inv, NEW set \in BOOLEAN, NEW bits \in SUBSET AllBits,
         NEW raised \in SUBSET SoftInts, NEW gone, HandlerStep(set, bits, raised, gone),
         handler_chains' \in [Ints -> Seq(Handlers)],
         "add" \notin HandlerOps =>
           UnionMask(handler_chains') \subseteq UnionMask(handler_chains),
         UnionMask(handler_chains') = intr_fpsavemask',
         intr_fpsavemask' \subseteq FPGroups,
         entry' \in [func : {"intr", "panic"}, mask : SUBSET FPGroups],
         EntryExact'
  PROVE  Inv'
<1> USE DEF Inv
<1> DEFINE h == ex.ih
           served == IF h \in Shy THEN {} ELSE {ex.int}
<1>1. /\ ex.ctx = "chain" /\ h # NULL
      /\ ex' = [ex EXCEPT !.ih = next_ih(h, gone), !.handled = handled(h),
                          !.status = mod_bits(ex.status, set, bits)]
      /\ line' = line \ served
      /\ soft' = (soft \ served) \union raised
      /\ dirty' = dirty \union (FPMask[h] \intersect LiveFP)
      /\ want' = [status |-> mod_bits(want.status, set, bits),
                  soft |-> (want.soft \ served) \union raised]
      /\ seen' = [owed |-> seen.owed \ gone, called |-> seen.called \union {h}]
      /\ UNCHANGED <<status, initted, orig, main>>
  BY DEF HandlerStep
<1>2. /\ handler_chains \in [Ints -> Seq(Handlers)]
      /\ ex \in [ctx : {"main", "dispatch", "chain", "panic"},
                 status : SUBSET AllBits, fp : SUBSET FPGroups,
                 todo : SUBSET Ints, int : Ints \union {NULL},
                 ih : Handlers \union {NULL}, handled : BOOLEAN]
  BY DEF TypeOK
<1>3. h \in Handlers
  BY <1>1, <1>2
<1>4. next_ih(h, gone) \in AllLinked(handler_chains) \union {NULL}
      /\ next_ih(h, gone) \in Handlers \union {NULL}
  BY <1>2, NextIsLinked DEF next_ih
<1>5. ex' \in [ctx : {"main", "dispatch", "chain", "panic"},
               status : SUBSET AllBits, fp : SUBSET FPGroups,
               todo : SUBSET Ints, int : Ints \union {NULL},
               ih : Handlers \union {NULL}, handled : BOOLEAN]
  <2>1. mod_bits(ex.status, set, bits) \in SUBSET AllBits
    BY <1>2 DEF mod_bits
  <2>2. handled(h) \in BOOLEAN
    BY <1>2 DEF handled
  <2> HIDE DEF h
  <2> QED
    BY <1>1, <1>2, <1>4, <2>1, <2>2
<1>6. want' \in [status : SUBSET AllBits, soft : SUBSET SoftInts]
  BY <1>1 DEF TypeOK, mod_bits
<1>7. seen' \in [owed : SUBSET Handlers, called : SUBSET Handlers]
  BY <1>1, <1>3 DEF TypeOK
<1>8. dirty' \subseteq FPGroups \union {"SCRATCH"}
  BY <1>1 DEF TypeOK, FPGroups, LiveFP
<1>9. TypeOK'
  BY <1>1, <1>5, <1>6, <1>7, <1>8 DEF TypeOK
<1>10. Arguments' /\ Closed' /\ Installing'
  BY <1>1 DEF Arguments, Closed, Installing, Running
<1>11. MaskExact'
  <2>1. main.at \notin {"mask", "remask"}
    BY <1>1 DEF Closed, Running
  <2> QED
    BY <1>1, <2>1 DEF MaskExact
<1>12. FPPreserved'
  BY <1>1, <1>2 DEF FPPreserved, Running
<1>13. ASSUME "add" \notin HandlerOps PROVE FrameCovers'
  <2>1. /\ ex'.ctx = "chain" /\ ex'.fp = ex.fp /\ ex'.ih = next_ih(h, gone)
    BY <1>1, <1>2
  <2>2. /\ dirty \subseteq ex.fp \union MayLose
        /\ "MDMXACC" \in ex.fp => MXEnabled
        /\ UnionMask(handler_chains) \intersect LiveFP \subseteq ex.fp
        /\ FPMask[h] \intersect LiveFP \subseteq ex.fp
    BY <1>1, <1>13 DEF FPCovered, FrameCovers
  <2>3. ex'.ih # NULL => FPMask[ex'.ih] \subseteq UnionMask(handler_chains)
    BY <1>2, <1>4, <2>1, MasksTyped
  <2> HIDE DEF h
  <2> QED
    BY <1>1, <1>13, <2>1, <2>2, <2>3 DEF FrameCovers
<1> QED
  BY <1>9, <1>10, <1>11, <1>12, <1>13 DEF FPCovered

LEMMA RunHandlerInv ==
  ASSUME Inv, RunHandler
  PROVE  Inv'
<1>0. /\ handler_chains \in [Ints -> Seq(Handlers)]
      /\ intr_fpsavemask \subseteq FPGroups
      /\ entry \in [func : {"intr", "panic"}, mask : SUBSET FPGroups]
      /\ EntryExact /\ MaskExact
  BY DEF Inv, TypeOK
<1>1. ex.ctx = "chain" => UnionMask(handler_chains) = intr_fpsavemask
  BY DEF Inv, Closed, Running, MaskExact
<1>2. ASSUME NEW set \in BOOLEAN, NEW bits \in SUBSET AllBits,
             NEW raised \in SUBSET SoftInts, HandlerStep(set, bits, raised, {}),
             UNCHANGED <<handler_chains, intr_fpsavemask, entry>>
      PROVE  Inv'
  <2>1. UnionMask(handler_chains) = intr_fpsavemask
    BY <1>1, <1>2 DEF HandlerStep
  <2>2. EntryExact'
    BY <1>0, <1>2 DEF HandlerStep, EntryExact
  <2> QED
    BY <1>0, <1>2, <2>1, <2>2, HandlerInv
<1>3. CASE HandlerServes
  <2>1. /\ HandlerStep(TRUE, {}, {}, {})
        /\ UNCHANGED <<handler_chains, intr_fpsavemask, entry>>
    BY <1>3 DEF HandlerServes
  <2>2. {} \in SUBSET AllBits /\ {} \in SUBSET SoftInts /\ TRUE \in BOOLEAN
    OBVIOUS
  <2> QED
    BY <1>2, <2>1, <2>2
<1>4. CASE HandlerSetsFrame
  <2>1. PICK set \in BOOLEAN, b \in AllBits : HandlerStep(set, {b}, {}, {})
    BY <1>4 DEF HandlerSetsFrame
  <2> QED
    BY <1>2, <1>4, <2>1 DEF HandlerSetsFrame
<1>5. CASE HandlerSetsSoftint
  <2>1. PICK n \in SoftInts : HandlerStep(TRUE, {}, {n}, {})
    BY <1>5 DEF HandlerSetsSoftint
  <2> QED
    BY <1>2, <1>5, <2>1 DEF HandlerSetsSoftint
<1>6. ASSUME NEW n, NEW h, RemoveFromHandler(n, h)
      PROVE  Inv'
  <2>1. /\ HandlerStep(TRUE, {}, {}, {h})
        /\ handler_chains' = unlink(handler_chains, n, h)
        /\ IF h \in Linked(handler_chains, n) THEN Recalculate(h, handler_chains')
           ELSE UNCHANGED <<intr_fpsavemask, entry>>
    BY <1>6 DEF RemoveFromHandler
  <2>2. /\ handler_chains' \in [Ints -> Seq(Handlers)]
        /\ UnionMask(handler_chains') \subseteq UnionMask(handler_chains)
        /\ UnionMask(handler_chains) \subseteq UnionMask(handler_chains') \union FPMask[h]
    BY <1>0, <2>1, UnlinkType
  <2>3. UnionMask(handler_chains) = intr_fpsavemask /\ UNCHANGED <<initted, orig>>
    BY <1>1, <2>1 DEF HandlerStep
  <2>4. UnionMask(handler_chains') \subseteq FPGroups
    BY <2>2, MasksTyped
  <2>5. CASE h \notin Linked(handler_chains, n)
    <3>1. handler_chains' = handler_chains /\ UNCHANGED <<intr_fpsavemask, entry>>
      BY <2>1, <2>5 DEF unlink
    <3>2. EntryExact'
      BY <1>0, <2>3, <3>1 DEF EntryExact
    <3> QED
      BY <1>0, <2>1, <2>2, <2>3, <3>1, <3>2, HandlerInv
  <2>6. CASE h \in Linked(handler_chains, n) /\ FPMask[h] = {}
    <3>1. UNCHANGED <<intr_fpsavemask, entry>>
      BY <2>1, <2>6 DEF Recalculate
    <3>2. EntryExact'
      BY <1>0, <2>3, <3>1 DEF EntryExact
    <3>3. UnionMask(handler_chains') = intr_fpsavemask'
      BY <2>2, <2>3, <2>6, <3>1
    <3> QED
      BY <1>0, <2>1, <2>2, <3>1, <3>2, <3>3, HandlerInv
  <2>7. CASE h \in Linked(handler_chains, n) /\ FPMask[h] # {}
    <3>1. /\ intr_fpsavemask' = UnionMask(handler_chains')
          /\ entry' = [entry EXCEPT !.mask = exlib_fpsavemask(intr_fpsavemask')]
      BY <2>1, <2>7 DEF Recalculate
    <3>2. /\ entry' \in [func : {"intr", "panic"}, mask : SUBSET FPGroups]
          /\ EntryExact'
      BY <1>0, <2>3, <2>4, <3>1 DEF EntryExact, exlib_fpsavemask
    <3> QED
      BY <2>1, <2>2, <2>4, <3>1, <3>2, HandlerInv
  <2> QED
    BY <2>5, <2>6, <2>7
<1>7. CASE HandlerRemovesItself
  BY <1>6, <1>7 DEF HandlerRemovesItself
<1>8. CASE HandlerRemovesOther
  BY <1>6, <1>8 DEF HandlerRemovesOther
<1>9. CASE HandlerAdds
  <2>1. /\ "add" \in HandlerOps
        /\ HandlerStep(TRUE, {}, {}, {})
    BY <1>9 DEF HandlerAdds
  <2>2. PICK n \in Ints, h \in Handlers :
          handler_chains' = link(handler_chains, n, h) /\ Extend(h)
    BY <1>9 DEF HandlerAdds
  <2>3. /\ handler_chains' \in [Ints -> Seq(Handlers)]
        /\ UnionMask(handler_chains') = UnionMask(handler_chains) \union FPMask[h]
    BY <1>0, <2>2, LinkType
  <2>4. UnionMask(handler_chains) = intr_fpsavemask /\ UNCHANGED <<initted, orig>>
    BY <1>1, <2>1 DEF HandlerStep
  <2>5. /\ intr_fpsavemask' = UnionMask(handler_chains')
        /\ intr_fpsavemask' \subseteq FPGroups
        /\ entry' \in [func : {"intr", "panic"}, mask : SUBSET FPGroups]
        /\ EntryExact'
    <3>1. FPMask[h] \subseteq FPGroups
      BY <1>0, MasksTyped
    <3>2. CASE FPMask[h] \subseteq intr_fpsavemask
      BY <1>0, <2>2, <2>3, <2>4, <3>2 DEF Extend, EntryExact
    <3>3. CASE ~(FPMask[h] \subseteq intr_fpsavemask)
      BY <1>0, <2>2, <2>3, <2>4, <3>1, <3>3 DEF Extend, EntryExact, exlib_fpsavemask
    <3> QED
      BY <3>2, <3>3
  <2>6. {} \in SUBSET AllBits /\ {} \in SUBSET SoftInts /\ TRUE \in BOOLEAN
    OBVIOUS
  <2> QED
    BY <2>1, <2>3, <2>5, <2>6, HandlerInv
<1> QED
  BY <1>3, <1>4, <1>5, <1>7, <1>8, <1>9 DEF RunHandler

LEMMA DispatchInv ==
  ASSUME Inv, TakeInterrupt \/ StartChain \/ EndChain \/ Return
  PROVE  Inv'
<1> USE DEF Inv
<1>0. /\ handler_chains \in [Ints -> Seq(Handlers)]
      /\ ex \in [ctx : {"main", "dispatch", "chain", "panic"},
                 status : SUBSET AllBits, fp : SUBSET FPGroups,
                 todo : SUBSET Ints, int : Ints \union {NULL},
                 ih : Handlers \union {NULL}, handled : BOOLEAN]
      /\ status \subseteq AllBits
      /\ seen \in [owed : SUBSET Handlers, called : SUBSET Handlers]
  BY DEF TypeOK
<1>1. CASE TakeInterrupt
  <2>1. /\ Running /\ IE \in status
        /\ ex' = [NoException EXCEPT
                    !.ctx = IF entry.func = "intr" THEN "dispatch" ELSE "panic",
                    !.status = status, !.fp = exframe_save_fp(entry.mask),
                    !.todo = Pending \intersect status]
        /\ status' = status \ {IE} /\ dirty' = {}
        /\ UNCHANGED <<soft, line, state, main, want, seen>>
    BY <1>1 DEF TakeInterrupt, exlib_dispatch, intrs_to_process
  <2>2. Pending \intersect status \in SUBSET Ints
    BY IntsAssumption DEF TypeOK, Pending
  <2>3. TypeOK'
    <3>1. exframe_save_fp(entry.mask) \in SUBSET FPGroups
      BY DEF TypeOK, exframe_save_fp
    <3>2. ex' \in [ctx : {"main", "dispatch", "chain", "panic"},
                   status : SUBSET AllBits, fp : SUBSET FPGroups,
                   todo : SUBSET Ints, int : Ints \union {NULL},
                   ih : Handlers \union {NULL}, handled : BOOLEAN]
      BY <1>0, <2>1, <2>2, <3>1 DEF NoException
    <3>3. /\ status' \subseteq AllBits /\ dirty' = {}
          /\ UNCHANGED <<soft, line, state, main, want, seen>>
      BY <1>0, <2>1
    <3> QED
      BY <3>2, <3>3 DEF TypeOK, state
  <2>4. main.at \notin {"link", "mask", "unlink", "remask"}
    BY <2>1 DEF Closed
  <2>5. Arguments' /\ Installing' /\ Closed' /\ MaskExact' /\ EntryExact'
    BY <2>1, <2>4 DEF Arguments, Installing, Closed, MaskExact, EntryExact, state
  <2>6. FPPreserved'
    BY <2>1 DEF FPPreserved, NoException, Running
  <2>7. FrameCovers'
    <3>1. UnionMask(handler_chains) = intr_fpsavemask
      BY <2>4 DEF MaskExact
    <3>2. dirty' = {} /\ handler_chains' = handler_chains
      BY <2>1 DEF state
    <3>3. ex'.ctx # "chain" /\ ex'.fp = exframe_save_fp(entry.mask)
          /\ (ex'.ctx = "dispatch" => entry.func = "intr")
      BY <2>1 DEF NoException
    <3> QED
      BY <3>1, <3>2, <3>3 DEF FrameCovers, EntryExact, exframe_save_fp, LiveFP
  <2> QED
    BY <2>3, <2>5, <2>6, <2>7 DEF FPCovered
<1>2. CASE StartChain
  <2> DEFINE n == Max(ex.todo)
  <2>1. /\ ex.ctx = "dispatch" /\ ex.todo # {}
        /\ ex' = [ex EXCEPT !.ctx = "chain", !.todo = ex.todo \ {n}, !.int = n,
                            !.ih = ih_first(handler_chains, n), !.handled = FALSE]
        /\ seen' = [owed |-> Linked(handler_chains, n), called |-> {}]
        /\ UNCHANGED <<status, soft, line, state, main, dirty, want>>
    BY <1>2 DEF StartChain
  <2>2. n \in Ints
    BY <1>0, <2>1, MaxIsIn
  <2>3. /\ ih_first(handler_chains, n) \in AllLinked(handler_chains) \union {NULL}
        /\ ih_first(handler_chains, n) \in Handlers \union {NULL}
        /\ Linked(handler_chains, n) \subseteq Handlers
    BY <1>0, <2>2, NextIsLinked DEF AllLinked
  <2> HIDE DEF n
  <2>4. TypeOK'
    <3>1. seen' \in [owed : SUBSET Handlers, called : SUBSET Handlers]
      BY <2>1, <2>3
    <3>2. ex' \in [ctx : {"main", "dispatch", "chain", "panic"},
                   status : SUBSET AllBits, fp : SUBSET FPGroups,
                   todo : SUBSET Ints, int : Ints \union {NULL},
                   ih : Handlers \union {NULL}, handled : BOOLEAN]
      BY <1>0, <2>1, <2>2, <2>3
    <3> QED
      BY <2>1, <3>1, <3>2 DEF TypeOK, state
  <2>5. Arguments' /\ Installing' /\ Closed' /\ MaskExact' /\ EntryExact'
    BY <2>1 DEF Arguments, Installing, Closed, MaskExact, EntryExact, Running, state
  <2>6. FPPreserved'
    BY <1>0, <2>1 DEF FPPreserved, Running
  <2>7. ASSUME "add" \notin HandlerOps PROVE FrameCovers'
    <3>1. /\ ex'.ctx = "chain" /\ ex'.fp = ex.fp
          /\ ex'.ih = ih_first(handler_chains, n)
      BY <1>0, <2>1
    <3>2. ex'.ih # NULL => FPMask[ex'.ih] \subseteq UnionMask(handler_chains)
      BY <1>0, <2>3, <3>1, MasksTyped
    <3>3. dirty' = dirty /\ handler_chains' = handler_chains
      BY <2>1 DEF state
    <3> QED
      BY <2>1, <2>7, <3>1, <3>2, <3>3 DEF FPCovered, FrameCovers
  <2> QED
    BY <2>4, <2>5, <2>6, <2>7 DEF FPCovered
<1>3. CASE EndChain
  <2>1. /\ ex.ctx = "chain"
        /\ ex' = [ex EXCEPT !.ctx = IF ex.handled THEN "dispatch" ELSE "panic"]
        /\ UNCHANGED <<status, soft, line, state, main, dirty, want, seen>>
    BY <1>3 DEF EndChain
  <2>2. /\ ex'.ctx \in {"dispatch", "panic"} /\ ex'.fp = ex.fp
        /\ ex' \in [ctx : {"main", "dispatch", "chain", "panic"},
                    status : SUBSET AllBits, fp : SUBSET FPGroups,
                    todo : SUBSET Ints, int : Ints \union {NULL},
                    ih : Handlers \union {NULL}, handled : BOOLEAN]
    BY <1>0, <2>1
  <2>3. TypeOK'
    <3>1. UNCHANGED <<status, soft, line, state, main, dirty, want, seen>>
      BY <2>1
    <3> QED
      BY <2>2, <3>1 DEF TypeOK, state
  <2>4. Arguments' /\ Installing' /\ Closed' /\ MaskExact' /\ EntryExact'
    BY <2>1 DEF Arguments, Installing, Closed, MaskExact, EntryExact, Running, state
  <2>5. FPCovered'
    BY <2>1, <2>2 DEF FPCovered, FPPreserved, FrameCovers, Running, state
  <2> QED
    BY <2>3, <2>4, <2>5
<1>4. CASE Return
  <2>1. /\ ex.ctx = "dispatch" /\ ex' = NoException /\ status' = ex.status
        /\ dirty' = (dirty \ ex.fp) \union Scratch(ex.fp)
        /\ seen' = [owed |-> {}, called |-> {}]
        /\ UNCHANGED <<soft, line, state, main, want>>
    BY <1>4 DEF Return, exframe_restore_fp
  <2>2. /\ dirty' \subseteq FPGroups \union {"SCRATCH"}
        /\ "add" \notin HandlerOps => dirty' \subseteq MayLose
    BY <2>1 DEF TypeOK, FPCovered, FrameCovers, Scratch, MayLose
  <2>3. TypeOK'
    BY <1>0, <2>1, <2>2 DEF TypeOK, MayLose, NoException, state
  <2>4. Arguments' /\ Installing' /\ Closed' /\ MaskExact' /\ EntryExact'
    BY <2>1 DEF Arguments, Installing, Closed, MaskExact, EntryExact, Running, state
  <2>5. FPCovered'
    BY <2>1, <2>2 DEF FPCovered, FPPreserved, FrameCovers, NoException
  <2> QED
    BY <2>3, <2>4, <2>5
<1> QED
  BY <1>1, <1>2, <1>3, <1>4

LEMMA StepInv ==
  ASSUME Inv, [Next]_vars
  PROVE  Inv'
<1>1. CASE Main
  BY <1>1, CallsInv, AccessInv DEF Main
<1>2. CASE Interrupt
  BY <1>2, DispatchInv, RunHandlerInv DEF Interrupt
<1>3. ASSUME NEW n \in Ints, Raise(n) PROVE Inv'
  <2>1. /\ n \in Ints \ (SoftInts \union line) /\ line' = line \union {n}
        /\ UNCHANGED <<status, soft, state, main, ex, dirty, want, seen>>
    BY <1>3 DEF Raise
  <2> QED
    BY <2>1 DEF Inv, TypeOK, Arguments, Installing, FPCovered, FPPreserved,
                MaskExact, Closed, EntryExact, FrameCovers, Running, state
<1>4. CASE UNCHANGED vars
  BY <1>4 DEF vars, state, Inv, TypeOK, Arguments, Installing, FPCovered,
              FPPreserved, MaskExact, Closed, EntryExact, FrameCovers, Running
<1> QED
  BY <1>1, <1>2, <1>3, <1>4 DEF Next

(* The inductive invariant holds, whatever handlers do.                    *)
THEOREM InvHolds == Spec => []Inv
<1>1. Inv /\ [Next]_vars => Inv'
  BY StepInv
<1> QED
  BY InitInv, <1>1, PTL DEF Spec

(* The variables keep their types. *)
THEOREM IntrTypeOK == Spec => []TypeOK
<1>1. Inv => TypeOK
  BY DEF Inv
<1> QED
  BY InvHolds, <1>1, PTL

(* While the dispatcher is installed, an interrupt saves the registers of  *)
(* the chained handlers and no others, whatever the main program and the   *)
(* handlers add and remove (exlib.h:239-241; intr.c:141-147, 171-180).     *)
THEOREM IntrSavesUnion == Spec => []SavesUnion
<1>1. Inv => SavesUnion
  BY DEF Inv, MaskExact, EntryExact, SavesUnion
<1> QED
  BY InvHolds, <1>1, PTL

(* The FP registers of the interrupted program survive every interrupt,    *)
(* for any handlers and masks, coming and going as they like, unless a     *)
(* handler adds one: it may be reached in the exception being handled,     *)
(* whose frame was saved with the mask of before (intr.c:143-147).         *)
THEOREM IntrFPPreserved ==
  ASSUME "add" \notin HandlerOps
  PROVE  Spec => []FPPreserved
<1>1. Inv => FPPreserved
  BY DEF Inv, FPCovered
<1> QED
  BY InvHolds, <1>1, PTL

-----------------------------------------------------------------------------
(* RequestsStick.  A handler that changes the frame's Status while the main *)
(* program's mod_status_bits is between its read and its write is undone,  *)
(* and so is one that takes back a software request between the read and   *)
(* the write of mod_cause_bits.  It cannot matter if there is but one       *)
(* software interrupt, or the main program requests none.                  *)
OneSoftint == \/ \A m, n \in SoftInts : m = n
              \/ MainOps \intersect {"set_softint", "clear_softint"} = {}

(* A call that only wants IE out of the way, and has it so.                *)
Editing == \/ main.at \in {"link", "mask", "unlink", "remask"}
           \/ main.at = "restore" /\ main.call # "shutdown"

(* What a call has read is what was asked for, and Status is, but for the  *)
(* IE that an edit puts back; during an interrupt the frame's Status is.    *)
Agreed ==
  /\ soft = want.soft
  /\ main.at \in {"idle", "read", "write", "read_cause", "write_cause"} =>
       want.status = IF Running THEN status ELSE ex.status
  /\ main.at = "write" => main.val = want.status
  /\ Editing => /\ Running
                /\ status = want.status \ {IE}
                /\ main.val = want.status \intersect {IE}
  /\ main.at = "restore" => main.call \in {"add", "remove", "shutdown"}
  /\ main.at \in {"read_cause", "write_cause"} =>
       main.call \in MainOps \intersect {"set_softint", "clear_softint"}

LEMMA InitAgreed == Init => Agreed
BY DEF Init, Agreed, Editing, Running, Idle, NoException

LEMMA CallsAgreed ==
  ASSUME Inv, Agreed, CallIE \/ CallInt \/ CallSoftint \/ CallAdd \/ CallRemove
                      \/ CallInit \/ CallShutdown
  PROVE  Agreed'
<1>1. ASSUME NEW op, NEW n, NEW h, NEW at, Call(op, n, h, at),
             \/ at = "read"
             \/ at = "read_cause" /\ op \in {"set_softint", "clear_softint"}
      PROVE  Agreed'
  BY <1>1 DEF Call, Idle, Agreed, Editing, Running
<1>2. CASE CallIE
  BY <1>1, <1>2 DEF CallIE
<1>3. CASE CallInt
  BY <1>1, <1>3 DEF CallInt
<1>4. CASE CallSoftint
  BY <1>1, <1>4 DEF CallSoftint
<1>5. CASE CallAdd
  BY <1>1, <1>5 DEF CallAdd
<1>6. CASE CallRemove
  BY <1>1, <1>6 DEF CallRemove
<1>7. CASE CallInit
  BY <1>1, <1>7 DEF CallInit
<1>8. CASE CallShutdown
  BY <1>1, <1>8 DEF CallShutdown
<1> QED
  BY <1>2, <1>3, <1>4, <1>5, <1>6, <1>7, <1>8

LEMMA AccessAgreed ==
  ASSUME Inv, Agreed, OneSoftint,
         Read \/ WriteStatus \/ WriteCause \/ Link \/ Mask \/ Unlink
              \/ Remask \/ Install \/ Restore
  PROVE  Agreed'
<1>0. /\ main \in [call : {"none", "set_ie", "clear_ie", "enable_int",
                       "disable_int", "set_softint", "clear_softint", "add",
                       "remove", "init", "shutdown"},
               int : Ints \union {NULL}, ih : Handlers \union {NULL},
               at : {"idle", "read", "write", "read_cause", "write_cause",
                     "link", "mask", "unlink", "remask", "install", "restore"},
               val : SUBSET AllBits]
      /\ want \in [status : SUBSET AllBits, soft : SUBSET SoftInts]
      /\ status \subseteq AllBits
  BY DEF Inv, TypeOK
<1>1. CASE Read
  BY <1>0, <1>1 DEF Read, Agreed, Editing, Running
<1>2. CASE WriteStatus
  <2>1. /\ UNCHANGED <<soft, ex>> /\ Running /\ main.at = "write"
        /\ status' = mod_bits(want.status, Sets(main), Bits(main))
        /\ main.val = want.status
    BY <1>2 DEF WriteStatus, Agreed
  <2>2. CASE GoesOn(main)
    <3>1. /\ main' = [main EXCEPT !.at = Follows[main.call],
                                  !.val = main.val \intersect Bits(main)]
          /\ want' = want
      BY <1>2, <2>2 DEF WriteStatus
    <3>2. \/ main.call = "add" /\ Follows[main.call] = "link"
          \/ main.call = "remove" /\ Follows[main.call] = "unlink"
          \/ main.call = "init" /\ Follows[main.call] = "install"
          \/ main.call = "shutdown" /\ Follows[main.call] = "restore"
      BY <2>2 DEF GoesOn, Follows
    <3>3. CASE main.call \in {"add", "remove"}
      <4>1. Bits(main) = {IE} /\ ~Sets(main)
        BY <3>3 DEF Bits, Sets
      <4>2. /\ main'.at \in {"link", "unlink"}
            /\ main'.val = want.status \intersect {IE}
            /\ status' = want.status \ {IE}
        BY <1>0, <2>1, <3>1, <3>2, <3>3, <4>1 DEF mod_bits
      <4> QED
        BY <2>1, <3>1, <4>2 DEF Agreed, Editing, Running
    <3>4. CASE main.call \notin {"add", "remove"}
      <4>1. /\ main'.call = main.call
            /\ \/ main.call = "init" /\ main'.at = "install"
               \/ main.call = "shutdown" /\ main'.at = "restore"
        BY <1>0, <3>1, <3>2, <3>4
      <4> QED
        BY <2>1, <3>1, <4>1 DEF Agreed, Editing, Running
    <3> QED
      BY <3>3, <3>4
  <2>3. CASE ~GoesOn(main)
    <3>1. /\ main' = Idle
          /\ want' = [want EXCEPT !.status =
                        mod_bits(want.status, Sets(main), Bits(main))]
      BY <1>2, <2>3 DEF WriteStatus
    <3>2. want'.status = status' /\ want'.soft = want.soft
      BY <1>0, <2>1, <3>1
    <3> QED
      BY <2>1, <3>1, <3>2 DEF Agreed, Editing, Running, Idle
  <2> QED
    BY <2>2, <2>3
<1>3. CASE WriteCause
  <2>1. /\ UNCHANGED <<status, ex>> /\ Running /\ main.at = "write_cause" /\ main' = Idle
        /\ soft' = mod_bits(main.val, main.call = "set_softint", {main.int})
        /\ want' = [want EXCEPT !.soft =
                      mod_bits(want.soft, main.call = "set_softint", {main.int})]
    BY <1>3 DEF WriteCause
  <2>2. main.int \in SoftInts /\ main.val \subseteq SoftInts /\ want.soft \subseteq SoftInts
    BY <1>0, <2>1 DEF Inv, Arguments
  <2>3. \A n \in SoftInts : n = main.int
    BY <2>1, <2>2 DEF Agreed, OneSoftint
  <2>4. soft' = mod_bits(want.soft, main.call = "set_softint", {main.int})
    BY <2>1, <2>2, <2>3 DEF mod_bits
  <2>5. want'.soft = soft' /\ want'.status = want.status
    BY <1>0, <2>1, <2>4
  <2> QED
    BY <2>1, <2>5 DEF Agreed, Editing, Running, Idle
<1>4. CASE Link
  BY <1>0, <1>4 DEF Link, Agreed, Editing, Running, Inv, Closed
<1>5. CASE Mask
  BY <1>0, <1>5 DEF Mask, Agreed, Editing, Running, Inv, Closed
<1>6. CASE Unlink
  <2>1. /\ UNCHANGED <<status, soft, ex, want>> /\ main.at = "unlink" /\ main.call = "remove"
        /\ \/ main' = [main EXCEPT !.at = "remask"]
           \/ main' = [main EXCEPT !.at = "restore"]
    BY <1>6 DEF Unlink, Inv, Closed
  <2> QED
    BY <1>0, <2>1 DEF Agreed, Editing, Running
<1>7. CASE Remask
  BY <1>0, <1>7 DEF Remask, Agreed, Editing, Running, Inv, Closed
<1>8. CASE Install
  <2>1. /\ UNCHANGED <<status, soft, ex>> /\ Running /\ main' = Idle
        /\ want' = [want EXCEPT !.status = status]
    BY <1>8 DEF Install
  <2>2. want'.status = status' /\ want'.soft = want.soft
    BY <1>0, <2>1
  <2> QED
    BY <2>1, <2>2 DEF Agreed, Editing, Running, Idle
<1>9. CASE Restore
  <2>1. /\ UNCHANGED <<soft, ex>> /\ Running /\ main.at = "restore" /\ main' = Idle
        /\ status' = mod_bits(status, TRUE,
                        IF main.call = "shutdown" THEN orig.bits ELSE main.val)
        /\ want' = IF main.call = "shutdown" THEN [want EXCEPT !.status = status']
                   ELSE want
    BY <1>9 DEF Restore
  <2>2. want'.status = status' /\ want'.soft = want.soft
    <3>1. CASE main.call = "shutdown"
      BY <1>0, <2>1, <3>1
    <3>2. CASE main.call # "shutdown"
      <4>1. status = want.status \ {IE} /\ main.val = want.status \intersect {IE}
        BY <2>1, <3>2 DEF Agreed, Editing
      <4> QED
        BY <2>1, <3>2, <4>1 DEF mod_bits
    <3> QED
      BY <3>1, <3>2
  <2> QED
    BY <2>1, <2>2 DEF Agreed, Editing, Running, Idle
<1> QED
  BY <1>1, <1>2, <1>3, <1>4, <1>5, <1>6, <1>7, <1>8, <1>9

(* A handler that leaves the frame's Status alone.                         *)
LEMMA HandlerAgreed ==
  ASSUME Inv, Agreed, RunHandler, "frame" \notin HandlerOps
  PROVE  Agreed'
<1>1. PICK raised, gone : HandlerStep(TRUE, {}, raised, gone)
  BY DEF RunHandler, HandlerServes, HandlerSetsFrame, HandlerSetsSoftint,
         HandlerRemovesItself, HandlerRemovesOther, RemoveFromHandler, HandlerAdds
<1>2. ex \in [ctx : {"main", "dispatch", "chain", "panic"},
              status : SUBSET AllBits, fp : SUBSET FPGroups,
              todo : SUBSET Ints, int : Ints \union {NULL},
              ih : Handlers \union {NULL}, handled : BOOLEAN]
  BY DEF Inv, TypeOK
<1>3. /\ ex.ctx = "chain" /\ ex'.ctx = "chain" /\ ex'.status = ex.status
      /\ soft' = (soft \ (IF ex.ih \in Shy THEN {} ELSE {ex.int})) \union raised
      /\ want'.soft = (want.soft \ (IF ex.ih \in Shy THEN {} ELSE {ex.int})) \union raised
      /\ want'.status = want.status /\ UNCHANGED <<status, main>>
  BY <1>1, <1>2 DEF HandlerStep, mod_bits
<1> QED
  BY <1>3 DEF Agreed, Editing, Running

LEMMA DispatchAgreed ==
  ASSUME Inv, Agreed, TakeInterrupt \/ StartChain \/ EndChain \/ Return
  PROVE  Agreed'
<1>0. ex \in [ctx : {"main", "dispatch", "chain", "panic"},
              status : SUBSET AllBits, fp : SUBSET FPGroups,
              todo : SUBSET Ints, int : Ints \union {NULL},
              ih : Handlers \union {NULL}, handled : BOOLEAN]
  BY DEF Inv, TypeOK
<1>1. CASE TakeInterrupt
  <2>1. /\ Running /\ IE \in status /\ UNCHANGED <<soft, main, want>>
        /\ ex'.ctx # "main" /\ ex'.status = status
    BY <1>1 DEF TakeInterrupt, exlib_dispatch, NoException
  <2>2. ~Editing
    BY <2>1 DEF Agreed
  <2> QED
    BY <2>1, <2>2 DEF Agreed, Editing, Running
<1>2. CASE StartChain
  <2>1. /\ ex.ctx = "dispatch" /\ ex'.ctx = "chain" /\ ex'.status = ex.status
        /\ UNCHANGED <<status, soft, main, want>>
    BY <1>0, <1>2 DEF StartChain
  <2> QED
    BY <2>1 DEF Agreed, Editing, Running
<1>3. CASE EndChain
  <2>1. /\ ex.ctx = "chain" /\ ex'.ctx # "main" /\ ex'.status = ex.status
        /\ UNCHANGED <<status, soft, main, want>>
    BY <1>0, <1>3 DEF EndChain
  <2> QED
    BY <2>1 DEF Agreed, Editing, Running
<1>4. CASE Return
  BY <1>4 DEF Return, NoException, Agreed, Editing, Running
<1> QED
  BY <1>1, <1>2, <1>3, <1>4

(* What the main program asks of Status and Cause is what it finds there,   *)
(* whatever interrupts came between its reads and its writes, if handlers  *)
(* leave the frame's Status alone and do not take back a second software   *)
(* request behind its back (exlib.h:292-311; intr.c:204-266).              *)
THEOREM IntrRequestsStick ==
  ASSUME "frame" \notin HandlerOps, OneSoftint
  PROVE  Spec => []RequestsStick
<1>1. Inv /\ Agreed /\ [Next]_vars => Agreed'
  <2> SUFFICES ASSUME Inv, Agreed, [Next]_vars PROVE Agreed'
    OBVIOUS
  <2>1. CASE Main
    BY <2>1, CallsAgreed, AccessAgreed DEF Main
  <2>2. CASE Interrupt
    BY <2>2, DispatchAgreed, HandlerAgreed DEF Interrupt
  <2>3. CASE \E n \in Ints : Raise(n)
    BY <2>3 DEF Raise, Agreed, Editing, Running
  <2>4. CASE UNCHANGED vars
    BY <2>4 DEF vars, Agreed, Editing, Running
  <2> QED
    BY <2>1, <2>2, <2>3, <2>4 DEF Next
<1>2. Agreed => RequestsStick
  BY DEF Agreed, RequestsStick
<1> QED
  BY InvHolds, InitAgreed, <1>1, <1>2, PTL DEF Spec

-----------------------------------------------------------------------------
(* EachHandlerRunsOnce.  Not of handlers that remove others: the pointer   *)
(* that run_intr_chain keeps may be that of one just removed, which it then*)
(* calls (InstalledHandlersRun).  Nor of a handler that goes and is added  *)
(* again while the chain is run: it is called again.                       *)
NoneReturns == /\ "remove" \notin HandlerOps
               /\ "add" \notin HandlerOps \/ "remove_self" \notin HandlerOps

Once(c) ==
  /\ \A n \in Ints : \A j, k \in DOMAIN c[n] : j # k => c[n][j] # c[n][k]
  /\ \A m, n \in Ints : m # n => Linked(c, m) \intersect Linked(c, n) = {}

(* A handler is linked once, for one interrupt; the one that the main      *)
(* program is adding is not linked yet, and handlers do not add it.        *)
LinkedOnce ==
  /\ Once(handler_chains)
  /\ main.call = "add" => main.ih \in FromMain
  /\ main.call = "add" /\ main.at \in {"read", "write", "link"} =>
       main.ih \notin AllLinked(handler_chains)

(* What of a chain is still to run, when the handler in place k is next:   *)
(* none of it ran, and whoever is owed a call ran or is there.             *)
Rest(s, k) == {s[j] : j \in k .. Len(s)}
ToGo(s, k, owed, called) ==
  Rest(s, k) \intersect called = {} /\ owed \subseteq called \union Rest(s, k)

Traversed ==
  ex.ctx = "chain" =>
    /\ "add" \in HandlerOps => seen.called \subseteq AllLinked(handler_chains)
    /\ ex.ih = NULL => seen.owed \subseteq seen.called
    /\ ex.ih # NULL =>
         /\ ex.int \in Ints
         /\ \E k \in DOMAIN handler_chains[ex.int] :
              /\ handler_chains[ex.int][k] = ex.ih
              /\ ToGo(handler_chains[ex.int], k, seen.owed, seen.called)

(* Unlinking and linking keep every handler in at most one place.          *)
LEMMA UnlinkOnce ==
  ASSUME NEW c \in [Ints -> Seq(Handlers)], Once(c), NEW n, NEW h
  PROVE  Once(unlink(c, n, h)) /\ AllLinked(unlink(c, n, h)) \subseteq AllLinked(c)
<1> DEFINE d == unlink(c, n, h)
<1>1. CASE h \notin Linked(c, n) \/ n \notin Ints
  <2>1. d = c
    BY <1>1 DEF unlink
  <2> QED
    BY <2>1
<1>2. CASE h \in Linked(c, n) /\ n \in Ints
  <2>1. d = [c EXCEPT ![n] = Without(c[n], h)]
    BY <1>2 DEF unlink
  <2>2. c[n] \in Seq(Handlers) /\ \E j \in DOMAIN c[n] : c[n][j] = h
    BY <1>2 DEF Linked
  <2>3. PICK i \in 1 .. Len(c[n]) :
          /\ Len(d[n]) = Len(c[n]) - 1 /\ d[n] \in Seq(Handlers)
          /\ \A k \in 1 .. Len(c[n]) - 1 :
               d[n][k] = IF k < i THEN c[n][k] ELSE c[n][k + 1]
    <3>1. d[n] = Without(c[n], h)
      BY <1>2, <2>1
    <3>2. \E i \in DOMAIN c[n] :
            /\ c[n][i] = h
            /\ Without(c[n], h) \in Seq(Handlers)
            /\ Len(Without(c[n], h)) = Len(c[n]) - 1
            /\ \A k \in 1 .. Len(c[n]) - 1 :
                 Without(c[n], h)[k] = IF k < i THEN c[n][k] ELSE c[n][k + 1]
      <4> DEFINE q == c[n]
      <4>1. q \in Seq(Handlers) /\ \E j \in DOMAIN q : q[j] = h
        BY <2>2
      <4> HIDE DEF q
      <4>2. \E i \in DOMAIN q :
              /\ q[i] = h
              /\ Without(q, h) \in Seq(Handlers) /\ Len(Without(q, h)) = Len(q) - 1
              /\ \A k \in 1 .. Len(q) - 1 :
                   Without(q, h)[k] = IF k < i THEN q[k] ELSE q[k + 1]
        BY <4>1, WithoutIs
      <4> QED
        BY <4>2 DEF q
    <3>3. DOMAIN c[n] = 1 .. Len(c[n])
      BY <2>2
    <3> HIDE DEF d
    <3> QED
      BY <3>1, <3>2, <3>3
  <2>4. \A m \in Ints : m # n => d[m] = c[m]
    BY <2>1
  <2> HIDE DEF d
  <2>5. DOMAIN d[n] = 1 .. Len(c[n]) - 1 /\ DOMAIN c[n] = 1 .. Len(c[n]) /\ Len(c[n]) \in Nat
    BY <2>2, <2>3
  <2>6. \A k \in DOMAIN d[n] : d[n][k] \in Linked(c, n)
    <3> TAKE k \in DOMAIN d[n]
    <3>1. k \in DOMAIN c[n] /\ k + 1 \in DOMAIN c[n]
      BY <2>5
    <3>2. d[n][k] = c[n][k] \/ d[n][k] = c[n][k + 1]
      BY <2>3, <2>5
    <3> QED
      BY <3>1, <3>2 DEF Linked
  <2>7. \A m \in Ints : Linked(d, m) \subseteq Linked(c, m)
    <3> TAKE m \in Ints
    <3>1. CASE m = n
      BY <2>6, <3>1 DEF Linked
    <3>2. CASE m # n
      BY <2>4, <3>2 DEF Linked
    <3> QED
      BY <3>1, <3>2
  <2>8. \A j, k \in DOMAIN d[n] : j # k => d[n][j] # d[n][k]
    <3> SUFFICES ASSUME NEW j \in DOMAIN d[n], NEW k \in DOMAIN d[n], j # k
                 PROVE  d[n][j] # d[n][k]
      OBVIOUS
    <3>0. ASSUME NEW p \in DOMAIN d[n]
          PROVE  \E a \in DOMAIN c[n] : d[n][p] = c[n][a] /\ a = IF p < i THEN p ELSE p + 1
      <4>1. p \in 1 .. Len(c[n]) - 1 /\ p \in DOMAIN c[n] /\ p + 1 \in DOMAIN c[n]
        BY ONLY <2>5, p \in DOMAIN d[n]
      <4>2. d[n][p] = IF p < i THEN c[n][p] ELSE c[n][p + 1]
        BY <2>3, <4>1, Zenon
      <4> QED
        BY ONLY <4>1, <4>2
    <3>1. PICK a \in DOMAIN c[n] : d[n][j] = c[n][a] /\ a = IF j < i THEN j ELSE j + 1
      BY <3>0, Zenon
    <3>2. PICK b \in DOMAIN c[n] : d[n][k] = c[n][b] /\ b = IF k < i THEN k ELSE k + 1
      BY <3>0, Zenon
    <3>3. a # b
      BY <2>5, <3>1, <3>2
    <3> QED
      BY <1>2, <3>1, <3>2, <3>3 DEF Once
  <2>9. \A m \in Ints : \A j, k \in DOMAIN d[m] : j # k => d[m][j] # d[m][k]
    BY <2>4, <2>8 DEF Once
  <2>10. Once(d)
    BY <2>7, <2>9 DEF Once
  <2>11. AllLinked(d) \subseteq AllLinked(c)
    BY <2>7 DEF AllLinked
  <2> QED
    BY <2>10, <2>11 DEF d
<1> QED
  BY <1>1, <1>2

LEMMA LinkOnce ==
  ASSUME NEW c \in [Ints -> Seq(Handlers)], Once(c),
         NEW n \in Ints, NEW h \in Handlers, h \notin AllLinked(c)
  PROVE  Once(link(c, n, h))
<1> DEFINE d == link(c, n, h)
<1>1. d = [c EXCEPT ![n] = Append(c[n], h)]
  BY DEF link
<1>2. \A m \in Ints : Linked(d, m) = IF m = n THEN Linked(c, m) \union {h} ELSE Linked(c, m)
  BY LinkType
<1>3. d[n] = Append(c[n], h) /\ \A m \in Ints : m # n => d[m] = c[m]
  BY <1>1
<1>4. \A m \in Ints : h \notin Linked(c, m)
  BY DEF AllLinked
<1>5. /\ DOMAIN d[n] = 1 .. Len(c[n]) + 1 /\ DOMAIN c[n] = 1 .. Len(c[n])
      /\ Len(c[n]) \in Nat /\ d[n][Len(c[n]) + 1] = h
      /\ \A k \in 1 .. Len(c[n]) : d[n][k] = c[n][k]
  BY <1>3
<1> HIDE DEF d
<1>6. \A k \in 1 .. Len(c[n]) : c[n][k] # h
  BY <1>4, <1>5 DEF Linked
<1>7. \A j, k \in DOMAIN d[n] : j # k => d[n][j] # d[n][k]
  <2> SUFFICES ASSUME NEW j \in DOMAIN d[n], NEW k \in DOMAIN d[n], j # k
               PROVE  d[n][j] # d[n][k]
    OBVIOUS
  <2>1. CASE j \in 1 .. Len(c[n]) /\ k \in 1 .. Len(c[n])
    BY <1>5, <2>1 DEF Once
  <2>2. CASE j = Len(c[n]) + 1
    BY <1>5, <1>6, <2>2
  <2>3. CASE k = Len(c[n]) + 1
    BY <1>5, <1>6, <2>3
  <2> QED
    BY <1>5, <2>1, <2>2, <2>3
<1>8. \A m \in Ints : \A j, k \in DOMAIN d[m] : j # k => d[m][j] # d[m][k]
  <2> SUFFICES ASSUME NEW m \in Ints
               PROVE  \A j, k \in DOMAIN d[m] : j # k => d[m][j] # d[m][k]
    OBVIOUS
  <2>1. CASE m = n
    BY ONLY <1>7, <2>1
  <2>2. CASE m # n
    <3>1. d[m] = c[m]
      BY ONLY <1>3, <2>2, m \in Ints
    <3>2. \A j, k \in DOMAIN c[m] : j # k => c[m][j] # c[m][k]
      BY Zenon DEF Once
    <3> QED
      BY ONLY <3>1, <3>2
  <2> QED
    BY ONLY <2>1, <2>2
<1>9. \A l, m \in Ints : l # m => Linked(d, l) \intersect Linked(d, m) = {}
  BY <1>2, <1>4 DEF Once
<1> QED
  BY <1>8, <1>9 DEF Once, d

(* The handler behind the one in place k is the one in place k + 1.        *)
LEMMA NextIs ==
  ASSUME NEW c \in [Ints -> Seq(Handlers)], Once(c), NEW n \in Ints,
         NEW k \in DOMAIN c[n]
  PROVE  ih_next(c, c[n][k]) = IF k < Len(c[n]) THEN c[n][k + 1] ELSE NULL
<1> DEFINE h == c[n][k]
<1>1. DOMAIN c[n] = 1 .. Len(c[n]) /\ Len(c[n]) \in Nat /\ c[n] \in Seq(Handlers)
  OBVIOUS
<1>2. ASSUME NEW m \in Ints, NEW j \in 1 .. Len(c[m]) - 1, c[m][j] = h
      PROVE  m = n /\ j = k
  <2>1. j \in DOMAIN c[m]
    OBVIOUS
  <2>2. h \in Linked(c, m) /\ h \in Linked(c, n)
    BY <1>2, <2>1 DEF Linked
  <2>3. m = n
    BY <2>2 DEF Once
  <2> QED
    BY <1>2, <2>1, <2>3 DEF Once
<1>3. \A g : Precedes(c, h, g) <=> k < Len(c[n]) /\ g = c[n][k + 1]
  <2> SUFFICES ASSUME NEW g
               PROVE  Precedes(c, h, g) <=> k < Len(c[n]) /\ g = c[n][k + 1]
    OBVIOUS
  <2>1. ASSUME Precedes(c, h, g) PROVE k < Len(c[n]) /\ g = c[n][k + 1]
    <3>1. PICK m \in Ints : \E j \in 1 .. Len(c[m]) - 1 : c[m][j] = h /\ c[m][j + 1] = g
      BY <2>1 DEF Precedes
    <3>2. PICK j \in 1 .. Len(c[m]) - 1 : c[m][j] = h /\ c[m][j + 1] = g
      BY <3>1
    <3>3. m = n /\ j = k
      BY <1>2, <3>2
    <3> QED
      BY <1>1, <3>2, <3>3
  <2>2. ASSUME k < Len(c[n]), g = c[n][k + 1] PROVE Precedes(c, h, g)
    <3>1. k \in 1 .. Len(c[n]) - 1
      BY <1>1, <2>2
    <3> QED
      BY <2>2, <3>1 DEF Precedes
  <2> QED
    BY <2>1, <2>2
<1> HIDE DEF h
<1>4. CASE k < Len(c[n])
  <2>1. c[n][k + 1] \in Handlers
    BY <1>1, <1>4
  <2> QED
    BY <1>3, <1>4, <2>1 DEF ih_next, h
<1>5. CASE ~(k < Len(c[n]))
  BY <1>3, <1>5 DEF ih_next, h
<1> QED
  BY <1>4, <1>5

(* The handler that runs leaves what is to go.                             *)
LEMMA RestShrinks ==
  ASSUME NEW s \in Seq(Handlers), NEW k \in DOMAIN s, NEW owed, NEW called,
         \A i, j \in DOMAIN s : i # j => s[i] # s[j],
         ToGo(s, k, owed, called)
  PROVE  /\ ToGo(s, k + 1, owed, called \union {s[k]})
         /\ s[k] \notin called
         /\ k = Len(s) => owed \subseteq called \union {s[k]}
<1>1. DOMAIN s = 1 .. Len(s) /\ Len(s) \in Nat
  OBVIOUS
<1>2. k .. Len(s) = (k + 1 .. Len(s)) \union {k}
  BY <1>1
<1>3. Rest(s, k) = Rest(s, k + 1) \union {s[k]}
  BY <1>2 DEF Rest
<1>4. s[k] \notin Rest(s, k + 1)
  <2>1. \A j \in k + 1 .. Len(s) : j \in DOMAIN s /\ j # k
    BY <1>1
  <2> QED
    BY <2>1 DEF Rest
<1>5. k = Len(s) => Rest(s, k + 1) = {}
  BY <1>1 DEF Rest
<1> QED
  BY <1>3, <1>4, <1>5 DEF ToGo

-----------------------------------------------------------------------------
LEMMA InitOnce == Init => LinkedOnce /\ Traversed
<1> SUFFICES ASSUME Init PROVE LinkedOnce /\ Traversed
  OBVIOUS
<1>1. \A n \in Ints : handler_chains[n] = <<>> /\ Linked(handler_chains, n) = {}
  BY DEF Init, Linked
<1> QED
  BY <1>1 DEF Init, LinkedOnce, Once, Traversed, Idle, NoException

(* The main program's steps: it runs while no chain does.                  *)
LEMMA MainOnce ==
  ASSUME Inv, LinkedOnce, Main
  PROVE  LinkedOnce' /\ Traversed'
<1>0. /\ handler_chains \in [Ints -> Seq(Handlers)]
      /\ main \in [call : {"none", "set_ie", "clear_ie", "enable_int",
                       "disable_int", "set_softint", "clear_softint", "add",
                       "remove", "init", "shutdown"},
               int : Ints \union {NULL}, ih : Handlers \union {NULL},
               at : {"idle", "read", "write", "read_cause", "write_cause",
                     "link", "mask", "unlink", "remask", "install", "restore"},
               val : SUBSET AllBits]
  BY DEF Inv, TypeOK
<1>1. ex' = ex /\ ex.ctx = "main"
  BY DEF Main, CallIE, CallInt, CallSoftint, CallAdd, CallRemove, CallInit,
         CallShutdown, Call, Read, WriteStatus, WriteCause, Link, Mask, Unlink,
         Remask, Install, Restore, Running
<1>2. Traversed'
  BY <1>1 DEF Traversed
<1>3. CASE CallAdd
  <2>1. PICK n \in Ints, h \in FromMain \ AllLinked(handler_chains) :
          Call("add", n, h, "read")
    BY <1>3 DEF CallAdd
  <2>2. handler_chains' = handler_chains
    BY <1>3 DEF CallAdd, state
  <2> QED
    BY <1>2, <2>1, <2>2 DEF Call, Idle, LinkedOnce
<1>4. CASE \/ CallIE \/ CallInt \/ CallSoftint \/ CallRemove \/ CallInit \/ CallShutdown
  <2>1. main'.call # "add" /\ handler_chains' = handler_chains
    BY <1>4 DEF CallIE, CallInt, CallSoftint, CallRemove, CallInit, CallShutdown,
                Call, Idle, state
  <2> QED
    BY <1>2, <2>1 DEF LinkedOnce
<1>5. CASE \/ Read \/ WriteStatus \/ WriteCause \/ Mask \/ Remask \/ Install \/ Restore
  <2>1. /\ handler_chains' = handler_chains
        /\ main' = Idle
           \/ /\ main'.call = main.call /\ main'.ih = main.ih
              /\ main.at \in {"read", "write"}
           \/ /\ main'.call = main.call /\ main'.ih = main.ih
              /\ main'.at \notin {"read", "write", "link"}
    BY <1>0, <1>5 DEF Read, WriteStatus, WriteCause, Mask, Remask, Install, Restore, state
  <2> QED
    BY <1>2, <2>1 DEF LinkedOnce, Idle
<1>6. CASE Link
  <2>1. /\ handler_chains' = link(handler_chains, main.int, main.ih)
        /\ main' = [main EXCEPT !.at = "mask"]
        /\ main.at = "link" /\ main.call = "add"
    BY <1>6 DEF Link, Inv, Closed
  <2>2. main.int \in Ints /\ main.ih \in Handlers
    BY <2>1 DEF Inv, Arguments
  <2>3. main.ih \notin AllLinked(handler_chains) /\ Once(handler_chains)
    BY <2>1 DEF LinkedOnce
  <2>4. Once(handler_chains')
    BY <1>0, <2>1, <2>2, <2>3, LinkOnce
  <2> QED
    BY <1>0, <1>2, <2>1, <2>4 DEF LinkedOnce
<1>7. CASE Unlink
  <2>1. /\ handler_chains' = unlink(handler_chains, main.int, main.ih)
        /\ main'.call = "remove"
    BY <1>0, <1>7 DEF Unlink, Inv, Closed
  <2>2. Once(handler_chains')
    BY <1>0, <2>1, UnlinkOnce DEF LinkedOnce
  <2> QED
    BY <1>2, <2>1, <2>2 DEF LinkedOnce
<1> QED
  BY <1>3, <1>4, <1>5, <1>6, <1>7 DEF Main

(* A handler's step, by what becomes of the chain that is run: it is the   *)
(* old one, or the old one without the handler that ran, or the old one    *)
(* with a handler at its end that did not run.                             *)
LEMMA HandlerOnce ==
  ASSUME Inv, LinkedOnce, Traversed, RunHandler, NoneReturns
  PROVE  LinkedOnce' /\ Traversed'
<1> DEFINE n == ex.int
           h == ex.ih
           s == handler_chains[n]
<1>0. /\ handler_chains \in [Ints -> Seq(Handlers)]
      /\ ex \in [ctx : {"main", "dispatch", "chain", "panic"},
                 status : SUBSET AllBits, fp : SUBSET FPGroups,
                 todo : SUBSET Ints, int : Ints \union {NULL},
                 ih : Handlers \union {NULL}, handled : BOOLEAN]
      /\ seen \in [owed : SUBSET Handlers, called : SUBSET Handlers]
      /\ Once(handler_chains)
  BY DEF Inv, TypeOK, LinkedOnce
<1>1. PICK gone : /\ ex.ctx = "chain" /\ ex.ih # NULL
                  /\ ex'.ctx = "chain" /\ ex'.int = n
                  /\ ex'.ih = ih_next(handler_chains, h)
                  /\ seen' = [owed |-> seen.owed \ gone, called |-> seen.called \union {h}]
                  /\ main' = main
  <2>1. PICK set, bits, raised, gone : HandlerStep(set, bits, raised, gone)
    BY DEF RunHandler, HandlerServes, HandlerSetsFrame, HandlerSetsSoftint,
           HandlerRemovesItself, HandlerRemovesOther, RemoveFromHandler, HandlerAdds
  <2> QED
    BY <1>0, <2>1 DEF HandlerStep, next_ih
<1>2. PICK k \in DOMAIN s : s[k] = h /\ ToGo(s, k, seen.owed, seen.called) /\ n \in Ints
  BY <1>1 DEF Traversed
<1> HIDE DEF n, h, s
<1>3. s \in Seq(Handlers) /\ DOMAIN s = 1 .. Len(s) /\ Len(s) \in Nat /\ h \in Linked(handler_chains, n)
  BY <1>0, <1>2 DEF Linked, s
<1>4. /\ ToGo(s, k + 1, seen.owed, seen.called \union {h})
      /\ k = Len(s) => seen.owed \subseteq seen.called \union {h}
  <2>1. \A i, j \in DOMAIN s : i # j => s[i] # s[j]
    BY <1>0, <1>2 DEF Once, s
  <2>2. s[k] = h /\ ToGo(s, k, seen.owed, seen.called)
    BY <1>2
  <2> QED
    BY <1>2, <1>3, <2>1, <2>2, RestShrinks
<1>5. ex'.ih = IF k < Len(s) THEN s[k + 1] ELSE NULL
  BY <1>0, <1>1, <1>2, NextIs DEF s
<1>6. k < Len(s) => ex'.ih # NULL
  <2>1. k < Len(s) => s[k + 1] \in Handlers
    BY <1>2, <1>3
  <2> QED
    BY <1>5, <2>1, HandlersAssumption
<1>7. ~(k < Len(s)) => seen'.owed \subseteq seen'.called /\ ex'.ih = NULL
  BY <1>1, <1>2, <1>3, <1>4, <1>5
<1>8. ASSUME NEW t \in Seq(Handlers), handler_chains'[n] = t,
             k < Len(s) => \E i \in DOMAIN t : /\ t[i] = s[k + 1]
                                               /\ ToGo(t, i, seen'.owed, seen'.called),
             "add" \in HandlerOps => seen'.called \subseteq AllLinked(handler_chains')
      PROVE  Traversed'
  <2>1. CASE k < Len(s)
    BY <1>1, <1>2, <1>5, <1>6, <1>8, <2>1 DEF Traversed
  <2>2. CASE ~(k < Len(s))
    BY <1>1, <1>7, <1>8, <2>2 DEF Traversed
  <2> QED
    BY <2>1, <2>2
<1>9. "add" \in HandlerOps =>
        seen'.called \subseteq AllLinked(handler_chains)
  <2>1. h \in AllLinked(handler_chains)
    BY <1>2, <1>3 DEF AllLinked
  <2> QED
    BY <1>1, <2>1 DEF Traversed
<1>10. CASE HandlerServes \/ HandlerSetsFrame \/ HandlerSetsSoftint
  <2>1. handler_chains' = handler_chains
    BY <1>10 DEF HandlerServes, HandlerSetsFrame, HandlerSetsSoftint
  <2>2. k < Len(s) => /\ k + 1 \in DOMAIN s
                      /\ ToGo(s, k + 1, seen'.owed, seen'.called)
    BY <1>1, <1>2, <1>3, <1>4 DEF ToGo
  <2>3. Traversed'
    BY <1>3, <1>8, <1>9, <2>1, <2>2 DEF s
  <2> QED
    BY <1>1, <2>1, <2>3 DEF LinkedOnce
<1>11. CASE HandlerRemovesItself
  <2>1. /\ handler_chains' = unlink(handler_chains, n, h)
        /\ "add" \notin HandlerOps /\ seen'.owed \subseteq seen.owed \ {h}
    <3>1. "remove_self" \in HandlerOps /\ RemoveFromHandler(n, h)
      BY <1>11 DEF HandlerRemovesItself, n, h
    <3> QED
      BY <1>0, <3>1 DEF RemoveFromHandler, HandlerStep, NoneReturns
  <2>2. /\ Once(handler_chains')
        /\ AllLinked(handler_chains') \subseteq AllLinked(handler_chains)
    BY <1>0, <2>1, UnlinkOnce
  <2>3. handler_chains'[n] = Without(s, h)
    BY <1>0, <1>2, <1>3, <2>1 DEF unlink, s
  <2> DEFINE t == Without(s, h)
  <2>4. PICK i \in DOMAIN s :
          /\ s[i] = h /\ t \in Seq(Handlers) /\ Len(t) = Len(s) - 1
          /\ \A j \in 1 .. Len(s) - 1 : t[j] = IF j < i THEN s[j] ELSE s[j + 1]
    <3>1. s \in Seq(Handlers) /\ \E j \in DOMAIN s : s[j] = h
      BY <1>2, <1>3
    <3> QED
      BY <3>1, WithoutIs
  <2> HIDE DEF t
  <2>5. i = k
    BY <1>0, <1>2, <2>4 DEF Once, s
  <2>6. ASSUME k < Len(s)
        PROVE  k \in DOMAIN t /\ t[k] = s[k + 1] /\ ToGo(t, k, seen'.owed, seen'.called)
    <3>1. DOMAIN t = 1 .. Len(s) - 1 /\ k \in 1 .. Len(s) - 1
      BY <1>2, <1>3, <2>4, <2>6
    <3>2. t[k] = s[k + 1]
      BY <2>4, <2>5, <3>1
    <3>3. Rest(t, k) \subseteq Rest(s, k + 1)
      <4>1. ASSUME NEW j \in k .. Len(t)
            PROVE  t[j] = s[j + 1] /\ j + 1 \in k + 1 .. Len(s)
        BY <1>2, <1>3, <2>4, <2>5
      <4> QED
        BY <4>1 DEF Rest
    <3>4. Rest(s, k + 1) \subseteq Rest(t, k)
      <4>1. ASSUME NEW j \in k + 1 .. Len(s)
            PROVE  t[j - 1] = s[j] /\ j - 1 \in k .. Len(t)
        BY <1>2, <1>3, <2>4, <2>5
      <4> QED
        BY <4>1 DEF Rest
    <3> QED
      BY <1>1, <1>4, <2>1, <3>1, <3>2, <3>3, <3>4 DEF ToGo
  <2>7. Traversed'
    BY <1>8, <2>1, <2>3, <2>4, <2>6 DEF t
  <2> QED
    BY <1>1, <2>2, <2>7 DEF LinkedOnce
<1>12. CASE HandlerAdds
  <2>1. PICK m \in Ints, g \in Handlers :
          /\ g \notin FromMain /\ g \notin AllLinked(handler_chains)
          /\ handler_chains' = link(handler_chains, m, g)
    BY <1>12 DEF HandlerAdds
  <2>2. /\ AllLinked(handler_chains') = AllLinked(handler_chains) \union {g}
        /\ Once(handler_chains')
    BY <1>0, <2>1, LinkType, LinkOnce
  <2>3. LinkedOnce'
    BY <1>1, <2>1, <2>2 DEF LinkedOnce
  <2>4. "add" \in HandlerOps
    BY <1>12 DEF HandlerAdds
  <2>5. g \notin seen'.called
    BY <1>9, <2>1, <2>4
  <2>6. handler_chains'[n] = IF m = n THEN Append(s, g) ELSE s
    BY <1>0, <1>2, <2>1 DEF link, s
  <2>7. CASE m # n
    <3>1. k < Len(s) => k + 1 \in DOMAIN s /\ ToGo(s, k + 1, seen'.owed, seen'.called)
      BY <1>1, <1>2, <1>3, <1>4 DEF ToGo
    <3>2. Traversed'
      BY <1>3, <1>8, <1>9, <2>2, <2>6, <2>7, <3>1
    <3> QED
      BY <2>3, <3>2
  <2>8. CASE m = n
    <3> DEFINE t == Append(s, g)
    <3>1. /\ t \in Seq(Handlers) /\ Len(t) = Len(s) + 1 /\ t[Len(s) + 1] = g
          /\ DOMAIN t = 1 .. Len(s) + 1
          /\ \A j \in 1 .. Len(s) : t[j] = s[j]
      BY <1>3
    <3> HIDE DEF t
    <3>2. ASSUME k < Len(s)
          PROVE  /\ k + 1 \in DOMAIN t /\ t[k + 1] = s[k + 1]
                 /\ ToGo(t, k + 1, seen'.owed, seen'.called)
      <4>1. k + 1 \in DOMAIN t /\ t[k + 1] = s[k + 1]
        BY <1>2, <1>3, <3>1, <3>2
      <4>2. k + 1 .. Len(t) = (k + 1 .. Len(s)) \union {Len(s) + 1}
        BY <1>2, <1>3, <3>1, <3>2
      <4>3. \A j \in k + 1 .. Len(s) : t[j] = s[j]
        BY <1>2, <1>3, <3>1
      <4>4. Rest(t, k + 1) = Rest(s, k + 1) \union {g}
        BY <3>1, <4>2, <4>3 DEF Rest
      <4> QED
        BY <1>1, <1>4, <2>5, <4>1, <4>4 DEF ToGo
    <3>3. Traversed'
      BY <1>8, <1>9, <2>2, <2>6, <2>8, <3>1, <3>2 DEF t
    <3> QED
      BY <2>3, <3>3
  <2> QED
    BY <2>7, <2>8
<1> QED
  BY <1>10, <1>11, <1>12 DEF RunHandler, NoneReturns, HandlerRemovesOther

LEMMA DispatchOnce ==
  ASSUME Inv, LinkedOnce, Traversed, TakeInterrupt \/ StartChain \/ EndChain \/ Return
  PROVE  LinkedOnce' /\ Traversed'
<1>0. /\ handler_chains \in [Ints -> Seq(Handlers)]
      /\ ex \in [ctx : {"main", "dispatch", "chain", "panic"},
                 status : SUBSET AllBits, fp : SUBSET FPGroups,
                 todo : SUBSET Ints, int : Ints \union {NULL},
                 ih : Handlers \union {NULL}, handled : BOOLEAN]
  BY DEF Inv, TypeOK
<1>1. handler_chains' = handler_chains /\ main' = main
  BY DEF TakeInterrupt, StartChain, EndChain, Return, state
<1>2. LinkedOnce'
  BY <1>1 DEF LinkedOnce
<1>3. CASE TakeInterrupt \/ EndChain \/ Return
  <2>1. ex'.ctx # "chain"
    <3>1. CASE TakeInterrupt
      BY <3>1 DEF TakeInterrupt, exlib_dispatch, NoException
    <3>2. CASE EndChain
      BY <1>0, <3>2 DEF EndChain
    <3>3. CASE Return
      BY <3>3 DEF Return, NoException
    <3> QED
      BY <1>3, <3>1, <3>2, <3>3
  <2> QED
    BY <1>2, <2>1 DEF Traversed
<1>4. CASE StartChain
  <2> DEFINE n == Max(ex.todo)
             s == handler_chains[n]
  <2>1. /\ ex.todo # {}
        /\ ex'.int = n /\ ex'.ih = ih_first(handler_chains, n)
        /\ seen' = [owed |-> Linked(handler_chains, n), called |-> {}]
    BY <1>0, <1>4 DEF StartChain
  <2>2. n \in Ints
    BY <1>0, <2>1, MaxIsIn
  <2>3. s \in Seq(Handlers)
    BY <1>0, <2>2
  <2> HIDE DEF n
  <2>4. CASE s = <<>>
    <3>1. Linked(handler_chains, n) = {} /\ ex'.ih = NULL
      BY <2>1, <2>4 DEF Linked, ih_first
    <3> QED
      BY <1>2, <2>1, <3>1 DEF Traversed
  <2>5. CASE s # <<>>
    <3>1. 1 \in DOMAIN s /\ s[1] = ex'.ih /\ DOMAIN s = 1 .. Len(s)
      BY <2>1, <2>3, <2>5 DEF ih_first
    <3>2. Rest(s, 1) = Linked(handler_chains, n)
      BY <3>1 DEF Rest, Linked
    <3>3. ToGo(s, 1, seen'.owed, seen'.called)
      BY <2>1, <3>2 DEF ToGo
    <3>4. s[1] # NULL
      BY <2>3, <3>1, HandlersAssumption
    <3> HIDE DEF s
    <3> QED
      BY <1>1, <1>2, <2>1, <2>2, <3>1, <3>3, <3>4 DEF Traversed, s
  <2> QED
    BY <2>4, <2>5
<1> QED
  BY <1>3, <1>4

(* Where handlers remove at most themselves, a handler about to run is     *)
(* installed and has not run before for this interrupt, and when the chain *)
(* is done all of those installed at its start have run (intr.c:275-279).  *)
THEOREM IntrEachHandlerRunsOnce ==
  ASSUME NoneReturns
  PROVE  Spec => []EachHandlerRunsOnce
<1>1. Inv /\ LinkedOnce /\ Traversed /\ [Next]_vars => (LinkedOnce /\ Traversed)'
  <2> SUFFICES ASSUME Inv, LinkedOnce, Traversed, [Next]_vars
               PROVE  LinkedOnce' /\ Traversed'
    OBVIOUS
  <2>1. CASE Main
    BY <2>1, MainOnce
  <2>2. CASE Interrupt
    BY <2>2, DispatchOnce, HandlerOnce DEF Interrupt
  <2>3. CASE \/ \E n \in Ints : Raise(n)
             \/ UNCHANGED vars
    <3>1. UNCHANGED <<handler_chains, main, ex, seen>>
      BY <2>3 DEF Raise, vars, state
    <3> QED
      BY <3>1 DEF LinkedOnce, Traversed
  <2> QED
    BY <2>1, <2>2, <2>3 DEF Next
<1>2. Inv /\ Traversed => EachHandlerRunsOnce
  <2> SUFFICES ASSUME Inv, Traversed, ex.ctx = "chain", ex.ih # NULL
               PROVE  ex.ih \in Linked(handler_chains, ex.int) \ seen.called
    BY DEF EachHandlerRunsOnce, Traversed
  <2>1. PICK k \in DOMAIN handler_chains[ex.int] :
          /\ handler_chains[ex.int][k] = ex.ih /\ ex.int \in Ints
          /\ ToGo(handler_chains[ex.int], k, seen.owed, seen.called)
    BY DEF Traversed
  <2>2. handler_chains[ex.int] \in Seq(Handlers)
    BY <2>1 DEF Inv, TypeOK
  <2>3. k \in k .. Len(handler_chains[ex.int])
    BY <2>1, <2>2
  <2>4. ex.ih \in Rest(handler_chains[ex.int], k)
    BY <2>1, <2>3 DEF Rest
  <2> QED
    BY <2>1, <2>4 DEF ToGo, Linked
<1> QED
  BY InvHolds, InitOnce, <1>1, <1>2, PTL DEF Spec
=============================================================================
