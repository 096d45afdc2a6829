------------------------- MODULE SbprofCpuProofs -------------------------
(* Proofs about SbprofCpu: for any buffer that holds the configuration, any *)
(* chunk below the range of nevents, any slots and counters, the log stays  *)
(* in its buffer and its headers say what they should.                      *)
EXTENDS SbprofCpu, SequenceTheorems, WellFoundedInduction, TLAPS

LEMMA Constants ==
  /\ BufSize \in Nat /\ ConfigSize \in Nat /\ LongMod \in Nat
  /\ Chunk \in Nat /\ CountMod \in Nat /\ 0 < Chunk /\ Chunk < CountMod
  /\ NSlots \in Nat /\ 0 < NSlots
  /\ TicksPerSlot \in Nat /\ 0 < TicksPerSlot
  /\ TickMod \in Nat /\ TicksPerSlot < TickMod
  BY SbprofAssumption

------------------------------------------------------------------------------
(* Arithmetic of the chunks.                                                *)

LEMMA DivMod ==
  ASSUME NEW k \in Nat, NEW m \in Nat, 0 < m
  PROVE  k = m * (k \div m) + (k % m) /\ k \div m \in Nat /\ k % m \in 0..m - 1
  OBVIOUS

LEMMA SmallMod == ASSUME NEW k \in Nat, NEW m \in Nat, k < m PROVE k % m = k
  OBVIOUS

\* A product is a multiple of its factors.
LEMMA ProductMod == ASSUME NEW q \in Nat, NEW m \in Nat, 0 < m PROVE (m * q) % m = 0
<1> DEFINE k == m * q  d == k \div m  r == k % m
<1>1. k \in Nat
  BY SMT
<1>2. k = m * d + r /\ d \in Nat /\ r \in 0..m - 1
  BY <1>1, DivMod
<1>3. r = m * (q - d) /\ q - d \in Int
  BY <1>1, <1>2, SMT
<1> HIDE DEF k
<1>4. q - d <= 0 \/ q - d >= 1
  BY <1>3
<1>5. CASE q - d >= 1
  <2>1. m * (q - d) >= m
    BY <1>5, <1>3, SMT
  <2> QED
    BY <2>1, <1>3, <1>2
<1>6. CASE q - d <= 0
  <2>1. m * (q - d) <= 0
    BY <1>6, <1>3, SMT
  <2> QED
    BY <2>1, <1>3, <1>2 DEF k
<1> QED
  BY <1>4, <1>5, <1>6

\* Every c successive numbers hold a multiple of c.
LEMMA Multiple ==
  ASSUME NEW m \in Nat, NEW c \in Nat, 0 < c
  PROVE  \E k \in m + 1..m + c : k % c = 0
<1> DEFINE q == m \div c
<1>1. m = c * q + (m % c) /\ q \in Nat /\ m % c \in 0..c - 1
  BY DivMod
<1>2. q + 1 \in Nat /\ c * (q + 1) = c * q + c
  BY <1>1, SMT
<1> HIDE DEF q
<1>3. c * (q + 1) \in m + 1..m + c
  BY <1>1, <1>2, SMT
<1>4. (c * (q + 1)) % c = 0
  BY <1>2, ProductMod
<1> QED
  BY <1>3, <1>4

------------------------------------------------------------------------------
(* A well-formed log: its open header, its closed ones, and no multiple of  *)
(* the chunk since the open one, which bounds its count.                    *)

Headers(b) ==
  /\ b.last # NoHeader => /\ b.log[b.last].kind = "events"
                          /\ SamplesAt(b.log, b.last + 1..Len(b.log))
  /\ \A i \in 1..Len(b.log) :
       b.log[i].kind = "events" /\ i # b.last => Exact(b.log, i)

NoMultiple(b, upto) ==
  b.last # NoHeader => \A k \in b.last + 1..upto : k % Chunk # 0

\* Before the check for a chunk's end, and after it.
Sound(b) ==
  /\ b \in [log : Seq(WordType), last : Int]
  /\ b.last \in {NoHeader} \cup 1..Len(b.log)
  /\ Len(b.log) <= BufSize
  /\ Headers(b)
  /\ NoMultiple(b, Len(b.log) - 1)

Good(b) == Sound(b) /\ NoMultiple(b, Len(b.log))

\* Fewer samples than a chunk holds follow an open header.
LEMMA CountFits ==
  ASSUME NEW b, Sound(b), b.last # NoHeader
  PROVE  (Len(b.log) - b.last) % CountMod = Len(b.log) - b.last
<1>1. Len(b.log) \in Nat /\ b.last \in 1..Len(b.log) /\ b.last \in Nat
  BY DEF Sound
<1>2. PICK k \in b.last + 1..b.last + Chunk : k % Chunk = 0
  BY <1>1, Multiple, Constants
<1>3. ~(k \in b.last + 1..Len(b.log) - 1)
  BY <1>2 DEF Sound, NoMultiple
<1>4. Len(b.log) - b.last <= Chunk
  BY <1>1, <1>2, <1>3, Constants
<1>5. Len(b.log) - b.last \in Nat /\ Len(b.log) - b.last < CountMod /\ CountMod \in Nat
  BY <1>1, <1>4, Constants
<1> QED
  BY <1>5, SmallMod

\* A header stays exact in a log that keeps it and its samples.
LEMMA ExactKept ==
  ASSUME NEW s \in Seq(WordType), NEW t \in Seq(WordType), NEW i \in 1..Len(s),
         Exact(s, i), i + s[i].arg <= Len(t),
         \A j \in i..i + s[i].arg : t[j] = s[j]
  PROVE  Exact(t, i)
<1>1. s[i] \in WordType
  OBVIOUS
<1>2. s[i].arg \in Nat
  BY <1>1 DEF WordType
<1> DEFINE n == s[i].arg
<1>3. n \in Nat /\ 0 < n /\ i + n <= Len(t) /\ SamplesAt(s, i + 1..i + n)
  BY <1>2 DEF Exact
<1>4. t[i] = s[i] /\ \A j \in i + 1..i + n : t[j] = s[j]
  BY <1>3
<1>5. t[i].arg = n /\ SamplesAt(t, i + 1..i + n)
  BY <1>3, <1>4 DEF SamplesAt
<1> HIDE DEF n
<1> QED
  BY <1>3, <1>5 DEF Exact

\* No header lies among the samples of an exact one.
LEMMA ExactBefore ==
  ASSUME NEW s \in Seq(WordType), NEW i \in 1..Len(s), Exact(s, i),
         NEW k \in 1..Len(s), s[k].kind = "events"
  PROVE  s[i].arg \in Nat /\ ~(k \in i + 1..i + s[i].arg)
<1>1. s[i] \in WordType
  OBVIOUS
<1>2. s[i].arg \in Nat
  BY <1>1 DEF WordType
<1> QED
  BY <1>2 DEF Exact, SamplesAt

\* backfill_nevents closes the open header: its count is exact, an empty one
\* is taken back.
LEMMA BackfilledGood ==
  ASSUME NEW b, Sound(b)
  PROVE  /\ Good(Backfilled(b)) /\ Backfilled(b).last = NoHeader
         /\ b.last = NoHeader => Backfilled(b) = b
         /\ Len(Backfilled(b).log) \in {Len(b.log), Len(b.log) - 1}
         /\ b.last # NoHeader /\ b.last # Len(b.log)
              => Len(Backfilled(b).log) = Len(b.log)
<1> DEFINE c == Backfilled(b)
<1>0. /\ b.log \in Seq(WordType) /\ Len(b.log) \in Nat /\ b.last \in Int
      /\ b = [log |-> b.log, last |-> b.last]
  BY DEF Sound
<1>1. CASE b.last = NoHeader
  <2>1. c = b
    BY <1>1 DEF Backfilled
  <2> QED
    BY <2>1, <1>1 DEF Good, Sound, NoMultiple
<1>2. CASE b.last # NoHeader /\ b.last = Len(b.log)
  <2> DEFINE l == Front(b.log)
  <2>1. c = [log |-> l, last |-> NoHeader]
    BY <1>2 DEF Backfilled
  <2>2. b.last \in 1..Len(b.log) /\ b.log[b.last].kind = "events"
    BY <1>2 DEF Sound, Headers
  <2>3. \A i \in 1..Len(b.log) - 1 : b.log[i] \in WordType
    BY <1>0
  <2>4. /\ l \in Seq(WordType) /\ Len(l) = Len(b.log) - 1
        /\ \A i \in 1..Len(b.log) - 1 : l[i] = b.log[i]
    <3> DEFINE m == Len(b.log) - 1
    <3>1. m \in Nat
      BY <1>0, <1>2, <2>2
    <3>2. l = SubSeq(b.log, 1, m)
      BY DEF Front
    <3> HIDE DEF m, l
    <3>3. \A i \in 1..m : b.log[i] \in WordType
      BY <2>3 DEF m
    <3>4. /\ l \in Seq(WordType)
          /\ Len(l) = IF 1 <= m THEN m - 1 + 1 ELSE 0
          /\ \A i \in 1..m - 1 + 1 : l[i] = b.log[1 + i - 1]
      BY <3>1, <3>2, <3>3, SubSeqProperties
    <3>5. Len(l) = m /\ \A i \in 1..m : l[i] = b.log[i]
      BY <3>1, <3>4
    <3> QED
      BY <3>4, <3>5 DEF m
  <2> HIDE DEF l
  <2>5. ASSUME NEW i \in 1..Len(l), l[i].kind = "events" PROVE Exact(l, i)
    <3>1. i \in 1..Len(b.log) /\ Exact(b.log, i)
      BY <1>0, <1>2, <2>2, <2>4, <2>5 DEF Sound, Headers
    <3>2. b.log[i].arg \in Nat /\ ~(b.last \in i + 1..i + b.log[i].arg)
      BY <3>1, <2>2, <1>0, ExactBefore
    <3>3. i + b.log[i].arg <= Len(b.log)
      BY <3>1 DEF Exact
    <3>4. i + b.log[i].arg <= Len(l)
      BY <3>1, <3>2, <3>3, <2>4, <1>0, <1>2, <2>2
    <3> QED
      BY <3>1, <3>2, <3>4, <2>4, <1>0, ExactKept
  <2>6. Len(l) <= BufSize
    BY <2>4, <1>0, Constants DEF Sound
  <2> QED
    BY <2>1, <2>2, <2>4, <2>5, <2>6, <1>0, <1>2
    DEF Good, Sound, Headers, NoMultiple, NoHeader
<1>3. CASE b.last # NoHeader /\ b.last # Len(b.log)
  <2> DEFINE n == Len(b.log) - b.last  l == [b.log EXCEPT ![b.last] = Word("events", n)]
  <2>1. c = [log |-> l, last |-> NoHeader]
    BY <1>3, CountFits DEF Backfilled
  <2>2. b.last \in 1..Len(b.log) /\ n \in Nat /\ 0 < n
    BY <1>0, <1>3 DEF Sound
  <2>3. Word("events", n) \in WordType
    BY <2>2 DEF Word, WordType
  <2>4. /\ l \in Seq(WordType) /\ Len(l) = Len(b.log)
        /\ l[b.last] = Word("events", n)
        /\ \A i \in 1..Len(l) : i # b.last => l[i] = b.log[i]
    <3> HIDE DEF n
    <3> QED
      BY <1>0, <2>2, <2>3
  <2> HIDE DEF l
  <2>5. Exact(l, b.last)
    <3>1. l[b.last].arg = n
      BY <2>4 DEF Word
    <3>2. SamplesAt(b.log, b.last + 1..b.last + n) /\ b.last + n = Len(l)
      BY <1>0, <1>3, <2>2, <2>4 DEF Sound, Headers
    <3> HIDE DEF n
    <3>3. SamplesAt(l, b.last + 1..b.last + n)
      <4> SUFFICES ASSUME NEW j \in b.last + 1..b.last + n
                   PROVE  l[j].kind = "sample"
        BY DEF SamplesAt
      <4>1. j \in 1..Len(l) /\ j # b.last
        BY <2>2, <3>2, <1>0
      <4> QED
        BY <4>1, <2>4, <3>2 DEF SamplesAt
    <3> QED
      BY <3>1, <3>2, <3>3, <2>2, <1>0 DEF Exact
  <2>6. ASSUME NEW i \in 1..Len(l), l[i].kind = "events", i # b.last
        PROVE  Exact(l, i)
    <3>1. Exact(b.log, i) /\ i \in 1..Len(b.log)
      BY <2>4, <2>6, <1>0 DEF Sound, Headers
    <3>2. b.log[i].arg \in Nat /\ ~(b.last \in i + 1..i + b.log[i].arg)
      BY <1>0, <1>3, <2>2, <3>1, ExactBefore DEF Sound, Headers
    <3>3. i + b.log[i].arg <= Len(l)
      BY <3>1, <2>4 DEF Exact
    <3>4. \A j \in i..i + b.log[i].arg : l[j] = b.log[j]
      BY <3>1, <3>2, <3>3, <2>4, <2>6
    <3> QED
      BY <3>1, <3>3, <3>4, <2>4, <1>0, ExactKept
  <2>7. \A i \in 1..Len(l) : l[i].kind = "events" => Exact(l, i)
    BY <2>5, <2>6
  <2> QED
    BY <2>1, <2>4, <2>7, <1>0, <1>3 DEF Good, Sound, Headers, NoMultiple, NoHeader
<1> QED
  BY <1>1, <1>2, <1>3

\* enter_context opens a header at the log's end.
LEMMA EnterContextGood ==
  ASSUME NEW b, Good(b), b.last = NoHeader, NEW slot \in Nat,
         Len(b.log) <= BufSize - 4
  PROVE  /\ Good(EnterContext(b, slot))
         /\ EnterContext(b, slot).last # NoHeader
         /\ Len(EnterContext(b, slot).log) = Len(b.log) + 4
<1> DEFINE w == <<Word("context", slot), Word("rest", 0), Word("rest", 0),
                  Word("events", 0)>>
           l == b.log \o w
           c == EnterContext(b, slot)
<1>1. b.log \in Seq(WordType) /\ Len(b.log) \in Nat
  BY DEF Good, Sound
<1>2. /\ w \in Seq(WordType) /\ Len(w) = 4
      /\ w[1].kind = "context" /\ w[2].kind = "rest" /\ w[3].kind = "rest"
      /\ w[4].kind = "events"
  BY DEF Word, WordType
<1>3. c = [log |-> l, last |-> Len(b.log) + 4]
  BY DEF EnterContext
<1> HIDE DEF w
<1>4. /\ l \in Seq(WordType) /\ Len(l) = Len(b.log) + Len(w)
      /\ \A i \in 1..Len(b.log) + Len(w) :
           l[i] = IF i <= Len(b.log) THEN b.log[i] ELSE w[i - Len(b.log)]
  BY <1>1, <1>2, ConcatProperties, Zenon
<1> HIDE DEF l
<1>5. /\ Len(l) = Len(b.log) + 4 /\ \A i \in 1..Len(b.log) : l[i] = b.log[i]
      /\ l[Len(b.log) + 1] = w[1] /\ l[Len(b.log) + 2] = w[2]
      /\ l[Len(b.log) + 3] = w[3] /\ l[Len(b.log) + 4] = w[4]
  <2>1. \A k \in 1..4 : l[Len(b.log) + k] = w[k]
    <3> SUFFICES ASSUME NEW k \in 1..4 PROVE l[Len(b.log) + k] = w[k]
      OBVIOUS
    <3> DEFINE j == Len(b.log) + k
    <3>1. j \in 1..Len(b.log) + Len(w) /\ ~(j <= Len(b.log)) /\ j - Len(b.log) = k
      BY <1>1, <1>2
    <3> HIDE DEF j
    <3>2. l[j] = w[j - Len(b.log)]
      BY <3>1, <1>4
    <3> QED
      BY <3>1, <3>2 DEF j
  <2>2. Len(l) = Len(b.log) + 4 /\ \A i \in 1..Len(b.log) : l[i] = b.log[i]
    <3>1. \A i \in 1..Len(b.log) : i \in 1..Len(b.log) + Len(w) /\ i <= Len(b.log)
      BY ONLY <1>1, <1>2
    <3> QED
      BY ONLY <1>2, <1>4, <3>1
  <2>3. 1 \in 1..4 /\ 2 \in 1..4 /\ 3 \in 1..4 /\ 4 \in 1..4
    OBVIOUS
  <2> QED
    BY ONLY <2>1, <2>2, <2>3
<1>6. ASSUME NEW i \in 1..Len(l), l[i].kind = "events", i # Len(b.log) + 4
      PROVE  Exact(l, i)
  <2>1. i \in 1..Len(b.log)
    <3>1. l[i].kind # "context" /\ l[i].kind # "rest"
      BY <1>6
    <3>2. i # Len(b.log) + 1 /\ i # Len(b.log) + 2 /\ i # Len(b.log) + 3
      BY <3>1, <1>2, <1>5
    <3>3. /\ Len(b.log) \in Nat /\ Len(l) = Len(b.log) + 4
          /\ i \in 1..Len(l) /\ i # Len(b.log) + 4
      BY <1>1, <1>5, <1>6, Zenon
    <3> QED
      BY ONLY <3>2, <3>3
  <2>2. Exact(b.log, i)
    BY <2>1, <1>5, <1>6 DEF Good, Sound, Headers, NoHeader
  <2>3. b.log[i] \in WordType
    BY <2>1, <1>1
  <2>4. b.log[i].arg \in Nat
    BY <2>3 DEF WordType
  <2>5. i + b.log[i].arg <= Len(b.log)
    BY <2>2 DEF Exact
  <2>6. \A j \in i..i + b.log[i].arg : l[j] = b.log[j]
    BY <1>1, <1>5, <2>1, <2>4, <2>5
  <2>7. i + b.log[i].arg <= Len(l)
    BY <1>1, <1>5, <2>1, <2>4, <2>5
  <2> QED
    BY <1>1, <1>4, <2>1, <2>2, <2>6, <2>7, ExactKept
<1>7. /\ c.log = l /\ c.last = Len(l) /\ Len(l) = Len(b.log) + 4 /\ c.last \in 1..Len(l)
      /\ c.last # NoHeader /\ Len(l) <= BufSize /\ l[c.last].kind = "events"
      /\ c \in [log : Seq(WordType), last : Int]
  <2>1. Len(l) = Len(b.log) + 4 /\ Len(l) \in 1..Len(l) /\ Len(l) # NoHeader /\ Len(l) \in Int
    BY <1>1, <1>5 DEF NoHeader
  <2>2. Len(l) <= BufSize
    BY <1>1, <2>1, Constants
  <2>3. c.log = l /\ c.last = Len(l) /\ c \in [log : Seq(WordType), last : Int]
    <3>1. l \in Seq(WordType)
      BY <1>4
    <3> QED
      BY ONLY <1>3, <2>1, <3>1
  <2>4. l[Len(l)].kind = "events"
    BY <1>2, <1>5
  <2> QED
    BY <2>1, <2>2, <2>3, <2>4, Zenon
<1> HIDE DEF c
<1>8. \A k : ~(k \in c.last + 1..Len(c.log)) /\ ~(k \in c.last + 1..Len(c.log) - 1)
  BY ONLY <1>7
<1>9. Headers(c)
  <2>1. SamplesAt(c.log, c.last + 1..Len(c.log))
    BY ONLY <1>8 DEF SamplesAt
  <2>2. \A i \in 1..Len(c.log) : c.log[i].kind = "events" /\ i # c.last => Exact(c.log, i)
    BY <1>6, <1>7
  <2> QED
    BY ONLY <1>7, <2>1, <2>2 DEF Headers
<1>10. NoMultiple(c, Len(c.log)) /\ NoMultiple(c, Len(c.log) - 1)
  BY ONLY <1>8 DEF NoMultiple
<1>11. Good(c)
  BY ONLY <1>7, <1>9, <1>10 DEF Good, Sound
<1> QED
  BY <1>7, <1>11 DEF c

\* report_new_context closes the log and opens a context if there is room.
LEMMA ReportGood ==
  ASSUME NEW b, Sound(b), NEW slot \in Nat, BufferFits
  PROVE  /\ Good(Report(b, slot))
         /\ Report(b, slot).last = NoHeader =>
              /\ Len(Report(b, slot).log) > BufSize - 5
              /\ Len(Report(b, slot).log) \in {Len(b.log), Len(b.log) - 1}
              /\ b.last = NoHeader => Report(b, slot) = b
         /\ b.last = NoHeader /\ Len(b.log) > BufSize - 5 => Report(b, slot) = b
         /\ Len(Report(b, slot).log) >= Len(b.log) - 1
         /\ Len(b.log) > BufSize - 4 => Report(b, slot).last = NoHeader
<1> DEFINE c == Backfilled(b)
<1>1. /\ Good(c) /\ c.last = NoHeader
      /\ b.last = NoHeader => c = b
      /\ Len(c.log) \in {Len(b.log), Len(b.log) - 1}
  BY BackfilledGood
<1>2. Room(5) = BufSize - 5 /\ BufSize \in Nat
  BY Constants DEF Room, BufferFits
<1>3. Len(c.log) \in Nat /\ Len(b.log) \in Nat
  BY <1>1 DEF Good, Sound
<1> HIDE DEF c
<1>4. CASE Len(c.log) > BufSize - 5
  <2>1. Report(b, slot) = c
    BY <1>2, <1>4 DEF Report, c
  <2> QED
    BY <2>1, <1>1, <1>3, <1>4
<1>5. CASE ~(Len(c.log) > BufSize - 5)
  <2>1. Report(b, slot) = EnterContext(c, slot)
    BY <1>2, <1>5 DEF Report, c
  <2>2. Len(c.log) <= BufSize - 4
    BY <1>2, <1>3, <1>5
  <2> QED
    <3>1. /\ Good(EnterContext(c, slot)) /\ EnterContext(c, slot).last # NoHeader
          /\ Len(EnterContext(c, slot).log) = Len(c.log) + 4
      BY ONLY <1>1, <2>2, slot \in Nat, EnterContextGood
    <3> QED
      BY ONLY <1>1, <1>2, <1>3, <1>5, <2>1, <3>1
<1> QED
  BY <1>4, <1>5

\* A sample at the end of a log leaves its headers as they are.
LEMMA AppendSound ==
  ASSUME NEW b, Good(b), NEW counter \in Nat, Len(b.log) < BufSize
  PROVE  Sound([log |-> Append(b.log, Word("sample", counter)), last |-> b.last])
<1> DEFINE l == Append(b.log, Word("sample", counter))
           c == [log |-> l, last |-> b.last]
<1>1. /\ b.log \in Seq(WordType) /\ Len(b.log) \in Nat /\ b.last \in Int
      /\ b.last = NoHeader \/ b.last \in 1..Len(b.log)
      /\ BufSize \in Nat
  BY Constants DEF Good, Sound
<1>2. Word("sample", counter) \in WordType /\ Word("sample", counter).kind = "sample"
  BY DEF Word, WordType
<1>3. /\ l \in Seq(WordType) /\ Len(l) = Len(b.log) + 1
      /\ \A i \in 1..Len(b.log) : l[i] = b.log[i]
      /\ l[Len(b.log) + 1].kind = "sample"
  BY <1>1, <1>2, AppendProperties
<1> HIDE DEF l
<1>4. ASSUME NEW i \in 1..Len(l), l[i].kind = "events", i # b.last
      PROVE  Exact(l, i)
  <2>1. i \in 1..Len(b.log) /\ b.log[i].kind = "events"
    BY <1>1, <1>3, <1>4
  <2>2. Exact(b.log, i)
    BY <2>1, <1>4 DEF Good, Sound, Headers
  <2>3. b.log[i] \in WordType
    BY <2>1, <1>1
  <2>4. b.log[i].arg \in Nat
    BY <2>3 DEF WordType
  <2>5. i + b.log[i].arg <= Len(b.log)
    BY <2>2 DEF Exact
  <2>6. \A j \in i..i + b.log[i].arg : l[j] = b.log[j]
    BY <1>1, <1>3, <2>1, <2>4, <2>5
  <2>7. i + b.log[i].arg <= Len(l)
    BY <1>1, <1>3, <2>1, <2>4, <2>5
  <2> QED
    BY <1>1, <1>3, <2>1, <2>2, <2>6, <2>7, ExactKept
<1>5. b.last # NoHeader => /\ l[b.last].kind = "events"
                           /\ SamplesAt(l, b.last + 1..Len(l))
  <2> SUFFICES ASSUME b.last # NoHeader
               PROVE  l[b.last].kind = "events" /\ SamplesAt(l, b.last + 1..Len(l))
    OBVIOUS
  <2>1. PICK n \in Nat, h \in Nat : n = Len(b.log) /\ h = b.last /\ h \in 1..n
    BY <1>1
  <2>2. b.log[h].kind = "events" /\ \A k \in h + 1..n : b.log[k].kind = "sample"
    BY <2>1 DEF Good, Sound, Headers, SamplesAt
  <2>3. \A k \in h + 1..n + 1 : k = n + 1 \/ (k \in h + 1..n /\ k \in 1..n)
    BY ONLY <2>1, n \in Nat, h \in Nat
  <2>4. \A k \in h + 1..n + 1 : l[k].kind = "sample"
    BY ONLY <1>3, <2>1, <2>2, <2>3
  <2> QED
    BY <1>3, <2>1, <2>2, <2>4 DEF SamplesAt
<1>6. NoMultiple(c, Len(c.log) - 1)
  BY <1>1, <1>3 DEF Good, NoMultiple
<1>7. Sound(c)
  BY <1>1, <1>3, <1>4, <1>5, <1>6 DEF Sound, Headers
<1> QED
  BY <1>7 DEF l

\* record_sample: an append, and a new context at a multiple of the chunk.
LEMMA SampledGood ==
  ASSUME NEW b, Good(b), NEW counter \in Nat, NEW slot \in Nat, BufferFits
  PROVE  LET r == Sampled(b, counter, slot) IN
           /\ Good(r)
           /\ Len(b.log) >= BufSize - 1 => r = b
           /\ (b.last = NoHeader => Len(b.log) > BufSize - 5)
                => (r.last = NoHeader => Len(r.log) > BufSize - 5)
           /\ b.last = NoHeader /\ Len(b.log) > BufSize - 5 => r.last = NoHeader
<1> DEFINE l == Append(b.log, Word("sample", counter))
           c == [log |-> l, last |-> b.last]
           r == Sampled(b, counter, slot)
<1>1. /\ b.log \in Seq(WordType) /\ Len(b.log) \in Nat /\ b.last \in Int
      /\ b = [log |-> b.log, last |-> b.last]
      /\ b.last = NoHeader \/ b.last \in 1..Len(b.log)
  BY DEF Good, Sound
<1>2. Room(1) = BufSize - 1 /\ BufSize \in Nat
  BY Constants DEF Room, BufferFits
<1>3. Word("sample", counter) \in WordType /\ Word("sample", counter).kind = "sample"
  BY DEF Word, WordType
<1>4. /\ l \in Seq(WordType) /\ Len(l) = Len(b.log) + 1
      /\ \A i \in 1..Len(b.log) : l[i] = b.log[i]
      /\ l[Len(b.log) + 1].kind = "sample"
  BY <1>1, <1>3, AppendProperties
<1>5. [b EXCEPT !.log = Append(@, Word("sample", counter))] = c
  BY <1>1
<1> HIDE DEF l
<1>6. CASE Len(b.log) >= BufSize - 1
  <2>1. r = b
    BY <1>2, <1>6 DEF Sampled
  <2> QED
    BY <2>1
<1>7. CASE ~(Len(b.log) >= BufSize - 1)
  <2>1. r = IF Len(c.log) % Chunk = 0 THEN Report(c, slot) ELSE c
    BY <1>2, <1>5, <1>7 DEF Sampled
  <2>2. Len(c.log) = Len(b.log) + 1 /\ Len(c.log) <= BufSize /\ c.last = b.last
    BY <1>1, <1>2, <1>4, <1>7
  <2>5. NoMultiple(c, Len(c.log) - 1)
    BY <1>1, <2>2 DEF Good, NoMultiple
  <2>6. Sound(c)
    BY <1>1, <1>2, <1>7, AppendSound DEF l
  <2>7. CASE Len(c.log) % Chunk = 0
    <3>1. r = Report(c, slot)
      BY <2>1, <2>7
    <3> HIDE DEF r, c
    <3>2. /\ Good(r)
          /\ r.last = NoHeader => Len(r.log) > BufSize - 5
          /\ Len(c.log) > BufSize - 4 => r.last = NoHeader
      BY <3>1, <2>6, ReportGood
    <3> QED
      BY <3>2, <2>2, <1>1, <1>2, <1>7 DEF r
  <2>8. CASE ~(Len(c.log) % Chunk = 0)
    <3>1. r = c
      BY <2>1, <2>8
    <3>2. NoMultiple(c, Len(c.log))
      BY <2>5, <2>8, <1>1, <2>2 DEF NoMultiple
    <3> QED
      BY <3>1, <3>2, <2>2, <2>6, <1>1, <1>2, <1>7 DEF Good
  <2> QED
    BY <2>7, <2>8
<1> QED
  BY <1>6, <1>7

------------------------------------------------------------------------------
(* The inductive invariant.  Before the first profile last_event is 0, and  *)
(* the log empty; while a profile runs without an open header, its buffer   *)
(* is full; a pending overflow belongs to a running profile.                *)

Full == Len(log) >= BufSize - 1 \/ (last_event = NoHeader /\ Len(log) > BufSize - 5)

IInv ==
  /\ TypeOK
  /\ last_event = 0 => log = <<>> /\ ~prof_running /\ main = "idle"
  /\ last_event # 0 => Good(Current)
  /\ ~prof_running => todo = {} /\ over = {} /\ ~armed
  /\ ~handling => todo = {}
  /\ tick => handling /\ prof_running
  /\ main = "stopping" => ~prof_running
  /\ prof_running /\ last_event = NoHeader => Len(log) > BufSize - 5
  /\ lost => Full

\* The configuration is a log without headers.
LEMMA ConfigGood == BufferFits => Good([log |-> Config, last |-> NoHeader])
<1> SUFFICES ASSUME BufferFits PROVE Good([log |-> Config, last |-> NoHeader])
  OBVIOUS
<1>1. ConfigSize \in Nat /\ ConfigSize <= BufSize
  BY Constants DEF BufferFits
<1>2. Word("config", 0) \in WordType /\ Word("config", 0).kind = "config"
  BY DEF Word, WordType
<1>3. /\ Config \in Seq(WordType) /\ Len(Config) = ConfigSize
      /\ \A i \in 1..ConfigSize : Config[i].kind = "config"
  BY <1>1, <1>2 DEF Config
<1> QED
  BY <1>1, <1>3 DEF Good, Sound, Headers, NoMultiple, NoHeader

LEMMA InitIInv == Init => IInv
<1> SUFFICES ASSUME Init PROVE IInv
  OBVIOUS
<1>1. /\ log \in Seq(WordType) /\ taken \in Seq([slot : Slots, counter : Counters])
      /\ log = <<>> /\ last_event = 0 /\ last_event \in {NoHeader} \cup 0..Len(log)
  BY DEF Init
<1>2. slotid \in Slots /\ threshold \in 0..TickMod - 1
  BY Constants DEF Init, Slots
<1>3. TypeOK
  BY <1>1, <1>2 DEF Init, TypeOK
<1> QED
  BY <1>1, <1>3 DEF Init, IInv

\* Every action keeps the invariant.
LEMMA NextIInv == ASSUME BufferFits PROVE IInv /\ [Next]_vars => IInv'
<1> SUFFICES ASSUME IInv, [Next]_vars PROVE IInv'
  OBVIOUS
<1> USE DEF IInv
<1>0. /\ TypeOK /\ Len(log) \in Nat /\ log \in Seq(WordType)
      /\ Current = [log |-> log, last |-> last_event]
      /\ Current.log = log /\ Current.last = last_event
  BY DEF TypeOK, Current
<1>1. CASE Start
  <2> DEFINE r == Report([log |-> Config, last |-> NoHeader], 0)
  <2>1. Good(r) /\ (r.last = NoHeader => Len(r.log) > BufSize - 5)
    <3>1. Sound([log |-> Config, last |-> NoHeader])
      BY ConfigGood DEF Good
    <3> QED
      BY <3>1, ReportGood
  <2>2. log' = r.log /\ last_event' = r.last
    BY <1>1 DEF Start, BufferIs
  <2> HIDE DEF r
  <2>3. Current' = r
    BY <2>1, <2>2 DEF Current, Good, Sound
  <2>4. TypeOK'
    <3>1. /\ log' \in Seq(WordType) /\ last_event' \in {NoHeader} \cup 0..Len(log')
      BY <2>1, <2>2 DEF Good, Sound
    <3>2. slotid' \in Slots /\ threshold' \in 0..TickMod - 1
      BY <1>1, Constants DEF Start, Slots
    <3>3. taken' \in Seq([slot : Slots, counter : Counters])
      BY <1>1 DEF Start
    <3> QED
      BY <3>1, <3>2, <3>3, <1>0, <1>1 DEF Start, TypeOK, handler
  <2>5. last_event' # 0
    BY <2>1, <2>2 DEF Good, Sound, NoHeader
  <2> QED
    BY <2>1, <2>2, <2>3, <2>4, <2>5, <1>1 DEF Start, handler
<1>2. CASE StopBegin
  BY <1>2 DEF StopBegin, buffer, handler, history, TypeOK, Current, Full
<1>3. CASE StopEnd
  <2> DEFINE r == Backfilled(Current)
  <2>1. Good(Current) /\ last_event # 0 /\ ~prof_running
    BY <1>3 DEF StopEnd, TypeOK
  <2>2. /\ Good(r) /\ r.last = NoHeader
        /\ last_event = NoHeader => r = Current
        /\ Len(r.log) \in {Len(log), Len(log) - 1}
    BY <2>1, <1>0, BackfilledGood DEF Good
  <2>3. log' = r.log /\ last_event' = r.last
    BY <1>3 DEF StopEnd, BufferIs
  <2> HIDE DEF r
  <2>4. Current' = r
    BY <2>2, <2>3 DEF Current, Good, Sound
  <2>5. TypeOK'
    <3>1. log' \in Seq(WordType) /\ last_event' = NoHeader
      BY <2>2, <2>3 DEF Good, Sound
    <3> QED
      BY <3>1, <1>0, <1>3 DEF StopEnd, TypeOK, handler, history
  <2>6. (lost => Full)'
    BY <2>2, <2>3, <1>0, <1>3, Constants DEF StopEnd, Full, history
  <2> QED
    BY <2>2, <2>3, <2>4, <2>5, <2>6, <1>3 DEF StopEnd, handler, NoHeader
<1>4. CASE Overflow
  BY <1>4 DEF Overflow, buffer, program, handler, history, TypeOK, Current, Full
<1>5. CASE TakeInterrupt
  BY <1>5 DEF TakeInterrupt, buffer, program, history, TypeOK, Current, Full
<1>6. CASE EndInterrupt
  <2> DEFINE r == Report(Current, NextSlot)
  <2>1. CASE SlotExpires
    <3>1. prof_running /\ last_event # 0 /\ Good(Current)
      BY <2>1 DEF SlotExpires
    <3>2. NextSlot \in Slots /\ NextSlot \in Nat
      BY Constants, DivMod, <1>0 DEF NextSlot, TypeOK, Slots
    <3>3. /\ Good(r)
          /\ r.last = NoHeader => Len(r.log) > BufSize - 5
          /\ r.last = NoHeader /\ last_event = NoHeader => r = Current
          /\ Len(r.log) >= Len(log) - 1
          /\ Len(log) > BufSize - 4 => r.last = NoHeader
          /\ last_event = NoHeader /\ Len(log) > BufSize - 5 => r = Current
      BY <3>1, <3>2, <1>0, ReportGood DEF Good
    <3>4. log' = r.log /\ last_event' = r.last
      BY <1>6, <2>1 DEF EndInterrupt, BufferIs
    <3> HIDE DEF r
    <3>5. Current' = r
      BY <3>3, <3>4 DEF Current, Good, Sound
    <3>6. /\ threshold' = TicksPerSlot /\ slotid' = NextSlot /\ armed' = TRUE
          /\ UNCHANGED <<program, todo, history>> /\ handling' = FALSE
          /\ tick' = FALSE /\ over' = {}
      BY <1>6, <2>1 DEF EndInterrupt
    <3>7. TypeOK'
      <4>1. log' \in Seq(WordType) /\ last_event' \in {NoHeader} \cup 0..Len(log')
        BY <3>3, <3>4 DEF Good, Sound
      <4>2. threshold' \in 0..TickMod - 1
        BY <3>6, Constants
      <4> QED
        BY <4>1, <4>2, <3>2, <3>6, <1>0 DEF TypeOK, program, history
    <3>8. (lost => Full)'
      <4>1. CASE ~lost
        BY <4>1, <3>6 DEF history
      <4>2. CASE Len(log) >= BufSize - 1
        BY <4>2, <3>3, <3>4, <1>0, Constants DEF Full, Good, Sound
      <4>3. CASE last_event = NoHeader /\ Len(log) > BufSize - 5
        BY <4>3, <3>3, <3>4, <1>0 DEF Full
      <4> QED
        BY <4>1, <4>2, <4>3 DEF Full
    <3>9. last_event' # 0
      BY <3>3, <3>4 DEF Good, Sound, NoHeader
    <3> QED
      BY <3>1, <3>3, <3>4, <3>5, <3>6, <3>7, <3>8, <3>9, <1>6 DEF EndInterrupt, program
  <2>2. CASE ~SlotExpires
    <3>1. /\ UNCHANGED <<slotid, armed, buffer>> /\ UNCHANGED <<program, todo, history>>
          /\ handling' = FALSE /\ tick' = FALSE /\ over' = {} /\ todo = {}
          /\ threshold' = IF tick THEN Ticks ELSE threshold
      BY <1>6, <2>2 DEF EndInterrupt
    <3>2. threshold' \in 0..TickMod - 1
      BY <3>1, <1>0, Constants DEF Ticks, TypeOK
    <3>3. TypeOK'
      BY <3>1, <3>2, <1>0 DEF TypeOK, program, history, buffer
    <3> QED
      BY <3>1, <3>3 DEF buffer, program, history, Current, Full
  <2> QED
    BY <2>1, <2>2
<1>7. ASSUME NEW counter \in Counters, RecordSample(counter) PROVE IInv'
  <2> DEFINE r == Sampled(Current, counter, slotid)
  <2>1. prof_running /\ last_event # 0 /\ Good(Current) /\ handling
    BY <1>7 DEF RecordSample
  <2>2. counter \in Nat /\ slotid \in Nat /\ slotid \in Slots
    BY <1>0, Constants, SbprofAssumption DEF TypeOK, Slots
  <2>3. /\ Good(r)
        /\ Len(log) >= BufSize - 1 => r = Current
        /\ r.last = NoHeader => Len(r.log) > BufSize - 5
        /\ last_event = NoHeader /\ Len(log) > BufSize - 5 => r.last = NoHeader
    <3>1. LET q == Sampled(Current, counter, slotid) IN
            /\ Good(q)
            /\ Len(Current.log) >= BufSize - 1 => q = Current
            /\ (Current.last = NoHeader => Len(Current.log) > BufSize - 5)
                 => (q.last = NoHeader => Len(q.log) > BufSize - 5)
            /\ Current.last = NoHeader /\ Len(Current.log) > BufSize - 5
                 => q.last = NoHeader
      BY <2>1, <2>2, SampledGood
    <3> QED
      BY <3>1, <2>1, <1>0
  <2>4. log' = r.log /\ last_event' = r.last
    BY <1>7 DEF RecordSample, BufferIs
  <2> HIDE DEF r
  <2>5. Current' = r
    BY <2>3, <2>4 DEF Current, Good, Sound
  <2>6. /\ todo' = todo \ {counter}
        /\ UNCHANGED <<slotid, threshold, program, armed, over, handling, tick>>
    BY <1>7 DEF RecordSample
  <2>7. Room(1) = BufSize - 1 /\ BufSize \in Nat
    BY Constants DEF Room, BufferFits
  <2>8. /\ \/ taken' = taken
           \/ taken' = Append(taken, [slot |-> slotid, counter |-> counter])
        /\ lost' \in BOOLEAN
        /\ lost' => lost \/ Len(log) >= BufSize - 1 \/ last_event = NoHeader
    BY <1>7, <1>0, <2>7 DEF RecordSample, TypeOK
  <2>9. TypeOK'
    <3>1. log' \in Seq(WordType) /\ last_event' \in {NoHeader} \cup 0..Len(log')
      BY <2>3, <2>4 DEF Good, Sound
    <3>2. taken' \in Seq([slot : Slots, counter : Counters])
      <4> DEFINE sample == [slot |-> slotid, counter |-> counter]
      <4>1. sample \in [slot : Slots, counter : Counters]
        BY <2>2
      <4> HIDE DEF sample
      <4>2. taken \in Seq([slot : Slots, counter : Counters])
        BY <1>0 DEF TypeOK
      <4>3. Append(taken, sample) \in Seq([slot : Slots, counter : Counters])
        BY <4>1, <4>2, AppendProperties
      <4> QED
        BY <4>2, <4>3, <2>8 DEF sample
    <3> QED
      BY <3>1, <3>2, <2>6, <2>8, <1>0 DEF TypeOK, program
  <2>10. (lost => Full)'
    <3>1. CASE Len(log) >= BufSize - 1
      BY <3>1, <2>3, <2>4, <1>0 DEF Full
    <3>2. CASE last_event = NoHeader
      <4>1. Len(log) > BufSize - 5
        BY <3>2, <2>1
      <4> QED
        BY <4>1, <3>2, <2>3, <2>4 DEF Full
    <3> QED
      BY <3>1, <3>2, <2>8 DEF Full
  <2>11. last_event' # 0
    BY <2>3, <2>4 DEF Good, Sound, NoHeader
  <2> QED
    BY <2>1, <2>3, <2>4, <2>5, <2>6, <2>9, <2>10, <2>11 DEF program
<1>8. CASE UNCHANGED vars
  BY <1>8 DEF vars, buffer, program, handler, history, TypeOK, Current, Full
<1> QED
  BY <1>1, <1>2, <1>3, <1>4, <1>5, <1>6, <1>7, <1>8 DEF Next

------------------------------------------------------------------------------
(* Theorems.                                                                *)

LEMMA Invariant == ASSUME BufferFits PROVE Spec => []IInv
<1>1. IInv /\ [Next]_vars => IInv'
  BY NextIInv
<1> QED
  BY InitIInv, <1>1, PTL DEF Spec

\* The profile's variables keep their types.
THEOREM SbprofCpuTypeOK == ASSUME BufferFits PROVE Spec => []TypeOK
<1>1. IInv => TypeOK
  BY DEF IInv
<1> QED
  BY <1>1, Invariant, PTL

\* The log never outgrows its buffer, whatever interrupts, chunks and slots do.
THEOREM SbprofCpuInBuffer == ASSUME BufferFits PROVE Spec => []InBuffer
<1>1. IInv => InBuffer
  <2>1. BufSize \in Nat
    BY Constants
  <2> QED
    BY <2>1 DEF IInv, InBuffer, Good, Sound, Current
<1> QED
  BY <1>1, Invariant, PTL

\* The interrupt invariant that the code states holds, and every closed header
\* has the exact number of its samples, which its 16 bits always hold.
THEOREM SbprofCpuInterruptInvariant ==
  ASSUME BufferFits PROVE Spec => []InterruptInvariant
<1>1. IInv => InterruptInvariant
  <2> SUFFICES ASSUME IInv PROVE InterruptInvariant
    OBVIOUS
  <2>1. CASE last_event = 0
    BY <2>1 DEF IInv, InterruptInvariant
  <2>2. CASE last_event # 0
    BY <2>2 DEF IInv, InterruptInvariant, Good, Sound, Headers, Current, NoHeader
  <2> QED
    BY <2>1, <2>2
<1> QED
  BY <1>1, Invariant, PTL

\* A sample is lost under a header only when at most the last word is free, which
\* record_sample leaves empty, and for want of a header only when a context and a
\* sample do not fit any more.
THEOREM SbprofCpuLostOnlyWhenFull ==
  ASSUME BufferFits PROVE Spec => []LostOnlyWhenFull
<1>1. IInv => LostOnlyWhenFull
  BY Constants DEF IInv, TypeOK, Full, LostOnlyWhenFull
<1> QED
  BY <1>1, Invariant, PTL

\* The log stays inside its buffer, and is given up only with its last word, or with
\* no room for a context and a sample: at any buffer size that holds the
\* configuration and one context (sbprof_cpu.c:546, 703).
THEOREM SbprofCpuRoomUsed == ASSUME BufferFits PROVE Spec => []RoomUsed
<1>1. InBuffer /\ LostOnlyWhenFull => RoomUsed
  BY DEF RoomUsed
<1> QED
  BY <1>1, SbprofCpuInBuffer, SbprofCpuLostOnlyWhenFull, PTL

------------------------------------------------------------------------------
(* What a reader finds.  A reading r of the first n words of a log l gives  *)
(* the reader's state after each of them.  The invariant of the profile has *)
(* a reading, so that each step only has to continue it.                    *)

SampleType == [slot : Nat, counter : Nat]
ReaderType == [ok : BOOLEAN, left : Nat, slot : Nat, out : Seq(SampleType)]

Reads(r, l, n) ==
  /\ r \in [0..n -> ReaderType] /\ r[0] = Unread
  /\ \A k \in 1..n : r[k] = Decode(r[k - 1], l[k])

\* Between two messages, and where samples are not recognised.
Between(x) == x.ok /\ x.left = 0
Deaf(x) == ~x.ok \/ x.left = 0

Closed(l, t) == \E r : Reads(r, l, Len(l)) /\ Between(r[Len(l)]) /\ r[Len(l)].out = t
Ended(l, t) == \E r : Reads(r, l, Len(l)) /\ Deaf(r[Len(l)]) /\ r[Len(l)].out = t

\* t is what r has read before the open header of b, and the samples behind it.
OpenAt(b, r, slot, t) ==
  LET x == r[b.last - 1] IN
    /\ Reads(r, b.log, b.last - 1) /\ Between(x) /\ x.slot = slot
    /\ Len(t) = Len(x.out) + (Len(b.log) - b.last)
    /\ \A k \in 1..Len(x.out) : t[k] = x.out[k]
    /\ \A k \in 1..Len(b.log) - b.last :
         t[Len(x.out) + k] = [slot |-> slot, counter |-> b.log[b.last + k].arg]

Faithful(b, slot, t) ==
  IF b.last = NoHeader THEN Ended(b.log, t) ELSE \E r : OpenAt(b, r, slot, t)

\* Every set of naturals has a least element.
LEMMA Least ==
  ASSUME NEW T, T \subseteq Nat, T # {}
  PROVE  \E x \in T : \A y \in T : x <= y
<1> DEFINE less == OpToRel(<, Nat)
<1>1. IsWellFoundedOn(less, Nat)
  BY NatLessThanWellFounded
<1>2. \A x \in Nat, y \in Nat : <<y, x>> \in less <=> y < x
  BY DEF OpToRel
<1> HIDE DEF less
<1>3. PICK x \in T : \A y \in T : <<y, x>> \notin less
  BY <1>1, WFMin
<1>4. x \in Nat
  OBVIOUS
<1>5. ASSUME NEW y \in T PROVE x <= y
  <2>1. y \in Nat
    OBVIOUS
  <2>2. ~(y < x)
    BY <1>2, <1>3, <1>4, <2>1
  <2> QED
    BY <1>4, <2>1, <2>2
<1> QED
  BY <1>5

\* A log has one reading only, the recursive function that Decoded takes: at
\* the first word where two readings differed they would have agreed before.
LEMMA ReaderIs ==
  ASSUME NEW r, Reads(r, log, Len(log)), log \in Seq(WordType)
  PROVE  Reader[Len(log)] = r[Len(log)]
<1> DEFINE N == Len(log)
<1>0. N \in Nat
  OBVIOUS
<1> HIDE DEF N
<1>1. r = [n \in 0..N |-> IF n = 0 THEN Unread ELSE Decode(r[n - 1], log[n])]
  <2>1. r \in [0..N -> ReaderType] /\ r[0] = Unread
    BY DEF Reads, N
  <2>2. ASSUME NEW n \in 0..N
        PROVE  r[n] = IF n = 0 THEN Unread ELSE Decode(r[n - 1], log[n])
    <3>1. CASE n = 0
      BY <3>1, <2>1
    <3>2. CASE n # 0
      <4>1. n \in 1..N
        BY <3>2, <1>0
      <4>2. r[n] = Decode(r[n - 1], log[n])
        BY <4>1 DEF Reads, N
      <4> QED
        BY <4>2, <3>2
    <3> QED
      BY <3>1, <3>2
  <2> QED
    BY <2>1, <2>2, Zenon
<1>2. Reader = [n \in 0..N |-> IF n = 0 THEN Unread ELSE Decode(Reader[n - 1], log[n])]
  <2>1. r = [n \in 0..Len(log) |-> IF n = 0 THEN Unread ELSE Decode(r[n - 1], log[n])]
    BY <1>1 DEF N
  <2>2. Reader = [n \in 0..Len(log) |->
                    IF n = 0 THEN Unread ELSE Decode(Reader[n - 1], log[n])]
    BY <2>1, Zenon DEF Reader
  <2> QED
    BY <2>2 DEF N
<1>3. ASSUME NEW n \in 0..N
      PROVE  Reader[n] = IF n = 0 THEN Unread ELSE Decode(Reader[n - 1], log[n])
  BY <1>2, Zenon
<1>4. ASSUME NEW n \in 0..N
      PROVE  r[n] = IF n = 0 THEN Unread ELSE Decode(r[n - 1], log[n])
  BY <1>1, Zenon
<1> DEFINE differ == {n \in 0..N : Reader[n] # r[n]}
<1>5. ASSUME differ # {} PROVE FALSE
  <2>1. differ \subseteq Nat
    BY <1>0
  <2>2. PICK n \in differ : \A m \in differ : n <= m
    BY <1>5, <2>1, Least
  <2>3. n \in 0..N /\ Reader[n] # r[n] /\ n \in Nat
    BY <1>0
  <2>4. n # 0
    BY <2>3, <1>3, <1>4
  <2>5. n - 1 \in 0..N /\ ~(n <= n - 1)
    BY <2>3, <2>4, <1>0
  <2>6. Reader[n - 1] = r[n - 1]
    BY <2>2, <2>5
  <2>7. Reader[n] = Decode(Reader[n - 1], log[n]) /\ r[n] = Decode(r[n - 1], log[n])
    BY <2>3, <2>4, <1>3, <1>4
  <2> QED
    BY <2>3, <2>6, <2>7
<1>6. N \in 0..N
  BY <1>0
<1>7. Reader[N] = r[N]
  BY <1>5, <1>6
<1> QED
  BY <1>7 DEF N

\* What a reader makes of each kind of word.
LEMMA DecodeIs ==
  ASSUME NEW x \in ReaderType, NEW w \in WordType
  PROVE  /\ Decode(x, w) \in ReaderType
         /\ ~x.ok => Decode(x, w) = x
         /\ Between(x) /\ w.kind = "context" =>
              Decode(x, w) = [x EXCEPT !.slot = w.arg]
         /\ Between(x) /\ w.kind = "events" =>
              Decode(x, w) = [x EXCEPT !.left = w.arg]
         /\ Between(x) /\ w.kind \in {"config", "rest"} => Decode(x, w) = x
         /\ Between(x) /\ w.kind = "sample" => Decode(x, w) = [x EXCEPT !.ok = FALSE]
         /\ x.ok /\ x.left > 0 /\ w.kind = "sample" =>
              Decode(x, w) =
                [x EXCEPT !.left = x.left - 1,
                          !.out = Append(x.out, [slot |-> x.slot, counter |-> w.arg])]
<1>1. /\ x.ok \in BOOLEAN /\ x.left \in Nat /\ x.slot \in Nat
      /\ x.out \in Seq(SampleType)
      /\ w.arg \in Nat /\ w.kind \in {"config", "context", "rest", "events", "sample"}
  BY DEF ReaderType, WordType
<1> DEFINE a == [slot |-> x.slot, counter |-> w.arg]
           o == Append(x.out, a)
<1>2. a \in SampleType
  BY <1>1 DEF SampleType
<1>3. o \in Seq(SampleType)
  <2> HIDE DEF a
  <2> QED
    BY <1>1, <1>2, AppendProperties
<1>4. /\ x \in ReaderType
      /\ [x EXCEPT !.slot = w.arg] \in ReaderType
      /\ [x EXCEPT !.left = w.arg] \in ReaderType
      /\ [x EXCEPT !.ok = FALSE] \in ReaderType
  BY <1>1 DEF ReaderType
<1>5. x.left > 0 => [x EXCEPT !.left = x.left - 1, !.out = o] \in ReaderType
  <2> HIDE DEF o
  <2> DEFINE S == Seq(SampleType)
  <2>1. o \in S /\ x \in [ok : BOOLEAN, left : Nat, slot : Nat, out : S]
    BY <1>3 DEF ReaderType
  <2> HIDE DEF S
  <2>2. x.left > 0 => x.left - 1 \in Nat
    BY <1>1
  <2>3. x.left > 0 => [x EXCEPT !.left = x.left - 1, !.out = o]
                        \in [ok : BOOLEAN, left : Nat, slot : Nat, out : S]
    BY <2>1, <2>2
  <2> QED
    BY <2>3 DEF ReaderType, S
<1>6. CASE ~x.ok
  BY <1>4, <1>6 DEF Decode, Between
<1>7. CASE x.ok /\ x.left > 0
  <2>1. Decode(x, w) = IF w.kind = "sample" THEN [x EXCEPT !.left = x.left - 1, !.out = o]
                       ELSE [x EXCEPT !.ok = FALSE]
    BY <1>1, <1>7 DEF Decode
  <2> HIDE DEF o
  <2> QED
    BY <2>1, <1>1, <1>4, <1>5, <1>7 DEF Between, o
<1>8. CASE x.ok /\ x.left = 0
  <2>1. Decode(x, w) = CASE w.kind = "context" -> [x EXCEPT !.slot = w.arg]
                         [] w.kind = "events" -> [x EXCEPT !.left = w.arg]
                         [] w.kind = "sample" -> [x EXCEPT !.ok = FALSE]
                         [] OTHER -> x
    BY <1>1, <1>8 DEF Decode
  <2> QED
    BY <2>1, <1>1, <1>4, <1>8 DEF Between
<1> QED
  BY <1>1, <1>6, <1>7, <1>8

\* A reading goes on with the next word.
LEMMA ReadsOn ==
  ASSUME NEW l \in Seq(WordType), NEW n \in Nat, n < Len(l), NEW r, Reads(r, l, n)
  PROVE  \E q : Reads(q, l, n + 1) /\ q[n + 1] = Decode(r[n], l[n + 1])
<1>1. l[n + 1] \in WordType /\ r[n] \in ReaderType
  BY DEF Reads
<1>2. Decode(r[n], l[n + 1]) \in ReaderType
  BY <1>1, DecodeIs
<1> DEFINE d == Decode(r[n], l[n + 1])
           q == [k \in 0..n + 1 |-> IF k <= n THEN r[k] ELSE d]
<1> HIDE DEF d
<1>3. q \in [0..n + 1 -> ReaderType] /\ q[0] = Unread
  BY <1>2 DEF Reads, d
<1>4. ASSUME NEW k \in 1..n + 1 PROVE q[k] = Decode(q[k - 1], l[k])
  <2>1. CASE k <= n
    <3>1. q[k] = r[k] /\ q[k - 1] = r[k - 1] /\ r[k] = Decode(r[k - 1], l[k])
      BY <2>1 DEF Reads
    <3> QED
      BY <3>1
  <2>2. CASE k = n + 1
    <3>1. q[k] = d /\ q[k - 1] = r[n]
      BY <2>2
    <3> QED
      BY <3>1, <2>2 DEF d
  <2> QED
    BY <2>1, <2>2
<1>5. q[n + 1] = d
  OBVIOUS
<1> QED
  BY <1>3, <1>4, <1>5 DEF Reads, d

\* A reading is one of every log that starts with the same words.
LEMMA ReadsSame ==
  ASSUME NEW l, NEW m, NEW n \in Nat, NEW r, Reads(r, l, n),
         \A k \in 1..n : m[k] = l[k]
  PROVE  Reads(r, m, n)
BY DEF Reads

\* Beginnings of a list of samples.
LEMMA Beginning ==
  ASSUME NEW t \in Seq(SampleType), NEW m \in 0..Len(t)
  PROVE  /\ SubSeq(t, 1, m) \in Seq(SampleType) /\ Len(SubSeq(t, 1, m)) = m
         /\ \A i \in 1..m : SubSeq(t, 1, m)[i] = t[i]
<1>1. Len(t) \in Nat /\ m \in Int /\ \A i \in 1..m : t[i] \in SampleType
  OBVIOUS
<1> DEFINE p == SubSeq(t, 1, m)
<1>2. /\ p \in Seq(SampleType) /\ Len(p) = IF 1 <= m THEN m - 1 + 1 ELSE 0
      /\ \A i \in 1..m - 1 + 1 : p[i] = t[1 + i - 1]
  BY <1>1, SubSeqProperties
<1> HIDE DEF p
<1>3. p \in Seq(SampleType) /\ Len(p) = m /\ \A i \in 1..m : p[i] = t[i]
  BY <1>1, <1>2
<1> QED
  BY <1>3 DEF p

LEMMA BeginningIs ==
  ASSUME NEW t \in Seq(SampleType), NEW o \in Seq(SampleType), Len(o) <= Len(t),
         \A k \in 1..Len(o) : t[k] = o[k]
  PROVE  SubSeq(t, 1, Len(o)) = o
<1>1. Len(o) \in 0..Len(t)
  OBVIOUS
<1> DEFINE p == SubSeq(t, 1, Len(o))
<1>2. p \in Seq(SampleType) /\ Len(p) = Len(o) /\ \A i \in 1..Len(o) : p[i] = t[i]
  BY <1>1, Beginning
<1> HIDE DEF p
<1>3. p = o
  BY <1>2, SeqEqual
<1> QED
  BY <1>3 DEF p

LEMMA BeginningGrows ==
  ASSUME NEW t \in Seq(SampleType), NEW m \in Nat, m < Len(t)
  PROVE  SubSeq(t, 1, m + 1) = Append(SubSeq(t, 1, m), t[m + 1])
<1>1. m \in 0..Len(t) /\ m + 1 \in 0..Len(t) /\ t[m + 1] \in SampleType
  OBVIOUS
<1> DEFINE p == SubSeq(t, 1, m)
           g == SubSeq(t, 1, m + 1)
           a == Append(p, t[m + 1])
<1>2. /\ p \in Seq(SampleType) /\ Len(p) = m /\ \A i \in 1..m : p[i] = t[i]
      /\ g \in Seq(SampleType) /\ Len(g) = m + 1 /\ \A i \in 1..m + 1 : g[i] = t[i]
  BY <1>1, Beginning
<1> HIDE DEF p, g
<1>3. /\ a \in Seq(SampleType) /\ Len(a) = m + 1 /\ a[m + 1] = t[m + 1]
      /\ \A i \in 1..m : a[i] = p[i]
  BY <1>1, <1>2, AppendProperties
<1> HIDE DEF a
<1>4. \A i \in 1..m + 1 : g[i] = a[i]
  BY <1>2, <1>3
<1>5. g = a
  BY <1>2, <1>3, <1>4, SeqEqual
<1> QED
  BY <1>5 DEF g, a, p

\* Closing the open header gives back the samples behind it: its count is what
\* the reader needs to find them, or it is gone.
LEMMA BackfilledReads ==
  ASSUME NEW b, Sound(b), b.last # NoHeader, NEW slot \in Nat,
         NEW t \in Seq(SampleType), NEW r, OpenAt(b, r, slot, t)
  PROVE  Closed(Backfilled(b).log, t)
<1> DEFINE N == Len(b.log)
           h == b.last
           x == r[h - 1]
           l == Backfilled(b).log
<1>1. /\ b.log \in Seq(WordType) /\ N \in Nat /\ h \in 1..N /\ h \in Nat /\ h - 1 \in Nat
      /\ b.log[h].kind = "events" /\ \A k \in h + 1..N : b.log[k].kind = "sample"
  BY DEF Sound, Headers, SamplesAt
<1>2. /\ Reads(r, b.log, h - 1) /\ Between(x) /\ x.slot = slot
      /\ Len(t) = Len(x.out) + (N - h)
      /\ \A k \in 1..Len(x.out) : t[k] = x.out[k]
      /\ \A k \in 1..N - h :
           t[Len(x.out) + k] = [slot |-> slot, counter |-> b.log[h + k].arg]
  BY DEF OpenAt
<1>3. x \in ReaderType
  BY <1>1, <1>2 DEF Reads
<1>4. x.out \in Seq(SampleType) /\ Len(x.out) \in Nat
  BY <1>3 DEF ReaderType
<1>5. SubSeq(t, 1, Len(x.out)) = x.out
  BY <1>1, <1>2, <1>4, BeginningIs
<1>6. CASE N = h
  <2>1. l = Front(b.log)
    BY <1>6 DEF Backfilled
  <2>2. l = SubSeq(b.log, 1, h - 1)
    BY <2>1, <1>6 DEF Front
  <2>3. \A k \in 1..h - 1 : b.log[k] \in WordType
    BY <1>1
  <2>4. Len(l) = h - 1 /\ \A k \in 1..h - 1 : l[k] = b.log[k]
    <3> DEFINE m == h - 1
    <3>1. m \in Nat /\ \A k \in 1..m : b.log[k] \in WordType
      BY <1>1, <2>3
    <3>2. l = SubSeq(b.log, 1, m)
      BY <2>2
    <3> HIDE DEF m, l
    <3>3. /\ Len(l) = IF 1 <= m THEN m - 1 + 1 ELSE 0
          /\ \A i \in 1..m - 1 + 1 : l[i] = b.log[1 + i - 1]
      BY <3>1, <3>2, SubSeqProperties
    <3>4. Len(l) = m /\ \A k \in 1..m : l[k] = b.log[k]
      BY <3>1, <3>3
    <3> QED
      BY <3>4 DEF m
  <2>5. Reads(r, l, h - 1)
    BY <2>4, <1>1, <1>2, ReadsSame
  <2>6. x.out = t
    <3>1. Len(t) = Len(x.out)
      BY <1>2, <1>4, <1>6, <1>1
    <3> QED
      BY <3>1, <1>2, <1>4, SeqEqual
  <2> HIDE DEF l
  <2>7. Closed(l, t)
    BY <2>4, <2>5, <2>6, <1>2 DEF Closed
  <2> QED
    BY <2>7 DEF l
<1>7. CASE N # h
  <2>1. h < N /\ N - h \in Nat /\ 0 < N - h
    BY <1>1, <1>7
  <2>2. (N - h) % CountMod = N - h
    BY CountFits
  <2>3. l = [b.log EXCEPT ![h] = Word("events", N - h)]
    BY <2>2, <1>7 DEF Backfilled
  <2>4. /\ Len(l) = N /\ l[h] = Word("events", N - h)
        /\ \A k \in 1..N : k # h => l[k] = b.log[k]
    BY <2>3, <1>1
  <2>5. Word("events", N - h) \in WordType
    BY <2>1 DEF Word, WordType
  <2> DEFINE c == Len(x.out)
             after(k) == [ok |-> TRUE, left |-> N - k, slot |-> slot,
                          out |-> SubSeq(t, 1, c + (k - h))]
             q == [k \in 0..N |-> IF k < h THEN r[k] ELSE after(k)]
  <2>0. c \in Nat /\ Len(t) = c + (N - h) /\ Len(t) \in Nat
    BY <1>2, <1>4
  <2> HIDE DEF l, N, h, x, c
  <2>6. ASSUME NEW k \in h..N PROVE after(k) \in ReaderType
    <3>1. N - k \in Nat /\ c + (k - h) \in 0..Len(t)
      BY <1>1, <2>0
    <3>2. SubSeq(t, 1, c + (k - h)) \in Seq(SampleType)
      BY <3>1, Beginning
    <3> QED
      BY <3>1, <3>2 DEF ReaderType
  <2> HIDE DEF after
  <2>7. q \in [0..N -> ReaderType] /\ q[0] = Unread
    <3>1. \A k \in 0..h - 1 : r[k] \in ReaderType
      BY <1>2 DEF Reads
    <3>2. \A k \in 0..N : k < h => k \in 0..h - 1
      BY <1>1
    <3>3. \A k \in 0..N : ~(k < h) => k \in h..N
      BY <1>1
    <3>4. 0 < h /\ 0 \in 0..N /\ r[0] = Unread
      BY <1>1, <1>2 DEF Reads
    <3> QED
      BY <3>1, <3>2, <3>3, <3>4, <2>6
  <2>8. ASSUME NEW k \in 1..N PROVE q[k] = Decode(q[k - 1], l[k])
    <3>1. CASE k < h
      <4>1. q[k] = r[k] /\ q[k - 1] = r[k - 1] /\ l[k] = b.log[k]
        BY <3>1, <2>4, <1>1
      <4>2. r[k] = Decode(r[k - 1], b.log[k])
        BY <3>1, <1>1, <1>2 DEF Reads
      <4> QED
        BY <4>1, <4>2
    <3>2. CASE k = h
      <4>1. q[k] = after(h) /\ q[k - 1] = x
        BY <3>2, <1>1 DEF x
      <4> DEFINE w == l[h]
      <4>2. w \in WordType /\ w.kind = "events" /\ w.arg = N - h
        BY <2>4, <2>5 DEF Word
      <4> HIDE DEF w
      <4>3. Decode(x, w) = [x EXCEPT !.left = N - h]
        <5>1. Decode(x, w) = [x EXCEPT !.left = w.arg]
          BY <4>2, <1>2, <1>3, DecodeIs
        <5> QED
          BY <5>1, <4>2
      <4>4. c + (h - h) = c
        BY <1>1, <2>0
      <4>5. after(h) = [ok |-> TRUE, left |-> N - h, slot |-> slot, out |-> x.out]
        BY <4>4, <1>5 DEF after, c
      <4>6. x.ok = TRUE /\ x.slot = slot
        BY <1>2, <1>3 DEF Between, ReaderType
      <4>7. [x EXCEPT !.left = N - h] = after(h)
        <5>1. x = [ok |-> x.ok, left |-> x.left, slot |-> x.slot, out |-> x.out]
          BY <1>3 DEF ReaderType
        <5>2. [x EXCEPT !.left = N - h] =
                [ok |-> x.ok, left |-> N - h, slot |-> x.slot, out |-> x.out]
          BY <5>1
        <5> QED
          BY <5>2, <4>5, <4>6
      <4> QED
        BY <4>1, <4>3, <4>7, <3>2 DEF w
    <3>3. CASE h < k
      <4>1. q[k] = after(k) /\ q[k - 1] = after(k - 1) /\ k - 1 \in h..N
        BY <3>3, <1>1
      <4>2. l[k] = b.log[k] /\ b.log[k] \in WordType /\ b.log[k].kind = "sample"
        BY <3>3, <2>4, <1>1 DEF N
      <4> DEFINE y == after(k - 1)
                 m == c + (k - 1 - h)
      <4>3. /\ y \in ReaderType /\ y.ok /\ y.left = N - (k - 1) /\ y.slot = slot
            /\ y.out = SubSeq(t, 1, m)
        BY <4>1, <2>6 DEF after
      <4>4. y.left > 0 /\ y.left - 1 = N - k /\ m \in Nat /\ m < Len(t)
            /\ m + 1 = c + (k - h)
        <5>1. k \in Nat /\ h < k /\ k <= N /\ h \in Nat /\ N \in Nat
          BY <3>3, <1>1
        <5>2. N - (k - 1) > 0 /\ N - (k - 1) - 1 = N - k /\ m \in Nat /\ m < Len(t)
              /\ m + 1 = c + (k - h)
          BY <5>1, <2>0
        <5> QED
          BY <5>2, <4>3
      <4>5. t[m + 1] = [slot |-> slot, counter |-> b.log[k].arg]
        <5>1. k - h \in 1..N - h /\ h + (k - h) = k
          BY <3>3, <1>1
        <5> QED
          BY <5>1, <4>4, <1>2 DEF c
      <4> HIDE DEF y, m
      <4>6. Decode(y, b.log[k]) =
              [y EXCEPT !.left = y.left - 1,
                        !.out = Append(y.out, [slot |-> y.slot, counter |-> b.log[k].arg])]
        BY <4>2, <4>3, <4>4, DecodeIs
      <4>7. Append(y.out, [slot |-> y.slot, counter |-> b.log[k].arg])
              = SubSeq(t, 1, c + (k - h))
        BY <4>3, <4>4, <4>5, BeginningGrows
      <4>8. Decode(y, b.log[k]) =
              [y EXCEPT !.left = N - k, !.out = SubSeq(t, 1, c + (k - h))]
        BY <4>4, <4>6, <4>7
      <4>9. y = [ok |-> TRUE, left |-> N - (k - 1), slot |-> slot, out |-> SubSeq(t, 1, m)]
        BY DEF y, m, after
      <4>10. Decode(y, b.log[k]) = after(k)
        BY <4>8, <4>9 DEF after
      <4> QED
        BY <4>1, <4>2, <4>10 DEF y
    <3> QED
      BY <3>1, <3>2, <3>3, <1>1
  <2>9. q[N] = after(N)
    BY <1>1
  <2>10. after(N).ok /\ after(N).left = 0 /\ after(N).out = t
    <3>1. c + (N - h) = Len(t) /\ N - N = 0
      BY <1>1, <2>0
    <3>2. SubSeq(t, 1, Len(t)) = t
      BY SubSeqFull
    <3> QED
      BY <3>1, <3>2 DEF after
  <2>11. Reads(q, l, N)
    BY <2>7, <2>8 DEF Reads
  <2> HIDE DEF q
  <2>12. Closed(l, t)
    BY <2>4, <2>9, <2>10, <2>11 DEF Closed, Between
  <2> QED
    BY <2>12 DEF l
<1> QED
  BY <1>6, <1>7

LEMMA ClosedEnded == ASSUME NEW l, NEW t, Closed(l, t) PROVE Ended(l, t)
BY DEF Closed, Ended, Between, Deaf

\* After the words of a new context a reader knows the slot, and is where the
\* open header stands.
LEMMA EnterContextReads ==
  ASSUME NEW b, b.log \in Seq(WordType), NEW slot \in Nat,
         NEW t \in Seq(SampleType), Closed(b.log, t)
  PROVE  Faithful(EnterContext(b, slot), slot, t)
<1> DEFINE w == <<Word("context", slot), Word("rest", 0), Word("rest", 0),
                  Word("events", 0)>>
           l == b.log \o w
           N == Len(b.log)
<1>1. /\ w \in Seq(WordType) /\ Len(w) = 4
      /\ w[1].kind = "context" /\ w[1].arg = slot /\ w[2].kind = "rest" /\ w[3].kind = "rest"
  BY DEF Word, WordType
<1> HIDE DEF w
<1>2. /\ l \in Seq(WordType) /\ Len(l) = N + Len(w)
      /\ \A i \in 1..N + Len(w) : l[i] = IF i <= N THEN b.log[i] ELSE w[i - N]
  BY <1>1, ConcatProperties, Zenon
<1>3. EnterContext(b, slot) = [log |-> l, last |-> N + 4]
  BY DEF EnterContext, w
<1>4. PICK r : Reads(r, b.log, N) /\ Between(r[N]) /\ r[N].out = t
  BY DEF Closed
<1>5. N \in Nat
  OBVIOUS
<1> DEFINE v1 == l[N + 1]
           v2 == l[N + 2]
           v3 == l[N + 3]
<1> HIDE DEF l, N
<1>6. /\ v1 = w[1] /\ v2 = w[2] /\ v3 = w[3] /\ \A k \in 1..N : l[k] = b.log[k]
      /\ v1 \in WordType /\ v2 \in WordType /\ v3 \in WordType /\ Len(l) = N + 4
  <2>1. Len(l) = N + 4
    BY <1>1, <1>2
  <2>2. \A i \in 1..N + 4 : l[i] = IF i <= N THEN b.log[i] ELSE w[i - N]
    BY <1>1, <1>2
  <2>3. \A k \in 1..N : k \in 1..N + 4 /\ k <= N
    BY <1>5
  <2>4. \A k \in 1..N : l[k] = b.log[k]
    BY <2>2, <2>3
  <2>5. \A m \in 1..3 : /\ N + m \in 1..N + 4 /\ ~(N + m <= N) /\ (N + m) - N = m
    BY <1>5
  <2>6. \A m \in 1..3 : l[N + m] = w[m]
    BY <2>2, <2>5
  <2>7. v1 = w[1] /\ v2 = w[2] /\ v3 = w[3]
    BY <2>6
  <2>8. 1 \in 1..Len(w) /\ 2 \in 1..Len(w) /\ 3 \in 1..Len(w)
    BY <1>1
  <2>9. w[1] \in WordType /\ w[2] \in WordType /\ w[3] \in WordType
    BY <1>1, <2>8, ElementOfSeq
  <2> QED
    BY <2>1, <2>4, <2>7, <2>9
<1>7. Reads(r, l, N)
  BY <1>4, <1>5, <1>6, ReadsSame
<1>8. PICK r1 : Reads(r1, l, N + 1) /\ r1[N + 1] = Decode(r[N], v1)
  <2>1. N \in Nat /\ N < Len(l) /\ l \in Seq(WordType)
    BY <1>2, <1>5, <1>6
  <2>2. \E q : Reads(q, l, N + 1) /\ q[N + 1] = Decode(r[N], l[N + 1])
    BY <2>1, <1>7, ReadsOn
  <2> QED
    BY <2>2
<1>9. PICK r2 : Reads(r2, l, N + 2) /\ r2[N + 2] = Decode(r1[N + 1], v2)
  <2> DEFINE n == N + 1
  <2>1. n \in Nat /\ n < Len(l) /\ n + 1 = N + 2 /\ Reads(r1, l, n)
    BY <1>5, <1>6, <1>8
  <2> HIDE DEF n
  <2>2. \E q : Reads(q, l, n + 1) /\ q[n + 1] = Decode(r1[n], l[n + 1])
    BY <1>2, <2>1, ReadsOn
  <2> QED
    BY <2>1, <2>2 DEF n
<1>10. PICK r3 : Reads(r3, l, N + 3) /\ r3[N + 3] = Decode(r2[N + 2], v3)
  <2> DEFINE n == N + 2
  <2>1. n \in Nat /\ n < Len(l) /\ n + 1 = N + 3 /\ Reads(r2, l, n)
    BY <1>5, <1>6, <1>9
  <2> HIDE DEF n
  <2>2. \E q : Reads(q, l, n + 1) /\ q[n + 1] = Decode(r2[n], l[n + 1])
    BY <1>2, <2>1, ReadsOn
  <2> QED
    BY <2>1, <2>2 DEF n
<1> DEFINE x0 == r[N]
           x1 == r1[N + 1]
           x2 == r2[N + 2]
           x3 == r3[N + 3]
<1>11. /\ x0 \in ReaderType /\ x1 \in ReaderType /\ x2 \in ReaderType
       /\ Between(x0) /\ x0.out = t
       /\ x1 = Decode(x0, v1) /\ x2 = Decode(x1, v2) /\ x3 = Decode(x2, v3)
       /\ v1.kind = "context" /\ v1.arg = slot /\ v2.kind = "rest" /\ v3.kind = "rest"
  BY <1>1, <1>4, <1>5, <1>6, <1>7, <1>8, <1>9, <1>10 DEF Reads
<1> HIDE DEF x0, x1, x2, x3, v1, v2, v3
<1>12. Between(x1) /\ x1.slot = slot /\ x1.out = t
  <2>1. x1 = [x0 EXCEPT !.slot = v1.arg]
    BY <1>6, <1>11, DecodeIs
  <2> QED
    BY <2>1, <1>11 DEF Between, ReaderType
<1>13. x2 = x1
  BY <1>6, <1>11, <1>12, DecodeIs
<1>14. x3 = x1
  <2>1. x3 = Decode(x1, v3)
    BY <1>11, <1>13
  <2> QED
    BY <2>1, <1>6, <1>11, <1>12, DecodeIs
<1> DEFINE e == [log |-> l, last |-> N + 4]
<1>15. e.log = l /\ e.last = N + 4 /\ e.last - 1 = N + 3 /\ Len(e.log) - e.last = 0
  BY <1>5, <1>6
<1> HIDE DEF e
<1>16. OpenAt(e, r3, slot, t)
  <2>1. /\ Reads(r3, e.log, e.last - 1) /\ Between(r3[e.last - 1])
        /\ r3[e.last - 1].slot = slot /\ r3[e.last - 1].out = t
    BY <1>10, <1>12, <1>14, <1>15 DEF x3
  <2>2. Len(t) = Len(t) + 0 /\ 1..0 = {}
    OBVIOUS
  <2> QED
    BY <2>1, <2>2, <1>15 DEF OpenAt
<1>17. e.last # NoHeader
  BY <1>5, <1>15 DEF NoHeader
<1> QED
  BY <1>3, <1>16, <1>17 DEF Faithful, e

\* report_new_context loses nothing that the log has, in whichever slot it opens
\* the new context.
LEMMA ReportReads ==
  ASSUME NEW b, Sound(b), BufferFits, NEW old \in Nat, NEW slot \in Nat,
         NEW t \in Seq(SampleType), Faithful(b, old, t),
         b.last = NoHeader => Len(b.log) > BufSize - 5 \/ Closed(b.log, t)
  PROVE  Faithful(Report(b, slot), slot, t)
<1>1. CASE b.last = NoHeader /\ Len(b.log) > BufSize - 5
  <2>1. Report(b, slot) = b
    BY <1>1, ReportGood
  <2> QED
    BY <2>1, <1>1 DEF Faithful
<1>2. CASE ~(b.last = NoHeader /\ Len(b.log) > BufSize - 5)
  <2> DEFINE c == Backfilled(b)
  <2>1. c.last = NoHeader /\ (b.last = NoHeader => c = b) /\ c.log \in Seq(WordType)
    BY BackfilledGood DEF Good, Sound
  <2>2. Closed(c.log, t)
    <3>1. CASE b.last = NoHeader
      BY <3>1, <2>1, <1>2
    <3>2. CASE b.last # NoHeader
      <4>1. PICK r : OpenAt(b, r, old, t)
        BY <3>2 DEF Faithful
      <4> QED
        BY <4>1, <3>2, BackfilledReads
    <3> QED
      BY <3>1, <3>2
  <2>3. Report(b, slot) = IF Len(c.log) > Room(5) THEN c ELSE EnterContext(c, slot)
    BY DEF Report
  <2> HIDE DEF c
  <2>4. Faithful(c, slot, t)
    BY <2>1, <2>2, ClosedEnded DEF Faithful
  <2>5. Faithful(EnterContext(c, slot), slot, t)
    BY <2>1, <2>2, EnterContextReads
  <2> QED
    BY <2>3, <2>4, <2>5
<1> QED
  BY <1>1, <1>2

\* record_sample: the sample goes under the open header, or, if there is none,
\* where no reader can find it.
LEMMA SampledReads ==
  ASSUME NEW b, Good(b), BufferFits, NEW counter \in Nat, NEW slot \in Nat,
         NEW t \in Seq(SampleType), Faithful(b, slot, t),
         b.last = NoHeader => Len(b.log) > BufSize - 5
  PROVE  LET kept == Len(b.log) < Room(1) /\ b.last # NoHeader
             u == IF kept THEN Append(t, [slot |-> slot, counter |-> counter]) ELSE t
         IN  Faithful(Sampled(b, counter, slot), slot, u)
<1> DEFINE v == Word("sample", counter)
           a == [slot |-> slot, counter |-> counter]
           l == Append(b.log, v)
           c == [log |-> l, last |-> b.last]
           N == Len(b.log)
           kept == N < Room(1) /\ b.last # NoHeader
           u == IF kept THEN Append(t, a) ELSE t
<1>1. /\ b.log \in Seq(WordType) /\ N \in Nat /\ b = [log |-> b.log, last |-> b.last]
      /\ b.last = NoHeader \/ b.last \in 1..N
  BY DEF Good, Sound
<1>2. Room(1) = BufSize - 1 /\ BufSize \in Nat
  BY Constants DEF Room, BufferFits
<1>3. v \in WordType /\ v.kind = "sample" /\ v.arg = counter
  BY DEF Word, WordType
<1>4. a \in SampleType
  BY DEF SampleType
<1> HIDE DEF v, a
<1>5. /\ l \in Seq(WordType) /\ Len(l) = N + 1 /\ l[N + 1] = v
      /\ \A i \in 1..N : l[i] = b.log[i]
  BY <1>1, <1>3, AppendProperties
<1>6. /\ Append(t, a) \in Seq(SampleType) /\ Len(Append(t, a)) = Len(t) + 1
      /\ Append(t, a)[Len(t) + 1] = a /\ \A i \in 1..Len(t) : Append(t, a)[i] = t[i]
  BY <1>4, AppendProperties
<1>7. u \in Seq(SampleType)
  BY <1>6
<1>8. CASE ~(N < Room(1))
  <2>1. Sampled(b, counter, slot) = b
    BY <1>1, <1>2, <1>8 DEF Sampled
  <2> QED
    BY <2>1, <1>8
<1>9. CASE N < Room(1)
  <2>1. Sampled(b, counter, slot) = IF Len(l) % Chunk = 0 THEN Report(c, slot) ELSE c
    <3>1. [b EXCEPT !.log = Append(@, Word("sample", counter))] =
            [log |-> Append(b.log, Word("sample", counter)), last |-> b.last]
      <4>1. b \in [log : Seq(WordType), last : Int]
        BY DEF Good, Sound
      <4> DEFINE m == Append(b.log, Word("sample", counter))
      <4> HIDE DEF m
      <4>2. [b EXCEPT !.log = m] = [log |-> m, last |-> b.last]
        BY <4>1
      <4> QED
        BY <4>2 DEF m
    <3> QED
      BY <3>1, <1>1, <1>2, <1>9 DEF Sampled, v
  <2>2. Sound(c)
    <3>1. Len(b.log) < BufSize
      BY <1>1, <1>2, <1>9
    <3> QED
      BY <3>1, AppendSound DEF v
  <2> HIDE DEF l
  <2>3. Faithful(c, slot, u)
    <3>1. CASE b.last = NoHeader
      <4>1. PICK r : Reads(r, b.log, N) /\ Deaf(r[N]) /\ r[N].out = t
        BY <3>1 DEF Faithful, Ended
      <4> DEFINE x == r[N]
      <4>2. Reads(r, l, N)
        BY <4>1, <1>1, <1>5, ReadsSame
      <4>3. N < Len(l)
        BY <1>1, <1>5
      <4>4. PICK q : Reads(q, l, N + 1) /\ q[N + 1] = Decode(x, v)
        <5>1. \E q : Reads(q, l, N + 1) /\ q[N + 1] = Decode(x, l[N + 1])
          BY <4>2, <4>3, <1>1, <1>5, ReadsOn
        <5> QED
          BY <5>1, <1>5
      <4>5. x \in ReaderType /\ Deaf(x) /\ x.out = t
        BY <4>1, <1>1 DEF Reads
      <4> HIDE DEF x
      <4>6. x.ok \in BOOLEAN
        BY <4>5 DEF ReaderType
      <4>7. Decode(x, v) = x \/ Decode(x, v) = [x EXCEPT !.ok = FALSE]
        BY <4>5, <4>6, <1>3, DecodeIs DEF Deaf, Between
      <4>8. Deaf(Decode(x, v)) /\ Decode(x, v).out = t
        BY <4>5, <4>7 DEF Deaf, ReaderType
      <4>9. Ended(l, t)
        BY <4>4, <4>8, <1>5 DEF Ended
      <4> QED
        BY <4>9, <3>1 DEF Faithful
    <3>2. CASE b.last # NoHeader
      <4> DEFINE h == b.last
      <4>1. PICK r : OpenAt(b, r, slot, t)
        BY <3>2 DEF Faithful
      <4> DEFINE x == r[h - 1]
                 g == Append(t, a)
      <4>2. /\ Reads(r, b.log, h - 1) /\ Between(x) /\ x.slot = slot
            /\ Len(t) = Len(x.out) + (N - h)
            /\ \A k \in 1..Len(x.out) : t[k] = x.out[k]
            /\ \A k \in 1..N - h :
                 t[Len(x.out) + k] = [slot |-> slot, counter |-> b.log[h + k].arg]
        BY <4>1 DEF OpenAt
      <4>3. h \in 1..N /\ h - 1 \in Nat
        BY <3>2, <1>1
      <4>4. x \in ReaderType
        BY <4>2, <4>3 DEF Reads
      <4>5. Len(x.out) \in Nat /\ Len(t) \in Nat
        BY <4>4 DEF ReaderType
      <4>6. Reads(r, l, h - 1)
        <5>1. \A k \in 1..h - 1 : l[k] = b.log[k]
          <6>1. \A k \in 1..h - 1 : k \in 1..N
            BY ONLY <4>3, <1>1
          <6> QED
            BY <1>5, <6>1, Zenon
        <5> QED
          BY <4>2, <4>3, <5>1, ReadsSame, Zenon
      <4>7. u = g
        BY <3>2, <1>9
      <4>8. /\ Len(g) = Len(t) + 1 /\ g[Len(t) + 1] = a
            /\ \A i \in 1..Len(t) : g[i] = t[i]
        BY <1>6
      <4> HIDE DEF x, g, h, N, u
      <4> DEFINE c0 == Len(x.out)
                 c1 == Len(t)
      <4>9. /\ c0 \in Nat /\ c1 \in Nat /\ c1 = c0 + (N - h) /\ h \in 1..N /\ N \in Nat
             /\ Len(l) = N + 1 /\ Len(g) = c1 + 1
        BY <4>2, <4>3, <4>5, <4>8, <1>1, <1>5
      <4> HIDE DEF c0, c1
      <4>10. Len(g) = c0 + (Len(l) - h)
        BY <4>9
      <4>11. \A k \in 1..c0 : g[k] = x.out[k]
        <5>1. \A k \in 1..c0 : k \in 1..c1
          BY <4>9
        <5> QED
          BY <5>1, <4>2, <4>8 DEF c0, c1
      <4>12. ASSUME NEW k \in 1..Len(l) - h
             PROVE  g[c0 + k] = [slot |-> slot, counter |-> l[h + k].arg]
        <5>1. CASE k \in 1..N - h
          <6>1. c0 + k \in 1..c1 /\ h + k \in 1..N
            BY <5>1, <4>9
          <6>2. t[c0 + k] = [slot |-> slot, counter |-> b.log[h + k].arg]
            BY <5>1, <4>2 DEF c0
          <6>3. g[c0 + k] = t[c0 + k] /\ l[h + k] = b.log[h + k]
            BY <6>1, <4>8, <1>5 DEF c1
          <6> QED
            BY <6>2, <6>3
        <5>2. CASE k = N + 1 - h
          <6>1. c0 + k = c1 + 1 /\ h + k = N + 1
            BY <5>2, <4>9
          <6>2. g[c1 + 1] = a /\ l[N + 1] = v
            BY <4>8, <1>5 DEF c1
          <6> QED
            BY <6>1, <6>2, <1>3 DEF a
        <5>3. k \in 1..N - h \/ k = N + 1 - h
          BY <4>9
        <5> QED
          BY <5>1, <5>2, <5>3
      <4> DEFINE e == c
      <4>13. e.log = l /\ e.last = h /\ e.last # NoHeader
        BY <3>2 DEF h
      <4> HIDE DEF e
      <4>14. OpenAt(e, r, slot, g)
        BY <4>2, <4>6, <4>10, <4>11, <4>12, <4>13 DEF OpenAt, x, c0
      <4> QED
        BY <4>7, <4>13, <4>14 DEF Faithful, e
    <3> QED
      BY <3>1, <3>2
  <2>4. c.last = NoHeader => Len(c.log) > BufSize - 5
    BY <1>1, <1>2, <1>5
  <2> HIDE DEF c, u
  <2>5. Faithful(Report(c, slot), slot, u)
    BY <2>2, <2>3, <2>4, <1>7, ReportReads
  <2>6. Faithful(Sampled(b, counter, slot), slot, u)
    BY <2>1, <2>3, <2>5
  <2> QED
    BY <2>6 DEF u, a
<1>10. (N < Room(1)) \in BOOLEAN
  OBVIOUS
<1> QED
  BY <1>8, <1>9, <1>10 DEF a

\* The configuration of a log means nothing to a reader.
LEMMA ConfigReads == ASSUME BufferFits PROVE Closed(Config, <<>>)
<1>1. ConfigSize \in Nat
  BY Constants
<1>2. Word("config", 0) \in WordType /\ Word("config", 0).kind = "config"
  BY DEF Word, WordType
<1>3. /\ Len(Config) = ConfigSize
      /\ \A i \in 1..ConfigSize : Config[i] \in WordType /\ Config[i].kind = "config"
  BY <1>1, <1>2 DEF Config
<1>4. Unread \in ReaderType /\ Between(Unread) /\ Unread.out = <<>>
  <2>1. <<>> \in Seq(SampleType)
    OBVIOUS
  <2> QED
    BY <2>1 DEF Unread, ReaderType, Between
<1> DEFINE r == [k \in 0..ConfigSize |-> Unread]
<1>5. ASSUME NEW k \in 1..ConfigSize PROVE r[k] = Decode(r[k - 1], Config[k])
  <2>1. r[k] = Unread /\ r[k - 1] = Unread
    BY <1>1
  <2>2. Decode(Unread, Config[k]) = Unread
    BY <1>3, <1>4, DecodeIs
  <2> QED
    BY <2>1, <2>2
<1>6. r \in [0..ConfigSize -> ReaderType] /\ r[0] = Unread /\ r[ConfigSize] = Unread
  BY <1>1, <1>4
<1>7. Reads(r, Config, ConfigSize)
  BY <1>5, <1>6 DEF Reads
<1> HIDE DEF r
<1> QED
  BY <1>3, <1>4, <1>6, <1>7 DEF Closed

\* While a profile runs, and after it, its log says what was taken; after it no
\* header is open.
Truthful ==
  /\ last_event # 0 => Faithful(Current, slotid, taken)
  /\ last_event = 0 => taken = <<>>
  /\ Stopped => last_event \in {0, NoHeader}

LEMMA NextTruthful ==
  ASSUME BufferFits PROVE IInv /\ IInv' /\ Truthful /\ [Next]_vars => Truthful'
<1> SUFFICES ASSUME IInv, IInv', Truthful, [Next]_vars PROVE Truthful'
  OBVIOUS
<1>0. /\ Current = [log |-> log, last |-> last_event]
      /\ Current.log = log /\ Current.last = last_event
      /\ Current' = [log |-> log', last |-> last_event']
  BY DEF Current
<1>a. /\ slotid \in Nat /\ slotid' \in Nat /\ log \in Seq(WordType) /\ Len(log) \in Nat
      /\ taken \in Seq(SampleType)
  <2>1. Slots \subseteq Nat /\ Counters \subseteq Nat
    BY Constants, SbprofAssumption DEF Slots
  <2>2. [slot : Slots, counter : Counters] \subseteq SampleType
    BY <2>1 DEF SampleType
  <2>3. /\ slotid \in Slots /\ slotid' \in Slots /\ log \in Seq(WordType)
        /\ taken \in Seq([slot : Slots, counter : Counters])
    BY DEF IInv, TypeOK
  <2> DEFINE S == [slot : Slots, counter : Counters]
  <2>4. S \subseteq SampleType /\ taken \in Seq(S)
    BY <2>2, <2>3
  <2> HIDE DEF S
  <2>5. taken \in Seq(SampleType)
    BY <2>4
  <2> QED
    BY <2>1, <2>3, <2>5
<1>b. last_event # 0 => Sound(Current) /\ Good(Current)
  BY DEF IInv, Good
<1>c. last_event' # 0 => Current'.last = last_event'
  BY <1>0
<1>1. CASE Start
  <2> DEFINE c == [log |-> Config, last |-> NoHeader]
             b == Report(c, 0)
  <2>1. Sound(c) /\ c.last = NoHeader
    BY ConfigGood DEF Good
  <2>2. Closed(c.log, <<>>)
    BY ConfigReads
  <2>3. Faithful(c, 0, <<>>)
    BY <2>1, <2>2, ClosedEnded DEF Faithful
  <2>4. Faithful(b, 0, <<>>)
    <3>1. <<>> \in Seq(SampleType)
      OBVIOUS
    <3> HIDE DEF c
    <3> QED
      BY <2>1, <2>2, <2>3, <3>1, ReportReads
  <2>5. Good(b)
    <3> HIDE DEF c
    <3> QED
      BY <2>1, ReportGood
  <2>6. log' = b.log /\ last_event' = b.last /\ slotid' = 0 /\ taken' = <<>> /\ prof_running'
    BY <1>1 DEF Start, BufferIs
  <2> HIDE DEF b
  <2>7. Current' = b
    BY <2>5, <2>6, <1>0 DEF Good, Sound
  <2> QED
    BY <2>4, <2>6, <2>7 DEF Truthful, Stopped
<1>2. CASE StopBegin
  BY <1>0, <1>2 DEF StopBegin, buffer, history, Truthful, Stopped
<1>3. CASE StopEnd
  <2> DEFINE b == Backfilled(Current)
  <2>1. last_event # 0 /\ Sound(Current) /\ Faithful(Current, slotid, taken)
    BY <1>3, <1>b DEF StopEnd, IInv, Truthful
  <2>2. Good(b) /\ b.last = NoHeader /\ (last_event = NoHeader => b = Current)
    BY <2>1, <1>0, BackfilledGood
  <2>3. Ended(b.log, taken)
    <3>1. CASE last_event = NoHeader
      BY <3>1, <2>1, <2>2, <1>0 DEF Faithful
    <3>2. CASE last_event # NoHeader
      <4>1. PICK r : OpenAt(Current, r, slotid, taken)
        BY <3>2, <2>1, <1>0 DEF Faithful
      <4>2. Closed(b.log, taken)
        BY <4>1, <3>2, <2>1, <1>0, <1>a, BackfilledReads
      <4> QED
        BY <4>2, ClosedEnded
    <3> QED
      BY <3>1, <3>2
  <2>4. log' = b.log /\ last_event' = b.last /\ slotid' = slotid /\ taken' = taken
    BY <1>3 DEF StopEnd, BufferIs, history
  <2> HIDE DEF b
  <2>5. Current'.log = b.log /\ Current'.last = NoHeader
    BY <2>2, <2>4, <1>0
  <2>6. Faithful(Current', slotid', taken')
    BY <2>3, <2>4, <2>5 DEF Faithful
  <2>7. last_event' = NoHeader /\ last_event' # 0
    BY <2>2, <2>4 DEF NoHeader
  <2> QED
    BY <2>6, <2>7 DEF Truthful
<1>4. CASE Overflow
  BY <1>0, <1>4 DEF Overflow, buffer, program, history, Truthful, Stopped
<1>5. CASE TakeInterrupt
  BY <1>0, <1>5 DEF TakeInterrupt, buffer, program, history, Truthful, Stopped
<1>6. CASE EndInterrupt
  <2>1. CASE SlotExpires
    <3> DEFINE b == Report(Current, NextSlot)
    <3>1. prof_running /\ last_event # 0
      BY <2>1 DEF SlotExpires, IInv
    <3>2. /\ log' = b.log /\ last_event' = b.last /\ slotid' = NextSlot
          /\ taken' = taken /\ prof_running' = prof_running
      BY <1>6, <2>1 DEF EndInterrupt, BufferIs, history, program
    <3>3. NextSlot \in Nat
      BY <3>2, <1>a
    <3>4. Sound(Current) /\ Faithful(Current, slotid, taken)
      BY <3>1, <1>b DEF Truthful
    <3>5. Current.last = NoHeader => Len(Current.log) > BufSize - 5
      BY <3>1, <1>0 DEF IInv
    <3>6. Faithful(b, NextSlot, taken)
      BY <3>3, <3>4, <3>5, <1>a, ReportReads
    <3>7. Good(b)
      BY <3>3, <3>4, ReportGood
    <3> HIDE DEF b
    <3>8. Current' = b
      BY <3>2, <3>7, <1>0 DEF Good, Sound
    <3>9. b.last # 0
      BY <3>7 DEF Good, Sound, NoHeader
    <3> QED
      BY <3>1, <3>2, <3>6, <3>8, <3>9 DEF Truthful, Stopped
  <2>2. CASE ~SlotExpires
    BY <1>0, <1>6, <2>2 DEF EndInterrupt, buffer, program, history, Truthful, Stopped
  <2> QED
    BY <2>1, <2>2
<1>7. ASSUME NEW counter \in Counters, RecordSample(counter) PROVE Truthful'
  <2> DEFINE b == Sampled(Current, counter, slotid)
             kept == Len(log) < Room(1) /\ last_event # NoHeader
             u == IF kept THEN Append(taken, [slot |-> slotid, counter |-> counter])
                  ELSE taken
  <2>1. /\ log' = b.log /\ last_event' = b.last /\ slotid' = slotid
        /\ taken' = u /\ prof_running' = prof_running
    BY <1>7 DEF RecordSample, BufferIs, program
  <2>2. prof_running /\ last_event # 0 /\ counter \in Nat
    BY <1>7, SbprofAssumption DEF RecordSample, IInv
  <2>3. Good(Current) /\ Faithful(Current, slotid, taken)
    BY <2>2, <1>b DEF Truthful
  <2>4. Current.last = NoHeader => Len(Current.log) > BufSize - 5
    BY <2>2, <1>0 DEF IInv
  <2>5. Faithful(b, slotid, u)
    <3> DEFINE c == Current
    <3>1. /\ Good(c) /\ Faithful(c, slotid, taken) /\ c.log = log /\ c.last = last_event
          /\ c.last = NoHeader => Len(c.log) > BufSize - 5
      BY <2>3, <2>4, <1>0
    <3> HIDE DEF c
    <3>2. LET k == Len(c.log) < Room(1) /\ c.last # NoHeader
              v == IF k THEN Append(taken, [slot |-> slotid, counter |-> counter])
                   ELSE taken
          IN  Faithful(Sampled(c, counter, slotid), slotid, v)
      BY <3>1, <2>2, <1>a, SampledReads
    <3>3. Faithful(Sampled(c, counter, slotid), slotid, u)
      BY <3>1, <3>2
    <3> QED
      BY <3>3 DEF c
  <2>6. Good(b)
    <3>1. LET q == Sampled(Current, counter, slotid) IN
            /\ Good(q)
            /\ Len(Current.log) >= BufSize - 1 => q = Current
            /\ (Current.last = NoHeader => Len(Current.log) > BufSize - 5)
                 => (q.last = NoHeader => Len(q.log) > BufSize - 5)
            /\ Current.last = NoHeader /\ Len(Current.log) > BufSize - 5
                 => q.last = NoHeader
      BY <2>2, <2>3, <1>a, SampledGood
    <3> QED
      BY <3>1
  <2> HIDE DEF b, u
  <2>7. Current' = b
    BY <2>1, <2>6, <1>0 DEF Good, Sound
  <2>8. b.last # 0
    BY <2>6 DEF Good, Sound, NoHeader
  <2> QED
    BY <2>1, <2>2, <2>5, <2>7, <2>8 DEF Truthful, Stopped
<1>8. CASE UNCHANGED vars
  BY <1>0, <1>8 DEF vars, buffer, program, history, Truthful, Stopped
<1> QED
  BY <1>1, <1>2, <1>3, <1>4, <1>5, <1>6, <1>7, <1>8 DEF Next

\* When a profile is stopped, a reader of its log finds the samples that went
\* under a header, all of them, in order, with their slots and counters, whatever
\* the sizes and however the interrupts fell.
THEOREM SbprofCpuRecovered == ASSUME BufferFits PROVE Spec => []Recovered
<1>1. Init => Truthful
  BY DEF Init, Truthful
<1>2. IInv /\ IInv' /\ Truthful /\ [Next]_vars => Truthful'
  BY NextTruthful
<1>3. IInv /\ Truthful => Recovered
  <2> SUFFICES ASSUME IInv, Truthful, Stopped PROVE Decoded = taken
    BY DEF Recovered
  <2>1. log \in Seq(WordType)
    BY DEF IInv, TypeOK
  <2>2. CASE last_event = 0
    <3>1. log = <<>> /\ taken = <<>> /\ Len(log) = 0
      BY <2>2 DEF IInv, Truthful
    <3> DEFINE r == [k \in 0..0 |-> Unread]
    <3>2. Unread \in ReaderType
      BY DEF Unread, ReaderType
    <3>3. Reads(r, log, Len(log)) /\ r[Len(log)] = Unread
      BY <3>1, <3>2 DEF Reads
    <3> HIDE DEF r
    <3>4. Reader[Len(log)] = Unread
      BY <2>1, <3>3, ReaderIs
    <3> QED
      BY <3>1, <3>4 DEF Decoded, Unread
  <2>3. CASE last_event # 0
    <3>1. Current.log = log /\ Current.last = NoHeader
      BY <2>3 DEF Current, Truthful
    <3>2. Ended(log, taken)
      BY <2>3, <3>1 DEF Truthful, Faithful
    <3>3. PICK r : Reads(r, log, Len(log)) /\ r[Len(log)].out = taken
      BY <3>2 DEF Ended
    <3>4. Reader[Len(log)] = r[Len(log)]
      BY <2>1, <3>3, ReaderIs
    <3> QED
      BY <3>3, <3>4 DEF Decoded
  <2> QED
    BY <2>2, <2>3
<1> QED
  BY <1>1, <1>2, <1>3, Invariant, PTL DEF Spec

==============================================================================
