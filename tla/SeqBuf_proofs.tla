--------------------------- MODULE SeqBuf_proofs ---------------------------
(***************************************************************************)
(* Proof that for every MIN_BUF_SIZE, every set of sizes and any number of *)
(* bytes the buffer holds exactly what was put in, unless one of the three *)
(* damaging calls was made.                                                *)
(***************************************************************************)
EXTENDS SeqBuf, SeqBufOps_proofs, SequenceTheorems, TLAPS
-----------------------------------------------------------------------------
\* The inductive invariant.  Integrity alone is not inductive: that a read
\* position lies before the write position, or that -1 means "full", is what
\* the next call computes sizes and offsets from.
IInv == TypeOK /\ (~damaged => Good(buf, head, tail))

\* A new buffer satisfies the invariant.
LEMMA InitIInv == Init => IInv
<1> SUFFICES ASSUME Init PROVE IInv
  OBVIOUS
<1>1. Good(buf, 0, 0)
  BY FreshGood DEF Init, Null
<1>2. Good(buf, head, tail) /\ head \in Nat /\ tail \in Nat
  BY <1>1 DEF Init
<1>3. IsBuffer(buf)
  BY <1>2, GoodIsInvariant
<1> QED BY <1>2, <1>3 DEF IInv, TypeOK, Init

\* A step to a good buffer re-establishes the invariant.
LEMMA GoodStep ==
  ASSUME head' \in Nat, tail' \in Nat, ret' \in Nat, damaged' \in BOOLEAN,
         Good(buf', head', tail')
  PROVE  IInv'
<1>1. IsBuffer(buf')
  BY GoodIsInvariant
<1> QED BY <1>1 DEF IInv, TypeOK, Good, Sound

\* So does a damaging step to something that is still a buffer.
LEMMA DamagingStep ==
  ASSUME head' \in Nat, tail' \in Nat, ret' \in Nat, damaged' = TRUE, IsBuffer(buf')
  PROVE  IInv'
BY DEF IInv, TypeOK

\* Every call keeps the invariant.
LEMMA NextIInv == IInv /\ [Next]_vars => IInv'
<1> SUFFICES ASSUME IInv, [Next]_vars PROVE IInv'
  OBVIOUS
<1> USE SeqBufAssumption
<1>1. /\ head \in Nat /\ tail \in Nat /\ ret \in Nat /\ damaged \in BOOLEAN
      /\ IsBuffer(buf)
      /\ ~damaged => Good(buf, head, tail)
  BY DEF IInv, TypeOK
<1>2. Lengths \subseteq Nat \ {0} /\ 0 \in Nat
  BY DEF Lengths
<1>3. ASSUME NEW size \in Sizes PROVE Clamp(size) \in Nat \ {0}
  BY <1>3, MinSizeAssumption DEF Clamp
<1>4. CASE Destroy
  <2>1. Good(Null, tail, tail)
    BY <1>1, <1>2, FreshGood DEF Null
  <2> QED BY <1>1, <1>2, <1>4, <2>1, GoodStep DEF Destroy
<1>5. CASE Reset
  <2>1. Good(AfterReset(buf), tail, tail)
    BY <1>1, ResetGood
  <2> QED BY <1>1, <1>2, <1>5, <2>1, GoodStep DEF Reset
<1>6. CASE Pointer
  <2>1. Good(buf, head, tail) /\ buf.n > 0
    BY <1>1, <1>6 DEF Pointer
  <2>2. Good(Normalised(buf), head, tail)
    BY <1>1, <2>1, NormalisedGood
  <2>3. Good(MoveDataToHeader(buf), head, tail)
    BY <1>1, <2>1, MoveDataToHeaderGood
  <2>4. Good(buf', head', tail')
    BY <1>6, <2>2, <2>3 DEF Pointer
  <2> QED BY <1>1, <1>2, <1>6, <2>4, GoodStep DEF Pointer
<1>7. ASSUME NEW size \in Sizes, Create(size) PROVE IInv'
  <2>1. Good(buf, head, tail) /\ buf.n = 0
    BY <1>1, <1>7 DEF Create
  <2>2. head = tail
    BY <1>1, <2>1 DEF Good, Sound, Span
  <2>3. Good(Fresh(Clamp(size)), head, tail)
    BY <1>1, <1>3, <2>2, FreshGood
  <2> QED BY <1>1, <1>2, <1>7, <2>3, GoodStep DEF Create
<1>8. ASSUME NEW size \in Sizes, Resize(size) PROVE IInv'
  <2>1. Good(buf, head, tail)
    BY <1>1, <1>8 DEF Resize
  <2>2. tail' \in Nat /\ Good(buf', head, tail')
    BY <1>1, <1>8, <2>1, ResizeGood DEF Resize
  <2>3. head' = head /\ damaged' = damaged /\ ret' \in Nat
    BY <1>2, <1>3, <1>8 DEF Resize
  <2> QED BY <1>1, <2>2, <2>3, GoodStep
<1>9. ASSUME NEW size \in {0} \union {Clamp(s) : s \in Sizes}, CopyInto(size) PROVE IInv'
  <2>1. Good(buf, head, tail) /\ size \in Nat
    BY <1>1, <1>2, <1>3, <1>9 DEF CopyInto
  <2>2. Good(buf', head, tail)
    BY <1>1, <1>9, <2>1, CopyGood DEF CopyInto
  <2> QED BY <1>1, <1>2, <1>9, <2>2, GoodStep DEF CopyInto
<1>10. ASSUME NEW len \in Lengths, Read(len) PROVE IInv'
  <2>1. ReadCount(buf, len) \in Nat
        /\ Good(AfterRead(buf, len), head + ReadCount(buf, len), tail)
    BY <1>1, <1>2, <1>10, ReadGood DEF Read
  <2> QED BY <1>1, <1>10, <2>1, GoodStep DEF Read
<1>11. ASSUME NEW len \in Lengths, Write(len) PROVE IInv'
  <2>1. /\ Good(buf, head, tail) /\ WriteCount(buf, len) \in Nat
        /\ ~WritesBelowStart(buf, len) =>
             Good(AfterWrite(buf, len, tail), head, tail + WriteCount(buf, len))
    BY <1>1, <1>2, <1>11, WriteGood DEF Write
  <2>2. head' \in Nat /\ tail' \in Nat /\ ret' \in Nat
    BY <1>1, <1>11, <2>1 DEF Write
  <2>3. CASE WritesBelowStart(buf, len)
    <3>1. IsBuffer(buf') /\ damaged' = TRUE
      BY <1>1, <1>2, <1>11, <2>1, <2>3, WriteBelowStartIsBuffer DEF Write
    <3> QED BY <2>2, <3>1, DamagingStep
  <2>4. CASE ~WritesBelowStart(buf, len)
    <3>1. Good(buf', head', tail') /\ damaged' = FALSE
      BY <1>11, <2>1, <2>4 DEF Write
    <3> QED BY <2>2, <3>1, GoodStep
  <2> QED BY <2>3, <2>4
<1>12. ASSUME NEW offset \in Lengths, MoveReadPointer(offset) PROVE IInv'
  <2>1. /\ Good(buf, head, tail) /\ MoveReadCount(buf, offset) \in Nat
        /\ ~LosesRest(buf, offset) =>
             Good(AfterMoveRead(buf, offset), head + MoveReadCount(buf, offset), tail)
    BY <1>1, <1>2, <1>12, MoveReadGood DEF MoveReadPointer
  <2>2. head' \in Nat /\ tail' \in Nat /\ ret' \in Nat
    BY <1>1, <1>12, <2>1 DEF MoveReadPointer
  <2>3. CASE LosesRest(buf, offset)
    <3>1. IsBuffer(buf') /\ damaged' = TRUE
      BY <1>1, <1>2, <1>12, <2>1, <2>3, LosingReadIsBuffer DEF MoveReadPointer
    <3> QED BY <2>2, <3>1, DamagingStep
  <2>4. CASE ~LosesRest(buf, offset)
    <3>1. Good(buf', head', tail') /\ damaged' = FALSE
      BY <1>12, <2>1, <2>4 DEF MoveReadPointer
    <3> QED BY <2>2, <3>1, GoodStep
  <2> QED BY <2>3, <2>4
<1>13. ASSUME NEW offset \in Lengths, MoveWritePointer(offset) PROVE IInv'
  <2> DEFINE c == Normalised(buf)
  <2>1. /\ Good(buf, head, tail) /\ buf.n > 0
        /\ c.w # OVERFLOW_POS /\ offset <= c.n - c.w
        /\ buf' = AfterMoveWrite(Filled(c, offset, tail), offset)
        /\ ret' = MoveWriteCount(c, offset)
        /\ tail' = tail + ret' /\ head' = head /\ damaged' = damaged
    BY <1>1, <1>13 DEF MoveWritePointer
  <2> HIDE DEF c
  <2>2. /\ MoveWriteCount(c, offset) = offset
        /\ Good(AfterMoveWrite(Filled(c, offset, tail), offset), head, tail + offset)
    BY <1>1, <1>2, <2>1, MoveWriteGood DEF c
  <2>3. offset \in Nat
    BY <1>2
  <2> QED BY <1>1, <2>1, <2>2, <2>3, GoodStep
<1>14. ASSUME NEW offset \in Lengths, MoveWritePointerFull(offset) PROVE IInv'
  <2> DEFINE c == Normalised(buf)
  <2>1. /\ Good(buf, head, tail) /\ buf.n > 0 /\ c.w = OVERFLOW_POS
        /\ buf' = AfterMoveWrite(c, offset)
        /\ ret' = MoveWriteCount(c, offset)
        /\ tail' = tail + ret' /\ head' = head /\ damaged' = TRUE
    BY <1>1, <1>14 DEF MoveWritePointerFull
  <2> HIDE DEF c
  <2>2. MoveWriteCount(c, offset) \in Nat /\ IsBuffer(AfterMoveWrite(c, offset))
    BY <1>1, <1>2, <2>1, AdvancedFullIsBuffer DEF c
  <2> QED BY <1>1, <2>1, <2>2, DamagingStep
<1>15. CASE UNCHANGED vars
  BY <1>1, <1>15 DEF vars, IInv, TypeOK
<1> QED
  BY <1>4, <1>5, <1>6, <1>7, <1>8, <1>9, <1>10, <1>11, <1>12, <1>13, <1>14, <1>15
  DEF Next

\* The inductive invariant holds for any sizes.
LEMMA SpecIInv == Spec => []IInv
BY InitIInv, NextIInv, PTL DEF Spec

\* Whatever is called in whatever order, the buffer object stays well formed,
\* even after a damaging call.
THEOREM TypeCorrect == Spec => []TypeOK
<1>1. IInv => TypeOK
  BY DEF IInv
<1> QED BY <1>1, SpecIInv, PTL

\* The positions stay inside the header's table.
THEOREM PositionsHold == Spec => []Positions
<1>1. IInv => Positions
  BY GoodIsInvariant DEF IInv, TypeOK, Positions
<1> QED BY <1>1, SpecIInv, PTL

\* The buffer holds exactly the bytes stored and not taken out, in order.
THEOREM IntegrityHolds == Spec => []Integrity
<1>1. IInv => Integrity
  BY GoodIsInvariant DEF IInv, TypeOK, Integrity
<1> QED BY <1>1, SpecIInv, PTL
-----------------------------------------------------------------------------
\* The refinement of the bounded queue: what the two positions enclose is the
\* sequence of numbers from head to tail - 1.

\* Numbers in a row, joined and cut.
LEMMA NumbersAreSeq ==
  ASSUME NEW first \in Nat, NEW count \in Nat
  PROVE  /\ Queue!Numbers(first, count) \in Seq(Nat)
         /\ Len(Queue!Numbers(first, count)) = count
         /\ DOMAIN Queue!Numbers(first, count) = 1 .. count
         /\ \A i \in 1 .. count : Queue!Numbers(first, count)[i] = first + i - 1
  BY DEF Queue!Numbers

\* Two sequences with the same length and elements are equal.
LEMMA SameSeq ==
  ASSUME NEW s \in Seq(Nat), NEW t \in Seq(Nat), Len(s) = Len(t),
         \A i \in 1 .. Len(s) : s[i] = t[i]
  PROVE  s = t
  BY SeqEqual

\* Consecutive numbers, joined.
LEMMA NumbersJoined ==
  ASSUME NEW first \in Nat, NEW m \in Nat, NEW n \in Nat
  PROVE  Queue!Numbers(first, m) \o Queue!Numbers(first + m, n) = Queue!Numbers(first, m + n)
<1> DEFINE s == Queue!Numbers(first, m)  t == Queue!Numbers(first + m, n)
           st == Queue!Numbers(first, m + n)
<1>1. /\ s \in Seq(Nat) /\ Len(s) = m /\ \A i \in 1 .. m : s[i] = first + i - 1
      /\ t \in Seq(Nat) /\ Len(t) = n /\ \A i \in 1 .. n : t[i] = first + m + i - 1
      /\ st \in Seq(Nat) /\ Len(st) = m + n /\ \A i \in 1 .. m + n : st[i] = first + i - 1
  <2>1. s \in Seq(Nat) /\ Len(s) = m /\ \A i \in 1 .. m : s[i] = first + i - 1
    BY NumbersAreSeq
  <2>2. first + m \in Nat /\ m + n \in Nat
    OBVIOUS
  <2>3. t \in Seq(Nat) /\ Len(t) = n /\ \A i \in 1 .. n : t[i] = first + m + i - 1
    BY <2>2, NumbersAreSeq
  <2>4. /\ st \in Seq(Nat) /\ Len(st) = m + n
        /\ \A i \in 1 .. m + n : st[i] = first + i - 1
    BY <2>2, NumbersAreSeq
  <2> QED BY <2>1, <2>3, <2>4
<1> HIDE DEF s, t, st
<1>2. /\ s \o t \in Seq(Nat) /\ Len(s \o t) = m + n
      /\ \A i \in 1 .. m + n : (s \o t)[i] = IF i <= m THEN s[i] ELSE t[i - m]
  BY <1>1, ConcatProperties
<1>3. ASSUME NEW i \in 1 .. m + n PROVE (s \o t)[i] = st[i]
  BY <1>1, <1>2
<1>4. s \o t = st
  BY <1>1, <1>2, <1>3, SameSeq
<1> QED BY <1>4 DEF s, t, st

\* Consecutive numbers, without the first few.
LEMMA NumbersCut ==
  ASSUME NEW first \in Nat, NEW count \in Nat, NEW m \in Nat, NEW n \in m .. count
  PROVE  SubSeq(Queue!Numbers(first, count), m + 1, n) = Queue!Numbers(first + m, n - m)
<1> DEFINE s == Queue!Numbers(first, count)  c == Queue!Numbers(first + m, n - m)
<1>1. /\ s \in Seq(Nat) /\ Len(s) = count /\ \A i \in 1 .. count : s[i] = first + i - 1
      /\ c \in Seq(Nat) /\ Len(c) = n - m
      /\ \A i \in 1 .. n - m : c[i] = first + m + i - 1
  <2>1. s \in Seq(Nat) /\ Len(s) = count /\ \A i \in 1 .. count : s[i] = first + i - 1
    BY NumbersAreSeq
  <2>2. first + m \in Nat /\ n - m \in Nat
    OBVIOUS
  <2>3. c \in Seq(Nat) /\ Len(c) = n - m /\ \A i \in 1 .. n - m : c[i] = first + m + i - 1
    BY <2>2, NumbersAreSeq
  <2> QED BY <2>1, <2>3
<1> HIDE DEF s, c
<1>2. /\ SubSeq(s, m + 1, n) \in Seq(Nat) /\ Len(SubSeq(s, m + 1, n)) = n - m
      /\ \A i \in 1 .. n - m : SubSeq(s, m + 1, n)[i] = s[m + i]
  BY <1>1
<1>3. ASSUME NEW i \in 1 .. n - m PROVE SubSeq(s, m + 1, n)[i] = c[i]
  BY <1>1, <1>2
<1>4. SubSeq(s, m + 1, n) = c
  BY <1>1, <1>2, <1>3, SameSeq
<1> QED BY <1>4 DEF s, c

\* No numbers at all.
LEMMA NoNumbers == ASSUME NEW first \in Nat PROVE Queue!Numbers(first, 0) = <<>>
<1>1. Queue!Numbers(first, 0) \in Seq(Nat) /\ Len(Queue!Numbers(first, 0)) = 0
  BY NumbersAreSeq
<1> QED BY <1>1, EmptySeq

\* A good buffer holds the numbers from h to t - 1.
LEMMA HeldAreNumbers ==
  ASSUME NEW b, NEW h \in Nat, NEW t \in Nat, Good(b, h, t)
  PROVE  /\ [i \in 1 .. DataSize(b) |-> b.cell[b.r + i - 1]] = Queue!Numbers(h, t - h)
         /\ t - h \in Nat /\ t - h <= b.n
<1>1. DataSize(b) = t - h /\ t - h \in 0 .. b.n /\ b.n \in Nat
  BY GoodSize DEF Good, Sound
<1>2. ASSUME NEW i \in 1 .. t - h PROVE b.cell[b.r + i - 1] = h + i - 1
  <2>1. b.r \in Int /\ \A j \in b.r .. b.r + (t - h) - 1 : b.cell[j] = h + (j - b.r)
    BY DEF Good, Sound
  <2>2. b.r + i - 1 \in b.r .. b.r + (t - h) - 1
    BY <1>1, <2>1
  <2> QED BY <2>1, <2>2
<1>3. [i \in 1 .. DataSize(b) |-> b.cell[b.r + i - 1]] = [i \in 1 .. t - h |-> h + i - 1]
  BY <1>1, <1>2
<1> QED BY <1>1, <1>3 DEF Queue!Numbers

\* What the variables of the queue stand for before and after a step.
LEMMA QueueNow ==
  ASSUME IInv, ~damaged
  PROVE  /\ (IF damaged THEN <<>> ELSE Held) = Queue!Numbers(head, tail - head)
         /\ head \in Nat /\ tail \in Nat /\ tail - head \in Nat /\ tail - head <= buf.n
         /\ buf.n \in Nat
<1>1. Good(buf, head, tail) /\ head \in Nat /\ tail \in Nat /\ buf.n \in Nat
  BY DEF IInv, TypeOK, IsBuffer
<1> QED BY <1>1, HeldAreNumbers DEF Held

\* The queue after a step, by the positions after it.
LEMMA QueueThen ==
  ASSUME IInv', ~damaged'
  PROVE  /\ (IF damaged' THEN <<>> ELSE Held') = Queue!Numbers(head', tail' - head')
         /\ head' \in Nat /\ tail' \in Nat /\ tail' - head' \in Nat
         /\ tail' - head' <= buf'.n /\ buf'.n \in Nat
<1>1. Good(buf', head', tail') /\ head' \in Nat /\ tail' \in Nat /\ buf'.n \in Nat
  BY DEF IInv, TypeOK, IsBuffer
<1> QED BY <1>1, HeldAreNumbers DEF Held
-----------------------------------------------------------------------------
\* The numbers h, ..., t - 1 without the first ones, and without the last ones.
LEMMA Shortened ==
  ASSUME NEW h \in Nat, NEW t \in Nat, t - h \in Nat, NEW m \in Nat, NEW n \in m .. t - h
  PROVE  SubSeq(Queue!Numbers(h, t - h), m + 1, n) = Queue!Numbers(h + m, n - m)
<1> DEFINE c == t - h
<1>1. c \in Nat /\ n \in m .. c
  OBVIOUS
<1> HIDE DEF c
<1>2. SubSeq(Queue!Numbers(h, c), m + 1, n) = Queue!Numbers(h + m, n - m)
  BY <1>1, NumbersCut
<1> QED BY <1>2 DEF c

\* The numbers that remain when the buffer loses its last bytes.
LEMMA NumbersKept ==
  ASSUME NEW h \in Nat, NEW t \in Nat, t - h \in Nat, NEW kept \in 0 .. t - h
  PROVE  SubSeq(Queue!Numbers(h, t - h), 1, kept) = Queue!Numbers(h, kept)
<1> DEFINE s == Queue!Numbers(h, t - h)  c == Queue!Numbers(h, kept)
<1>1. /\ s \in Seq(Nat) /\ Len(s) = t - h /\ \A i \in 1 .. t - h : s[i] = h + i - 1
      /\ c \in Seq(Nat) /\ Len(c) = kept /\ \A i \in 1 .. kept : c[i] = h + i - 1
  <2>1. kept \in Nat
    OBVIOUS
  <2>2. c \in Seq(Nat) /\ Len(c) = kept /\ \A i \in 1 .. kept : c[i] = h + i - 1
    BY <2>1, NumbersAreSeq
  <2>3. s \in Seq(Nat) /\ Len(s) = t - h /\ \A i \in 1 .. t - h : s[i] = h + i - 1
    BY NumbersAreSeq
  <2> QED BY <2>2, <2>3
<1> HIDE DEF s, c
<1>2. /\ SubSeq(s, 1, kept) \in Seq(Nat) /\ Len(SubSeq(s, 1, kept)) = kept
      /\ \A i \in 1 .. kept : SubSeq(s, 1, kept)[i] = s[i]
  BY <1>1
<1>3. \A i \in 1 .. kept : SubSeq(s, 1, kept)[i] = c[i]
  BY <1>1, <1>2
<1>4. SubSeq(s, 1, kept) = c
  BY <1>1, <1>2, <1>3, SameSeq
<1> QED BY <1>4 DEF s, c

\* How many bytes a smaller buffer keeps.
LEMMA KeptOf ==
  ASSUME NEW h \in Nat, NEW t \in Nat, NEW last \in Nat, last - h \in Nat, last <= t
  PROVE  last - h \in 0 .. t - h /\ last = t - ((t - h) - (last - h))
  OBVIOUS

\* The four kinds of steps, by what they do to head, tail and size.
LEMMA PutRefines ==
  ASSUME IInv, IInv', ~damaged, ~damaged', NEW count \in Nat,
         head' = head, tail' = tail + count, buf'.n = buf.n
  PROVE  Queue!QNext
<1> DEFINE q == IF damaged THEN <<>> ELSE Held
           r == IF damaged' THEN <<>> ELSE Held'
<1>1. /\ q = Queue!Numbers(head, tail - head) /\ head \in Nat /\ tail \in Nat
      /\ tail - head \in Nat /\ tail - head <= buf.n /\ buf.n \in Nat
  BY QueueNow
<1>2. r = Queue!Numbers(head', tail' - head') /\ tail' - head' <= buf'.n
  BY QueueThen
<1> HIDE DEF q, r
<1>n. head \in Nat /\ tail \in Nat /\ tail - head \in Nat
  BY <1>1
<1>3. Len(q) = tail - head
  BY <1>1, NumbersAreSeq
<1>4. r = q \o Queue!Numbers(tail, count)
  <2>1. head + (tail - head) = tail /\ (tail - head) + count = tail' - head'
    BY <1>n
  <2>2. Queue!Numbers(head, tail - head) \o Queue!Numbers(head + (tail - head), count)
          = Queue!Numbers(head, (tail - head) + count)
    BY <1>n, NumbersJoined
  <2> QED BY <1>1, <1>2, <2>1, <2>2
<1>5. Len(q) + count <= buf.n /\ count \in 0 .. buf.n - Len(q)
  BY <1>1, <1>2, <1>3
<1>6. Queue!Put(count)
  BY <1>4, <1>5 DEF Queue!Put, q, r
<1> QED BY <1>5, <1>6 DEF Queue!QNext, q

\* A call that moves the read position takes from the queue.
LEMMA TakeRefines ==
  ASSUME IInv, IInv', ~damaged, ~damaged', NEW count \in Nat,
         head' = head + count, tail' = tail, buf'.n = buf.n
  PROVE  Queue!QNext
<1> DEFINE q == IF damaged THEN <<>> ELSE Held
           r == IF damaged' THEN <<>> ELSE Held'
<1>1. /\ q = Queue!Numbers(head, tail - head) /\ head \in Nat /\ tail \in Nat
      /\ tail - head \in Nat
  BY QueueNow
<1>2. r = Queue!Numbers(head + count, tail - (head + count)) /\ tail - (head + count) \in Nat
  BY QueueThen
<1> HIDE DEF q, r
<1>3. Len(q) = tail - head
  BY <1>1, NumbersAreSeq
<1>4. r = SubSeq(q, count + 1, Len(q)) /\ count \in 0 .. Len(q)
  <2>0. head \in Nat /\ tail - head \in Nat /\ tail \in Nat /\ tail - (head + count) \in Nat
    BY <1>1, <1>2
  <2>1. (tail - head) - count = tail - (head + count) /\ count <= tail - head
    BY <2>0
  <2>2. SubSeq(Queue!Numbers(head, tail - head), count + 1, tail - head)
          = Queue!Numbers(head + count, (tail - head) - count)
    <3>1. tail - head \in count .. tail - head
      BY <2>0, <2>1
    <3> QED BY <2>0, <3>1, Shortened
  <2> QED BY <1>1, <1>2, <1>3, <2>0, <2>1, <2>2
<1>5. Queue!Take(count)
  BY <1>4 DEF Queue!Take, q, r
<1> QED BY <1>4, <1>5 DEF Queue!QNext, q

\* Resizing is a change of capacity.
LEMMA ResizeRefines ==
  ASSUME IInv, IInv', ~damaged, ~damaged',
         head' = head, tail' <= tail, tail' = tail \/ tail' - head = buf'.n
  PROVE  Queue!QNext
<1> DEFINE q == IF damaged THEN <<>> ELSE Held
           r == IF damaged' THEN <<>> ELSE Held'
           kept == tail' - head
<1>1. /\ q = Queue!Numbers(head, tail - head) /\ head \in Nat /\ tail \in Nat
      /\ tail - head \in Nat
  BY QueueNow
<1>2. /\ r = Queue!Numbers(head', tail' - head') /\ tail' - head' \in Nat
      /\ tail' - head' <= buf'.n /\ tail' \in Nat
  BY QueueThen
<1> HIDE DEF q, r
<1>n. /\ head \in Nat /\ tail \in Nat /\ tail - head \in Nat /\ tail' \in Nat
      /\ kept \in Nat /\ kept = tail' - head'
  BY <1>1, <1>2
<1>3. Len(q) = tail - head
  BY <1>1, NumbersAreSeq
<1>k. /\ kept \in 0 .. tail - head /\ tail' = tail - ((tail - head) - kept)
      /\ SubSeq(Queue!Numbers(head, tail - head), 1, kept) = Queue!Numbers(head, kept)
  <2>1. kept = tail' - head
    BY <1>n
  <2>2. kept \in 0 .. tail - head /\ tail' = tail - ((tail - head) - kept)
    <3>1. tail' - head \in Nat /\ tail' \in Nat /\ head \in Nat /\ tail \in Nat
      BY <1>n
    <3> QED BY <3>1, KeptOf
  <2> HIDE DEF kept
  <2> QED BY <1>n, <2>2, NumbersKept
<1>4. r = SubSeq(q, 1, kept) /\ kept \in 0 .. Len(q)
  BY <1>1, <1>2, <1>3, <1>k
<1>5. /\ kept = Len(q) \/ kept = buf'.n
      /\ tail' = tail - (Len(q) - kept)
  BY <1>3, <1>k
<1>6. Queue!Recapacitate(buf'.n, kept)
  BY <1>2, <1>4, <1>5 DEF Queue!Recapacitate, q, r
<1> QED BY <1>4, <1>6 DEF Queue!QNext, q

\* Clearing empties the queue.
LEMMA ClearRefines ==
  ASSUME IInv', ~damaged', head' = tail, tail' = tail, buf'.n \in {0, buf.n}
  PROVE  Queue!QNext
<1>1. (IF damaged' THEN <<>> ELSE Held') = Queue!Numbers(tail, tail - tail) /\ tail \in Nat
  BY QueueThen
<1>2. (IF damaged' THEN <<>> ELSE Held') = <<>>
  BY <1>1, NoNumbers
<1>3. Queue!Clear
  BY <1>2 DEF Queue!Clear
<1> QED BY <1>3 DEF Queue!QNext

\* Every call refines one of them; a damaging one breaks the promise.
LEMMA StepRefines == IInv /\ IInv' /\ [Next]_vars => [Queue!QNext]_(Queue!qvars)
<1>s. UNCHANGED vars => UNCHANGED Queue!qvars
  BY DEF vars, Queue!qvars, Held
<1> SUFFICES ASSUME IInv, IInv', Next PROVE Queue!QNext
  BY <1>s
<1>0. /\ head \in Nat /\ tail \in Nat /\ buf.n \in Nat /\ damaged \in BOOLEAN
      /\ 0 \in Nat /\ head + 0 = head /\ tail + 0 = tail
      /\ head' \in Nat /\ tail' \in Nat
  BY DEF IInv, TypeOK, IsBuffer
<1>1. CASE Destroy \/ Reset
  <2>1. /\ head' = tail /\ tail' = tail /\ ~damaged' /\ buf'.n \in {0, buf.n}
    BY <1>1 DEF Destroy, Reset, Null, Fresh, AfterReset, At
  <2> QED BY <2>1, ClearRefines
<1>2. CASE Pointer
  <2>1. buf'.n = buf.n
    BY <1>2 DEF Pointer, Normalised, MoveDataToHeader, At
  <2> QED BY <1>0, <1>2, <2>1, PutRefines DEF Pointer
<1>3. ASSUME NEW size \in Sizes, Create(size) PROVE Queue!QNext
  BY <1>0, <1>3, ResizeRefines DEF Create
<1>4. ASSUME NEW size \in Sizes, Resize(size) PROVE Queue!QNext
  <2>1. /\ ~damaged /\ ~damaged' /\ head' = head
        /\ tail' = tail - (DataSize(buf) - Least(DataSize(buf), Clamp(size)))
    BY <1>4 DEF Resize
  <2>2. DataSize(buf) = tail - head /\ DataSize(buf) <= buf.n /\ tail - head \in Int
    BY <1>0, <2>1, GoodSize DEF IInv
  <2>3. buf'.n = Clamp(size) /\ Clamp(size) \in Nat
    <3>1. Clamp(size) \in Nat
      BY SeqBufAssumption, MinSizeAssumption DEF Clamp
    <3> QED BY <1>4, <3>1 DEF Resize, AfterResize, Relocated
  <2>4. tail' <= tail /\ (tail' = tail \/ tail' - head = buf'.n)
    BY <1>0, <2>1, <2>2, <2>3 DEF Least
  <2> QED BY <2>1, <2>4, ResizeRefines
<1>5. ASSUME NEW size \in {0} \union {Clamp(s) : s \in Sizes}, CopyInto(size)
      PROVE  Queue!QNext
  <2>1. buf'.n = buf.n
    BY <1>5 DEF CopyInto, AfterCopyFrom
  <2> QED BY <1>0, <1>5, <2>1, PutRefines DEF CopyInto
<1>6. ASSUME NEW len \in Lengths, Read(len) PROVE Queue!QNext
  <2>1. buf'.n = buf.n
    BY <1>6 DEF Read, AfterRead, MoveDataToHeader, Consumed, At
  <2>2. head' = head + ReadCount(buf, len) /\ tail' = tail /\ ~damaged /\ ~damaged'
    BY <1>6 DEF Read
  <2>3. ReadCount(buf, len) \in Nat
    BY <1>6, <2>2 DEF Read, IInv, TypeOK
  <2> QED BY <2>1, <2>2, <2>3, TakeRefines
<1>7. ASSUME NEW len \in Lengths, Write(len) PROVE Queue!QNext
  <2>1. buf'.n = buf.n
    BY <1>7 DEF Write, AfterWrite, MoveDataToHeader, Appended, At
  <2>2. head' = head /\ tail' = tail + WriteCount(buf, len) /\ ~damaged
    BY <1>7 DEF Write
  <2>3. WriteCount(buf, len) \in Nat
    BY <1>7 DEF Write, IInv, TypeOK
  <2>4. CASE damaged'
    BY <2>2, <2>4 DEF Queue!QNext, Queue!Break
  <2> QED BY <2>1, <2>2, <2>3, <2>4, PutRefines
<1>8. ASSUME NEW offset \in Lengths, MoveReadPointer(offset) PROVE Queue!QNext
  <2>1. buf'.n = buf.n
    BY <1>8, SizeKept DEF MoveReadPointer
  <2>2. head' = head + MoveReadCount(buf, offset) /\ tail' = tail /\ ~damaged
    BY <1>8 DEF MoveReadPointer
  <2>3. MoveReadCount(buf, offset) \in Nat
    BY <1>8 DEF MoveReadPointer, IInv, TypeOK
  <2>4. CASE damaged'
    BY <2>2, <2>4 DEF Queue!QNext, Queue!Break
  <2> QED BY <2>1, <2>2, <2>3, <2>4, TakeRefines
<1>9. ASSUME NEW offset \in Lengths, MoveWritePointer(offset) PROVE Queue!QNext
  <2> DEFINE c == Normalised(buf)
  <2>1. /\ buf' = AfterMoveWrite(Filled(c, offset, tail), offset) /\ ~damaged /\ ~damaged'
        /\ head' = head /\ ret' = MoveWriteCount(c, offset) /\ tail' = tail + ret'
    BY <1>9 DEF MoveWritePointer
  <2>2. buf'.n = buf.n
    BY <2>1, SizeKept DEF Filled
  <2>3. ret' \in Nat
    BY DEF IInv, TypeOK
  <2> QED BY <2>1, <2>2, <2>3, PutRefines
<1>10. ASSUME NEW offset \in Lengths, MoveWritePointerFull(offset) PROVE Queue!QNext
  BY <1>10 DEF MoveWritePointerFull, Queue!QNext, Queue!Break
<1> QED BY <1>1, <1>2, <1>3, <1>4, <1>5, <1>6, <1>7, <1>8, <1>9, <1>10 DEF Next

\* A new buffer is an empty queue.
LEMMA InitRefines == Init => Queue!QInit
<1> SUFFICES ASSUME Init PROVE Queue!QInit
  OBVIOUS
<1>1. IInv /\ ~damaged /\ head = 0 /\ tail = 0 /\ buf.n = 0
  BY InitIInv DEF Init, Null, Fresh
<1>2. (IF damaged THEN <<>> ELSE Held) = Queue!Numbers(0, 0 - 0)
  BY <1>1, QueueNow
<1>3. (IF damaged THEN <<>> ELSE Held) = <<>>
  BY <1>2, NoNumbers
<1> QED BY <1>1, <1>3 DEF Queue!QInit

\* For all sizes, lengths and sequences of calls the buffer is a bounded queue that
\* hands out the bytes it was given, each once and in order, until a damaging call.
THEOREM BufferImplementsQueue == Spec => ImplementsQueue
<1>1. Spec => Queue!QSpec
  BY InitRefines, StepRefines, SpecIInv, PTL DEF Spec, Queue!QSpec
<1> QED BY <1>1 DEF ImplementsQueue
=============================================================================
