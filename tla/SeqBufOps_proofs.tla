-------------------------- MODULE SeqBufOps_proofs --------------------------
(***************************************************************************)
(* What each call of sequential_buffer makes of a buffer that holds the    *)
(* bytes h, ..., t - 1, for every size, every pair of positions and every  *)
(* length.  The lemmas do not depend on who calls.                         *)
(***************************************************************************)
EXTENDS SeqBufOps, TLAPS

\* Five kinds of position pairs, each with the number of bytes it stands for.
Span(n, r, w, size) ==
  \/ r = -1 /\ w = -1 /\ n > 0 /\ size = 0
  \/ r \in 0 .. n - 1 /\ w = -1 /\ size = n - r
  \/ r \in 0 .. w /\ w \in 0 .. n - 1 /\ size = w - r
  \/ r \in 0 .. n - 1 /\ w = n /\ size = n - r
  \/ r = 0 /\ w = 0 /\ n = 0 /\ size = 0

\* A buffer in use, by its four fields: what every call relies on and must
\* re-establish.
Sound(n, r, w, cell, h, t) ==
  /\ n \in Nat /\ cell \in [0 .. n - 1 -> Int]
  /\ r \in Int /\ w \in Int
  /\ Span(n, r, w, t - h)
  /\ \A i \in r .. r + (t - h) - 1 : cell[i] = h + (i - r)

Good(b, h, t) == Sound(b.n, b.r, b.w, b.cell, h, t)

\* Good is what the three invariants say of an undamaged buffer.
LEMMA GoodIsInvariant ==
  ASSUME NEW b, NEW h \in Nat, NEW t \in Nat
  PROVE  Good(b, h, t) <=> IsBuffer(b) /\ ProperPositions(b) /\ Holds(b, h, t)
<1> DEFINE n == b.n  r == b.r  w == b.w  cell == b.cell
<1> USE DEF OVERFLOW_POS
<1>1. ASSUME Good(b, h, t)
      PROVE  IsBuffer(b) /\ ProperPositions(b) /\ Holds(b, h, t)
  <2>1. IsBuffer(b)
    BY <1>1 DEF Good, Sound, Span, IsBuffer
  <2>2. ProperPositions(b)
    BY <1>1 DEF Good, Sound, Span, ProperPositions
  <2>3. Holds(b, h, t)
    BY <1>1 DEF Good, Sound, Span, Holds, DataSize
  <2> QED BY <2>1, <2>2, <2>3
<1>2. ASSUME IsBuffer(b), ProperPositions(b), Holds(b, h, t)
      PROVE  Good(b, h, t)
  BY <1>2 DEF Good, Sound, Span, IsBuffer, ProperPositions, Holds, DataSize
<1> QED BY <1>1, <1>2

\* The number of bytes a good buffer holds.
LEMMA GoodSize ==
  ASSUME NEW b, NEW h \in Nat, NEW t \in Nat, Good(b, h, t)
  PROVE  DataSize(b) = t - h /\ t - h \in 0 .. b.n
BY DEF Good, Sound, Span, DataSize, OVERFLOW_POS

\* Both positions at 0 hold nothing (reset, and the end of every drain).
LEMMA EmptiedSound ==
  ASSUME NEW n \in Nat, NEW cell \in [0 .. n - 1 -> Int], NEW t \in Nat
  PROVE  Sound(n, 0, 0, cell, t, t)
BY DEF Sound, Span

\* Moving the read position over count bytes takes exactly these bytes out,
\* if it stays inside the buffer or drains a buffer whose write position is -1.
LEMMA ConsumedSound ==
  ASSUME NEW n \in Nat, NEW r \in Nat, NEW w, NEW cell, NEW h \in Nat, NEW t \in Nat,
         Sound(n, r, w, cell, h, t), n > 0,
         NEW count \in Nat, count <= t - h,
         r + count >= n => w = -1
  PROVE  Sound(n, Wrapped(r + count, n), w, cell, h + count, t)
<1> USE DEF OVERFLOW_POS
<1>1. CASE r + count < n
  <2>1. Wrapped(r + count, n) = r + count
    BY <1>1 DEF Wrapped
  <2>2. Span(n, r + count, w, t - (h + count))
    BY <1>1 DEF Sound, Span
  <2>3. \A i \in (r + count) .. (r + count) + (t - (h + count)) - 1 :
          cell[i] = (h + count) + (i - (r + count))
    BY DEF Sound
  <2> QED BY <2>1, <2>2, <2>3 DEF Sound
<1>2. CASE r + count >= n
  <2>1. Wrapped(r + count, n) = -1
    BY <1>2 DEF Wrapped
  <2>2. w = -1 /\ t = h + count
    BY <1>2 DEF Sound, Span
  <2> QED BY <2>1, <2>2 DEF Sound, Span
<1> QED BY <1>1, <1>2

\* Storing count bytes at a write position inside the buffer and moving it
\* over them appends exactly these bytes, if they fit behind it.
LEMMA AppendedSound ==
  ASSUME NEW b, NEW h \in Nat, NEW t \in Nat, Good(b, h, t),
         b.w \in 0 .. b.n - 1, NEW count \in Nat, b.w + count <= b.n
  PROVE  Sound(b.n, b.r, Wrapped(b.w + count, b.n), Stored(b, count, t), h, t + count)
<1> DEFINE n == b.n  r == b.r  w == b.w  cell == b.cell
           s == Stored(b, count, t)
<1>1. /\ n \in Nat /\ r \in 0 .. w /\ w \in 0 .. n - 1
      /\ cell \in [0 .. n - 1 -> Int]
      /\ t - h = w - r
      /\ \A i \in r .. r + (t - h) - 1 : cell[i] = h + (i - r)
  BY DEF Good, Sound, Span
<1>2. s = [i \in 0 .. n - 1 |->
             IF w <= i /\ i < w + count THEN t + (i - w) ELSE cell[i]]
  BY DEF Stored
<1>3. w + count <= n
  OBVIOUS
<1> HIDE DEF s, n, r, w, cell
<1>4. s \in [0 .. n - 1 -> Int]
  BY <1>1, <1>2
<1>5. \A i \in r .. r + (t + count - h) - 1 : s[i] = h + (i - r)
  <2> SUFFICES ASSUME NEW i \in r .. r + (t + count - h) - 1
               PROVE  s[i] = h + (i - r)
    OBVIOUS
  <2>1. i \in 0 .. n - 1 /\ i < w + count
    BY <1>1, <1>3
  <2>2. CASE i < w
    <3>1. cell[i] = h + (i - r)
      BY <1>1, <2>2
    <3> QED BY <1>1, <1>2, <2>1, <2>2, <3>1
  <2>3. CASE i >= w
    <3>1. s[i] = t + (i - w)
      BY <1>1, <1>2, <2>1, <2>3
    <3> QED BY <1>1, <3>1
  <2> QED BY <1>1, <2>2, <2>3
<1>6. Span(n, r, Wrapped(w + count, n), t + count - h)
  BY <1>1, <1>3 DEF Span, Wrapped, OVERFLOW_POS
<1>7. Wrapped(w + count, n) \in Int
  BY <1>1 DEF Wrapped, OVERFLOW_POS
<1>8. Sound(n, r, Wrapped(w + count, n), s, h, t + count)
  BY <1>1, <1>4, <1>5, <1>6, <1>7 DEF Sound
<1> QED BY <1>8 DEF s, n, r, w, cell

\* The positions a compaction leaves: reading starts at offset 0, and the
\* write position is -1 exactly when the buffer is full.
Settled(b, size) ==
  /\ b.r = 0
  /\ \/ b.w = -1 /\ size = b.n
     \/ b.w = size /\ size < b.n

\* Shifting the bytes held to offset 0 keeps them.
LEMMA ShiftedSound ==
  ASSUME NEW b, NEW h \in Nat, NEW t \in Nat, Good(b, h, t), b.r > 0
  PROVE  Sound(b.n, 0, t - h, Shifted(b, t - h), h, t) /\ t - h < b.n
<1> DEFINE n == b.n  r == b.r  w == b.w  cell == b.cell
           s == Shifted(b, t - h)
<1>1. /\ n \in Nat /\ r \in 1 .. n - 1 /\ t - h \in 0 .. n - r
      /\ cell \in [0 .. n - 1 -> Int]
      /\ \A i \in r .. r + (t - h) - 1 : cell[i] = h + (i - r)
  BY DEF Good, Sound, Span
<1>2. s = [i \in 0 .. n - 1 |-> IF i < t - h THEN cell[i + r] ELSE cell[i]]
  BY DEF Shifted
<1> HIDE DEF s, n, r, w, cell
<1>3. ASSUME NEW i \in 0 .. n - 1, i < t - h
      PROVE  s[i] = h + i
  <2>1. i + r \in r .. r + (t - h) - 1
    BY <1>1, <1>3
  <2>2. cell[i + r] = h + ((i + r) - r)
    BY <1>1, <2>1
  <2> QED BY <1>1, <1>2, <1>3, <2>2
<1>4. s \in [0 .. n - 1 -> Int]
  BY <1>1, <1>2, <1>3
<1>5. \A i \in 0 .. 0 + (t - h) - 1 : s[i] = h + (i - 0)
  BY <1>1, <1>3
<1>6. Span(n, 0, t - h, t - h)
  BY <1>1 DEF Span
<1> QED BY <1>1, <1>4, <1>5, <1>6 DEF Sound, n, s

\* Compaction keeps the bytes held (move_data_to_header).
LEMMA MoveDataToHeaderGood ==
  ASSUME NEW b, NEW h \in Nat, NEW t \in Nat, Good(b, h, t), b.n > 0
  PROVE  /\ Good(MoveDataToHeader(b), h, t)
         /\ MoveDataToHeader(b).n = b.n
         /\ Settled(MoveDataToHeader(b), t - h)
<1> USE DEF OVERFLOW_POS
<1>0. DataSize(b) = t - h
  BY GoodSize
<1>1. CASE b.r = -1
  <2>1. b.w = -1 /\ t = h /\ b.n \in Nat /\ b.cell \in [0 .. b.n - 1 -> Int]
    BY <1>1 DEF Good, Sound, Span
  <2>2. MoveDataToHeader(b) = [n |-> b.n, r |-> 0, w |-> 0, cell |-> b.cell]
    BY <1>1, <2>1 DEF MoveDataToHeader, At
  <2> QED BY <2>1, <2>2, EmptiedSound DEF Good, Settled
<1>2. CASE b.r = 0
  <2> DEFINE w == IF t - h >= b.n THEN -1 ELSE b.w
  <2>1. MoveDataToHeader(b) = [n |-> b.n, r |-> 0, w |-> w, cell |-> b.cell]
    BY <1>0, <1>2 DEF MoveDataToHeader, At
  <2>2. Sound(b.n, 0, w, b.cell, h, t)
    BY <1>2 DEF Good, Sound, Span
  <2>3. (w = -1 /\ t - h = b.n) \/ (w = t - h /\ t - h < b.n)
    BY <1>2 DEF Good, Sound, Span
  <2> QED BY <2>1, <2>2, <2>3 DEF Good, Settled
<1>3. CASE b.r > 0
  <2>1. MoveDataToHeader(b) = [n |-> b.n, r |-> 0, w |-> t - h, cell |-> Shifted(b, t - h)]
    BY <1>0, <1>3 DEF MoveDataToHeader
  <2> QED BY <1>3, <2>1, ShiftedSound DEF Good, Settled
<1>4. b.r \in Int /\ b.r >= -1
  BY DEF Good, Sound, Span
<1> QED BY <1>1, <1>2, <1>3, <1>4

\* What a pointer call finds after its first statement: positions in range,
\* or a full buffer with the write position at -1 (get_*_pointer).
LEMMA NormalisedGood ==
  ASSUME NEW b, NEW h \in Nat, NEW t \in Nat, Good(b, h, t), b.n > 0
  PROVE  LET c == Normalised(b)
         IN  /\ Good(c, h, t)
             /\ c.n = b.n
             /\ \/ c.r = 0 /\ c.w = -1 /\ t - h = c.n
                \/ c.r \in 0 .. c.w /\ c.w \in 0 .. c.n - 1 /\ t - h = c.w - c.r
<1>1. CASE HasOverflownPointer(b)
  <2>1. Normalised(b) = MoveDataToHeader(b)
    BY <1>1 DEF Normalised
  <2> HIDE DEF Normalised
  <2>2. /\ Good(Normalised(b), h, t) /\ Normalised(b).n = b.n
        /\ Settled(Normalised(b), t - h)
    BY <2>1, MoveDataToHeaderGood
  <2>3. t - h \in 0 .. b.n
    BY GoodSize
  <2> QED BY <2>2, <2>3 DEF Settled, Good, Sound
<1>2. CASE ~HasOverflownPointer(b)
  <2>1. b.r \in 0 .. b.w /\ b.w \in 0 .. b.n - 1 /\ t - h = b.w - b.r
    BY <1>2 DEF Good, Sound, Span, HasOverflownPointer, OVERFLOW_POS
  <2> QED BY <1>2, <2>1 DEF Normalised
<1> QED BY <1>1, <1>2

\* read() takes out what it returns.
LEMMA ReadGood ==
  ASSUME NEW b, NEW h \in Nat, NEW t \in Nat, Good(b, h, t), NEW len \in Nat
  PROVE  /\ ReadCount(b, len) \in Nat
         /\ Good(AfterRead(b, len), h + ReadCount(b, len), t)
<1> DEFINE count == ReadCount(b, len)
           c == IF b.r + count >= b.n THEN MoveDataToHeader(b) ELSE b
<1> USE DEF OVERFLOW_POS
<1>0. DataSize(b) = t - h /\ t - h \in 0 .. b.n /\ b.n \in Nat
  BY GoodSize DEF Good, Sound
<1>1. count \in Nat /\ count <= t - h
  BY <1>0 DEF ReadCount, IsEmpty, Least
<1>2. CASE count = 0
  <2>1. AfterRead(b, len) = b
    BY <1>2 DEF AfterRead
  <2>2. ReadCount(b, len) = 0 /\ h + ReadCount(b, len) = h
    BY <1>2
  <2> QED BY <2>1, <2>2
<1>3. CASE count # 0
  <2> HIDE DEF count
  <2>1. b.n > 0 /\ b.r \in 0 .. b.n - 1
    BY <1>0, <1>1, <1>3 DEF Good, Sound, Span
  <2>2. Good(c, h, t) /\ c.n = b.n /\ c.r \in Nat
        /\ (c.r + count >= c.n => c.w = -1)
    <3>1. CASE b.r + count >= b.n
      <4>1. /\ Good(c, h, t) /\ c.n = b.n
            /\ Settled(c, t - h)
        BY <2>1, <3>1, MoveDataToHeaderGood
      <4> HIDE DEF c
      <4> QED BY <1>1, <4>1 DEF Settled, Good, Sound
    <3>2. CASE ~(b.r + count >= b.n)
      BY <2>1, <3>2
    <3> QED BY <3>1, <3>2
  <2> HIDE DEF c
  <2>3. Sound(c.n, Wrapped(c.r + count, c.n), c.w, c.cell, h + count, t)
    <3>1. Sound(c.n, c.r, c.w, c.cell, h, t)
      BY <2>2 DEF Good
    <3>2. c.n \in Nat /\ c.n > 0
      BY <1>0, <2>1, <2>2
    <3> QED BY <1>1, <2>2, <3>1, <3>2, ConsumedSound
  <2>4. AfterRead(b, len) = [n |-> c.n, r |-> Wrapped(c.r + count, c.n), w |-> c.w, cell |-> c.cell]
    BY <1>3 DEF AfterRead, c, count, Consumed, At
  <2> QED BY <1>1, <2>3, <2>4 DEF Good, count
<1> QED BY <1>2, <1>3

\* write() appends what it returns, unless the write position is -1.
LEMMA WriteGood ==
  ASSUME NEW b, NEW h \in Nat, NEW t \in Nat, Good(b, h, t), NEW len \in Nat
  PROVE  /\ WriteCount(b, len) \in Nat
         /\ ~WritesBelowStart(b, len) =>
              Good(AfterWrite(b, len, t), h, t + WriteCount(b, len))
<1> DEFINE count == WriteCount(b, len)
           c == IF b.w + count >= b.n THEN MoveDataToHeader(b) ELSE b
<1> USE DEF OVERFLOW_POS
<1>0. DataSize(b) = t - h /\ t - h \in 0 .. b.n /\ b.n \in Nat
  BY GoodSize DEF Good, Sound
<1>1. count \in Nat /\ count <= b.n - (t - h)
  BY <1>0 DEF WriteCount, FreeSize, IsFull, Least
<1>2. CASE count = 0
  <2>1. AfterWrite(b, len, t) = b
    BY <1>2 DEF AfterWrite
  <2>2. WriteCount(b, len) = 0 /\ t + WriteCount(b, len) = t
    BY <1>2
  <2> QED BY <2>1, <2>2
<1>3. CASE count # 0 /\ ~WritesBelowStart(b, len)
  <2>0. b.w # -1
    BY <1>1, <1>3 DEF WritesBelowStart
  <2> HIDE DEF count
  <2>1. b.n > 0 /\ b.w \in 0 .. b.n /\ b.r \in Nat
    BY <1>0, <1>1, <1>3, <2>0 DEF Good, Sound, Span
  <2>2. Good(c, h, t) /\ c.w \in 0 .. c.n - 1 /\ c.w + count <= c.n
    <3>1. CASE b.w + count >= b.n
      <4>1. /\ Good(c, h, t) /\ c.n = b.n
            /\ Settled(c, t - h)
        BY <2>1, <3>1, MoveDataToHeaderGood
      <4> HIDE DEF c
      <4> QED BY <1>0, <1>1, <1>3, <4>1 DEF Settled
    <3>2. CASE ~(b.w + count >= b.n)
      <4>1. c = b
        BY <3>2
      <4>2. b.w \in 0 .. b.n - 1 /\ b.w + count <= b.n
        BY <1>0, <1>1, <2>1, <3>2
      <4> HIDE DEF c
      <4> QED BY <4>1, <4>2
    <3> QED BY <3>1, <3>2
  <2> HIDE DEF c
  <2>3. Sound(c.n, c.r, Wrapped(c.w + count, c.n), Stored(c, count, t), h, t + count)
    BY <1>1, <2>2, AppendedSound
  <2>4. AfterWrite(b, len, t) =
          [n |-> c.n, r |-> c.r, w |-> Wrapped(c.w + count, c.n), cell |-> Stored(c, count, t)]
    BY <1>3 DEF AfterWrite, c, count, Appended
  <2> QED BY <1>1, <2>3, <2>4 DEF Good, count
<1> QED BY <1>1, <1>2, <1>3

\* move_read_pointer() takes out what it returns, unless it moves over some
\* but not all bytes of a full buffer.
LEMMA MoveReadGood ==
  ASSUME NEW b, NEW h \in Nat, NEW t \in Nat, Good(b, h, t), NEW offset \in Nat \ {0}
  PROVE  /\ MoveReadCount(b, offset) \in Nat
         /\ ~LosesRest(b, offset) =>
              Good(AfterMoveRead(b, offset), h + MoveReadCount(b, offset), t)
<1> DEFINE c == Normalised(b)
           count == MoveReadCount(b, offset)
<1> USE DEF OVERFLOW_POS
<1>0. DataSize(b) = t - h /\ t - h \in 0 .. b.n /\ b.n \in Nat
  BY GoodSize DEF Good, Sound
<1>1. CASE b.n = 0
  <2>1. AfterMoveRead(b, offset) = b /\ MoveReadCount(b, offset) = 0
    BY <1>1 DEF AfterMoveRead, MoveReadCount
  <2>2. h + 0 = h
    OBVIOUS
  <2> QED BY <2>1, <2>2
<1>2. CASE b.n > 0
  <2>1. /\ Good(c, h, t) /\ c.n = b.n
        /\ \/ c.r = 0 /\ c.w = -1 /\ t - h = c.n
           \/ c.r \in 0 .. c.w /\ c.w \in 0 .. c.n - 1 /\ t - h = c.w - c.r
    BY <1>2, NormalisedGood
  <2> HIDE DEF c
  <2>2. DataSize(c) = t - h /\ c.cell \in [0 .. c.n - 1 -> Int]
    BY <2>1, GoodSize DEF Good, Sound
  <2>3. count = Least(offset, t - h)
    BY <1>0, <1>2, <2>2 DEF MoveReadCount, c, IsEmpty, Least
  <2>4. count \in Nat /\ count <= t - h
    BY <1>0, <2>3 DEF Least
  <2> DEFINE to == c.r + count
  <2>5. AfterMoveRead(b, offset) =
          IF t - h <= 0 \/ to >= c.n \/ to >= c.w THEN At(c, 0, 0) ELSE At(c, to, c.w)
    BY <1>2, <2>2 DEF AfterMoveRead, IsEmpty, c
  <2>6. ASSUME ~LosesRest(b, offset)
        PROVE  c.w # -1 \/ count = t - h
    BY <1>0, <2>3, <2>4, <2>6 DEF LosesRest, c
  <2> HIDE DEF count
  <2>7. CASE ~LosesRest(b, offset) /\ (t - h <= 0 \/ to >= c.n \/ to >= c.w)
    <3>1. t = h + count
      BY <1>0, <2>1, <2>4, <2>6, <2>7
    <3>2. AfterMoveRead(b, offset) = [n |-> c.n, r |-> 0, w |-> 0, cell |-> c.cell]
      BY <2>5, <2>7 DEF At
    <3>3. Sound(c.n, 0, 0, c.cell, t, t)
      BY <1>0, <2>1, <2>2, EmptiedSound
    <3>4. Good(AfterMoveRead(b, offset), h + count, t)
      BY <3>1, <3>2, <3>3 DEF Good
    <3> QED BY <2>4, <3>4 DEF count
  <2>8. CASE ~(t - h <= 0 \/ to >= c.n \/ to >= c.w)
    <3>1. AfterMoveRead(b, offset) = [n |-> c.n, r |-> to, w |-> c.w, cell |-> c.cell]
      BY <2>5, <2>8 DEF At
    <3>2. Wrapped(to, c.n) = to /\ c.r \in Nat
      BY <2>1, <2>4, <2>8 DEF Wrapped
    <3>3. Sound(c.n, Wrapped(to, c.n), c.w, c.cell, h + count, t)
      BY <1>0, <1>2, <2>1, <2>4, <2>8, <3>2, ConsumedSound DEF Good
    <3> QED BY <2>4, <3>1, <3>2, <3>3 DEF Good, count
  <2> QED BY <2>4, <2>7, <2>8 DEF count
<1> QED BY <1>0, <1>1, <1>2

\* Storing at the write pointer and moving it appends what was stored.
LEMMA MoveWriteGood ==
  ASSUME NEW b, NEW h \in Nat, NEW t \in Nat, Good(b, h, t), b.n > 0,
         NEW offset \in Nat \ {0}, NEW c, c = Normalised(b),
         c.w # OVERFLOW_POS, offset <= c.n - c.w
  PROVE  /\ MoveWriteCount(c, offset) = offset
         /\ Good(AfterMoveWrite(Filled(c, offset, t), offset), h, t + offset)
<1> USE DEF OVERFLOW_POS
<1> DEFINE f == Filled(c, offset, t)
<1>1. /\ Good(c, h, t) /\ c.n = b.n /\ c.n \in Nat
      /\ c.r \in 0 .. c.w /\ c.w \in 0 .. c.n - 1
  <2>1. /\ Good(c, h, t) /\ c.n = b.n
        /\ \/ c.r = 0 /\ c.w = -1 /\ t - h = c.n
           \/ c.r \in 0 .. c.w /\ c.w \in 0 .. c.n - 1 /\ t - h = c.w - c.r
    BY NormalisedGood
  <2> QED BY <2>1 DEF Good, Sound
<1>2. Normalised(c) = c
  BY <1>1 DEF Normalised, HasOverflownPointer
<1>3. f = [n |-> c.n, r |-> c.r, w |-> c.w, cell |-> Stored(c, offset, t)]
  BY DEF Filled
<1>4. Normalised(f) = f
  BY <1>1, <1>3 DEF Normalised, HasOverflownPointer
<1>5. MoveWriteCount(c, offset) = offset
  BY <1>1, <1>2 DEF MoveWriteCount, Least
<1>6. MoveWriteCount(f, offset) = offset
  BY <1>1, <1>3, <1>4 DEF MoveWriteCount, Least
<1>7. AfterMoveWrite(f, offset) =
        [n |-> c.n, r |-> c.r, w |-> Wrapped(c.w + offset, c.n),
         cell |-> Stored(c, offset, t)]
  <2>1. AfterMoveWrite(f, offset) = Advanced(f, offset)
    BY <1>1, <1>3, <1>4, <1>6 DEF AfterMoveWrite
  <2> QED BY <1>3, <2>1 DEF Advanced, At
<1>8. Sound(c.n, c.r, Wrapped(c.w + offset, c.n), Stored(c, offset, t), h, t + offset)
  BY <1>1, AppendedSound
<1> QED BY <1>5, <1>7, <1>8 DEF Good

\* A buffer just created, and one just reset, holds nothing.
LEMMA FreshGood ==
  ASSUME NEW size \in Nat, NEW t \in Nat
  PROVE  Good(Fresh(size), t, t)
<1>1. [i \in 0 .. size - 1 |-> Junk] \in [0 .. size - 1 -> Int]
  BY DEF Junk
<1>2. Sound(size, 0, 0, [i \in 0 .. size - 1 |-> Junk], t, t)
  BY <1>1, EmptiedSound
<1> QED BY <1>2 DEF Fresh, Good

\* Clearing leaves a good, empty buffer.
LEMMA ResetGood ==
  ASSUME NEW b, IsBuffer(b), NEW t \in Nat
  PROVE  Good(AfterReset(b), t, t)
<1>1. Sound(b.n, 0, 0, b.cell, t, t)
  BY EmptiedSound DEF IsBuffer
<1> QED BY <1>1 DEF AfterReset, At, Good

\* The first `count` bytes held, moved to the front of another buffer.
LEMMA RelocatedGood ==
  ASSUME NEW b, NEW h \in Nat, NEW t \in Nat, Good(b, h, t),
         NEW size \in Nat, size > 0,
         NEW count \in Nat, count <= size, count <= t - h
  PROVE  Good(Relocated(b, size, count), h, h + count)
<1> USE DEF OVERFLOW_POS
<1> DEFINE n == b.n  r == b.r  cell == b.cell
           base == IF r = -1 THEN 0 ELSE r
           s == [i \in 0 .. size - 1 |-> IF i < count THEN cell[i + base] ELSE Junk]
<1>1. /\ n \in Nat /\ base \in Nat /\ t - h \in 0 .. n - base
      /\ cell \in [0 .. n - 1 -> Int]
      /\ \A i \in base .. base + (t - h) - 1 : cell[i] = h + (i - base)
  BY DEF Good, Sound, Span
<1>2. s = [i \in 0 .. size - 1 |-> IF i < count THEN cell[i + base] ELSE Junk]
  OBVIOUS
<1>3. Relocated(b, size, count) = [n |-> size, r |-> 0, w |-> count, cell |-> s]
  BY DEF Relocated
<1> HIDE DEF s, n, r, cell, base
<1>4. ASSUME NEW i \in 0 .. size - 1, i < count
      PROVE  s[i] = h + i
  <2>1. i + base \in base .. base + (t - h) - 1
    BY <1>1, <1>4
  <2>2. cell[i + base] = h + ((i + base) - base)
    BY <1>1, <2>1
  <2> QED BY <1>1, <1>2, <1>4, <2>2
<1>5. s \in [0 .. size - 1 -> Int]
  BY <1>1, <1>2, <1>4 DEF Junk
<1>6. \A i \in 0 .. 0 + (h + count - h) - 1 : s[i] = h + (i - 0)
  BY <1>4
<1>7. Span(size, 0, count, h + count - h)
  BY DEF Span
<1>8. Sound(size, 0, count, s, h, h + count)
  BY <1>5, <1>6, <1>7 DEF Sound
<1> QED BY <1>3, <1>8 DEF Good

\* resize() keeps the oldest bytes and drops those that no longer fit.
LEMMA ResizeGood ==
  ASSUME NEW b, NEW h \in Nat, NEW t \in Nat, Good(b, h, t), NEW size \in Nat \ {0}
  PROVE  LET kept == Least(DataSize(b), Clamp(size))
         IN  /\ t - (DataSize(b) - kept) \in Nat
             /\ Good(AfterResize(b, size), h, t - (DataSize(b) - kept))
<1> DEFINE kept == Least(DataSize(b), Clamp(size))
<1>1. DataSize(b) = t - h /\ t - h \in 0 .. b.n /\ b.n \in Nat
  BY GoodSize DEF Good, Sound
<1>2. Clamp(size) \in Nat /\ Clamp(size) > 0
  BY MinSizeAssumption DEF Clamp
<1> HIDE DEF Clamp
<1>3. kept \in Nat /\ kept <= t - h /\ kept <= Clamp(size)
  BY <1>1, <1>2 DEF Least
<1>4. CASE Clamp(size) = b.n
  <2>1. kept = t - h /\ t - (DataSize(b) - kept) = t
    BY <1>1, <1>4 DEF Least
  <2>2. AfterResize(b, size) = b
    BY <1>4 DEF AfterResize
  <2> QED BY <2>1, <2>2
<1>5. CASE Clamp(size) # b.n
  <2>1. AfterResize(b, size) = Relocated(b, Clamp(size), kept)
    BY <1>5 DEF AfterResize
  <2> HIDE DEF kept
  <2>2. t - (DataSize(b) - kept) = h + kept
    BY <1>1, <1>3
  <2>3. Good(Relocated(b, Clamp(size), kept), h, h + kept)
    BY <1>2, <1>3, RelocatedGood
  <2> QED BY <1>3, <2>1, <2>2, <2>3 DEF kept
<1> QED BY <1>4, <1>5

\* A copy holds what the original holds (copy_from).
LEMMA CopyGood ==
  ASSUME NEW b, NEW h \in Nat, NEW t \in Nat, Good(b, h, t), NEW size \in Nat
  PROVE  Good(AfterCopyFrom(Fresh(size), b), h, t)
<1> USE DEF OVERFLOW_POS
<1> DEFINE n == b.n  r == b.r  w == b.w  cell == b.cell
           base == IF size = n THEN Fresh(size) ELSE Fresh(n)
           from == IF r = -1 THEN 0 ELSE r
           s == [i \in 0 .. n - 1 |->
                  IF from <= i /\ i < from + (t - h) THEN cell[i] ELSE base.cell[i]]
<1>1. DataSize(b) = t - h
  BY GoodSize
<1>2. AfterCopyFrom(Fresh(size), b) = [n |-> n, r |-> r, w |-> w, cell |-> s]
  BY <1>1 DEF AfterCopyFrom, Fresh
<1>3. base.cell = [i \in 0 .. n - 1 |-> Junk]
  BY DEF Fresh
<1>4. Sound(n, r, w, cell, h, t)
  BY DEF Good
<1> DEFINE blank == base.cell
<1>5. s = [i \in 0 .. n - 1 |->
            IF from <= i /\ i < from + (t - h) THEN cell[i] ELSE blank[i]]
  OBVIOUS
<1> HIDE DEF base, blank, s, n, r, w, cell
<1>6. blank \in [0 .. n - 1 -> Int]
  BY <1>3 DEF Junk, blank
<1>7. s \in [0 .. n - 1 -> Int]
  BY <1>4, <1>5, <1>6 DEF Sound
<1>8. \A i \in r .. r + (t - h) - 1 : s[i] = h + (i - r)
  BY <1>4, <1>5 DEF Sound, Span
<1>9. Sound(n, r, w, s, h, t)
  BY <1>4, <1>7, <1>8 DEF Sound
<1> QED BY <1>2, <1>9 DEF Good

-----------------------------------------------------------------------------
\* What the three damaging calls leave is still a buffer: positions inside
\* the object, only their meaning is lost.
LEMMA LosingReadIsBuffer ==
  ASSUME NEW b, NEW h \in Nat, NEW t \in Nat, Good(b, h, t),
         NEW offset \in Nat \ {0}, LosesRest(b, offset)
  PROVE  IsBuffer(AfterMoveRead(b, offset))
<1> USE DEF OVERFLOW_POS
<1> DEFINE c == Normalised(b)
           to == c.r + MoveReadCount(b, offset)
<1>1. CASE b.n = 0
  <2>1. AfterMoveRead(b, offset) = b
    BY <1>1 DEF AfterMoveRead
  <2>2. IsBuffer(b)
    BY GoodIsInvariant
  <2> QED BY <2>1, <2>2
<1>2. CASE b.n > 0
  <2>1. Good(c, h, t) /\ c.n = b.n /\ c.w = -1 /\ c.r = 0 /\ t - h = c.n
    BY <1>2, NormalisedGood DEF LosesRest
  <2> HIDE DEF c
  <2>2. c.n \in Nat /\ c.cell \in [0 .. c.n - 1 -> Int] /\ DataSize(c) = t - h
    BY <2>1, GoodSize DEF Good, Sound
  <2>3. MoveReadCount(b, offset) = Least(offset, DataSize(c))
    BY <1>2, <2>1, <2>2 DEF MoveReadCount, c, IsEmpty
  <2>4. to \in Nat /\ to >= c.w
    BY <2>1, <2>2, <2>3 DEF Least
  <2>5. AfterMoveRead(b, offset) = [n |-> c.n, r |-> 0, w |-> 0, cell |-> c.cell]
    BY <1>2, <2>1, <2>4 DEF AfterMoveRead, c, At
  <2> QED BY <2>2, <2>5 DEF IsBuffer
<1>3. b.n \in Nat
  BY DEF Good, Sound
<1> QED BY <1>1, <1>2, <1>3

\* Even a write below the start leaves a buffer.
LEMMA WriteBelowStartIsBuffer ==
  ASSUME NEW b, NEW h \in Nat, NEW t \in Nat, Good(b, h, t),
         NEW len \in Nat, WritesBelowStart(b, len)
  PROVE  IsBuffer(AfterWrite(b, len, t))
<1> USE DEF OVERFLOW_POS
<1> DEFINE count == WriteCount(b, len)
           s == Stored(b, count, t)
<1>1. DataSize(b) = t - h /\ t - h \in 0 .. b.n /\ b.n \in Nat
  BY GoodSize DEF Good, Sound
<1>2. count \in Nat /\ count > 0 /\ count <= b.n /\ b.w = -1
  BY <1>1 DEF WritesBelowStart, WriteCount, FreeSize, IsFull, Least
<1> HIDE DEF count
<1>3. b.r \in -1 .. b.n /\ b.cell \in [0 .. b.n - 1 -> Int]
  BY <1>1 DEF Good, Sound, Span
<1>4. ~(b.w + count >= b.n)
  BY <1>1, <1>2
<1>5. AfterWrite(b, len, t) =
        [n |-> b.n, r |-> b.r, w |-> Wrapped(b.w + count, b.n), cell |-> s]
  BY <1>2, <1>4 DEF AfterWrite, count, Appended
<1>6. Wrapped(b.w + count, b.n) \in -1 .. b.n
  BY <1>1, <1>2 DEF Wrapped
<1>7. s \in [0 .. b.n - 1 -> Int]
  <2> DEFINE n == b.n  w == b.w  cell == b.cell
  <2>1. s = [i \in 0 .. n - 1 |->
              IF w <= i /\ i < w + count THEN t + (i - w) ELSE cell[i]]
    BY DEF Stored
  <2>2. n \in Nat /\ w = -1 /\ cell \in [0 .. n - 1 -> Int]
    BY <1>1, <1>2, <1>3
  <2> HIDE DEF s, n, w, cell
  <2>3. s \in [0 .. n - 1 -> Int]
    BY <1>2, <2>1, <2>2
  <2> QED BY <2>3 DEF n
<1> HIDE DEF s
<1> QED BY <1>1, <1>3, <1>5, <1>6, <1>7 DEF IsBuffer

\* Even moving the write pointer of a full buffer leaves a buffer.
LEMMA AdvancedFullIsBuffer ==
  ASSUME NEW b, NEW h \in Nat, NEW t \in Nat, Good(b, h, t), b.n > 0,
         NEW offset \in Nat \ {0}, NEW c, c = Normalised(b), c.w = OVERFLOW_POS
  PROVE  MoveWriteCount(c, offset) \in Nat /\ IsBuffer(AfterMoveWrite(c, offset))
<1> USE DEF OVERFLOW_POS
<1>1. Good(c, h, t) /\ c.n = b.n /\ c.r = 0 /\ c.w = -1 /\ t - h = c.n
  BY NormalisedGood
<1>2. c.n \in Nat /\ c.cell \in [0 .. c.n - 1 -> Int] /\ DataSize(c) = c.n /\ c.n > 0
  <2>1. DataSize(c) = t - h
    BY <1>1, GoodSize
  <2> QED BY <1>1, <2>1 DEF Good, Sound
<1>3. Normalised(c) = [n |-> c.n, r |-> 0, w |-> -1, cell |-> c.cell]
  <2>1. Normalised(c) = MoveDataToHeader(c)
    BY <1>1 DEF Normalised, HasOverflownPointer
  <2> QED BY <1>1, <1>2, <2>1 DEF MoveDataToHeader, At
<1> DEFINE count == MoveWriteCount(c, offset)
<1>4. count \in Nat /\ count > 0 /\ count <= c.n + 1
  BY <1>2, <1>3 DEF MoveWriteCount, Least
<1>5. AfterMoveWrite(c, offset) =
        [n |-> c.n, r |-> 0, w |-> Wrapped(-1 + count, c.n), cell |-> c.cell]
  BY <1>2, <1>3, <1>4 DEF AfterMoveWrite, Advanced, At
<1> HIDE DEF count
<1>6. Wrapped(-1 + count, c.n) \in -1 .. c.n
  BY <1>2, <1>4 DEF Wrapped
<1>7. IsBuffer(AfterMoveWrite(c, offset))
  BY <1>2, <1>5, <1>6 DEF IsBuffer
<1> QED BY <1>4, <1>7 DEF count

\* Moving a pointer does not change the size.
LEMMA SizeKept ==
  ASSUME NEW b, NEW offset
  PROVE  /\ Normalised(b).n = b.n
         /\ AfterMoveRead(b, offset).n = b.n
         /\ AfterMoveWrite(b, offset).n = b.n
<1>1. Normalised(b).n = b.n
  BY DEF Normalised, MoveDataToHeader, At
<1> QED BY <1>1 DEF AfterMoveRead, AfterMoveWrite, Advanced, At
=============================================================================
