----------------------------- MODULE SeqBufOps -----------------------------
(***************************************************************************)
(* The calls of calns::sequential_buffer as functions from the buffer's    *)
(* value to its next value.  A buffer is a record                          *)
(*   [n    |-> m_total_size,  r |-> m_read_pos,  w |-> m_write_pos,         *)
(*    cell |-> the bytes of m_data]                                        *)
(* and m_data is null exactly when n = 0 (clear() resets both).  A byte is *)
(* an integer: the place it has in the stream of all bytes ever written.   *)
(***************************************************************************)
EXTENDS Integers

CONSTANT MinSize           \* MIN_BUF_SIZE, 1024 in the code

ASSUME MinSizeAssumption == MinSize \in Nat \ {0}

OVERFLOW_POS == -1
Junk == -1                 \* a byte nobody wrote

\* b with its positions changed
At(b, r, w) == [n |-> b.n, r |-> r, w |-> w, cell |-> b.cell]

\* calloc(size) after clear(): positions 0, no byte written yet
Fresh(size) == [n |-> size, r |-> 0, w |-> 0, cell |-> [i \in 0 .. size - 1 |-> Junk]]
Null == Fresh(0)

Least(a, b) == IF a <= b THEN a ELSE b
Clamp(size) == IF size < MinSize THEN MinSize ELSE size
-----------------------------------------------------------------------------
\* Queries

DataSize(b) ==
  IF b.r = OVERFLOW_POS THEN 0
  ELSE IF b.w = OVERFLOW_POS THEN b.n - b.r ELSE b.w - b.r

FreeSize(b) == IF b.n - DataSize(b) >= 0 THEN b.n - DataSize(b) ELSE 0

IsEmpty(b) == DataSize(b) <= 0
IsFull(b)  == DataSize(b) >= b.n

HasOverflownPointer(b) == \/ b.r = OVERFLOW_POS \/ b.r >= b.n
                          \/ b.w = OVERFLOW_POS \/ b.w >= b.n
-----------------------------------------------------------------------------
\* memmove of `count` bytes from offset b.r to offset 0
Shifted(b, count) ==
  [i \in 0 .. b.n - 1 |-> IF i < count THEN b.cell[i + b.r] ELSE b.cell[i]]

\* A mutant: the positions move, the bytes do not
PositionsToHeader(b) ==
  IF b.r = OVERFLOW_POS THEN At(b, 0, 0) ELSE At(b, 0, DataSize(b))

\* move_data_to_header()
MoveDataToHeader(b) ==
  IF b.r = OVERFLOW_POS /\ b.w = OVERFLOW_POS
  THEN At(b, 0, 0)
  ELSE IF b.r = 0
       THEN At(b, 0, IF DataSize(b) >= b.n THEN OVERFLOW_POS ELSE b.w)
       ELSE [n |-> b.n, r |-> 0, w |-> DataSize(b), cell |-> Shifted(b, DataSize(b))]

\* What get_read_pointer() and get_write_pointer() do to the buffer, and
\* the first thing both move_*_pointer() calls do
Normalised(b) == IF HasOverflownPointer(b) THEN MoveDataToHeader(b) ELSE b

\* The bytes after first, first + 1, ... are copied to the write position
Stored(b, count, first) ==
  [i \in 0 .. b.n - 1 |->
     IF b.w <= i /\ i < b.w + count THEN first + (i - b.w) ELSE b.cell[i]]

Filled(b, count, first) ==
  [n |-> b.n, r |-> b.r, w |-> b.w, cell |-> Stored(b, count, first)]

\* A position that reaches the end becomes OVERFLOW_POS
Wrapped(pos, n) == IF pos >= n THEN OVERFLOW_POS ELSE pos

Consumed(b, count) == At(b, Wrapped(b.r + count, b.n), b.w)

Advanced(b, count) == At(b, b.r, Wrapped(b.w + count, b.n))

Appended(b, count, first) ==
  [n |-> b.n, r |-> b.r, w |-> Wrapped(b.w + count, b.n), cell |-> Stored(b, count, first)]
-----------------------------------------------------------------------------
\* read(len): the bytes delivered and the buffer afterwards
ReadCount(b, len) == IF IsEmpty(b) THEN 0 ELSE Least(len, DataSize(b))

\* A mutant: no compaction before the read position reaches the end
AfterReadUncompacted(b, len) ==
  IF ReadCount(b, len) = 0 THEN b ELSE Consumed(b, ReadCount(b, len))

AfterRead(b, len) ==
  LET count == ReadCount(b, len)
      c == IF b.r + count >= b.n THEN MoveDataToHeader(b) ELSE b
  IN  IF count = 0 THEN b ELSE Consumed(c, count)

\* write(len, data): data is the bytes first, first + 1, ...
WriteCount(b, len) == IF IsFull(b) THEN 0 ELSE Least(len, FreeSize(b))

AfterWrite(b, len, first) ==
  LET count == WriteCount(b, len)
      c == IF b.w + count >= b.n THEN MoveDataToHeader(b) ELSE b
  IN  IF count = 0 THEN b ELSE Appended(c, count, first)

\* move_read_pointer(offset)
MoveReadCount(b, offset) ==
  LET c == Normalised(b)
  IN  IF b.n = 0 \/ IsEmpty(c) THEN 0 ELSE Least(offset, DataSize(c))

AfterMoveRead(b, offset) ==
  LET c == Normalised(b)
      to == c.r + MoveReadCount(b, offset)
  IN  IF b.n = 0 \/ offset <= 0 THEN b
      ELSE IF IsEmpty(c) \/ to >= c.n \/ to >= c.w
           THEN At(c, 0, 0)
           ELSE At(c, to, c.w)

\* move_write_pointer(offset): free_len there is total_size() - m_write_pos
MoveWriteCount(b, offset) ==
  LET c == Normalised(b)
  IN  IF b.n = 0 \/ c.n - c.w <= 0 THEN 0 ELSE Least(offset, c.n - c.w)

AfterMoveWrite(b, offset) ==
  LET c == Normalised(b)
      count == MoveWriteCount(b, offset)
  IN  IF b.n = 0 \/ offset <= 0 THEN b
      ELSE IF count = 0 THEN c ELSE Advanced(c, count)
\* A call that loses bytes: move_read_pointer() of some but not all bytes of a full buffer: the write
\* position is OVERFLOW_POS = -1, so "m_read_pos >= m_write_pos" holds
LosesRest(b, offset) ==
  /\ Normalised(b).w = OVERFLOW_POS
  /\ Least(offset, DataSize(b)) < DataSize(b)

\* Another call that loses bytes: write() into the free space of a buffer whose write position is -1
WritesBelowStart(b, len) == b.w = OVERFLOW_POS /\ WriteCount(b, len) > 0
-----------------------------------------------------------------------------
\* A mutant: the newest bytes instead of the oldest ones
RelocatedNewest(b, size, count) ==
  [n |-> size, r |-> 0, w |-> count,
   cell |-> [i \in 0 .. size - 1 |->
               IF i < count
               THEN b.cell[i + (IF b.r = OVERFLOW_POS THEN 0 ELSE b.r) + DataSize(b) - count]
               ELSE Junk]]

\* The first bytes of b, copied to the front of a buffer of the given size
Relocated(b, size, count) ==
  [n |-> size, r |-> 0, w |-> count,
   cell |-> [i \in 0 .. size - 1 |->
               IF i < count THEN b.cell[i + (IF b.r = OVERFLOW_POS THEN 0 ELSE b.r)]
               ELSE Junk]]

\* resize(new_size), when the allocation succeeds
AfterResize(b, new_size) ==
  IF Clamp(new_size) = b.n THEN b
  ELSE Relocated(b, Clamp(new_size), Least(DataSize(b), Clamp(new_size)))

\* copy_from(src) into the buffer `to`; to and src do not share memory.  Only
\* the bytes between the positions are copied, at the positions they had.
AfterCopyFrom(to, src) ==
  LET base == IF to.n = src.n THEN to ELSE Fresh(src.n)
      from == IF src.r = OVERFLOW_POS THEN 0 ELSE src.r
  IN  [n |-> src.n, r |-> src.r, w |-> src.w,
       cell |-> [i \in 0 .. src.n - 1 |->
            IF from <= i /\ i < from + DataSize(src) THEN src.cell[i] ELSE base.cell[i]]]

\* reset()
AfterReset(b) == At(b, 0, 0)
-----------------------------------------------------------------------------
\* A buffer object at all: positions within the object or one past its ends
IsBuffer(b) ==
  /\ b.n \in Nat /\ b.r \in -1 .. b.n /\ b.w \in -1 .. b.n
  /\ b.cell \in [0 .. b.n - 1 -> Int]

\* The pairs of positions the table in the header allows.  "We would not let
\* this happen!!!" is (-1, w).  w = n appears only after resize() to exactly
\* the bytes held.
ProperPositions(b) ==
  \/ b.r = OVERFLOW_POS /\ b.w = OVERFLOW_POS /\ b.n > 0
  \/ b.r \in 0 .. b.n - 1 /\ b.w = OVERFLOW_POS
  \/ b.r \in 0 .. b.w /\ b.w \in 0 .. b.n - 1
  \/ b.r \in 0 .. b.n - 1 /\ b.w = b.n
  \/ b.r = 0 /\ b.w = 0 /\ b.n = 0

\* b holds exactly the bytes first, first + 1, ..., last - 1, in this order
Holds(b, first, last) ==
  /\ DataSize(b) = last - first
  /\ \A i \in b.r .. b.r + (last - first) - 1 : b.cell[i] = first + (i - b.r)
=============================================================================
