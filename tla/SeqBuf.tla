------------------------------- MODULE SeqBuf -------------------------------
(***************************************************************************)
(* One sequential_buffer and its caller.  The caller numbers the bytes it  *)
(* stores 0, 1, 2, ...: `tail` of them were accepted by the buffer and     *)
(* `head` of them were taken out or deliberately thrown away, both counted *)
(* by what the calls RETURN.  The buffer is right when what it holds is    *)
(* exactly the bytes head, ..., tail - 1 in order.                         *)
(*                                                                         *)
(* Three legal calls break that in the code as it is.  `damaged` records   *)
(* that one of them has happened; only reset() and destroy() follow.       *)
(***************************************************************************)
EXTENDS SeqBufOps

CONSTANTS Sizes,          \* sizes passed to create() and resize()
          MaxStream       \* bound: bytes the caller ever stores

ASSUME SeqBufAssumption == /\ Sizes \subseteq Nat \ {0}
                           /\ MaxStream \in Nat

VARIABLES buf,            \* the buffer object
          head, tail,     \* bytes out, bytes in
          damaged,        \* one of the three bad calls was made
          ret             \* value returned by the last call

vars == <<buf, head, tail, damaged, ret>>

Init == /\ buf = Null
        /\ head = 0 /\ tail = 0
        /\ damaged = FALSE
        /\ ret = 0
-----------------------------------------------------------------------------
\* create(): only an object without data accepts it
Create(size) ==
  /\ ~damaged /\ buf.n = 0
  /\ buf' = Fresh(Clamp(size)) /\ ret' = 0
  /\ UNCHANGED <<head, tail, damaged>>

\* destroy() forgets the bytes held
Destroy ==
  /\ buf' = Null
  /\ head' = tail /\ damaged' = FALSE /\ ret' = 0
  /\ UNCHANGED tail

\* reset() forgets the bytes held
Reset ==
  /\ buf' = AfterReset(buf)
  /\ head' = tail /\ damaged' = FALSE /\ ret' = 0
  /\ UNCHANGED tail

\* resize(): a smaller buffer keeps the oldest bytes and drops the others,
\* which is what its caller asks for, so the caller's count follows
Resize(size) ==
  /\ ~damaged
  /\ LET dropped == DataSize(buf) - Least(DataSize(buf), Clamp(size))
     IN  tail' = tail - dropped
  /\ buf' = AfterResize(buf, size)
  /\ ret' = IF Clamp(size) = buf.n THEN 0 ELSE Clamp(size)
  /\ UNCHANGED <<head, damaged>>

\* The copy constructor and operator=: the caller goes on with the copy,
\* made in an object of size `size` that holds nothing of value
CopyInto(size) ==
  /\ ~damaged
  /\ buf' = AfterCopyFrom(Fresh(size), buf) /\ ret' = 0
  /\ UNCHANGED <<head, tail, damaged>>

Read(len) ==
  /\ ~damaged
  /\ buf' = AfterRead(buf, len)
  /\ ret' = ReadCount(buf, len)
  /\ head' = head + ret'
  /\ UNCHANGED <<tail, damaged>>

Write(len) ==
  /\ ~damaged
  /\ tail + WriteCount(buf, len) <= MaxStream
  /\ buf' = AfterWrite(buf, len, tail)
  /\ ret' = WriteCount(buf, len)
  /\ tail' = tail + ret'
  /\ damaged' = WritesBelowStart(buf, len)
  /\ UNCHANGED head

\* get_read_pointer(), get_write_pointer(), move_data_to_header()
Pointer ==
  /\ ~damaged /\ buf.n > 0
  /\ buf' \in {Normalised(buf), MoveDataToHeader(buf)}
  /\ ret' = 0
  /\ UNCHANGED <<head, tail, damaged>>

\* The caller has processed bytes at the read pointer and drops them
MoveReadPointer(offset) ==
  /\ ~damaged
  /\ buf' = AfterMoveRead(buf, offset)
  /\ ret' = MoveReadCount(buf, offset)
  /\ head' = head + ret'
  /\ damaged' = LosesRest(buf, offset)
  /\ UNCHANGED tail

\* The caller gets the write pointer, stores `offset` bytes there, no more
\* than fit behind the pointer, and accounts for them.
MoveWritePointer(offset) ==
  LET b == Normalised(buf)
  IN  /\ ~damaged /\ buf.n > 0
      /\ b.w # OVERFLOW_POS /\ offset <= b.n - b.w
      /\ tail + offset <= MaxStream
      /\ buf' = AfterMoveWrite(Filled(b, offset, tail), offset)
      /\ ret' = MoveWriteCount(b, offset)
      /\ tail' = tail + ret'
      /\ UNCHANGED <<head, damaged>>

\* The pointer is null, nothing can be stored, and the caller moves the
\* write pointer all the same: free_len is total_size() - (-1) and the call
\* "moves" the pointer.
MoveWritePointerFull(offset) ==
  LET b == Normalised(buf)
  IN  /\ ~damaged /\ buf.n > 0
      /\ b.w = OVERFLOW_POS
      /\ tail + MoveWriteCount(b, offset) <= MaxStream
      /\ buf' = AfterMoveWrite(b, offset)
      /\ ret' = MoveWriteCount(b, offset)
      /\ tail' = tail + ret'
      /\ damaged' = TRUE
      /\ UNCHANGED head

Lengths == 1 .. MaxStream

Next == \/ Destroy \/ Reset \/ Pointer
        \/ \E size \in Sizes : Create(size) \/ Resize(size)
        \/ \E size \in {0} \union {Clamp(s) : s \in Sizes} : CopyInto(size)
        \/ \E len \in Lengths : \/ Read(len) \/ Write(len)
                                \/ MoveReadPointer(len)
                                \/ MoveWritePointer(len) \/ MoveWritePointerFull(len)

Spec == Init /\ [][Next]_vars
-----------------------------------------------------------------------------
TypeOK ==
  /\ IsBuffer(buf)
  /\ head \in Nat /\ tail \in Nat /\ ret \in Nat
  /\ damaged \in BOOLEAN

\* No sequence of calls other than the three damaging ones leads to a pair of
\* positions outside the header's table: never r > w, never (-1, w).
Positions == ~damaged => ProperPositions(buf)

\* The buffer holds exactly the bytes the caller stored and has not taken
\* out yet, none lost, none repeated, in order, whatever mixture of read(),
\* write(), pointer moves, compactions, resizes and copies was made.
Integrity == ~damaged => Holds(buf, head, tail)
-----------------------------------------------------------------------------
\* The bytes between the two positions, oldest first
Held == [i \in 1 .. DataSize(buf) |-> buf.cell[buf.r + i - 1]]

Queue == INSTANCE ByteQueue
  WITH queue <- IF damaged THEN <<>> ELSE Held, next <- tail,
       capacity <- buf.n, ok <- ~damaged

\* The buffer implements the bounded queue of bytes of module ByteQueue
ImplementsQueue == Queue!QSpec

=============================================================================
