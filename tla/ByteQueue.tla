----------------------------- MODULE ByteQueue -----------------------------
(***************************************************************************)
(* What a byte buffer between a socket and a packet handler promises: a    *)
(* bounded queue that hands out the bytes it was given, each once and in   *)
(* order.  Bytes are the numbers 0, 1, 2, ... in the order of their        *)
(* arrival.  Once the promise is broken (ok = FALSE) nothing is said until *)
(* the queue is cleared.                                                   *)
(***************************************************************************)
EXTENDS Integers, Sequences

VARIABLES queue,      \* the bytes held, oldest first
          next,       \* the number of the next byte to arrive
          capacity,
          ok

qvars == <<queue, next, capacity, ok>>

Numbers(first, count) == [i \in 1 .. count |-> first + i - 1]

QInit == queue = <<>> /\ next = 0 /\ capacity = 0 /\ ok = TRUE

\* Some bytes arrive; there is room for them
Put(count) ==
  /\ ok /\ ok'
  /\ Len(queue) + count <= capacity
  /\ queue' = queue \o Numbers(next, count)
  /\ next' = next + count
  /\ UNCHANGED capacity

\* The oldest bytes leave
Take(count) ==
  /\ ok /\ ok'
  /\ queue' = SubSeq(queue, count + 1, Len(queue))
  /\ UNCHANGED <<next, capacity>>

\* A change of capacity may cut the newest bytes off
Recapacitate(size, kept) ==
  /\ ok /\ ok'
  /\ kept <= size
  /\ kept = Len(queue) \/ kept = size
  /\ capacity' = size
  /\ queue' = SubSeq(queue, 1, kept)
  /\ next' = next - (Len(queue) - kept)

\* Everything held is given up, and with it any damage
Clear ==
  /\ ok'
  /\ queue' = <<>>
  /\ capacity' \in {0, capacity}
  /\ UNCHANGED next

Break == ok /\ ~ok'

QNext == \/ \E count \in 0 .. capacity - Len(queue) : Put(count)
         \/ \E count \in 0 .. Len(queue) : Take(count)
         \/ \E kept \in 0 .. Len(queue) : Recapacitate(capacity', kept)
         \/ Clear
         \/ Break

QSpec == QInit /\ [][QNext]_qvars
=============================================================================
