-------------------------- MODULE SendPath_proofs --------------------------
(***************************************************************************)
(* Proof that, for any buffer, replies and peer, send_buf holds exactly    *)
(* what the kernel has not taken until one of the damages of SendPath,     *)
(* that an empty buffer refuses a reply only after a reply longer than     *)
(* half of it, and which replies overrun.                                  *)
(***************************************************************************)
EXTENDS SendPath, SeqBufOps_proofs, TLAPS

Numbers == /\ sent \in Nat /\ total \in Nat /\ total <= sent /\ accepted \in Nat
           /\ room \in Nat /\ len \in Nat
           /\ reply \in Nat /\ m_max_packet_length \in Nat \ {0}
           /\ pc \in {"business", "send"} /\ (pc = "business" => total = 0)

\* Whatever empties the buffer puts both positions back: only then is all of its
\* space in front of the write pointer.
Compact(b) == b.n = Size /\ (IsEmpty(b) => b.r = 0 /\ b.w = 0)

\* The buffer, with the positions that Holds leaves open; send_fragment() was
\* given all of it.
Window == Intact => /\ Good(send_buf, sent - total, accepted) /\ Compact(send_buf)
                    /\ pc = "send" => len = accepted - (sent - total)
                    /\ total <= accepted - (sent - total)

IInv == Numbers /\ Window /\ DiscardedWithReason
-----------------------------------------------------------------------------
\* The constants are naturals.
LEMMA LengthsInNat == Size \in Nat \ {0} /\ HeaderLen \in Nat \ {0} /\ Room \in Nat
                      /\ IdentityLen \in Nat \ {0}
                      /\ \A length \in Lengths : length \in Nat \ {0}
  BY SendPathAssumption

\* Doubling keeps the order: what the look at the space compares.
LEMMA Doubled ==
  ASSUME NEW m \in Nat, NEW n \in Nat, NEW s \in Nat, n >= m, 2 * m > s
  PROVE  2 * n > s
  OBVIOUS

\* Getting a pointer loses nothing and leaves no gap in an empty buffer.
LEMMA NormalisedCompact ==
  ASSUME NEW b, NEW h \in Nat, NEW t \in Nat, Good(b, h, t), Compact(b)
  PROVE  /\ Good(Normalised(b), h, t) /\ Compact(Normalised(b))
         /\ DataSize(Normalised(b)) = t - h /\ DataSize(b) = t - h
<1>1. b.n \in Nat /\ b.n > 0
  BY LengthsInNat DEF Compact
<1>2. Good(Normalised(b), h, t) /\ Normalised(b).n = b.n
  BY <1>1, NormalisedGood
<1>3. DataSize(Normalised(b)) = t - h /\ DataSize(b) = t - h /\ t - h \in Int
  BY <1>2, GoodSize
<1>4. IsEmpty(b) => Normalised(b) = b
  BY <1>1 DEF Compact, Normalised, HasOverflownPointer, OVERFLOW_POS
<1> HIDE DEF Normalised
<1> QED BY <1>2, <1>3, <1>4 DEF Compact, IsEmpty

\* Space is only seen in a buffer whose write pointer can be used as it is.
LEMMA SpaceIsThere ==
  ASSUME NEW b, b.n = Size, b.w \in Int, m_max_packet_length \in Nat \ {0}, HasSpace(b)
  PROVE  b.w \in 0 .. b.n - 1 /\ b.w # OVERFLOW_POS
  BY LengthsInNat DEF HasSpace, OVERFLOW_POS

\* A reply put where there is room for it is held behind the others.
LEMMA PutGood ==
  ASSUME NEW b, NEW h \in Nat, NEW t \in Nat, Good(b, h, t), Compact(b),
         NEW length \in Nat \ {0}, Normalised(b).w # OVERFLOW_POS,
         length <= Normalised(b).n - Normalised(b).w,
         NEW new, new = AfterMoveWrite(Filled(Normalised(b), length, t), length)
  PROVE  Good(new, h, t + length) /\ Compact(new)
<1> DEFINE c == Normalised(b)
<1>1. b.n \in Nat /\ b.n > 0 /\ b.n = Size
  BY LengthsInNat DEF Compact
<1>2. Good(new, h, t + length)
  BY <1>1, MoveWriteGood
<1>3. new.n = Size
  <2>1. c.n = Size
    BY <1>1, SizeKept
  <2> QED BY <2>1, SizeKept DEF Filled
<1>4. DataSize(new) = (t + length) - h /\ t - h \in 0 .. b.n
  <2>1. t + length \in Nat
    OBVIOUS
  <2>2. DataSize(new) = (t + length) - h
    BY <1>2, <2>1, GoodSize
  <2>3. t - h \in 0 .. b.n
    BY GoodSize
  <2> QED BY <2>2, <2>3
<1>5. (t + length) - h > 0
  BY <1>1, <1>4
<1> QED BY <1>2, <1>3, <1>4, <1>5 DEF Compact, IsEmpty

\* What move_read_pointer() leaves, right or wrong, is compact.
LEMMA AfterMoveReadCompact ==
  ASSUME NEW b, NEW h \in Nat, NEW t \in Nat, Good(b, h, t), Compact(b),
         NEW offset \in Nat \ {0}, offset <= t - h
  PROVE  /\ MoveReadCount(b, offset) = offset
         /\ ~LosesRest(b, offset) => Good(AfterMoveRead(b, offset), h + offset, t)
         /\ Compact(AfterMoveRead(b, offset))
         /\ AfterMoveRead(b, offset).w \in Int
         /\ LosesRest(b, offset) => AfterMoveRead(b, offset) = At(Normalised(b), 0, 0)
<1> DEFINE c == Normalised(b)
<1>1. b.n \in Nat /\ b.n > 0 /\ b.n = Size
  BY LengthsInNat DEF Compact
<1>2. /\ c.n = b.n /\ DataSize(c) = t - h /\ DataSize(b) = t - h
      /\ \/ c.r = 0 /\ c.w = -1 /\ t - h = c.n
         \/ c.r \in 0 .. c.w /\ c.w \in 0 .. c.n - 1 /\ t - h = c.w - c.r
  BY <1>1, NormalisedGood, NormalisedCompact
<1> HIDE DEF c
<1>3. MoveReadCount(b, offset) = offset
  BY <1>1, <1>2 DEF MoveReadCount, IsEmpty, Least, c
<1>4. ~LosesRest(b, offset) => Good(AfterMoveRead(b, offset), h + offset, t)
  BY <1>3, MoveReadGood
<1>5. /\ AfterMoveRead(b, offset) = IF c.r + offset >= c.n \/ c.r + offset >= c.w
                                    THEN At(c, 0, 0) ELSE At(c, c.r + offset, c.w)
  BY <1>1, <1>2, <1>3 DEF AfterMoveRead, IsEmpty, c
<1>6. c.r + offset < c.w => c.w - (c.r + offset) > 0 /\ c.w # -1 /\ c.r + offset # -1
  BY <1>1, <1>2
<1>7. Compact(AfterMoveRead(b, offset)) /\ AfterMoveRead(b, offset).w \in Int
  BY <1>1, <1>2, <1>5, <1>6 DEF Compact, IsEmpty, DataSize, At, OVERFLOW_POS
<1>8. LosesRest(b, offset) => AfterMoveRead(b, offset) = At(c, 0, 0)
  BY <1>1, <1>2, <1>5 DEF LosesRest, c, OVERFLOW_POS
<1> QED BY <1>3, <1>4, <1>7, <1>8 DEF c

\* A buffer in order whose write pointer can be used needs no compaction.
LEMMA UsableAsItIs ==
  ASSUME NEW b, NEW h \in Nat, NEW t \in Nat, Good(b, h, t), b.w \in 0 .. b.n - 1
  PROVE  Normalised(b) = b
<1>1. b.r \in 0 .. b.w /\ b.n \in Nat
  BY DEF Good, Sound, Span
<1> QED BY <1>1 DEF Normalised, HasOverflownPointer, OVERFLOW_POS
-----------------------------------------------------------------------------
\* A fresh connection satisfies the invariant.
LEMMA InitHolds == Init => IInv
<1> SUFFICES ASSUME Init PROVE IInv
  OBVIOUS
<1>1. Good(send_buf, 0, 0)
  BY LengthsInNat, FreshGood DEF Init
<1>2. Compact(send_buf)
  BY DEF Init, Fresh, Compact
<1>3. Numbers /\ DiscardedWithReason
  BY LengthsInNat DEF Init, Numbers, DiscardedWithReason
<1> QED BY <1>1, <1>2, <1>3 DEF Init, IInv, Window

\* Peer and lite packets do not touch the buffer.
LEMMA EnvironmentStep == IInv /\ (Drain \/ PeerResets \/ Lite) => IInv'
<1> SUFFICES ASSUME IInv, Drain \/ PeerResets \/ Lite PROVE IInv'
  OBVIOUS
<1>1. UNCHANGED <<send_buf, sent, pc, reply, len, total, accepted, m_max_packet_length,
                  discarded>>
  BY DEF Drain, PeerResets, Lite, stream
<1>2. Intact
  BY DEF Drain, PeerResets, Lite, Business
<1>3. room' \in Nat
  <2>1. room \in Nat
    BY DEF IInv, Numbers
  <2>2. CASE Drain
    BY <2>1, <2>2, LengthsInNat DEF Drain
  <2>3. CASE PeerResets
    BY <2>1, <2>3 DEF PeerResets
  <2>4. CASE Lite
    BY <2>1, <2>4, LengthsInNat DEF Lite, Least
  <2> QED BY <2>2, <2>3, <2>4
<1> QED BY <1>1, <1>2, <1>3 DEF IInv, Numbers, Window, DiscardedWithReason, Intact

\* The state in which the business puts something into the buffer.
LEMMA BusinessState ==
  ASSUME IInv, Business
  PROVE  /\ Good(send_buf, sent, accepted) /\ Compact(send_buf)
         /\ total = 0 /\ pc = "business"
<1>1. Intact /\ pc = "business" /\ total = 0 /\ sent \in Nat
  BY DEF Business, IInv, Numbers
<1>2. sent - total = sent
  BY <1>1
<1> QED BY <1>1, <1>2 DEF IInv, Window

\* What the business puts where there is room is held behind the other replies;
\* more than that is a damage.
LEMMA PutStep ==
  ASSUME IInv, Business, NEW length \in Nat \ {0},
         Put(Normalised(send_buf), length), Normalised(send_buf).w # OVERFLOW_POS,
         \/ damaged' = Overrun(Normalised(send_buf), length)
         \/ damaged' = Unasked(Normalised(send_buf), length),
         m_max_packet_length' \in Nat, m_max_packet_length' >= m_max_packet_length,
         UNCHANGED <<sent, room, pc, reply, len, total, discarded>>
  PROVE  IInv'
<1> DEFINE b == Normalised(send_buf)
<1>1. Good(send_buf, sent, accepted) /\ Compact(send_buf) /\ total = 0 /\ pc = "business"
      /\ sent \in Nat /\ accepted \in Nat
  BY BusinessState DEF IInv, Numbers
<1>2. send_buf' = AfterMoveWrite(Filled(b, length, accepted), length)
      /\ accepted' = accepted + length
  BY DEF Put
<1>3. Numbers'
  BY <1>1, <1>2 DEF IInv, Numbers
<1>4. DiscardedWithReason'
  <2>1. m_max_packet_length \in Nat /\ Size \in Nat
        /\ (discarded = "empty" => 2 * m_max_packet_length > Size)
    BY LengthsInNat DEF IInv, Numbers, DiscardedWithReason
  <2>2. discarded = "empty" => 2 * m_max_packet_length' > Size
    BY <2>1, Doubled
  <2> QED BY <2>2 DEF DiscardedWithReason
<1>5. Window'
  <2> SUFFICES ASSUME Intact'
               PROVE  /\ Good(send_buf', sent' - total', accepted') /\ Compact(send_buf')
                      /\ pc' = "send" => len' = accepted' - (sent' - total')
                      /\ total' <= accepted' - (sent' - total')
    BY DEF Window
  <2>1. length <= b.n - b.w
    <3>1. ~(length > b.n - b.w)
      BY DEF Intact, Overrun, Unasked
    <3>2. Good(b, sent, accepted)
      BY <1>1, NormalisedCompact
    <3>3. b.n \in Int /\ b.w \in Int
      BY <3>2 DEF Good, Sound
    <3> QED BY <3>1, <3>3
  <2>2. Good(send_buf', sent, accepted + length) /\ Compact(send_buf')
    BY <1>1, <1>2, <2>1, PutGood
  <2>3. sent' - total' = sent /\ sent <= accepted
    <3>1. accepted - sent \in 0 .. send_buf.n
      BY <1>1, GoodSize
    <3> QED BY <1>1, <3>1
  <2> QED BY <1>1, <1>2, <2>2, <2>3
<1> QED BY <1>3, <1>4, <1>5 DEF IInv

\* max_fragment_size only grows.
LEMMA LongestGrows ==
  ASSUME IInv, NEW length \in Nat \ {0}
  PROVE  Longest(length) \in Nat \ {0} /\ Longest(length) >= m_max_packet_length
  BY DEF IInv, Numbers, Longest

\* A reply whose space was looked at keeps the invariant.
LEMMA ReplyStep ==
  ASSUME IInv, NEW length \in Lengths, Reply(length)
  PROVE  IInv'
<1> DEFINE b == Normalised(send_buf)
<1>1. length \in Nat \ {0} /\ Longest(length) \in Nat \ {0}
      /\ Longest(length) >= m_max_packet_length
  BY LengthsInNat, LongestGrows
<1>2. Good(send_buf, sent, accepted) /\ Compact(send_buf)
      /\ sent \in Nat /\ accepted \in Nat /\ m_max_packet_length \in Nat \ {0}
  BY BusinessState DEF Reply, IInv, Numbers
<1>3. b.n = Size /\ b.w \in Int
  BY <1>2, NormalisedCompact DEF Compact, Good, Sound
<1>4. b.w # OVERFLOW_POS
  BY <1>2, <1>3, SpaceIsThere DEF Reply
<1> QED BY <1>1, <1>4, PutStep DEF Reply

\* The replies stored without a look at the space: any that fits or does not.
Unlooked(length) ==
  LET b == Normalised(send_buf)
  IN  /\ length \in Nat \ {0} /\ Business
      /\ UNCHANGED <<sent, room, gone, pc, reply, len, total, m_max_packet_length, discarded,
                     lites>>
      /\ IF b.w = OVERFLOW_POS
         THEN /\ damaged' \in {damaged, {"null pointer"}}
              /\ send_buf' = b /\ UNCHANGED <<accepted, ends>>
         ELSE Put(b, length) /\ damaged' = Unasked(b, length)

\* Those of a diagnosis and the saved ones are such.
LEMMA UnlookedReplies ==
  /\ \A length \in {HeaderLen, IdentityLen} : DiagnosisReply(length) => Unlooked(length)
  /\ \A length \in Lengths : SavedReply(length) => Unlooked(length)
<1>1. /\ \A length \in {HeaderLen, IdentityLen} : length \in Nat \ {0}
      /\ \A length \in Lengths : length \in Nat \ {0}
  BY LengthsInNat
<1>2. ASSUME NEW length \in {HeaderLen, IdentityLen}, DiagnosisReply(length)
      PROVE  Unlooked(length)
  BY <1>1, <1>2 DEF DiagnosisReply, Unlooked
<1>3. ASSUME NEW length \in Lengths, SavedReply(length)
      PROVE  Unlooked(length)
  BY <1>1, <1>3 DEF SavedReply, Unlooked
<1> QED BY <1>2, <1>3

\* Such a reply keeps the invariant.
LEMMA UnlookedStep == ASSUME IInv, NEW length, Unlooked(length) PROVE IInv'
<1> DEFINE b == Normalised(send_buf)
<1>1. CASE b.w = OVERFLOW_POS
  <2>1. /\ Good(send_buf, sent, accepted) /\ Compact(send_buf) /\ total = 0
        /\ pc = "business" /\ sent \in Nat /\ accepted \in Nat
    BY BusinessState DEF Unlooked, IInv, Numbers
  <2>2. Good(b, sent, accepted) /\ Compact(b)
    BY <2>1, NormalisedCompact
  <2>3. /\ UNCHANGED <<sent, total, accepted, room, len, reply, m_max_packet_length, pc,
                       discarded>> /\ send_buf' = b
    BY <1>1 DEF Unlooked
  <2> HIDE DEF b
  <2>4. sent' - total' = sent /\ total' <= accepted' - (sent' - total')
    <3>1. accepted - sent \in 0 .. send_buf.n /\ send_buf.n \in Nat
      BY <2>1, GoodSize, LengthsInNat DEF Compact
    <3> QED BY <2>1, <2>3, <3>1
  <2>5. Window'
    BY <2>1, <2>2, <2>3, <2>4 DEF Window
  <2> QED BY <2>3, <2>5 DEF IInv, Numbers, DiscardedWithReason
<1>2. CASE b.w # OVERFLOW_POS
  <2>1. m_max_packet_length' = m_max_packet_length /\ m_max_packet_length \in Nat
    BY DEF Unlooked, IInv, Numbers
  <2> QED BY <1>2, <2>1, PutStep DEF Unlooked
<1> QED BY <1>1, <1>2

\* send_from_connection() is told all that the buffer holds.
LEMMA SendBegins ==
  ASSUME IInv, Business, send_buf' = Normalised(send_buf), pc' = "send",
         len' = DataSize(Normalised(send_buf)), total' = 0, reply' \in Nat,
         UNCHANGED <<stream, sent, room, damaged>>
  PROVE  IInv'
<1>1. Good(send_buf, sent, accepted) /\ Compact(send_buf) /\ sent \in Nat
      /\ accepted \in Nat
  BY BusinessState DEF IInv, Numbers
<1>2. /\ Good(send_buf', sent, accepted) /\ Compact(send_buf')
      /\ len' = accepted - sent
  BY <1>1, NormalisedCompact
<1>3. accepted - sent \in Nat
  <2>1. accepted - sent \in 0 .. send_buf.n /\ send_buf.n \in Nat
    BY <1>1, GoodSize, LengthsInNat DEF Compact
  <2> QED BY <2>1
<1>4. Numbers'
  BY <1>1, <1>2, <1>3 DEF IInv, Numbers, stream
<1>5. DiscardedWithReason'
  BY DEF IInv, DiscardedWithReason, stream
<1>6. Window'
  <2>1. sent' - total' = sent /\ accepted' = accepted
    BY <1>1 DEF stream
  <2> QED BY <1>1, <1>2, <1>3, <2>1 DEF Window
<1> QED BY <1>4, <1>5, <1>6 DEF IInv

\* A reply discarded for want of space keeps it.
LEMMA ReplyNeedsSpaceStep ==
  ASSUME IInv, NEW length \in Lengths, ReplyNeedsSpace(length)
  PROVE  IInv'
  BY LengthsInNat, SendBegins DEF ReplyNeedsSpace

\* A round that begins to send keeps it.
LEMMA FlushStep == IInv /\ Flush => IInv'
<1> SUFFICES ASSUME IInv, Flush PROVE IInv'
  OBVIOUS
<1>1. reply' \in Nat
  BY DEF Flush
<1> QED BY <1>1, SendBegins DEF Flush

\* The first send() of a send_fragment() starts where the kernel is; a second one is
\* a damage.
LEMMA SendStep == IInv /\ Send => IInv'
<1> SUFFICES ASSUME IInv, Send PROVE IInv'
  OBVIOUS
<1> DEFINE k == Least(len, room)
<1>1. /\ pc = "send" /\ Intact /\ total < len /\ room > 0
      /\ room' = room - k /\ total' = total + k /\ sent' = sent + k
      /\ damaged' = IF total > 0 THEN damaged \union {"repeated"} ELSE damaged
      /\ UNCHANGED <<send_buf, pc, reply, len, accepted, m_max_packet_length, discarded>>
  BY DEF Send, InSend, stream
<1>2. sent \in Nat /\ total \in Nat /\ total <= sent /\ accepted \in Nat
      /\ room \in Nat /\ len \in Nat
  BY DEF IInv, Numbers
<1>3. k \in Nat /\ k <= len /\ k <= room
  BY <1>2 DEF Least
<1> HIDE DEF k
<1>4. Numbers'
  BY <1>1, <1>2, <1>3 DEF IInv, Numbers
<1>5. Window'
  <2> SUFFICES ASSUME Intact'
               PROVE  /\ Good(send_buf', sent' - total', accepted') /\ Compact(send_buf')
                      /\ pc' = "send" => len' = accepted' - (sent' - total')
                      /\ total' <= accepted' - (sent' - total')
    BY DEF Window
  <2>1. total = 0 /\ total' = k
    BY <1>1, <1>2, <1>3 DEF Intact
  <2>2. sent' - total' = sent - total
    BY <1>1, <1>2, <1>3
  <2>3. Good(send_buf, sent - total, accepted) /\ Compact(send_buf)
        /\ len = accepted - (sent - total)
    BY <1>1 DEF IInv, Window
  <2> QED BY <1>1, <1>3, <2>1, <2>2, <2>3
<1> QED BY <1>1, <1>4, <1>5 DEF IInv, DiscardedWithReason

\* What send_from_connection() leaves to the reply that waits.
LEMMA AfterSendState ==
  ASSUME IInv, InSend, NEW ret \in {0, total}
  PROVE  LET b == AfterSend(ret)
         IN  /\ Compact(b) /\ b.w \in Int
             /\ ret = total /\ ~(ret > 0 /\ LosesRest(send_buf, ret)) =>
                  Good(b, sent, accepted)
             /\ HasSpace(b) => Normalised(b) = b
<1> DEFINE b == AfterSend(ret)
           h == sent - total
<1>1. /\ sent \in Nat /\ total \in Nat /\ total <= sent /\ accepted \in Nat
      /\ m_max_packet_length \in Nat \ {0} /\ h \in Nat
  BY DEF IInv, Numbers
<1>2. /\ Good(send_buf, h, accepted) /\ Compact(send_buf) /\ total <= accepted - h
  BY DEF InSend, IInv, Window
<1>3. h + total = sent
  BY <1>1
<1> HIDE DEF h
<1>4. send_buf.w \in Int
  BY <1>2 DEF Good, Sound
<1>5. CASE ret = 0
  <2>1. b = send_buf
    BY <1>5 DEF AfterSend
  <2>2. ret = total => h = sent
    BY <1>1, <1>3, <1>5
  <2>3. HasSpace(b) => Normalised(b) = b
    <3>1. HasSpace(b) => b.w \in 0 .. b.n - 1
      BY <1>1, <1>2, <1>4, <2>1, SpaceIsThere DEF Compact
    <3> QED BY <1>1, <1>2, <2>1, <3>1, UsableAsItIs
  <2> QED BY <1>2, <1>4, <2>1, <2>2, <2>3
<1>6. CASE ret # 0
  <2>1. ret = total /\ total \in Nat \ {0} /\ ret > 0
    BY <1>1, <1>6
  <2>2. b = AfterMoveRead(send_buf, total)
    BY <2>1 DEF AfterSend
  <2>3. /\ ~LosesRest(send_buf, total) => Good(b, h + total, accepted)
        /\ Compact(b) /\ b.w \in Int
        /\ LosesRest(send_buf, total) => b = At(Normalised(send_buf), 0, 0)
    BY <1>1, <1>2, <2>1, <2>2, AfterMoveReadCompact
  <2>4. HasSpace(b) => Normalised(b) = b
    <3> HIDE DEF b
    <3>1. HasSpace(b) => b.w \in 0 .. b.n - 1
      BY <1>1, <2>3, SpaceIsThere DEF Compact
    <3>2. CASE LosesRest(send_buf, total)
      <4>1. b.r = 0 /\ b.w = 0 /\ b.n \in Nat \ {0}
        BY <2>3, <3>2, LengthsInNat DEF At, Compact
      <4> QED BY <3>1, <4>1 DEF Normalised, HasOverflownPointer, OVERFLOW_POS
    <3>3. CASE ~LosesRest(send_buf, total)
      <4>1. Good(b, sent, accepted)
        BY <1>3, <2>3, <3>3
      <4>2. HasSpace(b) => b.w \in 0 .. b.n - 1 /\ sent \in Nat /\ accepted \in Nat
        BY <1>1, <3>1
      <4> HIDE DEF HasSpace, Normalised
      <4> QED BY <4>1, <4>2, UsableAsItIs
    <3> QED BY <3>2, <3>3
  <2> QED BY <1>3, <2>1, <2>3, <2>4
<1> QED BY <1>5, <1>6

\* A reply that waited is put into the buffer, or discarded: for lack of space in
\* front of the write pointer, which is all of the buffer when nothing is unsent.
LEMMA EndSendStep ==
  ASSUME IInv, InSend, NEW ret \in {0, total}, NEW reasons,
         EndSend(ret, reasons), ret # total => reasons # {}
  PROVE  IInv'
<1> DEFINE b == AfterSend(ret)
           lost == ret > 0 /\ LosesRest(send_buf, ret)
<1>1. /\ sent \in Nat /\ accepted \in Nat /\ reply \in Nat /\ room \in Nat
      /\ m_max_packet_length \in Nat \ {0}
      /\ (discarded = "empty" => 2 * m_max_packet_length > Size)
      /\ Size \in Nat
  BY LengthsInNat DEF IInv, Numbers, DiscardedWithReason
<1>2. /\ Compact(b) /\ b.w \in Int
      /\ ret = total /\ ~lost => Good(b, sent, accepted)
      /\ HasSpace(b) => Normalised(b) = b
  BY AfterSendState
<1>3. /\ pc' = "business" /\ reply' = 0 /\ len' = 0 /\ total' = 0
      /\ IF reply = 0 THEN send_buf' = b /\ UNCHANGED stream ELSE Resume(b)
      /\ damaged' = damaged \union reasons
           \union (IF lost THEN {"full"} ELSE {})
           \union (IF reply > 0 /\ HasSpace(b) THEN Overrun(Normalised(b), reply) ELSE {})
      /\ UNCHANGED <<sent, room>>
  BY DEF EndSend
<1>4. Intact' => Good(b, sent, accepted)
  BY <1>2, <1>3 DEF Intact
<1> HIDE DEF b, lost
<1>5. sent' - total' = sent
  BY <1>1, <1>3
<1>6. ASSUME Good(b, sent, accepted)
      PROVE  accepted - sent \in Nat
  <2>1. accepted - sent \in 0 .. b.n /\ b.n = Size
    BY <1>1, <1>2, <1>6, GoodSize DEF Compact
  <2> QED BY <1>1, <2>1
<1>7. CASE reply = 0
  <2>1. send_buf' = b /\ UNCHANGED <<accepted, m_max_packet_length, discarded>>
    BY <1>3, <1>7 DEF stream
  <2>2. Numbers'
    BY <1>1, <1>3, <2>1 DEF Numbers
  <2>3. DiscardedWithReason'
    BY <1>1, <2>1 DEF DiscardedWithReason
  <2>4. Window'
    <3> SUFFICES ASSUME Intact' PROVE Good(b, sent, accepted) /\ Compact(b)
                                      /\ 0 <= accepted - sent
      BY <1>3, <1>5, <2>1 DEF Window
    <3> QED BY <1>2, <1>4, <1>6
  <2> QED BY <2>2, <2>3, <2>4 DEF IInv
<1>8. CASE reply # 0 /\ HasSpace(b)
  <2>1. /\ reply \in Nat \ {0} /\ reply > 0 /\ Normalised(b) = b /\ Resume(b)
        /\ b.w \in 0 .. b.n - 1 /\ b.w # OVERFLOW_POS
    BY <1>1, <1>2, <1>3, <1>8, SpaceIsThere DEF Compact
  <2>2. /\ send_buf' = AfterMoveWrite(Filled(b, reply, accepted), reply)
        /\ accepted' = accepted + reply
        /\ m_max_packet_length' = Longest(reply) /\ discarded' = discarded
    BY <1>8, <2>1 DEF Resume, Put
  <2>3. Longest(reply) \in Nat \ {0} /\ Longest(reply) >= m_max_packet_length
    BY <2>1, LongestGrows
  <2>4. Numbers'
    BY <1>1, <1>3, <2>2, <2>3 DEF Numbers
  <2>5. DiscardedWithReason'
    <3>1. discarded = "empty" => 2 * Longest(reply) > Size
      BY <1>1, <2>3, Doubled
    <3> QED BY <2>2, <3>1 DEF DiscardedWithReason
  <2>6. Window'
    <3> SUFFICES ASSUME Intact'
                 PROVE  /\ Good(send_buf', sent, accepted') /\ Compact(send_buf')
                        /\ 0 <= accepted' - sent
      BY <1>3, <1>5 DEF Window
    <3>1. reply <= b.n - b.w
      <4>1. Overrun(b, reply) = {}
        BY <1>3, <1>8, <2>1 DEF Intact
      <4>2. b.n \in Int /\ b.w \in Int
        BY <1>1, <1>2 DEF Compact
      <4> QED BY <1>1, <4>1, <4>2 DEF Overrun
    <3>2. Good(b, sent, accepted)
      BY <1>4
    <3>3. Good(send_buf', sent, accepted + reply) /\ Compact(send_buf')
      BY <1>1, <1>2, <2>1, <2>2, <3>1, <3>2, PutGood
    <3> QED BY <1>1, <1>6, <2>1, <2>2, <3>2, <3>3
  <2> QED BY <2>4, <2>5, <2>6 DEF IInv
<1>9. CASE reply # 0 /\ ~HasSpace(b)
  <2>1. /\ send_buf' = Normalised(b)
        /\ discarded' = IF IsEmpty(b) THEN "empty" ELSE "unsent"
        /\ UNCHANGED <<accepted, m_max_packet_length>>
    BY <1>3, <1>9 DEF Resume
  <2>2. Numbers'
    BY <1>1, <1>3, <2>1 DEF Numbers
  <2>3. DiscardedWithReason'
    <3>1. IsEmpty(b) => b.n = Size /\ b.w = 0
      BY <1>2 DEF Compact
    <3>2. IsEmpty(b) => 2 * m_max_packet_length > Size
      BY <1>1, <1>9, <3>1 DEF HasSpace
    <3> QED BY <2>1, <3>2 DEF DiscardedWithReason
  <2>4. Window'
    <3> SUFFICES ASSUME Intact'
                 PROVE  /\ Good(Normalised(b), sent, accepted) /\ Compact(Normalised(b))
                        /\ 0 <= accepted - sent
      BY <1>3, <1>5, <2>1 DEF Window
    <3>1. Good(b, sent, accepted)
      BY <1>4
    <3> QED BY <1>1, <1>2, <1>6, <3>1, NormalisedCompact
  <2> QED BY <2>2, <2>3, <2>4 DEF IInv
<1> QED BY <1>7, <1>8, <1>9

\* A round that ends or fails to send keeps it.
LEMMA SendEndsStep == IInv /\ (SendEnds \/ SendFails) => IInv'
<1> SUFFICES ASSUME IInv, SendEnds \/ SendFails PROVE IInv'
  OBVIOUS
<1>1. CASE SendEnds
  BY <1>1, EndSendStep DEF SendEnds
<1>2. CASE SendFails
  <2> DEFINE reasons == IF total > 0 THEN {"unaccounted"} ELSE {}
  <2>1. InSend /\ EndSend(0, reasons)
    BY <1>2 DEF SendFails
  <2>2. 0 # total => reasons # {}
    BY DEF IInv, Numbers
  <2> HIDE DEF reasons
  <2> QED BY <2>1, <2>2, EndSendStep
<1> QED BY <1>1, <1>2

\* A step of something else keeps it.
LEMMA StutterStep == IInv /\ UNCHANGED vars => IInv'
  BY DEF IInv, Numbers, Window, DiscardedWithReason, Intact, vars

\* Every step keeps the invariant.
LEMMA NextHolds == IInv /\ [Next]_vars => IInv'
<1> SUFFICES ASSUME IInv, [Next]_vars PROVE IInv'
  OBVIOUS
<1>1. CASE Drain \/ PeerResets \/ Lite
  BY <1>1, EnvironmentStep
<1>2. ASSUME NEW length \in Lengths, Reply(length) PROVE IInv'
  BY <1>2, ReplyStep
<1>3. ASSUME NEW length \in Lengths, ReplyNeedsSpace(length) PROVE IInv'
  BY <1>3, ReplyNeedsSpaceStep
<1>4. ASSUME NEW length \in {HeaderLen, IdentityLen}, DiagnosisReply(length) PROVE IInv'
  BY <1>4, UnlookedReplies, UnlookedStep
<1>9. ASSUME NEW length \in Lengths, SavedReply(length) PROVE IInv'
  BY <1>9, UnlookedReplies, UnlookedStep
<1>5. CASE Flush
  BY <1>5, FlushStep
<1>6. CASE Send
  BY <1>6, SendStep
<1>7. CASE SendEnds \/ SendFails
  BY <1>7, SendEndsStep
<1>8. CASE UNCHANGED vars
  BY <1>8, StutterStep
<1> QED BY <1>1, <1>2, <1>3, <1>4, <1>5, <1>6, <1>7, <1>8, <1>9 DEF Next, Replying, Sending

\* The buffer and the numbers kept beside it agree in every reachable state.
THEOREM Invariance == Spec => []IInv
  BY InitHolds, NextHolds, PTL DEF Spec

\* For any buffer, replies, peer and interleaving: until one of the named damages
\* send_buf holds the accepted bytes the kernel has not taken, in order.
THEOREM StaysInSync == Spec => []InSync
<1>1. IInv => InSync
  <2> SUFFICES ASSUME IInv, Intact PROVE Holds(send_buf, sent - total, accepted)
    BY DEF InSync
  <2>1. sent - total \in Nat /\ accepted \in Nat
    BY DEF IInv, Numbers
  <2> QED BY <2>1, GoodIsInvariant DEF IInv, Window
<1> QED BY <1>1, Invariance, PTL

\* A reply discarded with nothing unsent: twice the longest reply exceeds the buffer,
\* whatever was sent or lost before.
THEOREM DiscardsHaveReason == Spec => []DiscardedWithReason
<1>1. IInv => DiscardedWithReason
  BY DEF IInv
<1> QED BY <1>1, Invariance, PTL
-----------------------------------------------------------------------------
Unprecedented(length) == length > 2 * m_max_packet_length

\* What a buffer with space has no room for is longer than the space asked for.
LEMMA OverrunsSpace ==
  ASSUME IInv, NEW b, b.n \in Int, b.w \in Int, HasSpace(b),
         NEW length \in Nat, Overrun(b, length) # {}
  PROVE  length > 2 * m_max_packet_length
<1>1. length > b.n - b.w
  BY DEF Overrun
<1>2. b.n - b.w >= 2 * m_max_packet_length /\ m_max_packet_length \in Nat
  BY DEF HasSpace, IInv, Numbers
<1> QED BY <1>1, <1>2

\* The step of a reply that waited overruns like the step of one that did not.
LEMMA EndSendOverrun ==
  ASSUME IInv, InSend, NEW ret \in {0, total}, NEW reasons, "overrun" \notin reasons,
         EndSend(ret, reasons), "overrun" \in damaged'
  PROVE  Unprecedented(accepted' - accepted)
<1> DEFINE b == AfterSend(ret)
<1>1. /\ IF reply = 0 THEN send_buf' = b /\ UNCHANGED stream ELSE Resume(b)
      /\ damaged' = damaged \union reasons
           \union (IF ret > 0 /\ LosesRest(send_buf, ret) THEN {"full"} ELSE {})
           \union (IF reply > 0 /\ HasSpace(b) THEN Overrun(Normalised(b), reply) ELSE {})
  BY DEF EndSend
<1>2. Compact(b) /\ b.w \in Int /\ (HasSpace(b) => Normalised(b) = b)
  BY AfterSendState
<1> HIDE DEF b
<1>3. damaged = {}
  BY DEF InSend, Intact
<1>4. reply > 0 /\ HasSpace(b) /\ "overrun" \in Overrun(Normalised(b), reply)
  BY <1>1, <1>3
<1>5. reply \in Nat /\ accepted \in Nat /\ b.n \in Int
  BY <1>2, LengthsInNat DEF IInv, Numbers, Compact
<1>6. reply > 2 * m_max_packet_length
  BY <1>2, <1>4, <1>5, OverrunsSpace
<1>7. accepted' = accepted + reply
  BY <1>1, <1>4, <1>5 DEF Resume, Put
<1> QED BY <1>5, <1>6, <1>7 DEF Unprecedented

\* Of every step: what looked and runs over the end is more than twice as long as
\* every reply that looked earlier.
LEMMA OverrunStep ==
  ASSUME IInv, [Next]_vars, "overrun" \in damaged' \ damaged
  PROVE  Unprecedented(accepted' - accepted)
<1> DEFINE b == Normalised(send_buf)
<1>1. CASE UNCHANGED damaged
  BY <1>1
<1>2. CASE Send \/ Lite
  <2>1. "overrun" \notin damaged'
    BY <1>2 DEF Send, Lite
  <2> QED BY <2>1
<1>3. ASSUME NEW length \in Lengths, Reply(length)
      PROVE  Unprecedented(accepted' - accepted)
  <2>1. Good(send_buf, sent, accepted) /\ Compact(send_buf) /\ sent \in Nat
        /\ accepted \in Nat /\ length \in Nat
    BY <1>3, LengthsInNat, BusinessState DEF Reply, IInv, Numbers
  <2>2. b.n \in Int /\ b.w \in Int
    <3>1. Good(b, sent, accepted)
      BY <2>1, NormalisedCompact
    <3> HIDE DEF b
    <3> QED BY <3>1 DEF Good, Sound
  <2>3. HasSpace(b) /\ accepted' = accepted + length /\ damaged' = Overrun(b, length)
    BY <1>3 DEF Reply, Put
  <2> HIDE DEF b
  <2>4. length > 2 * m_max_packet_length
    BY <2>1, <2>2, <2>3, OverrunsSpace
  <2> QED BY <2>1, <2>3, <2>4 DEF Unprecedented
<1>4. ASSUME NEW length, Unlooked(length) PROVE FALSE
  <2>1. "overrun" \notin damaged'
    <3>1. damaged' \in {damaged, {"null pointer"}} \/ damaged' = Unasked(b, length)
      BY <1>4 DEF Unlooked
    <3>2. damaged = {}
      BY <1>4 DEF Unlooked, Business, Intact
    <3> HIDE DEF b
    <3>3. "overrun" \notin {"null pointer"} /\ "overrun" \notin Unasked(b, length)
      BY DEF Unasked
    <3>4. damaged' = damaged \/ damaged' = {"null pointer"} \/ damaged' = Unasked(b, length)
      BY <3>1
    <3> QED BY <3>2, <3>3, <3>4
  <2> QED BY <2>1
<1>9. ASSUME NEW length \in {HeaderLen, IdentityLen}, DiagnosisReply(length) PROVE FALSE
  BY <1>4, <1>9, UnlookedReplies
<1>10. ASSUME NEW length \in Lengths, SavedReply(length) PROVE FALSE
  BY <1>4, <1>10, UnlookedReplies
<1>5. CASE SendEnds
  BY <1>5, EndSendOverrun DEF SendEnds
<1>6. CASE SendFails
  <2> DEFINE reasons == IF total > 0 THEN {"unaccounted"} ELSE {}
  <2>1. InSend /\ EndSend(0, reasons) /\ "overrun" \notin reasons
    BY <1>6 DEF SendFails
  <2> HIDE DEF reasons
  <2> QED BY <2>1, EndSendOverrun
<1>7. CASE Drain \/ PeerResets \/ Flush \/ UNCHANGED vars
  BY <1>1, <1>7 DEF Drain, PeerResets, Flush, vars
<1>8. ASSUME NEW length \in Lengths, ReplyNeedsSpace(length)
      PROVE  Unprecedented(accepted' - accepted)
  BY <1>1, <1>8 DEF ReplyNeedsSpace
<1> QED BY <1>2, <1>3, <1>5, <1>6, <1>7, <1>8, <1>9, <1>10 DEF Next, Replying, Sending

\* A reply that looked at the space and overruns the buffer is more than twice as
\* long as every reply that looked before it, whatever was stored without a look.
THEOREM OverrunsAreUnprecedented == Spec => OverrunIsUnprecedented
<1>1. IInv /\ [Next]_vars =>
        [LET length == accepted' - accepted
         IN  "overrun" \in damaged' \ damaged =>
               length > 2 * m_max_packet_length]_vars
  BY OverrunStep DEF Unprecedented
<1> QED BY <1>1, Invariance, PTL DEF Spec, OverrunIsUnprecedented
-----------------------------------------------------------------------------
\* Whatever is put behind the write pointer, and be it too long, a buffer stays one.
LEMMA PutIsBuffer ==
  ASSUME NEW c, IsBuffer(c), c.r \in 0 .. c.n - 1, c.w \in 0 .. c.n - 1,
         NEW length \in Nat \ {0}, NEW t \in Nat
  PROVE  IsBuffer(AfterMoveWrite(Filled(c, length, t), length))
<1> USE DEF OVERFLOW_POS
<1> DEFINE f == Filled(c, length, t)
           count == MoveWriteCount(f, length)
<1>1. /\ f.n = c.n /\ f.r = c.r /\ f.w = c.w /\ f.cell = Stored(c, length, t)
      /\ c.n \in Nat /\ c.n > 0 /\ c.w \in Int /\ c.r \in Int
  BY DEF Filled, IsBuffer
<1>2. f.cell \in [0 .. c.n - 1 -> Int]
  BY <1>1 DEF Stored, IsBuffer
<1> HIDE DEF f
<1>3. Normalised(f) = f
  BY <1>1 DEF Normalised, HasOverflownPointer
<1>4. count \in Nat /\ count > 0 /\ count <= c.n - c.w
  BY <1>1, <1>3 DEF MoveWriteCount, Least
<1>5. AfterMoveWrite(f, length) = Advanced(f, count)
  BY <1>1, <1>3, <1>4 DEF AfterMoveWrite
<1> HIDE DEF count
<1>6. Wrapped(f.w + count, f.n) \in -1 .. c.n
  BY <1>1, <1>4 DEF Wrapped
<1> QED BY <1>1, <1>2, <1>5, <1>6 DEF Advanced, At, IsBuffer, f

\* A buffer in order is one, and stays one when its pointers are normalised.
LEMMA GoodBuffers ==
  ASSUME NEW b, NEW h \in Nat, NEW t \in Nat, Good(b, h, t), Compact(b)
  PROVE  /\ IsBuffer(b) /\ IsBuffer(Normalised(b))
         /\ b.w \in 0 .. b.n - 1 => b.r \in 0 .. b.n - 1
         /\ Normalised(b).w # OVERFLOW_POS => /\ Normalised(b).w \in 0 .. Normalised(b).n - 1
                                              /\ Normalised(b).r \in 0 .. Normalised(b).n - 1
<1>1. b.n \in Nat /\ b.n > 0
  BY LengthsInNat DEF Compact
<1>2. /\ Good(Normalised(b), h, t) /\ Normalised(b).n = b.n
      /\ \/ Normalised(b).r = 0 /\ Normalised(b).w = -1
         \/ /\ Normalised(b).r \in 0 .. Normalised(b).w
            /\ Normalised(b).w \in 0 .. Normalised(b).n - 1
  BY <1>1, NormalisedGood
<1>3. b.w \in 0 .. b.n - 1 => b.r \in 0 .. b.n - 1
  BY DEF Good, Sound, Span
<1> QED BY <1>1, <1>2, <1>3, GoodIsInvariant DEF OVERFLOW_POS

\* So does what send_from_connection() leaves, the rest of a full buffer lost or not.
LEMMA AfterSendBuffer ==
  ASSUME IInv, InSend, NEW ret \in {0, total}
  PROVE  LET b == AfterSend(ret)
         IN  /\ IsBuffer(b) /\ IsBuffer(Normalised(b))
             /\ b.w \in 0 .. b.n - 1 => b.r \in 0 .. b.n - 1
<1> DEFINE b == AfterSend(ret)
           h == sent - total
<1>1. h \in Nat /\ accepted \in Nat /\ total \in Nat /\ h + total \in Nat
  BY DEF IInv, Numbers
<1>2. Good(send_buf, h, accepted) /\ Compact(send_buf) /\ total <= accepted - h
  BY DEF InSend, IInv, Window
<1> HIDE DEF h
<1>3. CASE ret = 0
  BY <1>1, <1>2, <1>3, GoodBuffers DEF AfterSend
<1>4. CASE ret # 0
  <2>1. total \in Nat \ {0} /\ b = AfterMoveRead(send_buf, total)
    BY <1>1, <1>4 DEF AfterSend
  <2> HIDE DEF b
  <2>2. /\ ~LosesRest(send_buf, total) => Good(b, h + total, accepted)
        /\ Compact(b)
        /\ LosesRest(send_buf, total) => b = At(Normalised(send_buf), 0, 0)
    BY <1>1, <1>2, <2>1, AfterMoveReadCompact
  <2>3. CASE ~LosesRest(send_buf, total)
    BY <1>1, <2>2, <2>3, GoodBuffers DEF b
  <2>4. CASE LosesRest(send_buf, total)
    <3>1. IsBuffer(Normalised(send_buf))
      BY <1>1, <1>2, GoodBuffers
    <3>2. b.r = 0 /\ b.w = 0 /\ b.n \in Nat \ {0} /\ b.cell = Normalised(send_buf).cell
          /\ b.n = Normalised(send_buf).n
      BY <2>2, <2>4, LengthsInNat DEF At, Compact
    <3>3. IsBuffer(b)
      BY <3>1, <3>2 DEF IsBuffer
    <3>4. Normalised(b) = b
      BY <3>2 DEF Normalised, HasOverflownPointer, OVERFLOW_POS
    <3> QED BY <3>2, <3>3, <3>4 DEF b
  <2> QED BY <2>3, <2>4
<1> QED BY <1>3, <1>4

\* The reasons the model knows.
Damages == {"overrun", "unasked", "null pointer", "split", "cut", "repeated", "full", "unaccounted"}

\* The bounds.
LEMMA Bounds ==
  TypeOK => /\ Size \in Nat /\ MaxStream \in Nat /\ MaxLite \in Nat /\ Room \in Nat /\ HeaderLen \in Nat
            /\ accepted \in 0 .. MaxStream /\ ends \subseteq 0 .. MaxStream
            /\ room \in 0 .. Room /\ lites \in 0 .. MaxLite /\ len \in 0 .. Size
<1>1. /\ Size \in Nat /\ MaxStream \in Nat /\ MaxLite \in Nat /\ Room \in Nat /\ HeaderLen \in Nat
  BY SendPathAssumption
<1> QED BY <1>1 DEF TypeOK

\* A reply put into the buffer.
LEMMA PutTypes ==
  ASSUME TypeOK, NEW b, IsBuffer(b), b.r \in 0 .. b.n - 1, b.w \in 0 .. b.n - 1,
         NEW length \in Nat \ {0}, Put(b, length)
  PROVE  IsBuffer(send_buf') /\ accepted' \in 0 .. MaxStream /\ ends' \subseteq 0 .. MaxStream
<1>1. accepted \in Nat /\ MaxStream \in Nat /\ ends \subseteq 0 .. MaxStream
  BY Bounds
<1>2. /\ accepted + length <= MaxStream /\ accepted' = accepted + length
      /\ ends' = ends \union {accepted'}
      /\ send_buf' = AfterMoveWrite(Filled(b, length, accepted), length)
  BY DEF Put
<1>3. IsBuffer(send_buf')
  BY <1>1, <1>2, PutIsBuffer
<1> QED BY <1>1, <1>2, <1>3

\* The business puts a reply, or waits for space with it.
LEMMA ReplyingTypes == IInv /\ TypeOK /\ Replying => TypeOK'
<1> SUFFICES ASSUME IInv, TypeOK, Replying PROVE TypeOK'
  OBVIOUS
<1> DEFINE b == Normalised(send_buf)
<1>1. /\ Good(send_buf, sent, accepted) /\ Compact(send_buf)
      /\ sent \in Nat /\ accepted \in Nat /\ m_max_packet_length \in Nat \ {0}
  BY BusinessState, UnlookedReplies DEF Replying, Reply, ReplyNeedsSpace, Unlooked, IInv, Numbers
<1>2. /\ b.n = Size /\ b.w \in Int /\ IsBuffer(b)
      /\ b.w # OVERFLOW_POS => b.r \in 0 .. b.n - 1 /\ b.w \in 0 .. b.n - 1
      /\ DataSize(b) \in 0 .. Size
  <2>1. Good(b, sent, accepted) /\ Compact(b)
    BY <1>1, NormalisedCompact
  <2>2. DataSize(b) \in 0 .. b.n
    BY <1>1, <2>1, GoodSize
  <2>3. IsBuffer(b) /\ (b.w # OVERFLOW_POS => b.r \in 0 .. b.n - 1 /\ b.w \in 0 .. b.n - 1)
    BY <1>1, GoodBuffers
  <2> HIDE DEF b
  <2> QED BY <2>1, <2>2, <2>3 DEF Compact, Good, Sound
<1> HIDE DEF b
<1>3. ASSUME NEW length \in Lengths, Reply(length) PROVE TypeOK'
  <2>1. b.r \in 0 .. b.n - 1 /\ b.w \in 0 .. b.n - 1 /\ length \in Nat \ {0} /\ Put(b, length)
    BY <1>1, <1>2, <1>3, SpaceIsThere, LengthsInNat DEF Reply, b
  <2>2. IsBuffer(send_buf') /\ accepted' \in 0 .. MaxStream /\ ends' \subseteq 0 .. MaxStream
    BY <1>2, <2>1, PutTypes
  <2>3. m_max_packet_length' \in {HeaderLen} \union Lengths
    BY <1>3 DEF Reply, Longest, TypeOK
  <2>4. damaged' \subseteq Damages
    BY <1>3 DEF Reply, Overrun, Damages
  <2>5. UNCHANGED <<sent, room, gone, pc, reply, len, total, discarded, lites>>
    BY <1>3 DEF Reply
  <2> QED BY <2>2, <2>3, <2>4, <2>5 DEF TypeOK, Damages
<1>4. ASSUME NEW length \in Lengths, ReplyNeedsSpace(length) PROVE TypeOK'
  <2>1. /\ send_buf' = b /\ pc' = "send" /\ reply' = length /\ len' = DataSize(b) /\ total' = 0
        /\ UNCHANGED <<accepted, ends, m_max_packet_length, discarded, sent, room, gone, lites,
                       damaged>>
    BY <1>4 DEF ReplyNeedsSpace, stream, b
  <2> QED BY <1>2, <2>1 DEF TypeOK
<1>5. ASSUME NEW length, Unlooked(length) PROVE TypeOK'
  <2>1. UNCHANGED <<sent, room, gone, pc, reply, len, total, m_max_packet_length, discarded,
                    lites>> /\ length \in Nat \ {0}
    BY <1>5 DEF Unlooked
  <2>2. CASE b.w = OVERFLOW_POS
    <3>1. /\ damaged' \in {damaged, {"null pointer"}} /\ send_buf' = b
          /\ UNCHANGED <<accepted, ends>>
      BY <1>5, <2>2 DEF Unlooked, b
    <3>2. damaged' \subseteq Damages
      BY <3>1 DEF TypeOK, Damages
    <3> QED BY <1>2, <2>1, <3>1, <3>2 DEF TypeOK, Damages
  <2>3. CASE b.w # OVERFLOW_POS
    <3>1. Put(b, length) /\ damaged' = Unasked(b, length)
      BY <1>5, <2>3 DEF Unlooked, b
    <3>2. IsBuffer(send_buf') /\ accepted' \in 0 .. MaxStream /\ ends' \subseteq 0 .. MaxStream
      BY <1>2, <2>1, <2>3, <3>1, PutTypes
    <3>3. damaged' \subseteq Damages
      BY <3>1 DEF Unasked, Damages
    <3> QED BY <2>1, <3>2, <3>3 DEF TypeOK, Damages
  <2> QED BY <2>2, <2>3
<1> QED BY <1>3, <1>4, <1>5, UnlookedReplies DEF Replying

\* send_fragment() begins or goes on.
LEMMA SendTypes == IInv /\ IInv' /\ TypeOK /\ (Flush \/ Send) => TypeOK'
<1> SUFFICES ASSUME IInv, IInv', TypeOK, Flush \/ Send PROVE TypeOK'
  OBVIOUS
<1>1. CASE Flush
  <2> DEFINE b == Normalised(send_buf)
  <2>1. /\ Good(send_buf, sent, accepted) /\ Compact(send_buf)
        /\ sent \in Nat /\ accepted \in Nat
    BY <1>1, BusinessState DEF Flush, IInv, Numbers
  <2>2. Good(b, sent, accepted) /\ Compact(b)
    BY <2>1, NormalisedCompact
  <2>3. DataSize(b) \in 0 .. Size /\ IsBuffer(b)
    BY <2>1, <2>2, GoodSize, GoodBuffers DEF Compact
  <2>4. /\ send_buf' = b /\ pc' = "send" /\ reply' = 0 /\ len' = DataSize(b) /\ total' = 0
        /\ UNCHANGED <<accepted, ends, m_max_packet_length, discarded, sent, room, gone, lites,
                       damaged>>
    BY <1>1 DEF Flush, stream
  <2> HIDE DEF b
  <2> QED BY <2>3, <2>4 DEF TypeOK
<1>2. CASE Send
  <2>1. /\ room' = room - Least(len, room)
        /\ damaged' \subseteq damaged \union {"repeated"}
        /\ UNCHANGED <<send_buf, gone, pc, reply, len, accepted, ends, m_max_packet_length,
                       discarded, lites>>
    BY <1>2 DEF Send, stream
  <2>2. room' \in 0 .. Room
    BY <2>1, Bounds DEF Least
  <2>3. sent' \in Nat /\ total' \in Nat
    BY DEF IInv, Numbers
  <2> QED BY <2>1, <2>2, <2>3 DEF TypeOK
<1> QED BY <1>1, <1>2

\* send_from_connection() returns.
LEMMA EndSendTypes ==
  ASSUME IInv, TypeOK, InSend, NEW ret \in {0, total}, NEW reasons \in SUBSET Damages,
         EndSend(ret, reasons)
  PROVE  TypeOK'
<1> DEFINE b == AfterSend(ret)
<1>1. /\ pc' = "business" /\ reply' = 0 /\ len' = 0 /\ total' = 0
      /\ IF reply = 0 THEN send_buf' = b /\ UNCHANGED stream ELSE Resume(b)
      /\ UNCHANGED <<sent, room, gone, lites>>
  BY DEF EndSend
<1>2. damaged' \subseteq Damages
  BY DEF EndSend, Overrun, TypeOK, Damages
<1>3. /\ IsBuffer(b) /\ IsBuffer(Normalised(b))
      /\ b.w \in 0 .. b.n - 1 => b.r \in 0 .. b.n - 1
      /\ Compact(b) /\ b.w \in Int /\ (HasSpace(b) => Normalised(b) = b)
  BY AfterSendBuffer, AfterSendState
<1> HIDE DEF b
<1>4. /\ IsBuffer(send_buf') /\ accepted' \in 0 .. MaxStream /\ ends' \subseteq 0 .. MaxStream
      /\ m_max_packet_length' \in {HeaderLen} \union Lengths
      /\ discarded' \in {"none", "empty", "unsent"}
  <2>1. CASE reply = 0
    BY <1>1, <1>3, <2>1 DEF stream, TypeOK
  <2>2. CASE reply # 0 /\ HasSpace(b)
    <3>1. reply \in Lengths /\ reply \in Nat \ {0} /\ m_max_packet_length \in Nat \ {0}
      BY <2>2, LengthsInNat DEF TypeOK, IInv, Numbers
    <3>2. b.w \in 0 .. b.n - 1
      BY <1>3, <2>2, <3>1, SpaceIsThere DEF Compact
    <3>3. /\ Put(b, reply) /\ m_max_packet_length' = Longest(reply) /\ UNCHANGED discarded
      BY <1>1, <1>3, <2>2 DEF Resume
    <3>4. IsBuffer(send_buf') /\ accepted' \in 0 .. MaxStream /\ ends' \subseteq 0 .. MaxStream
      BY <1>3, <3>1, <3>2, <3>3, PutTypes
    <3> QED BY <3>1, <3>3, <3>4 DEF Longest, TypeOK
  <2>3. CASE reply # 0 /\ ~HasSpace(b)
    BY <1>1, <1>3, <2>3 DEF Resume, TypeOK
  <2> QED BY <2>1, <2>2, <2>3
<1>5. len' \in 0 .. Size /\ total' \in Nat /\ reply' \in {0} \union Lengths
      /\ pc' \in {"business", "send"}
  BY <1>1, Bounds
<1>6. sent' \in Nat /\ room' \in 0 .. Room /\ gone' \in BOOLEAN /\ lites' \in 0 .. MaxLite
  BY <1>1 DEF TypeOK
<1> QED BY <1>2, <1>4, <1>5, <1>6 DEF TypeOK, Damages

LEMMA EndsTypes == IInv /\ TypeOK /\ (SendEnds \/ SendFails) => TypeOK'
<1> SUFFICES ASSUME IInv, TypeOK, SendEnds \/ SendFails PROVE TypeOK'
  OBVIOUS
<1>1. CASE SendEnds
  BY <1>1, EndSendTypes DEF SendEnds
<1>2. CASE SendFails
  <2> DEFINE reasons == IF total > 0 THEN {"unaccounted"} ELSE {}
  <2>1. InSend /\ EndSend(0, reasons) /\ reasons \in SUBSET Damages
    BY <1>2 DEF SendFails, Damages
  <2> HIDE DEF reasons
  <2> QED BY <2>1, EndSendTypes
<1> QED BY <1>1, <1>2

LEMMA EnvironmentTypes == TypeOK /\ (Drain \/ PeerResets \/ Lite) => TypeOK'
<1> SUFFICES ASSUME TypeOK, Drain \/ PeerResets \/ Lite PROVE TypeOK'
  OBVIOUS
<1>1. CASE Drain
  <2>1. room' \in 0 .. Room
    BY <1>1, Bounds DEF Drain
  <2>2. UNCHANGED <<send_buf, sent, gone, pc, reply, len, total, accepted, ends,
                    m_max_packet_length, discarded, lites, damaged>>
    BY <1>1 DEF Drain, stream
  <2> QED BY <2>1, <2>2 DEF TypeOK
<1>2. CASE PeerResets
  BY <1>2 DEF PeerResets, TypeOK, stream
<1>3. CASE Lite
  <2>1. /\ lites < MaxLite /\ lites' = lites + 1 /\ room' = room - Least(HeaderLen, room)
        /\ damaged' \subseteq {"split", "cut"}
        /\ UNCHANGED <<send_buf, sent, gone, pc, reply, len, total, accepted, ends,
                       m_max_packet_length, discarded>>
    BY <1>3 DEF Lite, stream
  <2>2. room' \in 0 .. Room
    BY <2>1, Bounds DEF Least
  <2>3. lites' \in 0 .. MaxLite
    BY <2>1, Bounds
  <2> QED BY <2>1, <2>2, <2>3 DEF TypeOK
<1> QED BY <1>1, <1>2, <1>3

\* The variables are well-formed, whatever was lost or written too far: the buffer
\* stays one in every damage.
THEOREM TypeCorrect == Spec => []TypeOK
<1>1. Init => IInv /\ TypeOK
  <2> SUFFICES ASSUME Init PROVE TypeOK
    BY InitHolds
  <2>1. IsBuffer(send_buf)
    BY LengthsInNat, FreshGood, GoodIsInvariant DEF Init
  <2>2. 0 \in 0 .. MaxStream /\ 0 \in 0 .. MaxLite /\ 0 \in 0 .. Size /\ Room \in 0 .. Room
    <3>1. MaxStream \in Nat /\ MaxLite \in Nat /\ Size \in Nat /\ Room \in Nat
      BY SendPathAssumption
    <3> QED BY <3>1
  <2> QED BY <2>1, <2>2 DEF Init, TypeOK
<1>2. IInv /\ TypeOK /\ [Next]_vars => (IInv /\ TypeOK)'
  <2> SUFFICES ASSUME IInv, TypeOK, [Next]_vars PROVE TypeOK'
    BY NextHolds
  <2>1. IInv'
    BY NextHolds
  <2>2. CASE UNCHANGED vars
    BY <2>2 DEF vars, TypeOK
  <2> QED BY <2>1, <2>2, ReplyingTypes, SendTypes, EndsTypes, EnvironmentTypes DEF Next, Sending
<1> QED BY <1>1, <1>2, PTL DEF Spec
=============================================================================
