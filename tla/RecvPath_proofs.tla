-------------------------- MODULE RecvPath_proofs --------------------------
(***************************************************************************)
(* Proof that, for packets and buffers of any length cut and joined in any *)
(* way, recv_buf is an exact window of the peer's stream, the business     *)
(* gets whole packets and a look at one incomplete for too long drops it,  *)
(* until one of the damages of RecvPath.                                   *)
(***************************************************************************)
EXTENDS RecvPath, SeqBufOps_proofs, TLAPS

\* recv_fragment() writes behind the write position, into the space it was told.
Receiving == pc \in {"recv", "account"} =>
  /\ recv_buf.r \in 0 .. recv_buf.w /\ recv_buf.w \in 0 .. Size - 1
  /\ len = Size - recv_buf.w
  /\ Intact => total <= len

\* Outside of it nothing is fetched and not accounted for.
Accounted == Intact /\ pc \notin {"recv", "account", "closed"} => total = 0

\* What stands behind the write position while recv_fragment() is at work.
Fetched == \A i \in 0 .. total - 1 : recv_buf.cell[recv_buf.w + i] = got - total + i

\* The buffer, with the positions that Holds leaves open.
Window == Intact /\ pc # "closed" =>
  /\ got - total \in Nat
  /\ Good(recv_buf, handled, got - total)
  /\ Fetched

\* The time recorded is not younger than the wait of the packet at the front,
\* unless another connection of the name cleared it.
StampCoversWait == Intact /\ waited # None /\ ~cleared => stamp >= waited

IInv == /\ TypeOK /\ recv_buf.n = Size
        /\ Receiving /\ Accounted /\ Window /\ WholePackets /\ StampCoversWait
-----------------------------------------------------------------------------
\* Ends of packets are places in the stream; the last one is its length.
LEMMA EndsInNat ==
  /\ Total \in Nat
  /\ \A k \in 0 .. Len(Ends) : End(k) \in Nat
  /\ \A k \in 0 .. Len(Ends) - 1 :
       Length(k + 1) \in Nat \ {0} /\ End(k) + Length(k + 1) = End(k + 1)
<1>1. Ends \in Seq(Nat) /\ Len(Ends) \in Nat
  BY RecvPathAssumption
<1>2. \A k \in 0 .. Len(Ends) : End(k) \in Nat
  BY <1>1 DEF End
<1>3. Total \in Nat
  BY <1>1, <1>2 DEF Total
<1>4. ASSUME NEW k \in 0 .. Len(Ends) - 1
      PROVE  Length(k + 1) \in Nat \ {0} /\ End(k) + Length(k + 1) = End(k + 1)
  <2>1. k + 1 \in 1 .. Len(Ends) /\ (k + 1) - 1 = k /\ k \in 0 .. Len(Ends)
    BY <1>1
  <2>2. Length(k + 1) \in HeaderLen .. Size /\ HeaderLen \in Nat \ {0} /\ Size \in Nat
    BY <2>1, RecvPathAssumption
  <2>3. Length(k + 1) = End(k + 1) - End(k)
    BY <2>1 DEF Length
  <2>4. End(k + 1) \in Nat /\ End(k) \in Nat
    BY <1>2, <2>1
  <2> HIDE DEF Length, End
  <2> QED BY <2>2, <2>3, <2>4
<1> QED BY <1>2, <1>3, <1>4

\* Storing behind the write position changes nothing that is held.
LEMMA FilledGood ==
  ASSUME NEW b, NEW h \in Nat, NEW t \in Nat, Good(b, h, t),
         b.r \in 0 .. b.w, b.w \in 0 .. b.n - 1,
         NEW k \in Nat, b.w + k <= b.n
  PROVE  /\ Good(Filled(b, k, t), h, t)
         /\ \A i \in 0 .. k - 1 : Stored(b, k, t)[b.w + i] = t + i
<1> DEFINE s == Stored(b, k, t)
<1>0. /\ b.n \in Nat /\ b.w \in Nat /\ b.r \in Nat /\ b.r <= b.w /\ b.w < b.n
      /\ b.cell \in [0 .. b.n - 1 -> Int] /\ Span(b.n, b.r, b.w, t - h)
      /\ \A i \in b.r .. b.r + (t - h) - 1 : b.cell[i] = h + (i - b.r)
  BY DEF Good, Sound
<1>1. t - h = b.w - b.r
  BY <1>0 DEF Span
<1>2. s \in [0 .. b.n - 1 -> Int]
  <2>1. \A i \in 0 .. b.n - 1 :
          (IF b.w <= i /\ i < b.w + k THEN t + (i - b.w) ELSE b.cell[i]) \in Int
    <3> SUFFICES ASSUME NEW i \in 0 .. b.n - 1
                 PROVE  t + (i - b.w) \in Int /\ b.cell[i] \in Int
      OBVIOUS
    <3>1. b.cell[i] \in Int
      BY <1>0
    <3>2. t + (i - b.w) \in Int
      BY <1>0
    <3> QED BY <3>1, <3>2
  <2> QED BY <2>1 DEF Stored
<1>3. \A i \in 0 .. b.w - 1 : s[i] = b.cell[i]
  BY <1>0 DEF Stored
<1>4. \A i \in 0 .. k - 1 : s[b.w + i] = t + i
  <2> SUFFICES ASSUME NEW i \in 0 .. k - 1 PROVE s[b.w + i] = t + i
    OBVIOUS
  <2>0. b.w \in Nat /\ b.n \in Nat /\ i \in Nat /\ i < k /\ b.w + k <= b.n
    BY <1>0
  <2> HIDE DEF s
  <2>1. b.w + i \in 0 .. b.n - 1
    BY <2>0
  <2>2. b.w <= b.w + i /\ b.w + i < b.w + k
    BY <2>0
  <2>3. t + ((b.w + i) - b.w) = t + i
    BY <2>0
  <2> QED BY <2>1, <2>2, <2>3 DEF Stored, s
<1> HIDE DEF s
<1>5. \A i \in b.r .. b.r + (t - h) - 1 : s[i] = h + (i - b.r)
  <2> SUFFICES ASSUME NEW i \in b.r .. b.r + (t - h) - 1
               PROVE  s[i] = h + (i - b.r)
    OBVIOUS
  <2>0. b.r \in Nat /\ b.w \in Nat /\ b.r + (t - h) = b.w
    BY <1>0, <1>1
  <2>1. i \in 0 .. b.w - 1
    BY <2>0
  <2>2. b.cell[i] = h + (i - b.r)
    BY <1>0
  <2> QED BY <2>1, <2>2, <1>3
<1>6. Sound(b.n, b.r, b.w, s, h, t)
  BY <1>0, <1>1, <1>2, <1>5 DEF Sound, Span
<1> QED BY <1>4, <1>6 DEF Filled, Good, s

\* What was fetched behind the write position is held once it is accounted for.
LEMMA AccountGood ==
  ASSUME NEW b, NEW h \in Nat, NEW t \in Nat, Good(b, h, t), b.n > 0,
         b.r \in 0 .. b.w, b.w \in 0 .. b.n - 1,
         NEW k \in Nat \ {0}, b.w + k <= b.n,
         \A i \in 0 .. k - 1 : b.cell[b.w + i] = t + i
  PROVE  Good(AfterMoveWrite(b, k), h, t + k) /\ AfterMoveWrite(b, k).n = b.n
<1>1. b.n \in Nat /\ b.cell \in [0 .. b.n - 1 -> Int] /\ b.w \in Nat
  BY DEF Good, Sound
<1>2. Sound(b.n, b.r, Wrapped(b.w + k, b.n), Stored(b, k, t), h, t + k)
  BY AppendedSound
<1>3. Stored(b, k, t) = b.cell
  <2>1. \A i \in 0 .. b.n - 1 : b.w <= i /\ i < b.w + k => b.cell[i] = t + (i - b.w)
    <3> SUFFICES ASSUME NEW i \in 0 .. b.n - 1, b.w <= i, i < b.w + k
                 PROVE  b.cell[i] = t + (i - b.w)
      OBVIOUS
    <3>1. i - b.w \in 0 .. k - 1 /\ b.w + (i - b.w) = i
      BY <1>1
    <3> QED BY <3>1
  <2> QED BY <1>1, <2>1 DEF Stored
<1>4. Normalised(b) = b
  BY <1>1 DEF Normalised, HasOverflownPointer, OVERFLOW_POS
<1>5. MoveWriteCount(b, k) = k
  BY <1>1, <1>4 DEF MoveWriteCount, Least
<1>6. AfterMoveWrite(b, k) = Advanced(b, k)
  BY <1>1, <1>4, <1>5 DEF AfterMoveWrite
<1> QED BY <1>2, <1>3, <1>6 DEF Advanced, At, Good
-----------------------------------------------------------------------------
\* A fresh connection satisfies the invariant.
LEMMA InitHolds == Init => IInv
<1> SUFFICES ASSUME Init PROVE IInv
  OBVIOUS
<1>1. /\ wire = 0 /\ peer = "open" /\ got = 0 /\ recv_buf = Fresh(Size)
      /\ pc = "poll" /\ len = 0 /\ total = 0 /\ count = 0
      /\ done = 0 /\ handled = 0 /\ stamp = None /\ waited = None
      /\ cleared = FALSE /\ damaged = {}
  BY DEF Init
<1>2. Good(recv_buf, 0, 0) /\ recv_buf.n = Size
  BY <1>1, FreshGood, RecvPathAssumption DEF Fresh
<1>3. IsBuffer(recv_buf)
  BY <1>2, GoodIsInvariant
<1>4. TypeOK
  <2>1. Len(Ends) \in Nat
    BY RecvPathAssumption
  <2>2. None \in Times
    BY RecvPathAssumption DEF None, Times
  <2>3. {stamp, waited} \subseteq Times /\ cleared \in BOOLEAN
    BY <1>1, <2>2
  <2>4. /\ wire \in 0 .. Total /\ got \in 0 .. wire /\ handled \in 0 .. got
        /\ done \in 0 .. Len(Ends) /\ count \in 0 .. MaxPerRound /\ len \in 0 .. Size
        /\ total \in Nat
    BY <1>1, <2>1, EndsInNat, RecvPathAssumption
  <2> QED BY <1>1, <1>3, <2>3, <2>4 DEF TypeOK
<1>5. Window
  BY <1>1, <1>2 DEF Window, Fetched
<1>6. WholePackets
  BY <1>1 DEF WholePackets, End
<1> QED BY <1>1, <1>2, <1>4, <1>5, <1>6 DEF IInv, Receiving, Accounted, StampCoversWait

\* The numbers of TypeOK that SMT needs again and again.
Numbers == /\ wire \in Nat /\ got \in Nat /\ handled \in Nat /\ total \in Nat
           /\ handled <= got /\ got <= wire /\ wire <= Total /\ Total \in Nat
           /\ Size \in Nat \ {0} /\ Len(Ends) \in Nat /\ done \in 0 .. Len(Ends)

\* What the arithmetic of the steps needs of a well-formed state.
LEMMA TypeGivesNumbers == TypeOK => Numbers
<1> SUFFICES ASSUME TypeOK PROVE Numbers
  OBVIOUS
<1>1. Len(Ends) \in Nat /\ Size \in Nat \ {0} /\ Total \in Nat
  BY EndsInNat, RecvPathAssumption
<1>2. wire \in 0 .. Total /\ got \in 0 .. wire /\ handled \in 0 .. got
      /\ done \in 0 .. Len(Ends) /\ total \in Nat
  BY DEF TypeOK
<1>3. wire \in Nat /\ wire <= Total
  BY <1>1, <1>2
<1>4. got \in Nat /\ got <= wire
  BY <1>2, <1>3
<1>5. handled \in Nat /\ handled <= got
  BY <1>2, <1>4
<1> QED BY <1>1, <1>2, <1>3, <1>4, <1>5 DEF Numbers

Environment == PeerSends \/ PeerCloses \/ PeerResets \/ Tick \/ SameNameRecords \/ SameNameClears

\* Peer, clock and other connections touch neither the buffer nor what is counted.
LEMMA EnvironmentStep ==
  IInv /\ Environment => IInv'
<1> SUFFICES ASSUME IInv, Environment PROVE IInv'
  OBVIOUS
<1>1. Numbers
  BY TypeGivesNumbers DEF IInv
<1>2. UNCHANGED <<got, recv_buf, pc, len, total, count, done, handled, damaged>>
  BY DEF Environment, PeerSends, PeerCloses, PeerResets, Tick, SameNameRecords, SameNameClears
<1>3. wire' \in 0 .. Total /\ got <= wire' /\ peer' \in {"open", "fin", "rst"}
  <2>0. wire \in 0 .. Total /\ peer \in {"open", "fin", "rst"}
    BY DEF IInv, TypeOK
  <2>1. /\ wire \in 0 .. Total /\ peer \in {"open", "fin", "rst"}
        /\ got \in 0 .. Total /\ got <= wire /\ got <= got
    BY <1>1, <2>0 DEF Numbers
  <2>2. CASE PeerSends
    BY <1>1, <2>1, <2>2 DEF PeerSends, Numbers
  <2>3. CASE PeerCloses \/ Tick \/ SameNameRecords \/ SameNameClears
    BY <2>1, <2>3 DEF PeerCloses, Tick, SameNameRecords, SameNameClears
  <2>4. CASE PeerResets
    BY <2>1, <2>4 DEF PeerResets
  <2> QED BY <2>2, <2>3, <2>4 DEF Environment
<1>4. /\ {stamp', waited'} \subseteq Times /\ cleared' \in BOOLEAN
      /\ StampCoversWait'
  <2>1. /\ stamp \in Times /\ waited \in Times /\ cleared \in BOOLEAN
        /\ (Intact /\ waited # None /\ ~cleared => stamp >= waited)
    BY DEF IInv, TypeOK, StampCoversWait
  <2>2. CASE Tick
    BY <1>2, <2>1, <2>2, RecvPathAssumption
       DEF Tick, Older, None, Times, StampCoversWait, Intact
  <2>3. CASE UNCHANGED <<stamp, waited, cleared>>
    BY <1>2, <2>1, <2>3 DEF StampCoversWait, Intact
  <2>4. CASE SameNameRecords
    BY <1>2, <2>1, <2>4, RecvPathAssumption
       DEF SameNameRecords, None, Times, StampCoversWait, Intact
  <2>5. CASE SameNameClears
    <3>1. /\ stamp' = None /\ waited' = waited
          /\ cleared' = (cleared \/ waited # None)
      BY <2>5 DEF SameNameClears
    <3>2. StampCoversWait'
      BY <3>1 DEF StampCoversWait
    <3> QED BY <2>1, <3>1, <3>2, RecvPathAssumption DEF None, Times
  <2> QED BY <2>2, <2>3, <2>4, <2>5 DEF Environment, PeerSends, PeerCloses, PeerResets
<1>5. TypeOK'
  <2>1. got \in 0 .. wire'
    BY <1>1, <1>3 DEF Numbers
  <2> QED BY <1>2, <1>3, <1>4, <2>1 DEF IInv, TypeOK
<1> QED BY <1>2, <1>4, <1>5 DEF IInv, Receiving, Accounted, Window, Fetched,
                               WholePackets, Intact

\* A step of the server keeps the numbers and the damage in their ranges.
LEMMA ServerTypes ==
  ASSUME IInv, UNCHANGED <<wire>>, IsBuffer(recv_buf'),
         got' \in 0 .. wire, handled' \in 0 .. got', done' \in 0 .. Len(Ends),
         count' \in 0 .. MaxPerRound, peer' \in {"open", "fin", "rst"},
         pc' \in {"poll", "recv", "account", "handle", "closed"},
         len' \in 0 .. Size, total' \in Nat,
         {stamp', waited'} \subseteq Times /\ cleared' \in BOOLEAN,
         damaged' \subseteq {"overwritten", "cut", "full", "stale length", "timeout",
                             "stale timestamp"}
  PROVE  TypeOK'
  BY DEF IInv, TypeOK

\* The buffer in order is what the next recv_fragment() begins with.
LEMMA PollStep == IInv /\ Poll => IInv'
<1> SUFFICES ASSUME IInv, Poll PROVE IInv'
  OBVIOUS
<1> DEFINE b == Normalised(recv_buf)
<1>1. Numbers
  BY TypeGivesNumbers DEF IInv
<1>2. Intact /\ pc = "poll" /\ total = 0
  BY DEF Poll, IInv, Accounted
<1>3. Good(recv_buf, handled, got) /\ recv_buf.n = Size
  <2>1. got - 0 = got
    BY <1>1 DEF Numbers
  <2> QED BY <1>2, <2>1 DEF IInv, Window
<1>4. /\ Good(b, handled, got) /\ b.n = Size
      /\ \/ b.w = -1
         \/ b.r \in 0 .. b.w /\ b.w \in 0 .. Size - 1
  BY <1>1, <1>3, NormalisedGood DEF Numbers
<1>5. /\ recv_buf' = b /\ total' = 0 /\ count' = 0
      /\ IF b.w = OVERFLOW_POS THEN pc' = "handle" /\ len' = 0
         ELSE pc' = "recv" /\ len' = b.n - b.w
      /\ UNCHANGED <<wire, peer, got, done, handled, stamp, waited, cleared, damaged>>
  BY DEF Poll
<1> HIDE DEF b
<1>6. Receiving' /\ len' \in 0 .. Size /\ pc' \in {"recv", "handle"}
  BY <1>1, <1>4, <1>5 DEF Receiving, OVERFLOW_POS, Numbers
<1>7. IsBuffer(b)
  BY <1>1, <1>4, GoodIsInvariant DEF Numbers
<1>8. TypeOK'
  <2>1. {stamp', waited'} \subseteq Times /\ cleared' \in BOOLEAN /\ got' \in 0 .. wire
        /\ handled' \in 0 .. got' /\ done' \in 0 .. Len(Ends)
        /\ peer' \in {"open", "fin", "rst"}
        /\ damaged' \subseteq {"overwritten", "cut", "full", "stale length", "timeout",
                               "stale timestamp"}
    BY <1>5 DEF IInv, TypeOK
  <2>2. count' \in 0 .. MaxPerRound
    BY <1>5, RecvPathAssumption
  <2> QED BY <1>5, <1>6, <1>7, <2>1, <2>2, ServerTypes
<1>9. Window'
  <2>1. got' - total' = got
    BY <1>1, <1>5 DEF Numbers
  <2>2. Good(recv_buf', handled', got' - total')
    BY <1>4, <1>5, <2>1
  <2>3. \A i \in 0 .. total' - 1 : FALSE
    BY <1>5
  <2> QED BY <1>1, <2>1, <2>2, <2>3 DEF Window, Fetched, Numbers
<1> QED BY <1>4, <1>5, <1>6, <1>8, <1>9 DEF IInv, Accounted, WholePackets,
                                           StampCoversWait, Intact

\* The first recv() of a recv_fragment() stores behind what is held; a second
\* one is a damage.
LEMMA RecvStep == IInv /\ Recv => IInv'
<1> SUFFICES ASSUME IInv, Recv PROVE IInv'
  OBVIOUS
<1> DEFINE k == Least(len, wire - got)
<1>1. Numbers
  BY TypeGivesNumbers DEF IInv
<1>2. /\ pc = "recv" /\ got < wire
      /\ recv_buf' = Filled(recv_buf, k, got)
      /\ got' = got + k /\ total' = total + k
      /\ pc' \in {"account", "recv"}
      /\ damaged' = IF total > 0 THEN damaged \union {"overwritten"} ELSE damaged
      /\ UNCHANGED <<wire, peer, len, count, done, handled, stamp, waited, cleared>>
  BY DEF Recv
<1>3. /\ recv_buf.r \in 0 .. recv_buf.w /\ recv_buf.w \in 0 .. Size - 1
      /\ len = Size - recv_buf.w /\ recv_buf.n = Size
      /\ (Intact => total <= len)
  BY <1>2 DEF IInv, Receiving
<1>4. /\ recv_buf.w \in Nat /\ recv_buf.w < Size /\ len \in Nat \ {0}
      /\ recv_buf.r \in 0 .. recv_buf.w
  BY <1>1, <1>3 DEF Numbers
<1>5. k \in Nat \ {0} /\ k <= len /\ k <= wire - got
  BY <1>1, <1>2, <1>4 DEF Least, Numbers
<1> HIDE DEF k
<1>6. /\ recv_buf'.n = Size /\ recv_buf'.r = recv_buf.r /\ recv_buf'.w = recv_buf.w
      /\ recv_buf'.cell = Stored(recv_buf, k, got)
  BY <1>2, <1>3 DEF Filled
<1>7. IsBuffer(recv_buf')
  <2>1. IsBuffer(recv_buf)
    BY DEF IInv, TypeOK
  <2>2. Stored(recv_buf, k, got) \in [0 .. recv_buf.n - 1 -> Int]
    <3>1. \A i \in 0 .. recv_buf.n - 1 :
            (IF recv_buf.w <= i /\ i < recv_buf.w + k
             THEN got + (i - recv_buf.w) ELSE recv_buf.cell[i]) \in Int
      <4> SUFFICES ASSUME NEW i \in 0 .. recv_buf.n - 1
                   PROVE  got + (i - recv_buf.w) \in Int /\ recv_buf.cell[i] \in Int
        OBVIOUS
      <4>1. recv_buf.cell[i] \in Int
        BY <2>1 DEF IsBuffer
      <4>2. got + (i - recv_buf.w) \in Int
        BY <1>1, <1>3, <1>4 DEF Numbers
      <4> QED BY <4>1, <4>2
    <3> QED BY <3>1 DEF Stored
  <2> QED BY <1>3, <1>6, <2>1, <2>2 DEF IsBuffer
<1>8. TypeOK'
  <2>1. /\ got' \in 0 .. wire /\ handled' \in 0 .. got' /\ total' \in Nat
    BY <1>1, <1>2, <1>5 DEF Numbers
  <2>2. /\ {stamp', waited'} \subseteq Times /\ cleared' \in BOOLEAN
        /\ done' \in 0 .. Len(Ends) /\ count' \in 0 .. MaxPerRound /\ len' \in 0 .. Size
        /\ peer' \in {"open", "fin", "rst"}
        /\ damaged' \subseteq {"overwritten", "cut", "full", "stale length", "timeout",
                               "stale timestamp"}
    BY <1>2 DEF IInv, TypeOK
  <2> QED BY <1>2, <1>7, <2>1, <2>2, ServerTypes
<1>9. Intact' => Intact /\ total = 0 /\ total' = k /\ damaged' = damaged
  BY <1>1, <1>2, <1>5 DEF Intact, Numbers
<1>10. Receiving'
  BY <1>2, <1>3, <1>5, <1>6, <1>9 DEF Receiving
<1>11. Window'
  <2> SUFFICES ASSUME Intact'
               PROVE  /\ got' - total' \in Nat
                      /\ Good(recv_buf', handled, got' - total')
                      /\ Fetched'
    BY <1>2 DEF Window
  <2>1. got' - total' = got /\ got - 0 = got
    BY <1>1, <1>2, <1>5, <1>9 DEF Numbers
  <2>2. Good(recv_buf, handled, got)
    BY <1>2, <1>9, <2>1 DEF IInv, Window
  <2>3. recv_buf.w + k <= recv_buf.n
    BY <1>1, <1>3, <1>4, <1>5 DEF Numbers
  <2>4. recv_buf.r \in 0 .. recv_buf.w /\ recv_buf.w \in 0 .. recv_buf.n - 1
        /\ k \in Nat /\ got \in Nat /\ handled \in Nat
    BY <1>1, <1>3, <1>5 DEF Numbers
  <2>5. /\ Good(recv_buf', handled, got)
        /\ \A i \in 0 .. k - 1 : Stored(recv_buf, k, got)[recv_buf.w + i] = got + i
    <3>1. /\ Good(Filled(recv_buf, k, got), handled, got)
          /\ \A i \in 0 .. k - 1 : Stored(recv_buf, k, got)[recv_buf.w + i] = got + i
      BY <2>2, <2>3, <2>4, FilledGood
    <3> QED BY <1>2, <3>1
  <2>6. Fetched'
    BY <1>6, <1>9, <2>1, <2>5 DEF Fetched
  <2> QED BY <1>1, <2>1, <2>5, <2>6 DEF Numbers
<1>12. WholePackets' /\ StampCoversWait' /\ Accounted'
  BY <1>2, <1>9 DEF IInv, WholePackets, StampCoversWait, Accounted
<1> QED BY <1>6, <1>8, <1>10, <1>11, <1>12 DEF IInv

\* recv() that finds nothing, the end or an error.
LEMMA RecvStopsStep == IInv /\ (RecvDrained \/ RecvEnd \/ RecvError) => IInv'
<1> SUFFICES ASSUME IInv, RecvDrained \/ RecvEnd \/ RecvError PROVE IInv'
  OBVIOUS
<1>1. /\ UNCHANGED <<wire, got, recv_buf, len, total, count, done, handled, stamp, waited, cleared>>
      /\ peer' \in {peer, "fin"} /\ pc = "recv"
      /\ \/ pc' = "account" /\ damaged' = damaged
         \/ pc' = "closed" /\ damaged' = damaged
         \/ pc' = "handle" /\ damaged' = IF total > 0 THEN damaged \union {"cut"}
                                         ELSE damaged
  BY DEF RecvDrained, RecvEnd, RecvError
<1>2. Intact' => Intact /\ damaged' = damaged
  BY <1>1 DEF Intact
<1>3. TypeOK'
  BY <1>1 DEF IInv, TypeOK
<1>4. Receiving'
  BY <1>1, <1>2 DEF IInv, Receiving
<1>5. Accounted'
  <2>1. total \in Nat
    BY DEF IInv, TypeOK
  <2>2. pc' = "handle" /\ Intact' => total = 0
    BY <1>1, <2>1 DEF Intact
  <2> QED BY <1>1, <2>2 DEF Accounted
<1>6. Window'
  BY <1>1, <1>2 DEF IInv, Window, Fetched
<1> QED BY <1>1, <1>2, <1>3, <1>4, <1>5, <1>6 DEF IInv, WholePackets, StampCoversWait

\* move_write_pointer() takes in what was fetched.
LEMMA AccountStep == IInv /\ Account => IInv'
<1> SUFFICES ASSUME IInv, Account PROVE IInv'
  OBVIOUS
<1>1. Numbers
  BY TypeGivesNumbers DEF IInv
<1>2. /\ pc = "account" /\ recv_buf' = AfterMoveWrite(recv_buf, total)
      /\ pc' = "handle" /\ len' = 0 /\ total' = 0
      /\ UNCHANGED <<wire, peer, got, count, done, handled, stamp, waited, cleared, damaged>>
  BY DEF Account
<1>3. /\ recv_buf.r \in 0 .. recv_buf.w /\ recv_buf.w \in 0 .. recv_buf.n - 1
      /\ len = Size - recv_buf.w /\ recv_buf.n = Size /\ recv_buf.n \in Nat \ {0}
      /\ (Intact => total <= len)
  BY <1>1, <1>2 DEF IInv, Receiving, Numbers
<1>4. IsBuffer(recv_buf') /\ recv_buf'.n = Size
  <2>1. IsBuffer(recv_buf) /\ total \in Nat
    BY DEF IInv, TypeOK
  <2>2. Normalised(recv_buf) = recv_buf
    BY <1>3 DEF Normalised, HasOverflownPointer, OVERFLOW_POS
  <2>3. CASE total = 0
    BY <1>2, <1>3, <2>1, <2>3 DEF AfterMoveWrite
  <2>4. CASE total > 0
    <3>1. MoveWriteCount(recv_buf, total) \in Nat \ {0}
      BY <1>3, <2>1, <2>2, <2>4 DEF MoveWriteCount, Least
    <3>2. recv_buf' = Advanced(recv_buf, MoveWriteCount(recv_buf, total))
      BY <1>2, <1>3, <2>1, <2>2, <2>4, <3>1 DEF AfterMoveWrite
    <3> DEFINE k == MoveWriteCount(recv_buf, total)
    <3> HIDE DEF k
    <3>3. k \in Nat
      BY <3>1 DEF k
    <3>4. Wrapped(recv_buf.w + k, recv_buf.n) \in -1 .. recv_buf.n
      BY <1>3, <3>3 DEF Wrapped, OVERFLOW_POS
    <3>5. recv_buf' = At(recv_buf, recv_buf.r, Wrapped(recv_buf.w + k, recv_buf.n))
      BY <3>2 DEF Advanced, k
    <3> QED BY <1>3, <2>1, <3>4, <3>5 DEF At, IsBuffer
  <2> QED BY <2>1, <2>3, <2>4
<1>5. TypeOK'
  <2>1. /\ {stamp', waited'} \subseteq Times /\ cleared' \in BOOLEAN
        /\ got' \in 0 .. wire /\ handled' \in 0 .. got'
        /\ done' \in 0 .. Len(Ends) /\ count' \in 0 .. MaxPerRound
        /\ peer' \in {"open", "fin", "rst"}
        /\ damaged' \subseteq {"overwritten", "cut", "full", "stale length", "timeout",
                               "stale timestamp"}
    BY <1>2 DEF IInv, TypeOK
  <2>2. len' \in 0 .. Size /\ total' \in Nat
    BY <1>1, <1>2 DEF Numbers
  <2> QED BY <1>2, <1>4, <2>1, <2>2, ServerTypes
<1>6. Window'
  <2> SUFFICES ASSUME Intact PROVE got' - total' \in Nat
                                   /\ Good(recv_buf', handled', got' - total') /\ Fetched'
    BY <1>2 DEF Window, Intact
  <2>1. got' - total' = got /\ got \in Nat
    BY <1>1, <1>2 DEF Numbers
  <2>2. Fetched'
    BY <1>2 DEF Fetched
  <2>3. got - total \in Nat /\ Good(recv_buf, handled, got - total) /\ Fetched
    BY <1>2 DEF IInv, Window
  <2>4. CASE total = 0
    <3>1. got - total = got
      BY <1>1, <2>4 DEF Numbers
    <3>2. recv_buf' = recv_buf
      BY <1>2, <2>4 DEF AfterMoveWrite
    <3> QED BY <1>2, <2>1, <2>2, <2>3, <3>1, <3>2
  <2>5. CASE total > 0
    <3>1. total \in Nat \ {0} /\ recv_buf.w + total <= recv_buf.n /\ recv_buf.n > 0
      BY <1>1, <1>3, <2>5 DEF Numbers
    <3>2. (got - total) + total = got
      BY <1>1 DEF Numbers
    <3> DEFINE t == got - total
    <3>3. t \in Nat /\ Good(recv_buf, handled, t) /\ t + total = got
          /\ \A i \in 0 .. total - 1 : recv_buf.cell[recv_buf.w + i] = t + i
      BY <2>3, <3>2 DEF Fetched
    <3> HIDE DEF t
    <3>4. Good(AfterMoveWrite(recv_buf, total), handled, t + total)
      BY <1>1, <1>3, <3>1, <3>3, AccountGood DEF Numbers
    <3> QED BY <1>2, <2>1, <2>2, <3>3, <3>4
  <2> QED BY <1>1, <2>4, <2>5 DEF Numbers
<1> QED BY <1>2, <1>4, <1>5, <1>6 DEF IInv, Receiving, Accounted, WholePackets,
                                     StampCoversWait, Intact

\* Between two packets the buffer holds what was received and not handled; as long
\* as it holds anything, a packet of the peer begins at its front.
LEMMA FrontOfBuffer ==
  ASSUME IInv, Processes
  PROVE  LET b == Normalised(recv_buf)
         IN  /\ Good(b, handled, got) /\ b.n = Size /\ total = 0
             /\ DataSize(b) = got - handled /\ got - handled > 0
             /\ done < Len(Ends)
             /\ Length(done + 1) \in Nat \ {0}
             /\ handled + Length(done + 1) = End(done + 1)
<1> DEFINE b == Normalised(recv_buf)
<1>1. Numbers
  BY TypeGivesNumbers DEF IInv
<1>2. Intact /\ pc = "handle" /\ total = 0 /\ handled = End(done) /\ ~IsEmpty(recv_buf)
  BY DEF Processes, IInv, Accounted, WholePackets
<1>3. Good(recv_buf, handled, got) /\ recv_buf.n = Size /\ Size > 0
  <2>1. got - 0 = got
    BY <1>1 DEF Numbers
  <2> QED BY <1>1, <1>2, <2>1 DEF IInv, Window, Numbers
<1>4. Good(b, handled, got) /\ b.n = Size
  BY <1>1, <1>3, NormalisedGood DEF Numbers
<1> HIDE DEF b
<1>5. DataSize(recv_buf) = got - handled /\ DataSize(b) = got - handled
  BY <1>1, <1>3, <1>4, GoodSize DEF Numbers
<1>6. got - handled > 0
  BY <1>1, <1>2, <1>5 DEF IsEmpty, Numbers
<1>7. done < Len(Ends)
  <2>1. CASE done = Len(Ends)
    <3>1. handled = Total
      BY <1>2, <2>1 DEF Total
    <3> QED BY <1>1, <1>6, <3>1 DEF Numbers
  <2> QED BY <1>1, <2>1 DEF Numbers
<1>8. done \in 0 .. Len(Ends) - 1
  BY <1>1, <1>7 DEF Numbers
<1> QED BY <1>2, <1>4, <1>5, <1>6, <1>7, <1>8, EndsInNat DEF b

\* The business takes exactly the packet at the front.
LEMMA TakePacketStep == IInv /\ TakePacket => IInv'
<1> SUFFICES ASSUME IInv, TakePacket PROVE IInv'
  OBVIOUS
<1> DEFINE b == Normalised(recv_buf)
           length == Length(done + 1)
<1>1. Numbers
  BY TypeGivesNumbers DEF IInv
<1>2. /\ Processes /\ Complete(b) /\ pc = "handle" /\ Intact /\ count < MaxPerRound
      /\ recv_buf' = AfterMoveRead(b, length)
      /\ done' = done + 1 /\ handled' = handled + MoveReadCount(b, length)
      /\ count' = count + 1 /\ waited' = None /\ cleared' = FALSE /\ stamp' \in Times
      /\ damaged' = IF LosesRest(b, length) THEN damaged \union {"full"} ELSE damaged
      /\ UNCHANGED <<wire, peer, got, pc, len, total>>
  BY DEF TakePacket, Processes
<1>3. /\ Good(b, handled, got) /\ b.n = Size /\ total = 0
      /\ DataSize(b) = got - handled /\ got - handled > 0
      /\ done < Len(Ends) /\ length \in Nat \ {0}
      /\ handled + length = End(done + 1)
  BY <1>2, FrontOfBuffer
<1>4. length <= got - handled
  BY <1>2, <1>3 DEF Complete
<1> HIDE DEF b, length
<1>5. MoveReadCount(b, length) = length
  <2>1. Good(Normalised(b), handled, got)
    BY <1>1, <1>3, NormalisedGood DEF Numbers
  <2>2. DataSize(Normalised(b)) = got - handled
    BY <1>1, <2>1, GoodSize DEF Numbers
  <2> QED BY <1>1, <1>3, <1>4, <2>2 DEF MoveReadCount, IsEmpty, Least, Numbers
<1>6. handled' = End(done') /\ handled' \in Nat /\ handled' <= got
  BY <1>1, <1>2, <1>3, <1>4, <1>5 DEF Numbers
<1>7. ~LosesRest(b, length) => Good(recv_buf', handled', got)
  BY <1>1, <1>2, <1>3, MoveReadGood DEF Numbers
<1>8. IsBuffer(recv_buf')
  <2>1. LosesRest(b, length) => IsBuffer(recv_buf')
    BY <1>1, <1>2, <1>3, LosingReadIsBuffer DEF Numbers
  <2>2. Good(recv_buf', handled', got) => IsBuffer(recv_buf')
    BY <1>1, <1>6, GoodIsInvariant DEF Numbers
  <2> QED BY <1>7, <2>1, <2>2
<1>9. recv_buf'.n = Size
  BY <1>2, <1>3, SizeKept
<1>10. TypeOK'
  <2>1. /\ got' \in 0 .. wire /\ peer' \in {"open", "fin", "rst"} /\ len' \in 0 .. Size /\ total' \in Nat
        /\ damaged' \subseteq {"overwritten", "cut", "full", "stale length", "timeout",
                               "stale timestamp"}
    BY <1>2 DEF IInv, TypeOK
  <2>2. handled' \in 0 .. got' /\ done' \in 0 .. Len(Ends)
    BY <1>1, <1>2, <1>3, <1>6 DEF Numbers
  <2>3. count' \in 0 .. MaxPerRound
    <3>1. count \in 0 .. MaxPerRound /\ MaxPerRound \in Nat
      BY RecvPathAssumption DEF IInv, TypeOK
    <3> QED BY <1>2, <3>1
  <2>4. {stamp', waited'} \subseteq Times /\ cleared' \in BOOLEAN
    <3>1. kMaxErrorSeconds \in Nat
      BY RecvPathAssumption
    <3>2. None \in Times
      BY <3>1 DEF None, Times
    <3> QED BY <1>2, <3>2
  <2> QED BY <1>2, <1>8, <2>1, <2>2, <2>3, <2>4, ServerTypes
<1>11. Window'
  <2>1. got' - total' = got /\ total' = 0
    BY <1>1, <1>2, <1>3 DEF Numbers
  <2>2. Intact' => ~LosesRest(b, length)
    BY <1>2 DEF Intact
  <2>3. Fetched'
    BY <2>1 DEF Fetched
  <2> QED BY <1>1, <1>2, <1>7, <2>1, <2>2, <2>3 DEF Window, Numbers
<1> QED BY <1>2, <1>3, <1>6, <1>9, <1>10, <1>11 DEF IInv, Receiving, Accounted,
                                           WholePackets, StampCoversWait

\* An incomplete packet leaves the buffer alone, or is a damage.
LEMMA AwaitRestStep == IInv /\ AwaitRest => IInv'
<1> SUFFICES ASSUME IInv, AwaitRest PROVE IInv'
  OBVIOUS
<1> DEFINE b == Normalised(recv_buf)
<1>1. Numbers
  BY TypeGivesNumbers DEF IInv
<1>2. /\ Processes /\ pc = "handle" /\ Intact /\ pc' = "poll"
      /\ UNCHANGED <<wire, peer, got, len, total, count, done, handled>>
      /\ \/ /\ recv_buf' = AfterReset(b) /\ stamp' = None /\ waited' = None
            /\ cleared' = FALSE /\ ~Intact'
            /\ damaged' \subseteq damaged \union {"stale length", "timeout", "stale timestamp"}
         \/ /\ recv_buf' = b /\ stamp' = Started(stamp)
            /\ waited' = (IF waited = None THEN 0 ELSE waited)
            /\ damaged' = damaged /\ cleared' = cleared
  BY DEF AwaitRest, Processes, Intact
<1>3. Good(b, handled, got) /\ b.n = Size /\ total = 0
  BY <1>2, FrontOfBuffer
<1> HIDE DEF b
<1>4. IsBuffer(recv_buf') /\ recv_buf'.n = Size
  <2>1. IsBuffer(b)
    BY <1>1, <1>3, GoodIsInvariant DEF Numbers
  <2>2. Good(AfterReset(b), 0, 0)
    BY <2>1, ResetGood
  <2>3. IsBuffer(AfterReset(b)) /\ AfterReset(b).n = b.n
    BY <2>2, GoodIsInvariant DEF AfterReset, At
  <2> QED BY <1>2, <1>3, <2>1, <2>3
<1>5. /\ stamp \in Times /\ waited \in Times /\ cleared \in BOOLEAN
      /\ kMaxErrorSeconds \in Nat \ {0} /\ (waited # None /\ ~cleared => stamp >= waited)
  BY <1>2, RecvPathAssumption DEF IInv, TypeOK, StampCoversWait
<1>6. {stamp', waited'} \subseteq Times /\ cleared' \in BOOLEAN /\ StampCoversWait'
  <2>0. \/ stamp' = None /\ waited' = None /\ cleared' = FALSE /\ ~Intact'
        \/ /\ stamp' = Started(stamp) /\ waited' = (IF waited = None THEN 0 ELSE waited)
           /\ cleared' = cleared
    BY <1>2
  <2>1. CASE stamp' = None /\ waited' = None /\ cleared' = FALSE /\ ~Intact'
    <3>1. None \in Times
      BY <1>5 DEF None, Times
    <3> QED BY <2>1, <3>1 DEF StampCoversWait
  <2>2. CASE /\ stamp' = Started(stamp) /\ waited' = (IF waited = None THEN 0 ELSE waited)
             /\ cleared' = cleared
    <3>1. stamp' \in 0 .. kMaxErrorSeconds /\ waited' \in 0 .. kMaxErrorSeconds
          /\ (~cleared' => stamp' >= waited')
      BY <1>5, <2>2 DEF Started, None, Times
    <3> QED BY <1>5, <2>2, <3>1 DEF None, Times, StampCoversWait
  <2> QED BY <2>0, <2>1, <2>2
<1>7. TypeOK'
  <2>1. /\ got' \in 0 .. wire /\ handled' \in 0 .. got'
        /\ done' \in 0 .. Len(Ends) /\ count' \in 0 .. MaxPerRound
        /\ peer' \in {"open", "fin", "rst"} /\ len' \in 0 .. Size /\ total' \in Nat
        /\ damaged' \subseteq {"overwritten", "cut", "full", "stale length", "timeout",
                               "stale timestamp"}
    BY <1>2 DEF IInv, TypeOK
  <2> QED BY <1>2, <1>4, <1>6, <2>1, ServerTypes
<1>8. Window'
  <2>0. got' = got /\ total' = 0 /\ got \in Nat
    BY <1>1, <1>2, <1>3 DEF Numbers
  <2>1. got' - total' = got /\ total' = 0
    BY <2>0
  <2>2. Fetched'
    BY <2>1 DEF Fetched
  <2> QED BY <1>1, <1>2, <1>3, <2>1, <2>2 DEF Window, Numbers
<1> QED BY <1>2, <1>3, <1>4, <1>6, <1>7, <1>8 DEF IInv, Receiving, Accounted,
                                                 WholePackets

\* The end of a round keeps the invariant.
LEMMA RestStep == IInv /\ Rest => IInv'
<1> SUFFICES ASSUME IInv, Rest PROVE IInv'
  OBVIOUS
<1>1. /\ pc = "handle" /\ pc' = "poll"
      /\ UNCHANGED <<wire, peer, got, recv_buf, len, total, count, done, handled,
                     stamp, waited, cleared, damaged>>
  BY DEF Rest
<1>2. TypeOK'
  BY <1>1 DEF IInv, TypeOK
<1> QED BY <1>1, <1>2 DEF IInv, Receiving, Accounted, Window, Fetched, WholePackets,
                         StampCoversWait, Intact

\* Every step of peer, kernel, clock or server keeps the invariant.
LEMMA NextHolds == IInv /\ [Next]_vars => IInv'
<1>1. IInv /\ UNCHANGED vars => IInv'
  <2>1. TypeOK /\ UNCHANGED vars => TypeOK'
    BY DEF vars, TypeOK
  <2>2. StampCoversWait /\ UNCHANGED vars => StampCoversWait'
    BY DEF vars, StampCoversWait, Intact
  <2> QED BY <2>1, <2>2 DEF vars, IInv, Receiving, Accounted, Window, Fetched, WholePackets,
                            Intact
<1> QED BY <1>1, EnvironmentStep, PollStep, RecvStep, RecvStopsStep, AccountStep,
           TakePacketStep, AwaitRestStep, RestStep DEF Next, Server, Environment
-----------------------------------------------------------------------------
\* The inductive invariant holds for any packets, buffer sizes and time-outs.
THEOREM Invariance == Spec => []IInv
  BY InitHolds, NextHolds, PTL DEF Spec

\* The connection is well-formed for any packets and buffers, even after a damage.
THEOREM TypeCorrect == Spec => []TypeOK
<1>1. IInv => TypeOK
  BY DEF IInv
<1> QED BY <1>1, Invariance, PTL

\* Until a damage recv_buf is an exact window of the peer's stream, whatever the
\* network makes of it.
THEOREM StaysInSync == Spec => []InSync
<1>1. IInv => InSync
  <2> SUFFICES ASSUME IInv, Intact, pc # "closed"
               PROVE  /\ Holds(recv_buf, handled, got - total)
                      /\ total > 0 => \A i \in 0 .. total - 1 :
                           recv_buf.cell[recv_buf.w + i] = got - total + i
    BY DEF InSync
  <2>1. got - total \in Nat /\ Good(recv_buf, handled, got - total) /\ Fetched
    BY DEF IInv, Window
  <2>2. handled \in Nat
    BY TypeGivesNumbers DEF IInv, Numbers
  <2>3. Holds(recv_buf, handled, got - total)
    BY <2>1, <2>2, GoodIsInvariant
  <2> QED BY <2>1, <2>3 DEF Fetched
<1> QED BY <1>1, Invariance, PTL

\* The business gets the peer's packets whole, in order and once, for packets and
\* buffers of any length.
THEOREM PacketsAreWhole == Spec => []WholePackets
<1>1. IInv => WholePackets
  BY DEF IInv
<1> QED BY <1>1, Invariance, PTL

\* A look at a packet that process() saw incomplete kMaxErrorSeconds ago gives the
\* buffer up, whatever other connections of its name record and clear, unless
\* they cleared its time.
THEOREM LateIsGivenUp == Spec => GivenUpWhenLate
<1> DEFINE Late == Processes /\ pc' = "poll" /\ waited >= kMaxErrorSeconds /\ ~cleared
<1>1. IInv /\ [Next]_vars => [Late => IsEmpty(recv_buf')]_vars
  <2> SUFFICES ASSUME IInv, Next, Late PROVE IsEmpty(recv_buf')
    OBVIOUS
  <2>1. pc = "handle" /\ Intact /\ ~IsEmpty(recv_buf) /\ count < MaxPerRound
    BY DEF Processes
  <2>2. AwaitRest
    <3>1. count \in 0 .. MaxPerRound /\ MaxPerRound \in Nat
      BY RecvPathAssumption DEF IInv, TypeOK
    <3>2. ~(count >= MaxPerRound)
      BY <2>1, <3>1
    <3>4. ~Rest
      BY <2>1, <3>2 DEF Rest
    <3>3. pc' # pc
      BY <2>1
    <3> QED BY <2>1, <3>3, <3>4 DEF Next, Server, PeerSends, PeerCloses, PeerResets, Tick,
          SameNameRecords, SameNameClears, Poll, Recv, RecvDrained, RecvEnd, RecvError, Account,
          TakePacket
  <2>3. stamp >= kMaxErrorSeconds
    <3>1. /\ stamp \in -1 .. kMaxErrorSeconds /\ waited \in -1 .. kMaxErrorSeconds
          /\ (waited # -1 => stamp >= waited) /\ kMaxErrorSeconds \in Nat \ {0}
      BY <2>1, RecvPathAssumption DEF IInv, TypeOK, StampCoversWait, None, Times
    <3> QED BY <3>1
  <2>4. recv_buf' = AfterReset(Normalised(recv_buf))
    BY <2>2, <2>3 DEF AwaitRest
  <2>5. DataSize(recv_buf') = 0
    BY <2>4 DEF AfterReset, At, DataSize, OVERFLOW_POS
  <2> QED BY <2>5 DEF IsEmpty
<1> QED BY <1>1, Invariance, PTL DEF Spec, GivenUpWhenLate
=============================================================================
