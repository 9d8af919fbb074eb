------------------------------ MODULE SendPath ------------------------------
(***************************************************************************)
(* The way out of one connection: replies are serialized behind the write  *)
(* pointer of send_buf, send_from_connection() hands them to the kernel    *)
(* when a reply finds too little space and at the end of every round, and  *)
(* heartbeats and other lite packets go to the socket past the buffer.     *)
(*                                                                         *)
(* A byte is its place in the stream of the replies accepted.  `damaged`   *)
(* collects the reasons why what the peer reads stopped being a prefix of  *)
(* that stream cut at packet ends; the model stops there.                  *)
(***************************************************************************)
EXTENDS SeqBufOps

CONSTANTS Size,            \* size of send_buf
          Lengths,         \* lengths of replies, header included
          HeaderLen,       \* PROTO_HEADER_SIZE, the length of a heartbeat response
          IdentityLen,     \* length of an identity report's response, which has a body
          Room,            \* what the kernel holds for a peer that does not read
          MaxStream,       \* bound: bytes of all replies
          MaxLite          \* bound: lite packets

ASSUME SendPathAssumption ==
  /\ Size \in Nat \ {0} /\ HeaderLen \in Nat \ {0} /\ Room \in Nat \ {0}
  /\ IdentityLen \in Nat /\ IdentityLen >= HeaderLen
  /\ Lengths \subseteq Nat \ {0} /\ MaxStream \in Nat /\ MaxLite \in Nat

VARIABLES send_buf,
          accepted,        \* bytes of replies in the stream so far
          ends,            \* where they end
          sent,            \* bytes of the stream the kernel took
          room,            \* bytes the kernel still takes
          gone,            \* the peer reset the connection
          pc,              \* "business" or "send"
          reply,           \* length of the reply that waits for space; 0 at a round's end
          len, total,      \* send_fragment(): its argument, its ret
          m_max_packet_length,
          discarded,       \* what the last discarded reply found: "none", "empty", "unsent"
          lites, damaged

vars == <<send_buf, accepted, ends, sent, room, gone, pc, reply, len, total,
          m_max_packet_length, discarded, lites, damaged>>

stream == <<accepted, ends, m_max_packet_length, discarded>>

Init ==
  /\ send_buf = Fresh(Size)
  /\ accepted = 0 /\ ends = {0} /\ sent = 0 /\ room = Room /\ gone = FALSE
  /\ pc = "business" /\ reply = 0 /\ len = 0 /\ total = 0
  /\ m_max_packet_length = HeaderLen
  /\ discarded = "none" /\ lites = 0 /\ damaged = {}

Intact == damaged = {}
Business == pc = "business" /\ Intact
InSend == pc = "send" /\ Intact
-----------------------------------------------------------------------------
\* The peer reads, or resets the connection

Drain ==
  /\ Intact /\ ~gone /\ room' \in room + 1 .. Room
  /\ UNCHANGED <<send_buf, sent, gone, pc, reply, len, total, stream, lites, damaged>>

PeerResets ==
  /\ Intact /\ ~gone /\ gone' = TRUE
  /\ UNCHANGED <<send_buf, sent, room, pc, reply, len, total, stream, lites, damaged>>
-----------------------------------------------------------------------------
\* A mutant: space for one longest packet, not for two
HasSpaceForOne(b) == b.n - b.w >= m_max_packet_length /\ b.n - b.w <= b.n

\* !no_enough_space, of the write position as it stands: OVERFLOW_POS makes
\* more bytes available than there are
HasSpace(b) == b.n - b.w >= 2 * m_max_packet_length /\ b.n - b.w <= b.n

\* serialize_to_buffer() at the write pointer of b, move_write_pointer()
Put(b, length) ==
  /\ accepted + length <= MaxStream
  /\ send_buf' = AfterMoveWrite(Filled(b, length, accepted), length)
  /\ accepted' = accepted + length
  /\ ends' = ends \union {accepted'}

Overrun(b, length) == IF length > b.n - b.w THEN {"overrun"} ELSE {}

\* The same of a reply that never asked for space
Unasked(b, length) == IF length > b.n - b.w THEN {"unasked"} ELSE {}

\* update_max_packet_length()
Longest(length) == IF length > m_max_packet_length THEN length ELSE m_max_packet_length

\* A reply of single_operator_general_flow() that finds space
Reply(length) ==
  LET b == Normalised(send_buf)
  IN  /\ Business /\ HasSpace(b) /\ Put(b, length)
      /\ m_max_packet_length' = Longest(length)
      /\ damaged' = Overrun(b, length)
      /\ UNCHANGED <<sent, room, gone, pc, reply, len, total, discarded, lites>>

\* One that does not: send_from_connection() first
ReplyNeedsSpace(length) ==
  LET b == Normalised(send_buf)
  IN  /\ Business /\ ~HasSpace(b)
      /\ send_buf' = b
      /\ pc' = "send" /\ reply' = length /\ len' = DataSize(b) /\ total' = 0
      /\ UNCHANGED <<stream, sent, room, gone, lites, damaged>>

\* A reply of diagnose_connection(), to a heartbeat or an identity report: no
\* question of space, but serialize_to_buffer() refuses a null pointer
DiagnosisReply(length) ==
  LET b == Normalised(send_buf)
  IN  /\ Business
      /\ IF b.w = OVERFLOW_POS
         THEN send_buf' = b /\ UNCHANGED <<accepted, ends, damaged>>
         ELSE Put(b, length) /\ damaged' = Unasked(b, length)
      /\ UNCHANGED <<sent, room, gone, pc, reply, len, total, m_max_packet_length,
                     discarded, lites>>

\* The reply of a session seen before: fetch_session_info() is told neither the
\* space nor that the pointer may be null
SavedReply(length) ==
  LET b == Normalised(send_buf)
  IN  /\ Business
      /\ IF b.w = OVERFLOW_POS
         THEN damaged' = {"null pointer"} /\ send_buf' = b /\ UNCHANGED <<accepted, ends>>
         ELSE Put(b, length) /\ damaged' = Unasked(b, length)
      /\ UNCHANGED <<sent, room, gone, pc, reply, len, total, m_max_packet_length,
                     discarded, lites>>

\* A mutant: the end of a round waits for a full buffer
FlushWhenFull ==
  LET b == Normalised(send_buf)
  IN  /\ Business /\ IsFull(send_buf)
      /\ send_buf' = b
      /\ pc' = "send" /\ reply' = 0 /\ len' = DataSize(b) /\ total' = 0
      /\ UNCHANGED <<stream, sent, room, gone, lites, damaged>>

\* send_result_packets(), at the end of a round
Flush ==
  LET b == Normalised(send_buf)
  IN  /\ Business /\ ~IsEmpty(send_buf)
      /\ send_buf' = b
      /\ pc' = "send" /\ reply' = 0 /\ len' = DataSize(b) /\ total' = 0
      /\ UNCHANGED <<stream, sent, room, gone, lites, damaged>>

\* send_lite_packet(): straight to the socket.  None of it (EAGAIN), all of
\* it, or its beginning only.
Lite ==
  LET k == Least(HeaderLen, room)
  IN  /\ Business /\ ~gone
      /\ lites < MaxLite /\ lites' = lites + 1
      /\ room' = room - k
      /\ damaged' = (IF k > 0 /\ sent \notin ends THEN {"split"} ELSE {})
                      \union (IF k \in 1 .. HeaderLen - 1 THEN {"cut"} ELSE {})
      /\ UNCHANGED <<send_buf, sent, gone, pc, reply, len, total, stream>>
-----------------------------------------------------------------------------
\* send(fd, buf, len): every time from the same buf, every time up to len bytes
Send ==
  LET k == Least(len, room)
  IN  /\ InSend /\ total < len /\ room > 0 /\ ~gone
      /\ room' = room - k /\ total' = total + k /\ sent' = sent + k
      /\ damaged' = IF total > 0 THEN damaged \union {"repeated"} ELSE damaged
      /\ UNCHANGED <<send_buf, gone, pc, reply, len, stream, lites>>

\* A mutant: the read pointer moves by all that was to be sent
AfterSendAll(ret) == AfterMoveRead(send_buf, len)

\* What move_read_pointer(ret), if ret > 0, makes of the buffer
AfterSend(ret) == IF ret > 0 THEN AfterMoveRead(send_buf, ret) ELSE send_buf

\* A mutant: the waiting reply goes by the space found the first time
ResumeStale(b) ==
  /\ send_buf' = Normalised(b)
  /\ discarded' = IF IsEmpty(b) THEN "empty" ELSE "unsent"
  /\ UNCHANGED <<accepted, ends, m_max_packet_length>>

\* The waiting reply looks at the space a second time, with the write
\* position as send_from_connection() left it
Resume(b) ==
  IF HasSpace(b)
  THEN /\ Put(Normalised(b), reply)
       /\ m_max_packet_length' = Longest(reply)
       /\ UNCHANGED discarded
  ELSE /\ send_buf' = Normalised(b)
       /\ discarded' = IF IsEmpty(b) THEN "empty" ELSE "unsent"
       /\ UNCHANGED <<accepted, ends, m_max_packet_length>>

EndSend(ret, reasons) ==
  \E b \in {AfterSend(ret)} :
      /\ pc' = "business" /\ reply' = 0 /\ len' = 0 /\ total' = 0
      /\ IF reply = 0
         THEN send_buf' = b /\ UNCHANGED stream
         ELSE Resume(b)
      /\ damaged' = damaged \union reasons
           \union (IF ret > 0 /\ LosesRest(send_buf, ret) THEN {"full"} ELSE {})
           \union (IF reply > 0 /\ HasSpace(b) THEN Overrun(Normalised(b), reply) ELSE {})
      /\ UNCHANGED <<sent, room, gone, lites>>

\* All is sent, or EAGAIN
SendEnds == InSend /\ (total >= len \/ (room = 0 /\ ~gone)) /\ EndSend(total, {})

\* An error: a negative ret, whatever was sent before it
SendFails ==
  /\ InSend /\ total < len /\ gone
  /\ EndSend(0, IF total > 0 THEN {"unaccounted"} ELSE {})

Replying ==
  \/ \E length \in Lengths : Reply(length) \/ ReplyNeedsSpace(length) \/ SavedReply(length)
  \/ \E length \in {HeaderLen, IdentityLen} : DiagnosisReply(length)

Sending == Flush \/ Send \/ SendEnds \/ SendFails

Next == Drain \/ PeerResets \/ Replying \/ Lite \/ Sending

\* The round ends whatever the packets of the round were, and a peer that is
\* there reads
Spec == Init /\ [][Next]_vars /\ WF_vars(Sending) /\ WF_vars(Drain)
-----------------------------------------------------------------------------
TypeOK ==
  /\ IsBuffer(send_buf)
  /\ accepted \in 0 .. MaxStream /\ ends \subseteq 0 .. MaxStream /\ sent \in Nat
  /\ room \in 0 .. Room /\ gone \in BOOLEAN
  /\ pc \in {"business", "send"} /\ reply \in {0} \union Lengths
  /\ len \in 0 .. Size /\ total \in Nat
  /\ m_max_packet_length \in {HeaderLen} \union Lengths
  /\ discarded \in {"none", "empty", "unsent"} /\ lites \in 0 .. MaxLite
  /\ damaged \subseteq {"overrun", "unasked", "null pointer", "split", "cut", "repeated",
                        "full", "unaccounted"}

\* The buffer holds exactly the bytes of accepted replies the kernel has not
\* taken, plus those the send_fragment() at work has just handed over: none is
\* lost, sent twice or overtaken, however often the peer stops reading.
InSync == Intact => Holds(send_buf, sent - total, accepted)

\* Space is not lost for ever: with nothing left unsent a reply is discarded
\* only because a reply longer than half the buffer was produced before.
DiscardedWithReason == discarded = "empty" => 2 * m_max_packet_length > Size

\* A reply that looked at the space, once or again after a send, runs over the end
\* of the buffer only when it is more than twice as long as every reply that
\* looked before it.  Those of a diagnosis and the saved ones never look.
OverrunIsUnprecedented ==
  [][LET length == accepted' - accepted
     IN  "overrun" \in damaged' \ damaged => length > 2 * m_max_packet_length]_vars

\* Every accepted reply reaches the kernel when the peer goes on reading.
AllIsSent == accepted > sent ~> accepted = sent \/ ~Intact \/ gone

=============================================================================
