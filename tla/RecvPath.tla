------------------------------ MODULE RecvPath ------------------------------
(***************************************************************************)
(* The way in of one connection: a peer writes packets to its socket,      *)
(* recv_to_connection() moves what the kernel holds into recv_buf, one     *)
(* recv() at a time while more keeps arriving, and the rounds of           *)
(* poll_and_process() cut packets off and hand them to the business.       *)
(*                                                                         *)
(* A byte is its place in the peer's stream.  `damaged` collects the       *)
(* reasons why recv_buf stopped being an exact window of that stream; the  *)
(* model says nothing of what a server does with a broken stream.          *)
(***************************************************************************)
EXTENDS SeqBufOps, Sequences

CONSTANTS Ends,            \* where each packet of the peer ends in its stream
          HeaderLen,       \* PROTO_HEADER_SIZE, which starts with the length field
          Size,            \* size of recv_buf
          MaxPerRound,     \* message-processing-per-round
          kMaxErrorSeconds \* 5 in the code

\* The end and the length of packet k, header included
End(k) == IF k = 0 THEN 0 ELSE Ends[k]
Length(k) == End(k) - End(k - 1)
Total == End(Len(Ends))

ASSUME RecvPathAssumption ==
  /\ HeaderLen \in Nat \ {0} /\ Size \in Nat \ {0} /\ MaxPerRound \in Nat \ {0}
  /\ kMaxErrorSeconds \in Nat \ {0}
  /\ Ends \in Seq(Nat) /\ \A k \in 1 .. Len(Ends) : Length(k) \in HeaderLen .. Size

VARIABLES wire,            \* bytes the peer has sent
          peer,            \* "open", "fin" (closed), "rst" (reset)
          got,             \* bytes recv() has taken from the kernel
          recv_buf,
          pc,              \* "poll", "recv", "account", "handle", "closed"
          len, total,      \* recv_fragment(): its argument, its ret
          count,           \* handle_count of the round
          done, handled,   \* packets and bytes handed to the business
          stamp,           \* seconds since the time recorded for an incomplete packet
                           \* of any connection with this one's name
          waited,          \* seconds since process() first saw the front packet incomplete
          cleared,         \* meanwhile another connection of the name cleared the time
          damaged

vars == <<wire, peer, got, recv_buf, pc, len, total, count, done, handled,
          stamp, waited, cleared, damaged>>

\* No time is recorded, no packet is incomplete
None == -1
Times == None .. kMaxErrorSeconds

Init ==
  /\ wire = 0 /\ peer = "open" /\ got = 0
  /\ recv_buf = Fresh(Size)
  /\ pc = "poll" /\ len = 0 /\ total = 0 /\ count = 0
  /\ done = 0 /\ handled = 0 /\ stamp = None /\ waited = None
  /\ cleared = FALSE /\ damaged = {}
-----------------------------------------------------------------------------
\* The peer and the clock

PeerSends ==
  /\ peer = "open"
  /\ wire' \in wire + 1 .. Total
  /\ UNCHANGED <<peer, got, recv_buf, pc, len, total, count, done, handled,
                 stamp, waited, cleared, damaged>>

PeerCloses ==
  /\ peer = "open"
  /\ peer' = "fin"
  /\ UNCHANGED <<wire, got, recv_buf, pc, len, total, count, done, handled,
                 stamp, waited, cleared, damaged>>

\* A reset; what the kernel still held is gone
PeerResets ==
  /\ peer = "open"
  /\ peer' = "rst" /\ wire' = got
  /\ UNCHANGED <<got, recv_buf, pc, len, total, count, done, handled,
                 stamp, waited, cleared, damaged>>

\* A second goes by; no more than kMaxErrorSeconds are told apart
Older(time) == IF time \in 0 .. kMaxErrorSeconds - 1 THEN time + 1 ELSE time

Tick ==
  /\ stamp' = Older(stamp) /\ waited' = Older(waited)
  /\ <<stamp, waited>>' # <<stamp, waited>>
  /\ UNCHANGED <<wire, peer, got, recv_buf, pc, len, total, count, done, handled, cleared,
                 damaged>>

\* m_timestamps_when_pkts_incomplete has one time for all connections of a name,
\* and a connection that has not identified itself has the empty one.  Between
\* two rounds of this one another of its name records the time of its own
\* packet, or clears the time when it gives its buffer up.
SameNameRecords ==
  /\ pc = "poll" /\ stamp = None
  /\ stamp' = 0
  /\ UNCHANGED <<wire, peer, got, recv_buf, pc, len, total, count, done, handled,
                 waited, cleared, damaged>>

SameNameClears ==
  /\ pc = "poll" /\ stamp # None
  /\ stamp' = None /\ cleared' = (cleared \/ waited # None)
  /\ UNCHANGED <<wire, peer, got, recv_buf, pc, len, total, count, done, handled,
                 waited, damaged>>
-----------------------------------------------------------------------------
\* One round of poll_and_process() for this connection

Intact == damaged = {}

\* The poller reports the connection (level triggered), recv_to_connection()
\* begins.  A full buffer has a null write pointer.
Poll ==
  LET b == Normalised(recv_buf)
  IN  /\ pc = "poll" /\ Intact
      /\ got < wire \/ peer # "open"
      /\ recv_buf' = b /\ total' = 0 /\ count' = 0
      /\ IF b.w = OVERFLOW_POS
         THEN pc' = "handle" /\ len' = 0
         ELSE pc' = "recv" /\ len' = b.n - b.w
      /\ UNCHANGED <<wire, peer, got, done, handled, stamp, waited, cleared, damaged>>

\* recv(fd, buf, len): every time to the same buf, every time up to len bytes
Recv ==
  LET k == Least(len, wire - got)
  IN  /\ pc = "recv" /\ got < wire
      /\ recv_buf' = Filled(recv_buf, k, got)
      /\ got' = got + k /\ total' = total + k
      /\ pc' = IF total' >= len THEN "account" ELSE "recv"
      /\ damaged' = IF total > 0 THEN damaged \union {"overwritten"} ELSE damaged
      /\ UNCHANGED <<wire, peer, len, count, done, handled, stamp, waited, cleared>>

\* EAGAIN: nothing more for now
RecvDrained ==
  /\ pc = "recv" /\ got = wire /\ peer = "open"
  /\ pc' = "account"
  /\ UNCHANGED <<wire, peer, got, recv_buf, len, total, count, done, handled,
                 stamp, waited, cleared, damaged>>

\* recv() returns 0: CONNECTION_BROKEN, whatever was received before it, and
\* shut_bad_connection() deletes the connection
RecvEnd ==
  /\ pc = "recv" /\ got = wire /\ peer = "fin"
  /\ pc' = "closed"
  /\ UNCHANGED <<wire, peer, got, recv_buf, len, total, count, done, handled,
                 stamp, waited, cleared, damaged>>

\* ECONNRESET, once: not CONNECTION_BROKEN, so what is in the buffer is handled
RecvError ==
  /\ pc = "recv" /\ got = wire /\ peer = "rst"
  /\ peer' = "fin" /\ pc' = "handle"
  /\ damaged' = IF total > 0 THEN damaged \union {"cut"} ELSE damaged
  /\ UNCHANGED <<wire, got, recv_buf, len, total, count, done, handled, stamp, waited, cleared>>

\* A mutant: the write pointer moves by the space asked for
AccountAll ==
  /\ pc = "account"
  /\ recv_buf' = AfterMoveWrite(recv_buf, len)
  /\ pc' = "handle" /\ len' = 0 /\ total' = 0
  /\ UNCHANGED <<wire, peer, got, count, done, handled, stamp, waited, cleared, damaged>>

\* move_write_pointer(ret), if ret > 0
Account ==
  /\ pc = "account"
  /\ recv_buf' = AfterMoveWrite(recv_buf, total)
  /\ pc' = "handle" /\ len' = 0 /\ total' = 0
  /\ UNCHANGED <<wire, peer, got, count, done, handled, stamp, waited, cleared, damaged>>

\* The end of handle_received_packets()
Rest ==
  /\ pc = "handle" /\ Intact
  /\ IsEmpty(recv_buf) \/ count >= MaxPerRound
  /\ pc' = "poll"
  /\ UNCHANGED <<wire, peer, got, recv_buf, len, total, count, done, handled,
                 stamp, waited, cleared, damaged>>

\* process(): the front of the buffer after get_read_pointer()
Processes ==
  /\ pc = "handle" /\ Intact
  /\ ~IsEmpty(recv_buf) /\ count < MaxPerRound

\* Mutants: the header is enough, or one byte more than the packet is wanted
HeaderIsEnough(b) == DataSize(b) >= HeaderLen
OneByteMore(b) == DataSize(b) > Length(done + 1)

\* !(in_len < length || in_len < PROTO_HEADER_SIZE)
Complete(b) == DataSize(b) >= HeaderLen /\ DataSize(b) >= Length(done + 1)

\* A whole packet goes to the business and move_read_pointer() drops it.  An
\* identity report gives the connection another name, with any time or none.
TakePacket ==
  LET b == Normalised(recv_buf)
      length == Length(done + 1)
  IN  /\ Processes /\ Complete(b)
      /\ recv_buf' = AfterMoveRead(b, length)
      /\ done' = done + 1 /\ handled' = handled + MoveReadCount(b, length)
      /\ count' = count + 1
      /\ waited' = None /\ cleared' = FALSE /\ stamp' \in Times
      /\ damaged' = IF LosesRest(b, length)
                    THEN damaged \union {"full"} ELSE damaged
      /\ UNCHANGED <<wire, peer, got, pc, len, total>>

\* The length field is read even when it has not arrived; then it holds what
\* earlier packets left in the buffer, or lies behind its end
LengthIsStale(b) ==
  /\ DataSize(b) < HeaderLen
  /\ \E i \in b.r + DataSize(b) .. b.r + HeaderLen - 1 :
       i >= b.n \/ (i < b.n /\ b.cell[i] # Junk)

\* A mutant: every look at the incomplete packet starts its time anew
Restarted(time) == 0

\* The start time of the error is recorded once
Started(time) == IF time = None THEN 0 ELSE time

\* An incomplete packet: wait for more bytes, or give the buffer up after
\* kMaxErrorSeconds or when the length is larger than the buffer
AwaitRest ==
  LET b == Normalised(recv_buf)
      is_timed_out == stamp >= kMaxErrorSeconds
  IN  /\ Processes /\ ~Complete(b)
      /\ pc' = "poll"
      /\ \E packet_too_big \in (IF LengthIsStale(b) THEN BOOLEAN ELSE {FALSE}) :
           IF is_timed_out \/ packet_too_big
           THEN /\ recv_buf' = AfterReset(b) /\ stamp' = None /\ waited' = None /\ cleared' = FALSE
                /\ damaged' = damaged \union
                     {IF ~is_timed_out THEN "stale length"
                      ELSE IF waited >= kMaxErrorSeconds THEN "timeout" ELSE "stale timestamp"}
           ELSE /\ recv_buf' = b
                /\ stamp' = Started(stamp)
                /\ waited' = IF waited = None THEN 0 ELSE waited
                /\ UNCHANGED <<cleared, damaged>>
      /\ UNCHANGED <<wire, peer, got, len, total, count, done, handled>>

Server == \/ Poll \/ Recv \/ RecvDrained \/ RecvEnd \/ RecvError \/ Account
          \/ Rest \/ TakePacket \/ AwaitRest

Next == PeerSends \/ PeerCloses \/ PeerResets \/ Tick \/ SameNameRecords \/ SameNameClears
        \/ Server

\* The server keeps going round its loop
Spec == Init /\ [][Next]_vars /\ WF_vars(Server)
-----------------------------------------------------------------------------
TypeOK ==
  /\ wire \in 0 .. Total /\ got \in 0 .. wire /\ handled \in 0 .. got
  /\ done \in 0 .. Len(Ends) /\ count \in 0 .. MaxPerRound
  /\ peer \in {"open", "fin", "rst"}
  /\ pc \in {"poll", "recv", "account", "handle", "closed"}
  /\ IsBuffer(recv_buf) /\ len \in 0 .. Size /\ total \in Nat
  /\ {stamp, waited} \subseteq Times /\ cleared \in BOOLEAN
  /\ damaged \subseteq {"overwritten", "cut", "full", "stale length", "timeout",
                        "stale timestamp"}

\* recv_buf holds exactly the bytes received and not yet handed over; those a
\* recv_fragment() has fetched so far stand right behind its write position.
InSync ==
  Intact /\ pc # "closed" =>
    /\ Holds(recv_buf, handled, got - total)
    /\ total > 0 => \A i \in 0 .. total - 1 : recv_buf.cell[recv_buf.w + i] = got - total + i

\* The business gets the packets the peer sent, whole and in their order
WholePackets == Intact => handled = End(done)

\* A time that others of the name may start and clear still ends the wait: when
\* process() looks at a packet that it saw incomplete kMaxErrorSeconds ago, the
\* buffer is given up, unless another connection cleared the time meanwhile.  Only
\* a look ends it: poll() never reports a peer that has fallen silent.  The clock
\* is one that is not set back.
GivenUpWhenLate ==
  [][Processes /\ pc' = "poll" /\ waited >= kMaxErrorSeconds /\ ~cleared
       => IsEmpty(recv_buf')]_vars

\* Every packet that arrives is handed to the business, as long as the peer
\* sends no more than MaxPerRound of them in a burst.
EveryPacketHandled ==
  wire = Total ~> done = Len(Ends) \/ ~Intact \/ peer # "open"

=============================================================================
