--------------------------- MODULE PacketProcessor ---------------------------
(***************************************************************************)
(* What packet_processor::process() does with whole packets: the filter of *)
(* repeated sessions, the grouping of fragments in the message cache, the  *)
(* business operation, the reply and its saving; and the loop of           *)
(* main_app::handle_received_packets() around it, whose input connection a *)
(* business operation may exchange for another one.  Packets are cut out   *)
(* of the stream in RecvPath and sent in SendPath; here they are whole and *)
(* of one length.                                                          *)
(***************************************************************************)
EXTENDS Integers, Sequences, FiniteSets

CONSTANTS Conns, Sessions,
          Components,    \* handler components of sessions: [known, multi, filters]
          Fragments,     \* fragments of a message of a component that has several
          MaxPerRound,   \* msg-process-count-per-round
          MaxAttempts    \* bound: how often a client sends the message of a session

ASSUME PacketProcessorAssumption ==
  /\ Fragments \in Nat \ {0} /\ MaxPerRound \in Nat \ {0}
  /\ MaxAttempts \in [Sessions -> Nat]
  /\ Components \subseteq
       [Sessions -> [known : BOOLEAN, multi : BOOLEAN, filters : BOOLEAN]]

VARIABLES component,     \* the handler of the command of a session's message
          sending,       \* what a client sent last of a session
          recv_buf,      \* packets received, not yet taken
          cached, parts, \* m_message_cache: its keys, the fragments grouped
          saved,         \* sessions whose replies are saved
          in_buf, input_conn, handle_count,   \* handle_received_packets()
          done,          \* what business operations of a session worked on
          blame          \* what went wrong with a session, see below

processor_vars == <<component, sending, recv_buf, cached, parts, saved, in_buf, input_conn,
                    handle_count, done, blame>>

NoConn == "none"
Packets == UNION {[sid : {s}, num : 1 .. Fragments, attempt : 1 .. MaxAttempts[s]] : s \in Sessions}

\* "ungrouped": a fragment was not grouped; "unparsed": it was not even parsed;
\* "silent": no reply was made; "discarded": it found no space;
\* "resumed": the message was begun again while an earlier one was cached;
\* "moved over": its packet was taken from the buffer in place of another's;
\* "not taken": its packet was handled and is still in the buffer
Blames == {"ungrouped", "unparsed", "silent", "discarded", "resumed", "moved over", "not taken"}

Blamed(s, what) == [blame EXCEPT ![s] = @ \union what]

Multi(s) == component[s].multi
Filters(s) == component[s].filters
Length(s) == IF Multi(s) THEN Fragments ELSE 1

\* A mutant: any bit of the flags ends the message
AnyFinal(p) == TRUE

Final(p) == p.num = Length(p.sid)

ProcessorInit ==
  /\ component \in Components
  /\ sending = [s \in Sessions |-> [conn |-> NoConn, num |-> 0, attempt |-> 0]]
  /\ recv_buf = [c \in Conns |-> <<>>]
  /\ cached = {} /\ parts = [s \in Sessions |-> <<>>] /\ saved = {}
  /\ in_buf = NoConn /\ input_conn = NoConn /\ handle_count = 0
  /\ done = [s \in Sessions |-> <<>>] /\ blame = [s \in Sessions |-> {}]
-----------------------------------------------------------------------------
\* The clients; what they send is in recv_buf after the next recv_to_connection()

\* The first fragment goes out over any connection: a client repeats a message
\* on the same one or on a new one
SendFirst(s, c) ==
  /\ in_buf = NoConn /\ sending[s].attempt < MaxAttempts[s]
  /\ LET n == sending[s].attempt + 1 IN
     /\ sending' = [sending EXCEPT ![s] = [conn |-> c, num |-> 1, attempt |-> n]]
     /\ recv_buf' = [recv_buf EXCEPT ![c] = Append(@, [sid |-> s, num |-> 1, attempt |-> n])]
  /\ UNCHANGED <<component, cached, parts, saved, in_buf, input_conn, handle_count, done, blame>>

SendNext(s) ==
  /\ in_buf = NoConn /\ sending[s].num \in 1 .. Length(s) - 1
  /\ LET n == sending[s].num + 1 IN
     /\ sending' = [sending EXCEPT ![s].num = n]
     /\ recv_buf' = [recv_buf EXCEPT ![sending[s].conn] =
                       Append(@, [sid |-> s, num |-> n, attempt |-> sending[s].attempt])]
  /\ UNCHANGED <<component, cached, parts, saved, in_buf, input_conn, handle_count, done, blame>>
-----------------------------------------------------------------------------
\* handle_received_packets()

Begin(c) ==
  /\ in_buf = NoConn /\ recv_buf[c] # <<>>
  /\ in_buf' = c /\ input_conn' = c /\ handle_count' = 0
  /\ UNCHANGED <<component, sending, recv_buf, cached, parts, saved, done, blame>>

Looping == in_buf # NoConn /\ recv_buf[in_buf] # <<>> /\ handle_count < MaxPerRound

End ==
  /\ in_buf # NoConn /\ ~Looping
  /\ in_buf' = NoConn /\ input_conn' = NoConn /\ handle_count' = 0
  /\ UNCHANGED <<component, sending, recv_buf, cached, parts, saved, done, blame>>

\* process() finds no packet where a redirected reply has led it
HandleNothing ==
  /\ Looping /\ recv_buf[input_conn] = <<>>
  /\ handle_count' = handle_count + 1
  /\ UNCHANGED <<component, sending, recv_buf, cached, parts, saved, in_buf, input_conn, done, blame>>

Packet == Head(recv_buf[input_conn])

\* The packet handled is that of input_conn, the pointer moved that of in_buf
Handles(p, what) ==
  /\ Looping /\ recv_buf[input_conn] # <<>> /\ p = Packet
  /\ handle_count' = handle_count + 1
  /\ recv_buf' = [recv_buf EXCEPT ![in_buf] = Tail(@)]
  /\ LET over == Head(recv_buf[in_buf]) IN
     blame' = IF over = p THEN Blamed(p.sid, what)
              ELSE [Blamed(p.sid, what \union {"not taken"}) EXCEPT
                      ![over.sid] = @ \union {"moved over"}]
  /\ UNCHANGED <<component, sending, in_buf>>

Discard(p) ==
  /\ Handles(p, {}) /\ ~component[p.sid].known
  /\ UNCHANGED <<input_conn, cached, parts, saved, done>>

\* A mutant: only messages of one packet are looked for
RepeatedSingle(p) == p.sid \in saved /\ Filters(p.sid) /\ ~Multi(p.sid)

Repeated(p) == p.sid \in saved /\ Filters(p.sid)

\* fetch_session_info(): each fragment gets the reply
AnswerRepeated(p) ==
  /\ Handles(p, {}) /\ component[p.sid].known /\ Repeated(p)
  /\ UNCHANGED <<input_conn, cached, parts, saved, done>>

Flows(p, what) == Handles(p, what) /\ component[p.sid].known /\ ~Repeated(p)

Unparsed(p) ==
  /\ Flows(p, {"unparsed"})
  /\ UNCHANGED <<input_conn, cached, parts, saved, done>>

\* A mutant: any fragment opens a message
OpensWithAny(p) == p.sid \in cached \/ p.num \in 1 .. Fragments

\* A message is cached, or its first fragment is here
Opens(p) == p.sid \in cached \/ p.num = 1

NotFound(p) ==
  /\ Flows(p, {}) /\ Multi(p.sid) /\ ~Opens(p)
  /\ UNCHANGED <<input_conn, cached, parts, saved, done>>

Begun(p) == IF p.num = 1 /\ parts[p.sid] # <<>> THEN {"resumed"} ELSE {}

GroupFails(p) ==
  /\ Flows(p, {"ungrouped"}) /\ Multi(p.sid) /\ Opens(p)
  /\ cached' = cached \union {p.sid}
  /\ UNCHANGED <<input_conn, parts, saved, done>>

Grouped(p) == Append(parts[p.sid], p)

GroupFragment(p) ==
  /\ Flows(p, Begun(p)) /\ Multi(p.sid) /\ Opens(p) /\ ~Final(p)
  /\ cached' = cached \union {p.sid}
  /\ parts' = [parts EXCEPT ![p.sid] = Grouped(p)]
  /\ UNCHANGED <<input_conn, saved, done>>

\* What the message consists of when its last packet is here
Message(p) == IF Multi(p.sid) THEN Grouped(p) ELSE <<p>>

\* A mutant: the message is released by its business, with or without
NeverReleased(p, out) == FALSE

Released(p, out) == Multi(p.sid) /\ out # "discarded"

Saves(p, out, target) == Filters(p.sid) /\ out = "written"

\* The last packet: validation, business, reply; the business may choose another
\* connection for the reply, which is then the input of the rest of the loop
Operate(p, ok, out, target) ==
  /\ Multi(p.sid) => Opens(p) /\ Final(p)
  /\ ok \/ target = input_conn
  /\ Flows(p, (IF Multi(p.sid) THEN Begun(p) ELSE {}) \union
              (IF out = "written" THEN {} ELSE {out}))
  /\ input_conn' = target
  /\ done' = IF ok THEN [done EXCEPT ![p.sid] = Append(@, Message(p))] ELSE done
  /\ IF Released(p, out)
     THEN /\ cached' = cached \ {p.sid}
          /\ parts' = [parts EXCEPT ![p.sid] = <<>>]
     ELSE /\ cached' = IF Multi(p.sid) THEN cached \union {p.sid} ELSE cached
          /\ parts' = IF Multi(p.sid) THEN [parts EXCEPT ![p.sid] = Message(p)] ELSE parts
  /\ saved' = IF Saves(p, out, target) THEN saved \union {p.sid} ELSE saved

Outputs == {"silent", "written", "discarded"}

Process == \E p \in Packets :
  \/ Discard(p) \/ AnswerRepeated(p) \/ Unparsed(p)
  \/ NotFound(p) \/ GroupFails(p) \/ GroupFragment(p)
  \/ \E ok \in BOOLEAN, out \in Outputs, target \in Conns : Operate(p, ok, out, target)

ProcessorNext ==
  \/ \E s \in Sessions : SendNext(s) \/ \E c \in Conns : SendFirst(s, c)
  \/ \E c \in Conns : Begin(c)
  \/ HandleNothing \/ Process \/ End

ProcessorSpec == ProcessorInit /\ [][ProcessorNext]_processor_vars
-----------------------------------------------------------------------------
ProcessorTypeOK ==
  /\ component \in Components
  /\ sending \in [Sessions -> [conn : Conns \union {NoConn}, num : 0 .. Fragments, attempt : Nat]]
  /\ recv_buf \in [Conns -> Seq(Packets)]
  /\ cached \subseteq Sessions /\ saved \subseteq Sessions
  /\ parts \in [Sessions -> Seq(Packets)]
  /\ \A s \in Sessions \ cached : parts[s] = <<>>
  /\ {in_buf, input_conn} \subseteq Conns \union {NoConn}
  /\ handle_count \in 0 .. MaxPerRound
  /\ done \in [Sessions -> Seq(Seq(Packets))]
  /\ blame \in [Sessions -> SUBSET Blames]

Works(s) == {done[s][i] : i \in DOMAIN done[s]}

\* A business operation begins with the first fragment of its message and ends with
\* the last, unless a grouping failed; it sees all of them once and in order, unless
\* one was lost on the way or handled twice, or the message was begun again on top of
\* an earlier one.
BusinessOnWhole == \A s \in Sessions : \A w \in Works(s) :
  /\ w[Len(w)].num = Length(s)
  /\ w[1].num = 1 \/ "ungrouped" \in blame[s]
  /\ \/ \A i \in 1 .. Length(s) : i \in DOMAIN w /\ w[i].num = i /\ w[i].attempt = w[1].attempt
     \/ blame[s] \intersect {"ungrouped", "unparsed", "resumed", "moved over", "not taken"} # {}

\* The business of a session that is filtered runs a second time only when the first
\* left no reply in the buffer.
RepeatedOnlyUnanswered == \A s \in Sessions :
  Filters(s) /\ Len(done[s]) > 1 => blame[s] \intersect {"silent", "discarded"} # {}

\* A message is still in the cache behind its last fragment only when the reply found
\* no space.
LeftOnlyByDiscard == \A s \in cached :
  (\E i \in DOMAIN parts[s] : Final(parts[s][i])) => "discarded" \in blame[s]

\* A message sent n times is worked on n times at most, in whatever way its fragments
\* and those of its repetitions meet in the cache, unless a redirected reply left its
\* packet in the buffer.
OncePerSending == \A s \in Sessions :
  Len(done[s]) <= sending[s].attempt \/ "not taken" \in blame[s]

=============================================================================
