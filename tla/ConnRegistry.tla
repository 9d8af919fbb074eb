---------------------------- MODULE ConnRegistry ----------------------------
(***************************************************************************)
(* The connections of one process: the maps of peers, pollers and          *)
(* descriptors of its listener and its requester, the connection cache     *)
(* with the names of clients and upstream servers, and the thread that     *)
(* goes round polling the listener, polling the requester and running the  *)
(* heartbeat task.                                                         *)
(*                                                                         *)
(* A net_connection is its address, a member of Objects; an address is     *)
(* allocated again only when nothing remembers it.  `damaged` collects the *)
(* reasons why a cache entry may point to a connection that is not its     *)
(* own; the model stops there.                                             *)
(***************************************************************************)
EXTENDS Integers, Sequences, FiniteSets, FiniteSetsExt

CONSTANTS Clients,         \* names clients may report
          Servers,         \* names of the configured upstream servers
          Group,           \* the names of one server type, in the order of m_type_group
          Objects,         \* bound: addresses of net_connection, positive integers
          Fds,             \* bound: descriptors besides the listening one
          MaxListened,     \* m_max_connection_count of the listener's poller
          MaxLeaks         \* bound: connections lost by a refused accept

Sides == {"listener", "requester"}
Listening == 0             \* m_listening_conn
None == 0                  \* no conn_detail
INVALID_SOCK_FD == -1
Names == Clients \union Servers
NoName == "no name"

ASSUME ConnRegistryAssumption ==
  /\ Objects \subseteq Nat \ {0} /\ Fds \subseteq Nat \ {0}
  /\ IsFiniteSet(Objects) /\ IsFiniteSet(Fds) /\ IsFiniteSet(Servers)
  /\ Group \in Seq(Names) /\ NoName \notin Names /\ MaxListened \in Nat \ {0} /\ MaxLeaks \in Nat

VARIABLES reg,             \* what the process and its kernel hold, see Registry
          cache,           \* name -> [known, detail, fd]
          turn,            \* what the thread does
          active,          \* events of this poll not yet treated
          todo,            \* cache entries the heartbeat task has to visit
          up,              \* upstream servers that answer
          closed,          \* connections the peer has closed
          damaged

vars == <<reg, cache, turn, active, todo, up, closed, damaged>>

world == <<up, closed>>

Intact == damaged = {}
Registered(side) == {reg.peers[side][fd] : fd \in Fds} \ {None}
AllRegistered == UNION {Registered(side) : side \in Sides}

\* The fields of a new connection, and what is kept of a destroyed one
Blank == [fd |-> INVALID_SOCK_FD, owner |-> NoName, validated |-> FALSE]

\* Addresses nothing remembers
Unused == Objects \ (reg.live \union active \union {cache[n].detail : n \in Names})

Init ==
  /\ reg = [live      |-> {},              \* allocated connections
            open      |-> {},              \* open descriptors
            conn      |-> [o \in Objects |-> Blank],
            peers     |-> [side \in Sides |-> [fd \in Fds |-> None]],
            monitored |-> [side \in Sides |-> IF side = "listener" THEN {Listening} ELSE {}],
            count     |-> [side \in Sides |-> IF side = "listener" THEN 1 ELSE 0]]
  /\ cache = [n \in Names |-> [known |-> n \in Servers, detail |-> None,
                               fd |-> INVALID_SOCK_FD]]
  /\ turn = "poll listener" /\ active = {} /\ todo = {}
  /\ up = Servers /\ closed = {} /\ damaged = {}
-----------------------------------------------------------------------------
\* The calls of tcp_base and net_poller, as functions of the registry

MaxCount(side) == IF side = "listener" THEN MaxListened ELSE Cardinality(Servers)

\* create_net_connection() for an accepted or connected descriptor
Created(r, o, fd) == [r EXCEPT !.live = @ \union {o}, !.open = @ \union {fd},
                               !.conn[o] = [Blank EXCEPT !.fd = fd]]

PollerHasRoom(r, side) == r.count[side] < MaxCount(side)

\* add_monitored_connection(), and add_connection() for a new descriptor
Monitored(r, side, o) == [r EXCEPT !.monitored[side] = @ \union {o},
                                   !.count[side] = @ + 1]
Added(r, side, o) == [r EXCEPT !.peers[side][r.conn[o].fd] = o]

\* close(): the kernel forgets the descriptor and what its poller had of it
Closed(r, fd) ==
  [r EXCEPT !.open = @ \ {fd},
            !.monitored = [side \in Sides |-> {o \in @[side] :
                                                 o = Listening \/ r.conn[o].fd # fd}]]

\* A mutant: the connection is destroyed before it leaves the poller, whose
\* EPOLL_CTL_DEL then fails
DeletedLate(r, side, o) ==
  LET fd == r.conn[o].fd
  IN  IF r.peers[side][fd] = None THEN r
      ELSE [Closed([r EXCEPT !.live = @ \ {o}, !.peers[side][fd] = None], fd)
              EXCEPT !.conn[o] = Blank]

\* delete_connection(): nothing at all unless the map has the descriptor
Deleted(r, side, o) ==
  LET fd == r.conn[o].fd
  IN  IF r.peers[side][fd] = None THEN r
      ELSE Closed([r EXCEPT !.monitored[side] = @ \ {o},
                            !.count[side] = @ - 1,
                            !.live = @ \ {o}, !.conn[o] = Blank,
                            !.peers[side][fd] = None], fd)

\* ACCEPT_FAILED, CONNECT_FAILED: what was built up to r
Failed(r, side, o) == Closed(Deleted(r, side, o), r.conn[o].fd)
-----------------------------------------------------------------------------
\* The peers

Owner(o) == reg.conn[o].owner

Connection(n) == {o \in Registered("requester") : Owner(o) = n}

\* The peer of an accepted connection closes it
PeerCloses ==
  /\ Intact
  /\ \E o \in Registered("listener") \ closed : closed' = closed \union {o}
  /\ UNCHANGED <<reg, cache, turn, active, todo, up, damaged>>

\* An upstream server ends, or hangs with its connections open
ServerStops(n) ==
  /\ Intact /\ n \in up /\ up' = up \ {n}
  /\ closed' \in {closed, closed \union Connection(n)}
  /\ UNCHANGED <<reg, cache, turn, active, todo, damaged>>

\* It is there again and knows nothing of earlier connections
ServerStarts(n) ==
  /\ Intact /\ n \notin up /\ up' = up \union {n}
  /\ closed' = closed \union Connection(n)
  /\ UNCHANGED <<reg, cache, turn, active, todo, damaged>>
-----------------------------------------------------------------------------
\* poll_and_process()

PollTurn(side) == IF side = "listener" THEN "poll listener" ELSE "poll requester"

Poll(side) ==
  /\ Intact /\ turn = PollTurn(side)
  /\ turn' = side
  /\ \E ready \in SUBSET reg.monitored[side] :
        /\ reg.monitored[side] \intersect closed \subseteq ready
        /\ active' = ready
  /\ UNCHANGED <<reg, cache, todo, world, damaged>>

InEvents(side) == Intact /\ turn = side

\* accept_new_connection(), up to the stage it reaches
Accept(stage) ==
  /\ InEvents("listener") /\ Listening \in active
  /\ active' = active \ {Listening}
  /\ Unused # {} /\ reg.open # Fds
  /\ \E o \in {Min(Unused)}, fd \in {Min(Fds \ reg.open)} :
     \E r1 \in {Created(reg, o, fd)} : \E r2 \in {Monitored(r1, "listener", o)} :
     \E r3 \in {Added(r2, "listener", o)} :
        /\ stage # "refused" => PollerHasRoom(r1, "listener")
        /\ reg' = CASE stage = "refused"     -> Failed(r1, "listener", o)
                    [] stage = "blocking"    -> Failed(r3, "listener", o)
                    [] stage = "accepted"    -> r3
        /\ Cardinality(reg'.live \ AllRegistered') <= MaxLeaks
  /\ UNCHANGED <<cache, turn, todo, world, damaged>>

\* accept() itself fails, or malloc() for the connection
AcceptNothing ==
  /\ InEvents("listener") /\ Listening \in active
  /\ active' = active \ {Listening}
  /\ UNCHANGED <<reg, cache, turn, todo, world, damaged>>

\* A mutant: the entry of the owner keeps the connection
ShutConnectionOnly(o) ==
  LET n == Owner(o)
  IN  cache' = IF n = NoName THEN cache ELSE [cache EXCEPT ![n].fd = INVALID_SOCK_FD]

\* shut_bad_connection(): the entry of the owner
ClearOwner(o) ==
  LET n == Owner(o)
  IN  cache' = IF n = NoName THEN cache
               ELSE [cache EXCEPT ![n].fd = INVALID_SOCK_FD, ![n].detail = None]

\* recv() finds the end of the stream: shut_bad_connection()
Shut(side) ==
  /\ InEvents(side)
  /\ \E o \in active \intersect closed :
        /\ active' = active \ {o}
        /\ ClearOwner(o)
        /\ reg' = Deleted(reg, side, o)
        /\ closed' = closed \ {o}
  /\ UNCHANGED <<turn, todo, up, damaged>>

\* Bytes that are no identity report; recv_fragment() reads on to the end of
\* the stream, so there are none with it
OtherBytes(side) ==
  /\ InEvents(side)
  /\ \E o \in active \ ({Listening} \union closed) : active' = active \ {o}
  /\ UNCHANGED <<reg, cache, turn, todo, world, damaged>>

\* identity_report_request_handling: the name has no entry or no connection
Free(n) == ~cache[n].known \/ cache[n].detail = None

\* A mutant: the connection that holds the name is shut in favour of the new one
ShutHolder(n) ==
  /\ reg' = Deleted(reg, "listener", cache[n].detail)
  /\ cache' = [cache EXCEPT ![n].fd = INVALID_SOCK_FD, ![n].detail = None]
  /\ UNCHANGED damaged

\* RET_FAILED: only the peer_name, which nothing goes by, is set already
Refuse(n) == UNCHANGED <<reg, cache, damaged>>

\* A client reports its name: its entry is made or taken, or the report is
\* refused
ReportIdentity(n) ==
  /\ InEvents("listener")
  /\ \E o \in active \ ({Listening} \union closed) :
        /\ active' = active \ {o}
        /\ IF Free(n)
           THEN /\ cache' = [cache EXCEPT ![n] = [known |-> TRUE, detail |-> o,
                                                  fd |-> reg.conn[o].fd]]
                /\ reg' = [reg EXCEPT !.conn[o].owner = n, !.conn[o].validated = TRUE]
                /\ damaged' = (IF Owner(o) # NoName THEN {"renamed"} ELSE {})
                                \union (IF n \in Servers THEN {"address"} ELSE {})
           ELSE Refuse(n)
  /\ UNCHANGED <<turn, todo, world>>

\* identity_report_response_handling
IdentityResponse ==
  /\ InEvents("requester")
  /\ \E o \in active \ closed :
        /\ active' = active \ {o}
        /\ reg' = [reg EXCEPT !.conn[o].validated = TRUE]
  /\ UNCHANGED <<cache, turn, todo, world, damaged>>

\* send_result_packets() ends the round of a side
EndEvents ==
  /\ Intact /\ turn \in Sides /\ active = {}
  /\ turn' = IF turn = "listener" THEN "poll requester" ELSE "tasks"
  /\ UNCHANGED <<reg, cache, active, todo, world, damaged>>
-----------------------------------------------------------------------------
\* check_and_execute() and default_heartbeat_timed_task()

NotDue ==
  /\ Intact /\ turn = "tasks" /\ turn' = "poll listener"
  /\ UNCHANGED <<reg, cache, active, todo, world, damaged>>

BeginHeartbeat ==
  /\ Intact /\ turn = "tasks" /\ turn' = "heartbeat"
  /\ todo' = {n \in Names : cache[n].known}
  /\ UNCHANGED <<reg, cache, active, world, damaged>>

EndHeartbeat ==
  /\ Intact /\ turn = "heartbeat" /\ todo = {} /\ turn' = "poll listener"
  /\ UNCHANGED <<reg, cache, active, todo, world, damaged>>

Visiting(n) == Intact /\ turn = "heartbeat" /\ n \in todo /\ todo' = todo \ {n}

\* update_connection_status(): the connection of an upstream server is there
Connected(n) ==
  /\ cache[n].detail # None
  /\ cache[n].fd # INVALID_SOCK_FD
  /\ reg.peers["requester"][cache[n].fd] # None
  /\ Owner(reg.peers["requester"][cache[n].fd]) = n

\* A client, whose validation is looked at, or a server that gets a heartbeat
VisitAlive(n) ==
  /\ Visiting(n)
  /\ n \in Servers => Connected(n)
  /\ UNCHANGED <<reg, cache, turn, active, world, damaged>>

Disconnected(n) == [cache EXCEPT ![n].fd = INVALID_SOCK_FD, ![n].detail = None]

\* DISCONNECT: it has not answered for too long.  The name that is logged afterwards
\* is read from the freed connection; like all logging it is left out
VisitSilent(n) ==
  /\ Visiting(n) /\ n \in Servers \ up /\ Connected(n)
  /\ \E o \in {reg.peers["requester"][cache[n].fd]} :
        /\ reg' = Deleted(reg, "requester", o)
        /\ closed' = closed \ {o}
  /\ cache' = Disconnected(n)
  /\ UNCHANGED <<turn, active, up, damaged>>

CanConnect == PollerHasRoom(reg, "requester") /\ Unused # {} /\ reg.open # Fds

\* connect_server() fails
VisitUnreachable(n) ==
  /\ Visiting(n) /\ n \in Servers /\ ~Connected(n) /\ ~(CanConnect /\ n \in up)
  /\ cache' = Disconnected(n)
  /\ UNCHANGED <<reg, turn, active, world, damaged>>

\* connect_server() succeeds.  A descriptor that is writable is enough for it, so
\* the connection may have failed: a poll that follows finds its end.  Or the
\* kernel of a server that hangs has taken it
VisitReachable(n) ==
  /\ Visiting(n) /\ n \in Servers /\ ~Connected(n) /\ CanConnect
  /\ \E o \in {Min(Unused)}, fd \in {Min(Fds \ reg.open)} :
        /\ \E r \in {Added(Monitored(Created(reg, o, fd), "requester", o), "requester", o)} :
              reg' = [r EXCEPT !.conn[o].owner = n]
        /\ cache' = [cache EXCEPT ![n].fd = fd, ![n].detail = o]
        /\ closed' \in IF n \in up THEN {closed} ELSE {closed, closed \union {o}}
  /\ UNCHANGED <<turn, active, up, damaged>>
-----------------------------------------------------------------------------
\* pick_one_connection(): the entry at the place the policy gives, or, when it
\* has no connection, the first one from the beginning that has

Nodes == {i \in DOMAIN Group : cache[Group[i]].known}
Alive == {i \in Nodes : cache[Group[i]].detail # None}

Smallest(places) == IF places = {} THEN NoName ELSE Group[Min(places)]

\* A mutant: the search goes on from the place
PickFrom(place) == Smallest({i \in Alive : i >= place})

Pick(place) == IF place \in Alive THEN Group[place] ELSE Smallest(Alive)
-----------------------------------------------------------------------------
Events == \/ \E side \in Sides : Poll(side) \/ Shut(side) \/ OtherBytes(side)
          \/ \E stage \in {"refused", "blocking", "accepted"} : Accept(stage)
          \/ AcceptNothing
          \/ \E n \in Names : ReportIdentity(n)
          \/ IdentityResponse \/ EndEvents

Tasks == \/ NotDue \/ BeginHeartbeat \/ EndHeartbeat
         \/ \E n \in Names : \/ VisitAlive(n) \/ VisitSilent(n)
                             \/ VisitUnreachable(n) \/ VisitReachable(n)

Peers == PeerCloses \/ \E n \in Servers : ServerStops(n) \/ ServerStarts(n)

Next == Events \/ Tasks \/ Peers

\* The loop goes round; the heartbeat task is due again and again
Spec == Init /\ [][Next]_vars /\ WF_vars(Events \/ Tasks) /\ SF_vars(BeginHeartbeat)
-----------------------------------------------------------------------------
Connections == [fd : Fds \union {INVALID_SOCK_FD}, owner : Names \union {NoName},
                validated : BOOLEAN]

Registry == [live : SUBSET Objects, open : SUBSET Fds, conn : [Objects -> Connections],
             peers : [Sides -> [Fds -> Objects \union {None}]],
             monitored : [Sides -> SUBSET (Objects \union {Listening})],
             count : [Sides -> Nat]]

TypeOK ==
  /\ reg \in Registry /\ \A side \in Sides : reg.count[side] <= MaxCount(side)
  /\ cache \in [Names -> [known : BOOLEAN, detail : Objects \union {None},
                          fd : Fds \union {INVALID_SOCK_FD}]]
  /\ turn \in Sides \union {"poll listener", "poll requester", "tasks", "heartbeat"}
  /\ active \subseteq Objects \union {Listening} /\ todo \subseteq Names
  /\ up \subseteq Servers /\ closed \subseteq AllRegistered
  /\ damaged \subseteq {"renamed", "address"}

\* Map, poller and descriptors of each side agree, also after an accept that
\* failed half way: each descriptor of the map is open and is that of its
\* connection, exactly those are polled, the poller counts them, and an open
\* descriptor is in the map of one side.
RegistryAgrees ==
  /\ \A side \in Sides :
        /\ \A fd \in Fds : reg.peers[side][fd] # None =>
              /\ fd \in reg.open
              /\ reg.peers[side][fd] \in reg.live
              /\ reg.conn[reg.peers[side][fd]].fd = fd
        /\ reg.monitored[side] \ {Listening} = Registered(side)
        /\ reg.count[side] = Cardinality(reg.monitored[side])
  /\ \A fd \in reg.open : \E side \in Sides : \A s \in Sides :
        reg.peers[s][fd] # None <=> s = side

\* An event of the poll never speaks of a connection that an earlier event of
\* the same poll destroyed.
EventsAreLive == turn \in Sides => active \ {Listening} \subseteq Registered(turn)

EntriesAgree ==
  \A n \in Names :
    IF cache[n].detail = None THEN cache[n].fd = INVALID_SOCK_FD
    ELSE /\ cache[n].detail \in AllRegistered
         /\ cache[n].fd = reg.conn[cache[n].detail].fd
         /\ Owner(cache[n].detail) = n

OwnersAgree ==
  \A o \in AllRegistered : Owner(o) # NoName => cache[Owner(o)].detail = o

\* A cache entry with a connection points to a registered one with its
\* descriptor, owned by this entry; one without has no descriptor.  So the
\* sending functions of the cache never use a freed connection or a
\* descriptor that belongs to another one by now.  And the owner's entry, which
\* the end of a connection clears, is held by this connection and not by a
\* later one of the same name.
CacheAgrees == Intact => EntriesAgree /\ OwnersAgree

\* Whatever the offset, a message for a type goes to a registered connection of
\* that type as long as there is one.
PickFindsAlive ==
  Intact => \A place \in Nodes :
    IF Alive # {} THEN Pick(place) # NoName /\ cache[Pick(place)].detail \in AllRegistered
    ELSE Pick(place) = NoName

\* A client is refused only while another connection of its name, or itself,
\* is registered, whether its peer is still there or not.
RefusedOnlyWhileHeld ==
  [][\A n \in Clients \ Servers : ReportIdentity(n) /\ reg' = reg =>
        \E o \in Registered("listener") : Owner(o) = n]_vars

\* An upstream server that stays up gets and keeps a connection, whatever
\* clients come, go and fail meanwhile.
UpstreamReconnected ==
  \A n \in Servers :
    <>[](n \in up) => <>[](~Intact \/ (Connected(n) /\ cache[n].detail \notin closed))
=============================================================================
