---------------------------- MODULE TcpApp_proofs ----------------------------
(***************************************************************************)
(* Two proofs about the server of the template tcp_app.                    *)
(*                                                                         *)
(* Its connections (ConnRegistry), for every set of clients and upstream   *)
(* servers and every number of addresses and descriptors: the maps, the    *)
(* pollers, the descriptors and the connection cache agree with each other *)
(* as long as no client has reported a name that was not its own to report.*)
(*                                                                         *)
(* Its packets (PacketProcessor), for any number of connections, sessions, *)
(* fragments and repetitions: a business operation gets each message whole *)
(* and once for each time it was sent, unless one of the mishaps the model *)
(* names has happened to the session.                                      *)
(***************************************************************************)
EXTENDS ConnRegistry, PacketProcessor, FiniteSetTheorems, SequenceTheorems,
        WellFoundedInduction, TLAPS
-----------------------------------------------------------------------------
\* The connections
\* A set of natural numbers that is not empty has a least member.
LEMMA LeastIn ==
  ASSUME NEW S \in SUBSET Nat, S # {}
  PROVE  Min(S) \in S /\ \A y \in S : Min(S) <= y
<1>1. PICK x \in S : \A y \in S : <<y, x>> \notin OpToRel(<, Nat)
  BY NatLessThanWellFounded, WFMin
<1>2. \A y \in S : ~(y < x)
  BY <1>1 DEF OpToRel
<1>3. \A y \in S : x <= y
  BY <1>2
<1>4. \E z \in S : \A y \in S : z =< y
  BY <1>3
<1> QED BY <1>4 DEF Min
-----------------------------------------------------------------------------
\* What RegistryAgrees says of reg, of any registry
Held(r, side) == {r.peers[side][fd] : fd \in Fds} \ {None}

MapAgrees(r, side) == \A fd \in Fds : r.peers[side][fd] # None =>
  /\ fd \in r.open
  /\ r.peers[side][fd] \in r.live
  /\ r.conn[r.peers[side][fd]].fd = fd

PollerAgrees(r, side) ==
  /\ r.monitored[side] \ {Listening} = Held(r, side)
  /\ r.count[side] = Cardinality(r.monitored[side])

OneSide(r) == \A fd \in r.open : \E side \in Sides : \A s \in Sides :
  r.peers[s][fd] # None <=> s = side

Agrees(r) ==
  /\ \A side \in Sides : MapAgrees(r, side) /\ PollerAgrees(r, side)
  /\ OneSide(r)

\* Constants that the type of a registry needs.
LEMMA Types ==
  /\ Objects \subseteq Nat \ {0} /\ Fds \subseteq Nat \ {0}
  /\ None = 0 /\ Listening = 0 /\ None \notin Objects
  /\ INVALID_SOCK_FD = -1 /\ INVALID_SOCK_FD \notin Fds
  /\ NoName \notin Names
  /\ IsFiniteSet(Objects) /\ IsFiniteSet(Servers) /\ MaxListened \in Nat
BY ConnRegistryAssumption DEF None, Listening, INVALID_SOCK_FD

\* What is polled is finite.
LEMMA Finite ==
  ASSUME NEW r \in Registry, NEW side \in Sides
  PROVE  /\ IsFiniteSet(r.monitored[side]) /\ Cardinality(r.monitored[side]) \in Nat
<1>1. IsFiniteSet(Objects \union {Listening})
  BY Types, FS_AddElement
<1>2. r.monitored[side] \subseteq Objects \union {Listening}
  BY DEF Registry
<1> QED BY <1>1, <1>2, FS_Subset, FS_CardinalityType

\* The invariant of the module is that of the registry at hand.
LEMMA AgreesIsInvariant == RegistryAgrees <=> Agrees(reg)
BY DEF RegistryAgrees, Agrees, MapAgrees, PollerAgrees, OneSide, Registered, Held, Sides

\* A side holds addresses.
LEMMA HeldObjects ==
  ASSUME NEW r \in Registry, NEW side \in Sides
  PROVE  Held(r, side) \subseteq Objects /\ None \notin Held(r, side)
BY DEF Held, Registry

\* The descriptor of a registered connection is the only one that leads to it,
\* on its own side.
LEMMA HeldUnder ==
  ASSUME NEW r \in Registry, Agrees(r), NEW side \in Sides, NEW o \in Held(r, side)
  PROVE  /\ o \in Objects /\ o # None /\ o # Listening /\ o \in r.live
         /\ r.conn[o].fd \in Fds /\ r.conn[o].fd \in r.open
         /\ r.peers[side][r.conn[o].fd] = o
         /\ o \in r.monitored[side]
         /\ \A s \in Sides, fd \in Fds : r.peers[s][fd] = o => s = side /\ fd = r.conn[o].fd
         /\ \A s \in Sides \ {side} : r.peers[s][r.conn[o].fd] = None /\ o \notin Held(r, s)
<1>1. PICK fd \in Fds : r.peers[side][fd] = o /\ o # None
  BY DEF Held
<1>2. r.peers[side][fd] \in Objects \union {None}
  BY DEF Registry
<1>3. o \in Objects /\ fd \in r.open /\ o \in r.live /\ r.conn[o].fd = fd
  BY <1>1, <1>2 DEF Agrees, MapAgrees
<1>4. \A s \in Sides \ {side} : r.peers[s][fd] = None
  BY <1>1, <1>3 DEF Agrees, OneSide
<1>5. \A s \in Sides, f \in Fds : r.peers[s][f] = o => s = side /\ f = fd
  BY <1>1, <1>3, <1>4 DEF Agrees, MapAgrees
<1>6. \A s \in Sides \ {side} : o \notin Held(r, s)
  BY <1>5 DEF Held
<1> QED BY <1>1, <1>3, <1>4, <1>5, <1>6, Types DEF Agrees, PollerAgrees, Listening, None
-----------------------------------------------------------------------------
\* The connection o is gone from its side, and nothing else has changed.
Gone(r, d, side, o) ==
  /\ d \in Registry /\ Agrees(d)
  /\ Held(d, side) = Held(r, side) \ {o}
  /\ \A s \in Sides \ {side} : Held(d, s) = Held(r, s)
  /\ d.conn = [r.conn EXCEPT ![o] = Blank]
  /\ d.count = [r.count EXCEPT ![side] = @ - 1]
  /\ d.open = r.open \ {r.conn[o].fd}

\* delete_connection() of a registered connection.
LEMMA Deleting ==
  ASSUME NEW r \in Registry, Agrees(r), NEW side \in Sides, NEW o \in Held(r, side)
  PROVE  Gone(r, Deleted(r, side, o), side, o)
<1> DEFINE fd == r.conn[o].fd
           d == Deleted(r, side, o)
<1>1. /\ o \in Objects /\ o # None /\ o # Listening /\ o \in r.live
      /\ fd \in Fds /\ fd \in r.open /\ r.peers[side][fd] = o /\ o \in r.monitored[side]
      /\ \A s \in Sides, f \in Fds : r.peers[s][f] = o => s = side /\ f = fd
      /\ \A s \in Sides \ {side} : r.peers[s][fd] = None /\ o \notin Held(r, s)
  BY HeldUnder
<1>2. Blank \in Connections
  BY DEF Blank, Connections
<1> DEFINE e == [r EXCEPT !.monitored[side] = @ \ {o}, !.count[side] = @ - 1,
                          !.live = @ \ {o}, !.conn[o] = Blank, !.peers[side][fd] = None]
<1>3. /\ d = Closed(e, fd)
      /\ e.live = r.live \ {o} /\ e.open = r.open
      /\ e.conn = [r.conn EXCEPT ![o] = Blank]
      /\ e.peers = [r.peers EXCEPT ![side][fd] = None]
      /\ e.count = [r.count EXCEPT ![side] = @ - 1]
      /\ e.monitored = [r.monitored EXCEPT ![side] = @ \ {o}]
      /\ DOMAIN e = {"live", "open", "conn", "peers", "monitored", "count"}
  BY <1>1 DEF Deleted, Registry
<1> HIDE DEF e
<1>4. /\ d.live = r.live \ {o}
      /\ d.open = r.open \ {fd}
      /\ d.conn = [r.conn EXCEPT ![o] = Blank]
      /\ d.peers = [r.peers EXCEPT ![side][fd] = None]
      /\ d.count = [r.count EXCEPT ![side] = @ - 1]
      /\ d.monitored = [s \in Sides |-> {p \in e.monitored[s] : p = Listening \/ e.conn[p].fd # fd}]
      /\ d = [live |-> d.live, open |-> d.open, conn |-> d.conn, peers |-> d.peers,
              monitored |-> d.monitored, count |-> d.count]
  <2> DEFINE m == [s \in Sides |-> {p \in e.monitored[s] : p = Listening \/ e.conn[p].fd # fd}]
  <2>1. d = [e EXCEPT !.open = @ \ {fd}, !.monitored = m]
    BY <1>3 DEF Closed
  <2> HIDE DEF m
  <2>2. /\ d.live = e.live /\ d.open = e.open \ {fd} /\ d.conn = e.conn /\ d.peers = e.peers
        /\ d.count = e.count /\ d.monitored = m
        /\ d = [live |-> d.live, open |-> d.open, conn |-> d.conn, peers |-> d.peers,
                monitored |-> d.monitored, count |-> d.count]
    BY <1>3, <2>1
  <2> QED BY <1>3, <2>2 DEF m
<1> HIDE DEF d
<1>5. \A s \in Sides, f \in Fds :
        d.peers[s][f] = IF s = side /\ f = fd THEN None ELSE r.peers[s][f]
  BY <1>1, <1>4 DEF Registry
<1>6. Held(d, side) = Held(r, side) \ {o} /\ \A s \in Sides \ {side} : Held(d, s) = Held(r, s)
  BY <1>1, <1>5 DEF Held
<1>7. \A s \in Sides : d.monitored[s] = r.monitored[s] \ {o}
  <2> SUFFICES ASSUME NEW s \in Sides PROVE d.monitored[s] = r.monitored[s] \ {o}
    OBVIOUS
  <2>1. e.monitored[s] = r.monitored[s] \ {o}
    BY <1>1, <1>3 DEF Registry, Agrees, PollerAgrees
  <2>2. ASSUME NEW p \in r.monitored[s], p # o, p # Listening PROVE e.conn[p].fd # fd
    <3>1. p \in Held(r, s)
      BY <2>2 DEF Agrees, PollerAgrees
    <3>2. r.peers[s][r.conn[p].fd] = p /\ p \in Objects /\ p # None
      BY <3>1, HeldUnder
    <3>3. e.conn[p] = r.conn[p]
      BY <3>2, <2>2, <1>3 DEF Registry
    <3> QED BY <1>1, <2>2, <3>2, <3>3
  <2> QED BY <2>1, <2>2, <1>4
<1>8. r.count[side] = Cardinality(r.monitored[side]) /\ r.count[side] - 1 \in Nat
      /\ Cardinality(r.monitored[side] \ {o}) = r.count[side] - 1
  <2>1. IsFiniteSet(r.monitored[side]) /\ Cardinality(r.monitored[side]) \in Nat
    BY Finite
  <2>2. Cardinality(r.monitored[side] \ {o}) = Cardinality(r.monitored[side]) - 1
    BY <1>1, <2>1, FS_RemoveElement
  <2>3. Cardinality(r.monitored[side] \ {o}) \in Nat
    BY <2>1, FS_RemoveElement, FS_CardinalityType
  <2> QED BY <2>1, <2>2, <2>3 DEF Agrees, PollerAgrees
<1>9. d \in Registry
  <2>1. d.live \in SUBSET Objects /\ d.open \in SUBSET Fds
    BY <1>4 DEF Registry
  <2>2. d.conn \in [Objects -> Connections]
    BY <1>2, <1>4 DEF Registry
  <2>3. d.peers \in [Sides -> [Fds -> Objects \union {None}]]
    BY <1>1, <1>4 DEF Registry
  <2>4. d.monitored \in [Sides -> SUBSET (Objects \union {Listening})]
    <3>1. d.monitored = [s \in Sides |-> d.monitored[s]]
      BY <1>4
    <3>2. \A s \in Sides : d.monitored[s] \in SUBSET (Objects \union {Listening})
      BY <1>7 DEF Registry
    <3> QED BY <3>1, <3>2
  <2>5. d.count \in [Sides -> Nat]
    BY <1>4, <1>8 DEF Registry
  <2> QED BY <1>4, <2>1, <2>2, <2>3, <2>4, <2>5 DEF Registry
<1>10. Agrees(d)
  <2>1. ASSUME NEW s \in Sides PROVE MapAgrees(d, s)
    BY <1>1, <1>4, <1>5 DEF Agrees, MapAgrees, Registry
  <2>2. ASSUME NEW s \in Sides PROVE PollerAgrees(d, s)
    <3>1. d.monitored[s] \ {Listening} = Held(d, s)
      BY <1>1, <1>6, <1>7 DEF Agrees, PollerAgrees
    <3>2. CASE s = side
      BY <3>1, <3>2, <1>4, <1>7, <1>8 DEF PollerAgrees, Registry
    <3>3. CASE s # side
      <4>1. o \notin r.monitored[s]
        BY <1>1, <3>3 DEF Agrees, PollerAgrees
      <4>2. d.monitored[s] = r.monitored[s]
        BY <4>1, <1>7
      <4>3. d.count[s] = r.count[s]
        BY <3>3, <1>4 DEF Registry
      <4> QED BY <3>1, <4>2, <4>3 DEF Agrees, PollerAgrees
    <3> QED BY <3>2, <3>3
  <2>3. OneSide(d)
    BY <1>4, <1>5 DEF Agrees, OneSide, Registry
  <2> QED BY <2>1, <2>2, <2>3 DEF Agrees
<1> QED BY <1>4, <1>6, <1>9, <1>10 DEF d, Gone
-----------------------------------------------------------------------------
\* A connection of a new address and a new descriptor, made, polled and mapped
Established(r, side, o, fd) == Added(Monitored(Created(r, o, fd), side, o), side, o)

\* An address that is not allocated and a descriptor that is not open
Fresh(r, o, fd) == o \in Objects \ r.live /\ fd \in Fds \ r.open

\* Nothing of the registry speaks of an address or a descriptor that is not in use.
LEMMA FreshIsUnknown ==
  ASSUME NEW r \in Registry, Agrees(r), NEW o, NEW fd, Fresh(r, o, fd)
  PROVE  \A s \in Sides : /\ o \notin Held(r, s) /\ o \notin r.monitored[s]
                         /\ r.peers[s][fd] = None
                         /\ \A p \in Held(r, s) : r.conn[p].fd # fd
<1> SUFFICES ASSUME NEW s \in Sides
             PROVE  /\ o \notin Held(r, s) /\ o \notin r.monitored[s]
                    /\ r.peers[s][fd] = None
                    /\ \A p \in Held(r, s) : r.conn[p].fd # fd
  OBVIOUS
<1>1. o \notin Held(r, s) /\ \A p \in Held(r, s) : r.conn[p].fd # fd
  BY HeldUnder DEF Fresh
<1>2. r.peers[s][fd] = None
  BY DEF Agrees, MapAgrees, Fresh
<1>3. o # Listening
  BY Types DEF Fresh
<1> QED BY <1>1, <1>2, <1>3 DEF Agrees, PollerAgrees

\* The connection o of descriptor fd has come to its side, and nothing else has
\* changed.
Come(r, a, side, o, fd) ==
  /\ a \in Registry /\ Agrees(a)
  /\ Held(a, side) = Held(r, side) \union {o}
  /\ \A s \in Sides \ {side} : Held(a, s) = Held(r, s)
  /\ a.conn = [r.conn EXCEPT ![o] = [Blank EXCEPT !.fd = fd]]
  /\ a.count = [r.count EXCEPT ![side] = @ + 1]
  /\ a.open = r.open \union {fd}

\* add_connection() of a new connection.
LEMMA Establishing ==
  ASSUME NEW r \in Registry, Agrees(r), NEW side \in Sides, NEW o, NEW fd, Fresh(r, o, fd)
  PROVE  Come(r, Established(r, side, o, fd), side, o, fd)
<1> DEFINE new == [Blank EXCEPT !.fd = fd]
           c == Created(r, o, fd)
           m == Monitored(c, side, o)
           a == Established(r, side, o, fd)
<1>1. /\ o \in Objects /\ fd \in Fds /\ o # None /\ o # Listening
      /\ \A s \in Sides : o \notin Held(r, s) /\ o \notin r.monitored[s] /\ r.peers[s][fd] = None
      /\ o \notin r.live /\ fd \notin r.open
  BY FreshIsUnknown, Types DEF Fresh
<1>2. new \in Connections /\ new.fd = fd
  BY <1>1 DEF Blank, Connections
<1> HIDE DEF new
<1>3. /\ a = Added(m, side, o) /\ m = Monitored(c, side, o)
      /\ c = [r EXCEPT !.live = @ \union {o}, !.open = @ \union {fd}, !.conn[o] = new]
  BY DEF Established, Created, new
<1> HIDE DEF c, m, a
<1>4. /\ c.live = r.live \union {o} /\ c.open = r.open \union {fd}
      /\ c.conn = [r.conn EXCEPT ![o] = new] /\ c.peers = r.peers
      /\ c.monitored = r.monitored /\ c.count = r.count
      /\ DOMAIN c = {"live", "open", "conn", "peers", "monitored", "count"}
  BY <1>3 DEF Registry
<1>5. /\ m.live = c.live /\ m.open = c.open /\ m.conn = c.conn /\ m.peers = c.peers
      /\ m.monitored = [c.monitored EXCEPT ![side] = @ \union {o}]
      /\ m.count = [c.count EXCEPT ![side] = @ + 1]
      /\ DOMAIN m = {"live", "open", "conn", "peers", "monitored", "count"}
  <2>1. m = [c EXCEPT !.monitored[side] = @ \union {o}, !.count[side] = @ + 1]
    BY <1>3 DEF Monitored
  <2> QED BY <1>4, <2>1
<1>6. a = [m EXCEPT !.peers[side][fd] = o]
  <2>1. m.conn[o].fd = fd
    BY <1>1, <1>2, <1>4, <1>5 DEF Registry
  <2> QED BY <1>3, <2>1 DEF Added
<1>7. /\ a.live = m.live /\ a.open = m.open /\ a.conn = m.conn
      /\ a.peers = [m.peers EXCEPT ![side][fd] = o]
      /\ a.monitored = m.monitored /\ a.count = m.count
      /\ a = [live |-> a.live, open |-> a.open, conn |-> a.conn, peers |-> a.peers,
              monitored |-> a.monitored, count |-> a.count]
  BY <1>5, <1>6
<1>8. /\ a.live = r.live \union {o} /\ a.open = r.open \union {fd}
      /\ a.conn = [r.conn EXCEPT ![o] = new]
      /\ a.peers = [r.peers EXCEPT ![side][fd] = o]
      /\ a.monitored = [r.monitored EXCEPT ![side] = @ \union {o}]
      /\ a.count = [r.count EXCEPT ![side] = @ + 1]
  BY <1>4, <1>5, <1>7
<1>9. \A s \in Sides, f \in Fds :
        a.peers[s][f] = IF s = side /\ f = fd THEN o ELSE r.peers[s][f]
  BY <1>1, <1>8 DEF Registry
<1>10. Held(a, side) = Held(r, side) \union {o} /\ \A s \in Sides \ {side} : Held(a, s) = Held(r, s)
  BY <1>1, <1>9 DEF Held
<1>11. Cardinality(r.monitored[side] \union {o}) = r.count[side] + 1
  <2>1. IsFiniteSet(r.monitored[side]) /\ o \notin r.monitored[side]
    BY <1>1, Finite
  <2>2. Cardinality(r.monitored[side] \union {o}) = Cardinality(r.monitored[side]) + 1
    BY <2>1, FS_AddElement
  <2> QED BY <2>2 DEF Agrees, PollerAgrees
<1>12. a \in Registry
  <2>1. a.live \in SUBSET Objects /\ a.open \in SUBSET Fds
    BY <1>1, <1>8 DEF Registry
  <2>2. a.conn \in [Objects -> Connections]
    BY <1>2, <1>8 DEF Registry
  <2>3. a.peers \in [Sides -> [Fds -> Objects \union {None}]]
    BY <1>1, <1>8 DEF Registry
  <2>4. a.monitored \in [Sides -> SUBSET (Objects \union {Listening})]
    BY <1>1, <1>8 DEF Registry
  <2>5. a.count \in [Sides -> Nat]
    BY <1>8 DEF Registry
  <2> QED BY <1>7, <2>1, <2>2, <2>3, <2>4, <2>5 DEF Registry
<1>13. Agrees(a)
  <2>1. ASSUME NEW s \in Sides PROVE MapAgrees(a, s)
    <3> SUFFICES ASSUME NEW f \in Fds, a.peers[s][f] # None
                 PROVE  f \in a.open /\ a.peers[s][f] \in a.live /\ a.conn[a.peers[s][f]].fd = f
      BY DEF MapAgrees
    <3>1. CASE s = side /\ f = fd
      BY <3>1, <1>1, <1>2, <1>8, <1>9 DEF Registry
    <3>2. CASE ~(s = side /\ f = fd)
      <4>1. /\ f \in r.open /\ r.peers[s][f] \in r.live /\ r.conn[r.peers[s][f]].fd = f
            /\ a.peers[s][f] = r.peers[s][f] /\ r.peers[s][f] # o /\ r.peers[s][f] \in Objects
        BY <3>2, <1>1, <1>9 DEF Agrees, MapAgrees, Registry
      <4> QED BY <4>1, <1>8 DEF Registry
    <3> QED BY <3>1, <3>2
  <2>2. ASSUME NEW s \in Sides PROVE PollerAgrees(a, s)
    <3>1. CASE s = side
      <4>1. a.monitored[s] = r.monitored[s] \union {o} /\ a.count[s] = r.count[s] + 1
        BY <3>1, <1>8 DEF Registry
      <4> QED BY <4>1, <3>1, <1>1, <1>10, <1>11 DEF Agrees, PollerAgrees
    <3>2. CASE s # side
      <4>1. a.monitored[s] = r.monitored[s] /\ a.count[s] = r.count[s] /\ Held(a, s) = Held(r, s)
        BY <3>2, <1>8, <1>10 DEF Registry
      <4> QED BY <4>1 DEF Agrees, PollerAgrees
    <3> QED BY <3>1, <3>2
  <2>3. OneSide(a)
    BY <1>1, <1>8, <1>9 DEF Agrees, OneSide, Registry
  <2> QED BY <2>1, <2>2, <2>3 DEF Agrees
<1> QED BY <1>8, <1>10, <1>12, <1>13 DEF a, new, Come
\* What a failed accept leaves: no side, poller or descriptor has changed; of the
\* addresses only o may have.
Unregistered(r, x, o) ==
  /\ x \in Registry /\ Agrees(x)
  /\ \A s \in Sides : Held(x, s) = Held(r, s)
  /\ \A p \in Objects \ {o} : x.conn[p] = r.conn[p]
  /\ x.count = r.count

\* A connection that the poller refused is closed, and never freed: the map does
\* not have it.
LEMMA Refusing ==
  ASSUME NEW r \in Registry, Agrees(r), NEW side \in Sides, NEW o, NEW fd, Fresh(r, o, fd)
  PROVE  Unregistered(r, Failed(Created(r, o, fd), side, o), o)
<1> DEFINE new == [Blank EXCEPT !.fd = fd]
           c == Created(r, o, fd)
           x == Failed(c, side, o)
           kept == [s \in Sides |-> {p \in c.monitored[s] : p = Listening \/ c.conn[p].fd # fd}]
<1>1. /\ o \in Objects /\ fd \in Fds /\ fd \notin r.open /\ o \notin r.live
      /\ \A s \in Sides : /\ o \notin r.monitored[s] /\ r.peers[s][fd] = None
                         /\ \A p \in Held(r, s) : r.conn[p].fd # fd
  BY FreshIsUnknown DEF Fresh
<1>2. new \in Connections /\ new.fd = fd
  BY <1>1 DEF Blank, Connections
<1>3. c = [r EXCEPT !.live = @ \union {o}, !.open = @ \union {fd}, !.conn[o] = new]
  BY DEF Created, new
<1> HIDE DEF new, c
<1>4. /\ c.live = r.live \union {o} /\ c.open = r.open \union {fd}
      /\ c.conn = [r.conn EXCEPT ![o] = new] /\ c.peers = r.peers
      /\ c.monitored = r.monitored /\ c.count = r.count
      /\ DOMAIN c = {"live", "open", "conn", "peers", "monitored", "count"}
      /\ c.conn[o].fd = fd
  BY <1>1, <1>2, <1>3 DEF Registry
<1>5. x = [c EXCEPT !.open = @ \ {fd}, !.monitored = kept]
  BY <1>1, <1>4 DEF Failed, Deleted, Closed
<1> HIDE DEF x, kept
<1>6. /\ x.live = c.live /\ x.open = c.open \ {fd} /\ x.conn = c.conn /\ x.peers = c.peers
      /\ x.count = c.count /\ x.monitored = kept
      /\ x = [live |-> x.live, open |-> x.open, conn |-> x.conn, peers |-> x.peers,
              monitored |-> x.monitored, count |-> x.count]
  BY <1>4, <1>5
<1>7. kept = r.monitored
  <2>1. \A s \in Sides : \A p \in r.monitored[s] \ {Listening} : r.conn[p].fd # fd /\ p # o /\ p \in Objects
    BY <1>1 DEF Agrees, PollerAgrees, Registry
  <2>2. \A s \in Sides : \A p \in r.monitored[s] \ {Listening} : c.conn[p].fd # fd
    BY <2>1, <1>4 DEF Registry
  <2>3. \A s \in Sides : kept[s] = r.monitored[s]
    BY <2>2, <1>4 DEF kept
  <2>4. kept = [s \in Sides |-> kept[s]] /\ r.monitored = [s \in Sides |-> r.monitored[s]]
    BY DEF kept, Registry
  <2> QED BY <2>3, <2>4
<1>8. /\ x.live = r.live \union {o} /\ x.open = r.open /\ x.conn = [r.conn EXCEPT ![o] = new]
      /\ x.peers = r.peers /\ x.count = r.count /\ x.monitored = r.monitored
  BY <1>1, <1>4, <1>6, <1>7
<1>9. x \in Registry
  <2>1. x.conn \in [Objects -> Connections] /\ x.live \in SUBSET Objects
    BY <1>1, <1>2, <1>8 DEF Registry
  <2> QED BY <2>1, <1>6, <1>8 DEF Registry
<1>10. \A s \in Sides : Held(x, s) = Held(r, s)
  BY <1>8 DEF Held
<1>11. Agrees(x)
  <2>1. ASSUME NEW s \in Sides PROVE MapAgrees(x, s)
    <3> SUFFICES ASSUME NEW f \in Fds, r.peers[s][f] # None
                 PROVE  f \in x.open /\ r.peers[s][f] \in x.live /\ x.conn[r.peers[s][f]].fd = f
      BY <1>8 DEF MapAgrees
    <3>1. /\ f \in r.open /\ r.peers[s][f] \in r.live /\ r.conn[r.peers[s][f]].fd = f
          /\ r.peers[s][f] \in Objects
      BY DEF Agrees, MapAgrees, Registry
    <3> QED BY <3>1, <1>1, <1>8 DEF Registry
  <2>2. ASSUME NEW s \in Sides PROVE PollerAgrees(x, s)
    BY <1>8, <1>10 DEF Agrees, PollerAgrees
  <2>3. OneSide(x)
    BY <1>8 DEF Agrees, OneSide
  <2> QED BY <2>1, <2>2, <2>3 DEF Agrees
<1>12. \A p \in Objects \ {o} : x.conn[p] = r.conn[p]
  BY <1>8 DEF Registry
<1> QED BY <1>8, <1>9, <1>10, <1>11, <1>12 DEF Unregistered, x, c

\* A connection that cannot be made non-blocking is deleted from the map; closing
\* its descriptor once more does nothing.
LEMMA Blocking ==
  ASSUME NEW r \in Registry, Agrees(r), NEW side \in Sides, NEW o, NEW fd, Fresh(r, o, fd)
  PROVE  Unregistered(r, Failed(Established(r, side, o, fd), side, o), o)
<1> DEFINE a == Established(r, side, o, fd)
           d == Deleted(a, side, o)
           x == Failed(a, side, o)
<1>1. /\ a \in Registry /\ Agrees(a) /\ Held(a, side) = Held(r, side) \union {o}
      /\ \A s \in Sides \ {side} : Held(a, s) = Held(r, s)
      /\ a.conn = [r.conn EXCEPT ![o] = [Blank EXCEPT !.fd = fd]]
      /\ a.open = r.open \union {fd}
      /\ a.count = [r.count EXCEPT ![side] = @ + 1]
  <2>1. Come(r, a, side, o, fd)
    BY Establishing
  <2> QED BY <2>1 DEF Come
<1>2. /\ o \in Objects /\ fd \notin r.open
      /\ \A s \in Sides : o \notin Held(r, s) /\ \A p \in Held(r, s) : r.conn[p].fd # fd
  BY FreshIsUnknown DEF Fresh
<1>3. a.conn[o].fd = fd
  BY <1>1, <1>2 DEF Registry, Blank
<1> HIDE DEF a
<1>4. /\ d \in Registry /\ Agrees(d) /\ Held(d, side) = Held(a, side) \ {o}
      /\ \A s \in Sides \ {side} : Held(d, s) = Held(a, s)
      /\ d.conn = [a.conn EXCEPT ![o] = Blank] /\ d.open = a.open \ {fd}
      /\ d.count = [a.count EXCEPT ![side] = @ - 1]
  <2>1. Gone(a, d, side, o)
    BY <1>1, Deleting
  <2> QED BY <2>1, <1>3 DEF Gone
<1>5. \A s \in Sides : Held(d, s) = Held(r, s)
  BY <1>1, <1>2, <1>4
<1>6. \A p \in Objects \ {o} : d.conn[p] = r.conn[p]
  BY <1>1, <1>4 DEF Registry
<1> DEFINE kept == [s \in Sides |-> {p \in d.monitored[s] : p = Listening \/ d.conn[p].fd # fd}]
<1>7. x = [d EXCEPT !.open = @ \ {fd}, !.monitored = kept]
  BY <1>3 DEF Failed, Closed
<1> HIDE DEF d, x, kept
<1>8. kept = d.monitored
  <2>1. \A s \in Sides : \A p \in d.monitored[s] \ {Listening} : p \in Held(r, s)
    BY <1>4, <1>5 DEF Agrees, PollerAgrees
  <2>2. \A s \in Sides : \A p \in d.monitored[s] \ {Listening} : d.conn[p].fd # fd
    BY <2>1, <1>2, <1>4, <1>6 DEF Registry
  <2>3. \A s \in Sides : kept[s] = d.monitored[s]
    BY <2>2 DEF kept
  <2>4. kept = [s \in Sides |-> kept[s]] /\ d.monitored = [s \in Sides |-> d.monitored[s]]
    BY <1>4 DEF kept, Registry
  <2> QED BY <2>3, <2>4
<1>9. x = d
  BY <1>1, <1>2, <1>4, <1>7, <1>8 DEF Registry
<1>10. d.count = r.count
  BY <1>1, <1>4 DEF Registry
<1> QED BY <1>4, <1>5, <1>6, <1>9, <1>10 DEF Unregistered, x, a
-----------------------------------------------------------------------------
\* What CacheAgrees says, of any registry and cache; and the connections of servers
\* are those of the requester.
Cache == [Names -> [known : BOOLEAN, detail : Objects \union {None},
                    fd : Fds \union {INVALID_SOCK_FD}]]

Entries(r, c) == \A n \in Names :
  IF c[n].detail = None THEN c[n].fd = INVALID_SOCK_FD
  ELSE /\ \E side \in Sides : c[n].detail \in Held(r, side)
       /\ c[n].fd = r.conn[c[n].detail].fd
       /\ r.conn[c[n].detail].owner = n

Owners(r, c) == \A side \in Sides : \A o \in Held(r, side) :
  r.conn[o].owner # NoName => c[r.conn[o].owner].detail = o

ServersApart(r) == \A side \in Sides : \A o \in Held(r, side) :
  r.conn[o].owner \in Servers <=> side = "requester"

Links(r, c) == Entries(r, c) /\ Owners(r, c) /\ ServersApart(r)

\* The entries of servers are known, and any other before it holds a connection.
KnownFirst(c) == \A n \in Names : n \in Servers \/ c[n].detail # None => c[n].known

\* The invariant of the module is that of the registry and the cache at hand.
LEMMA LinksIsInvariant ==
  Links(reg, cache) <=> EntriesAgree /\ OwnersAgree /\ ServersApart(reg)
BY DEF Links, Entries, Owners, EntriesAgree, OwnersAgree, AllRegistered, Registered, Held,
       Sides, Owner

\* Sides that hold the same connections as before are linked as before.
LEMMA LinksKept ==
  ASSUME NEW r, NEW x, NEW c, Links(r, c),
         \A s \in Sides : Held(x, s) = Held(r, s),
         \A s \in Sides : \A p \in Held(r, s) :
            x.conn[p].fd = r.conn[p].fd /\ x.conn[p].owner = r.conn[p].owner
  PROVE  Links(x, c)
BY DEF Links, Entries, Owners, ServersApart

\* The entry of who, if it is a name, has lost its connection.
Cleared(c, e, who) ==
  /\ e \in Cache /\ \A n \in Names \ {who} : e[n] = c[n]
  /\ who \in Names => /\ e[who].detail = None /\ e[who].fd = INVALID_SOCK_FD
                     /\ e[who].known = c[who].known

\* The entry of a connection's owner is cleared with the connection.
LEMMA LinksWithout ==
  ASSUME NEW r \in Registry, Agrees(r), NEW side \in Sides, NEW o \in Held(r, side),
         NEW d, Gone(r, d, side, o), NEW c \in Cache, Links(r, c),
         NEW e, Cleared(c, e, r.conn[o].owner)
  PROVE  Links(d, e)
<1>1. o \in Objects /\ \A s \in Sides \ {side} : o \notin Held(r, s)
  BY HeldUnder
<1>2. ASSUME NEW s \in Sides PROVE Held(d, s) = Held(r, s) \ {o}
  <2>1. CASE s = side
    BY <2>1 DEF Gone
  <2>2. CASE s # side
    <3>1. Held(d, s) = Held(r, s)
      BY <2>2 DEF Gone
    <3>2. o \notin Held(r, s)
      BY <2>2, <1>1
    <3> QED BY <3>1, <3>2
  <2> QED BY <2>1, <2>2
<1>3. ASSUME NEW s \in Sides, NEW p \in Held(d, s)
      PROVE  d.conn[p] = r.conn[p] /\ p \in Objects /\ p # None /\ p \in Held(r, s) /\ p # o
  <2>1. p \in Held(r, s) /\ p # o
    BY <1>2
  <2>2. p \in Objects /\ p # None
    BY <2>1, HeldObjects
  <2>3. d.conn = [r.conn EXCEPT ![o] = Blank] /\ r.conn \in [Objects -> Connections]
    BY DEF Gone, Registry
  <2> QED BY <2>1, <2>2, <2>3
<1>4. \A p \in Objects : r.conn[p] \in Connections
  BY DEF Registry
<1>5. \A n \in Names : /\ n = r.conn[o].owner => e[n].detail = None /\ e[n].fd = INVALID_SOCK_FD
                       /\ n # r.conn[o].owner => e[n] = c[n]
  BY DEF Cleared
<1>6. Entries(d, e)
  <2> SUFFICES ASSUME NEW n \in Names
               PROVE  IF e[n].detail = None THEN e[n].fd = INVALID_SOCK_FD
                      ELSE /\ \E s \in Sides : e[n].detail \in Held(d, s)
                           /\ e[n].fd = d.conn[e[n].detail].fd
                           /\ d.conn[e[n].detail].owner = n
    BY DEF Entries
  <2>1. CASE n = r.conn[o].owner \/ c[n].detail = None
    BY <2>1, <1>5 DEF Links, Entries
  <2>2. CASE n # r.conn[o].owner /\ c[n].detail # None
    <3>1. PICK s \in Sides : c[n].detail \in Held(r, s)
      BY <2>2 DEF Links, Entries
    <3>2. c[n].fd = r.conn[c[n].detail].fd /\ r.conn[c[n].detail].owner = n
      BY <2>2 DEF Links, Entries
    <3>3. c[n].detail \in Held(d, s)
      BY <2>2, <3>1, <3>2, <1>2
    <3> QED BY <2>2, <3>2, <3>3, <1>3, <1>5
  <2> QED BY <2>1, <2>2
<1>7. Owners(d, e)
  <2> SUFFICES ASSUME NEW s \in Sides, NEW p \in Held(d, s), d.conn[p].owner # NoName
               PROVE  e[d.conn[p].owner].detail = p
    BY DEF Owners
  <2>1. /\ p \in Held(r, s) /\ p # o /\ d.conn[p].owner = r.conn[p].owner
        /\ r.conn[p].owner \in Names
    BY <1>2, <1>3, <1>4 DEF Connections
  <2>2. c[r.conn[p].owner].detail = p
    BY <2>1 DEF Links, Owners
  <2>3. r.conn[p].owner # r.conn[o].owner
    BY <2>1, <2>2, Types DEF Links, Owners
  <2> QED BY <2>1, <2>2, <2>3, <1>5
<1>8. ServersApart(d)
  BY <1>2, <1>3 DEF Links, ServersApart
<1> QED BY <1>6, <1>7, <1>8 DEF Links

\* A connection that was made belongs to no name yet, or to the server whose entry
\* was free and is set.
LEMMA LinksWith ==
  ASSUME NEW r \in Registry, Agrees(r), NEW side \in Sides, NEW o, NEW fd, Fresh(r, o, fd),
         NEW a, Come(r, a, side, o, fd), NEW c \in Cache, Links(r, c), NEW x, NEW e \in Cache,
         \A s \in Sides : Held(x, s) = Held(a, s),
         \/ /\ side = "listener" /\ e = c /\ x.conn = a.conn
         \/ \E n \in Servers :
              /\ side = "requester" /\ c[n].detail = None
              /\ e[n].detail = o /\ e[n].fd = fd /\ \A m \in Names \ {n} : e[m] = c[m]
              /\ x.conn = [a.conn EXCEPT ![o].owner = n]
  PROVE  Links(x, e)
<1>1. o \in Objects /\ \A s \in Sides : o \notin Held(r, s)
  BY FreshIsUnknown DEF Fresh
<1>2. \A s \in Sides : Held(x, s) = IF s = side THEN Held(r, s) \union {o} ELSE Held(r, s)
  BY DEF Come
<1>3. ASSUME NEW s \in Sides, NEW p \in Held(r, s)
      PROVE  x.conn[p] = r.conn[p] /\ p \in Objects /\ p # o
  <2>1. p \in Objects /\ p # o
    BY <1>1, HeldObjects
  <2>2. a.conn = [r.conn EXCEPT ![o] = [Blank EXCEPT !.fd = fd]] /\ r.conn \in [Objects -> Connections]
    BY DEF Come, Registry
  <2>3. a.conn[p] = r.conn[p] /\ DOMAIN a.conn = Objects
    BY <2>1, <2>2
  <2> QED BY <2>1, <2>3
<1>4. \A p \in Objects : r.conn[p] \in Connections
  BY DEF Registry
<1>5. a.conn[o].fd = fd /\ a.conn[o].owner = NoName
  BY <1>1 DEF Come, Registry, Blank
<1>6. NoName \notin Servers /\ Servers \subseteq Names /\ o # None
  BY <1>1, Types DEF Names
<1>7. CASE side = "listener" /\ e = c /\ x.conn = a.conn
  <2>1. Entries(x, e)
    BY <1>2, <1>3, <1>7 DEF Links, Entries
  <2>2. Owners(x, e)
    BY <1>2, <1>3, <1>5, <1>7 DEF Links, Owners
  <2>3. ServersApart(x)
    BY <1>2, <1>3, <1>5, <1>6, <1>7 DEF Links, ServersApart
  <2> QED BY <2>1, <2>2, <2>3 DEF Links
<1>8. ASSUME NEW n \in Servers, side = "requester", c[n].detail = None,
             e[n].detail = o, e[n].fd = fd, \A m \in Names \ {n} : e[m] = c[m],
             x.conn = [a.conn EXCEPT ![o].owner = n]
      PROVE  Links(x, e)
  <2>1. x.conn[o].fd = fd /\ x.conn[o].owner = n
    BY <1>1, <1>5, <1>8 DEF Come, Registry, Connections, Blank
  <2>2. Entries(x, e)
    BY <1>2, <1>3, <1>6, <1>8, <2>1 DEF Links, Entries
  <2>3. Owners(x, e)
    <3> SUFFICES ASSUME NEW s \in Sides, NEW p \in Held(x, s), x.conn[p].owner # NoName
                 PROVE  e[x.conn[p].owner].detail = p
      BY DEF Owners
    <3>1. CASE p = o
      BY <3>1, <1>8, <2>1
    <3>2. CASE p # o
      <4>1. p \in Held(r, s) /\ x.conn[p] = r.conn[p] /\ r.conn[p].owner \in Names /\ p # None
        BY <3>2, <1>2, <1>3, <1>4, Types DEF Connections
      <4>2. c[r.conn[p].owner].detail = p
        BY <4>1 DEF Links, Owners
      <4> QED BY <4>1, <4>2, <1>8
    <3> QED BY <3>1, <3>2
  <2>4. ServersApart(x)
    BY <1>2, <1>3, <1>8, <2>1 DEF Links, ServersApart
  <2> QED BY <2>2, <2>3, <2>4 DEF Links
<1> QED BY <1>7, <1>8

\* The connection o of r has got the name n and the entry of n.
Named(r, x, c, e, o, n) ==
  /\ r.conn[o].owner = NoName /\ c[n].detail = None
  /\ e = [c EXCEPT ![n] = [known |-> TRUE, detail |-> o, fd |-> r.conn[o].fd]]
  /\ \A s \in Sides : Held(x, s) = Held(r, s)
  /\ x.conn[o].fd = r.conn[o].fd /\ x.conn[o].owner = n
  /\ \A p \in Objects \ {o} : x.conn[p] = r.conn[p]

\* A connection without a name takes one whose entry is free.
LEMMA LinksNamed ==
  ASSUME NEW r \in Registry, Agrees(r), NEW o \in Held(r, "listener"), NEW n \in Names \ Servers,
         NEW c \in Cache, Links(r, c), NEW x, NEW e, Named(r, x, c, e, o, n)
  PROVE  Links(x, e)
<1> USE DEF Named
<1>1. "listener" \in Sides /\ o # None /\ \A s \in Sides \ {"listener"} : o \notin Held(r, s)
  BY HeldUnder DEF Sides
<1>2. \A s \in Sides : \A p \in Held(r, s) : p \in Objects /\ p # None
  BY HeldObjects
<1>3. \A p \in Objects : r.conn[p].owner \in Names \union {NoName}
  BY DEF Registry, Connections
<1>4. /\ e[n].detail = o /\ e[n].fd = r.conn[o].fd
      /\ \A m \in Names \ {n} : e[m] = c[m]
  BY DEF Cache
<1>5. Entries(x, e)
  <2> SUFFICES ASSUME NEW m \in Names
               PROVE  IF e[m].detail = None THEN e[m].fd = INVALID_SOCK_FD
                      ELSE /\ \E side \in Sides : e[m].detail \in Held(x, side)
                           /\ e[m].fd = x.conn[e[m].detail].fd
                           /\ x.conn[e[m].detail].owner = m
    BY DEF Entries
  <2>1. CASE m = n
    BY <2>1, <1>1, <1>4
  <2>2. CASE m # n
    BY <2>2, <1>2, <1>4, Types DEF Links, Entries
  <2> QED BY <2>1, <2>2
<1>6. Owners(x, e)
  BY <1>2, <1>3, <1>4 DEF Links, Owners
<1>7. ServersApart(x)
  BY <1>1, <1>2 DEF Links, ServersApart
<1> QED BY <1>5, <1>6, <1>7 DEF Links
-----------------------------------------------------------------------------
\* Map, poller and descriptors agree at any time; names and connections agree as
\* long as no report has damaged them, after which nothing is done any more.
IInv == /\ TypeOK /\ Agrees(reg) /\ EventsAreLive /\ KnownFirst(cache)
        /\ Intact => Links(reg, cache)

\* A process without connections.
LEMMA InitHolds == Init => IInv
<1> SUFFICES ASSUME Init PROVE IInv
  OBVIOUS
<1>1. Blank \in Connections
  BY DEF Blank, Connections
<1>2. reg \in Registry
  BY <1>1 DEF Init, Registry, Sides
<1>3. \A side \in Sides : Held(reg, side) = {} /\ Registered(side) = {}
  BY DEF Init, Held, Registered
<1>4. Cardinality({}) = 0 /\ Cardinality({Listening}) = 1
  BY FS_EmptySet, FS_Singleton
<1>5. \A side \in Sides : reg.count[side] <= MaxCount(side)
  <2>1. Cardinality(Servers) \in Nat
    BY Types, FS_CardinalityType
  <2>2. reg.count["listener"] = 1 /\ reg.count["requester"] = 0
    BY DEF Init, Sides
  <2>3. MaxListened >= 1
    BY ConnRegistryAssumption
  <2> QED BY <2>1, <2>2, <2>3, Types DEF MaxCount, Sides
<1>6. TypeOK
  <2>1. cache \in Cache
    <3>1. \A n \in Names : (n \in Servers) \in BOOLEAN
      OBVIOUS
    <3>2. \A n \in Names : [known |-> n \in Servers, detail |-> None, fd |-> INVALID_SOCK_FD] \in
            [known : BOOLEAN, detail : Objects \union {None}, fd : Fds \union {INVALID_SOCK_FD}]
      BY <3>1, Zenon
    <3> QED BY <3>2 DEF Init, Cache
  <2>2. closed = {} /\ up = Servers /\ damaged = {} /\ active = {} /\ todo = {} /\ turn = "poll listener"
    BY DEF Init
  <2> QED BY <1>2, <1>5, <2>1, <2>2 DEF TypeOK, Cache
<1>7. Agrees(reg)
  BY <1>3, <1>4 DEF Init, Agrees, MapAgrees, PollerAgrees, OneSide, Sides, None
<1>8. EventsAreLive
  BY DEF Init, EventsAreLive, Sides
<1>9. Links(reg, cache)
  BY <1>3 DEF Init, Links, Entries, Owners, ServersApart
<1>10. KnownFirst(cache)
  BY DEF Init, KnownFirst
<1> QED BY <1>6, <1>7, <1>8, <1>9, <1>10 DEF IInv

\* Steps that leave registry, cache and names alone.
Quiet == \/ \E side \in Sides : Poll(side) \/ OtherBytes(side)
         \/ AcceptNothing \/ EndEvents \/ NotDue \/ BeginHeartbeat \/ EndHeartbeat
         \/ \E n \in Names : VisitAlive(n)
         \/ Peers \/ UNCHANGED vars

\* They poll, hand over events and take turns.
LEMMA QuietStep ==
  ASSUME IInv, Quiet
  PROVE  IInv'
<1>1. UNCHANGED <<reg, cache, damaged>>
  BY DEF Quiet, Poll, OtherBytes, AcceptNothing, EndEvents, NotDue, BeginHeartbeat,
         EndHeartbeat, VisitAlive, Peers, PeerCloses, ServerStops, ServerStarts, vars
<1>2. /\ Agrees(reg)' /\ KnownFirst(cache)' /\ (Intact' => Links(reg, cache)')
      /\ \A side \in Sides : Registered(side)' = Registered(side)
      /\ AllRegistered' = AllRegistered
  BY <1>1 DEF IInv, Intact, Registered, AllRegistered
<1>3. /\ turn' \in Sides \union {"poll listener", "poll requester", "tasks", "heartbeat"}
      /\ active' \subseteq Objects \union {Listening} /\ todo' \subseteq Names
      /\ up' \subseteq Servers /\ closed' \subseteq AllRegistered
  <2>1. CASE \E side \in Sides : Poll(side)
    BY <2>1 DEF IInv, TypeOK, Poll, Registry, world
  <2>2. CASE \E side \in Sides : OtherBytes(side)
    BY <2>2 DEF IInv, TypeOK, OtherBytes, world
  <2>3. CASE AcceptNothing \/ EndEvents \/ NotDue \/ EndHeartbeat
    BY <2>3 DEF IInv, TypeOK, AcceptNothing, EndEvents, NotDue, EndHeartbeat, world
  <2>4. CASE BeginHeartbeat \/ \E n \in Names : VisitAlive(n)
    BY <2>4 DEF IInv, TypeOK, BeginHeartbeat, VisitAlive, Visiting, world
  <2>5. CASE Peers
    <3>1. \A n \in Servers : Connection(n) \subseteq AllRegistered
      BY DEF Connection, AllRegistered, Sides
    <3>2. Registered("listener") \subseteq AllRegistered
      BY DEF AllRegistered, Sides
    <3> QED BY <2>5, <3>1, <3>2 DEF IInv, TypeOK, Peers, PeerCloses, ServerStops, ServerStarts
  <2>6. CASE UNCHANGED vars
    BY <2>6 DEF IInv, TypeOK, vars, world
  <2> QED BY <2>1, <2>2, <2>3, <2>4, <2>5, <2>6 DEF Quiet
<1>4. TypeOK'
  BY <1>1, <1>2, <1>3 DEF IInv, TypeOK
<1>5. EventsAreLive'
  <2>1. CASE \E side \in Sides : Poll(side)
    BY <2>1, <1>2 DEF IInv, Agrees, PollerAgrees, EventsAreLive, Poll, Held, Registered
  <2>2. CASE \E side \in Sides : OtherBytes(side)
    BY <2>2, <1>2 DEF IInv, EventsAreLive, OtherBytes, InEvents
  <2>3. CASE AcceptNothing
    BY <2>3, <1>2 DEF IInv, EventsAreLive, AcceptNothing, InEvents
  <2>4. CASE EndEvents \/ NotDue \/ BeginHeartbeat \/ EndHeartbeat
    BY <2>4 DEF EventsAreLive, EndEvents, NotDue, BeginHeartbeat, EndHeartbeat, Sides
  <2>5. CASE (\E n \in Names : VisitAlive(n)) \/ Peers \/ UNCHANGED vars
    BY <2>5, <1>2 DEF IInv, EventsAreLive, VisitAlive, Peers, PeerCloses, ServerStops, ServerStarts, vars
  <2> QED BY <2>1, <2>2, <2>3, <2>4, <2>5 DEF Quiet
<1> QED BY <1>2, <1>4, <1>5 DEF IInv
\* What Registered says of a registry.
LEMMA RegisteredIsHeld ==
  /\ \A side : Registered(side) = Held(reg, side)
  /\ AllRegistered = Held(reg, "listener") \union Held(reg, "requester")
BY DEF Registered, AllRegistered, Held, Sides

\* The allocator and the kernel give what nothing speaks of.
LEMMA UnusedIsFresh ==
  ASSUME IInv, Unused # {}, reg.open # Fds
  PROVE  Fresh(reg, Min(Unused), Min(Fds \ reg.open))
<1>1. Unused \in SUBSET Nat /\ Fds \ reg.open \in SUBSET Nat /\ Fds \ reg.open # {}
  BY Types DEF IInv, TypeOK, Registry, Unused
<1>2. Min(Unused) \in Unused /\ Min(Fds \ reg.open) \in Fds \ reg.open
  BY <1>1, LeastIn
<1> QED BY <1>2 DEF Fresh, Unused

\* accept_new_connection(), whatever stage it reaches.
LEMMA AcceptStep ==
  ASSUME IInv, NEW stage \in {"refused", "blocking", "accepted"}, Accept(stage)
  PROVE  IInv'
<1> DEFINE o == Min(Unused)
           fd == Min(Fds \ reg.open)
           c == Created(reg, o, fd)
           a == Established(reg, "listener", o, fd)
<1>1. /\ Intact /\ turn = "listener" /\ active' = active \ {Listening}
      /\ stage # "refused" => PollerHasRoom(c, "listener")
      /\ reg' = CASE stage = "refused"  -> Failed(c, "listener", o)
                  [] stage = "blocking" -> Failed(a, "listener", o)
                  [] stage = "accepted" -> a
      /\ UNCHANGED <<cache, turn, todo, up, closed, damaged>>
  BY DEF Accept, InEvents, Established, world
<1>2. Fresh(reg, o, fd)
  BY UnusedIsFresh DEF Accept
<1>3. /\ reg \in Registry /\ Agrees(reg) /\ Links(reg, cache) /\ "listener" \in Sides /\ cache \in Cache
      /\ KnownFirst(cache)
  BY <1>1 DEF IInv, TypeOK, Sides, Cache
<1>4. c.count = reg.count
  BY <1>3 DEF Created, Registry
<1> HIDE DEF o, fd, c, a
<1>5. ASSUME Unregistered(reg, reg', o) PROVE IInv'
  <2>1. /\ reg' \in Registry /\ Agrees(reg') /\ reg'.count = reg.count
        /\ \A s \in Sides : Held(reg', s) = Held(reg, s)
        /\ \A p \in Objects \ {o} : reg'.conn[p] = reg.conn[p]
    BY <1>5 DEF Unregistered
  <2>2. \A s \in Sides : \A p \in Held(reg, s) : p \in Objects /\ p # o
    BY <1>2, <1>3, FreshIsUnknown, HeldObjects
  <2>3. Links(reg', cache)
    BY <2>1, <2>2, <1>3, LinksKept
  <2>4. AllRegistered' = AllRegistered /\ Registered("listener")' = Registered("listener")
    BY <2>1, RegisteredIsHeld DEF AllRegistered, Registered, Held, Sides
  <2>5. EventsAreLive'
    BY <2>4, <1>1 DEF IInv, EventsAreLive
  <2>6. TypeOK'
    BY <2>1, <2>4, <1>1 DEF IInv, TypeOK, MaxCount
  <2> QED BY <2>1, <2>3, <2>5, <2>6, <1>1, <1>3 DEF IInv
<1>6. CASE stage = "refused"
  BY <1>1, <1>2, <1>3, <1>5, <1>6, Refusing DEF c
<1>7. CASE stage = "blocking"
  BY <1>1, <1>2, <1>3, <1>5, <1>7, Blocking DEF a
<1>8. CASE stage = "accepted"
  <2>1. reg' = a
    BY <1>1, <1>8
  <2>2. Come(reg, reg', "listener", o, fd)
    BY <2>1, <1>2, <1>3, Establishing DEF a
  <2>3. /\ reg' \in Registry /\ Agrees(reg') /\ reg'.count = [reg.count EXCEPT !["listener"] = @ + 1]
        /\ Held(reg', "listener") = Held(reg, "listener") \union {o}
        /\ Held(reg', "requester") = Held(reg, "requester")
    BY <2>2 DEF Come, Sides
  <2>4. Links(reg', cache)
    BY <1>2, <1>3, <2>2, LinksWith
  <2>5. /\ Registered("listener")' = Registered("listener") \union {o}
        /\ AllRegistered' = AllRegistered \union {o}
    BY <2>3, RegisteredIsHeld DEF AllRegistered, Registered, Held, Sides
  <2>6. EventsAreLive'
    BY <2>5, <1>1 DEF IInv, EventsAreLive
  <2>7. \A side \in Sides : reg'.count[side] <= MaxCount(side)
    <3>1. reg.count["listener"] < MaxListened
      BY <1>1, <1>4, <1>8 DEF PollerHasRoom, MaxCount
    <3>2. reg.count \in [Sides -> Nat] /\ MaxListened \in Nat
      BY <1>3, Types DEF Registry
    <3>3. reg'.count["listener"] = reg.count["listener"] + 1 /\ reg'.count["requester"] = reg.count["requester"]
      BY <2>3, <3>2 DEF Sides
    <3>4. reg.count["requester"] <= MaxCount("requester")
      BY DEF IInv, TypeOK, Sides
    <3>5. reg'.count["listener"] <= MaxListened
      BY <3>1, <3>2, <3>3 DEF Sides
    <3>6. reg'.count["requester"] <= MaxCount("requester")
      BY <3>3, <3>4
    <3> QED BY <3>5, <3>6 DEF MaxCount, Sides
  <2>8. TypeOK'
    BY <2>3, <2>5, <2>7, <1>1 DEF IInv, TypeOK, MaxCount
  <2> QED BY <2>3, <2>4, <2>6, <2>8, <1>1, <1>3 DEF IInv
<1> QED BY <1>6, <1>7, <1>8
\* What is left when a registered connection is gone.
LEMMA AfterGone ==
  ASSUME IInv, NEW side \in Sides, NEW o \in Held(reg, side), Gone(reg, reg', side, o)
  PROVE  /\ reg' \in Registry /\ Agrees(reg')
         /\ \A s \in Sides : reg'.count[s] <= MaxCount(s)
         /\ Registered(side)' = Registered(side) \ {o}
         /\ AllRegistered' = AllRegistered \ {o}
<1>1. /\ reg' \in Registry /\ Agrees(reg') /\ reg'.count = [reg.count EXCEPT ![side] = @ - 1]
      /\ Held(reg', side) = Held(reg, side) \ {o}
      /\ \A s \in Sides \ {side} : Held(reg', s) = Held(reg, s)
  BY DEF Gone
<1>2. reg \in Registry /\ Agrees(reg)
  BY DEF IInv, TypeOK
<1>3. \A s \in Sides \ {side} : o \notin Held(reg, s)
  BY <1>2, HeldUnder
<1>4. Registered(side)' = Registered(side) \ {o}
  BY <1>1 DEF Registered, Held
<1>5. AllRegistered' = AllRegistered \ {o}
  <2>1. \A s \in Sides : Held(reg', s) = Held(reg, s) \ {o}
    BY <1>1, <1>3
  <2>2. AllRegistered' = Held(reg', "listener") \union Held(reg', "requester")
    BY DEF AllRegistered, Registered, Held, Sides
  <2> QED BY <2>1, <2>2, RegisteredIsHeld DEF Sides
<1>6. \A s \in Sides : reg'.count[s] <= MaxCount(s)
  <2> SUFFICES ASSUME NEW s \in Sides PROVE reg'.count[s] <= MaxCount(s)
    OBVIOUS
  <2>1. reg.count[s] \in Nat /\ reg.count[s] <= MaxCount(s) /\ MaxCount(s) \in Nat
    BY <1>2, Types, FS_CardinalityType DEF IInv, TypeOK, Registry, MaxCount
  <2>2. reg'.count[s] = reg.count[s] \/ reg'.count[s] = reg.count[s] - 1
    BY <1>1, <1>2 DEF Registry
  <2> QED BY <2>1, <2>2
<1> QED BY <1>1, <1>4, <1>5, <1>6

\* disconnect_server(), and what shut_bad_connection() does to an entry.
LEMMA DisconnectedIsCleared ==
  ASSUME cache \in Cache, NEW n \in Names
  PROVE  Cleared(cache, Disconnected(n), n)
<1>1. Disconnected(n) = [cache EXCEPT ![n] = [@ EXCEPT !.fd = INVALID_SOCK_FD, !.detail = None]]
  BY DEF Disconnected, Cache
<1>2. [cache[n] EXCEPT !.fd = INVALID_SOCK_FD, !.detail = None] \in
        [known : BOOLEAN, detail : Objects \union {None}, fd : Fds \union {INVALID_SOCK_FD}]
  BY DEF Cache
<1>3. Disconnected(n) \in Cache
  BY <1>1, <1>2 DEF Cache
<1> QED BY <1>1, <1>3 DEF Cache, Cleared

\* The end of a connection that its peer has closed.
LEMMA ShutStep ==
  ASSUME IInv, NEW side \in Sides, Shut(side)
  PROVE  IInv'
<1>1. PICK o \in active \intersect closed :
        /\ active' = active \ {o} /\ ClearOwner(o)
        /\ reg' = Deleted(reg, side, o) /\ closed' = closed \ {o}
  BY DEF Shut
<1>2. Intact /\ turn = side /\ UNCHANGED <<turn, todo, up, damaged>>
  BY DEF Shut, InEvents
<1>3. /\ reg \in Registry /\ Agrees(reg) /\ Links(reg, cache) /\ cache \in Cache
      /\ KnownFirst(cache)
  BY <1>2 DEF IInv, TypeOK, Cache
<1>4. o \in Held(reg, side) /\ o \in Objects
  <2>1. o # Listening
    BY <1>1, <1>3, HeldObjects, RegisteredIsHeld, Types DEF IInv, TypeOK, Sides
  <2>2. o \in Held(reg, side)
    BY <2>1, <1>1, <1>2, RegisteredIsHeld DEF IInv, EventsAreLive
  <2> QED BY <2>2, <1>3, HeldObjects
<1>5. Gone(reg, reg', side, o)
  BY <1>1, <1>3, <1>4, Deleting
<1>6. /\ reg' \in Registry /\ Agrees(reg')
      /\ \A s \in Sides : reg'.count[s] <= MaxCount(s)
      /\ Registered(side)' = Registered(side) \ {o}
      /\ AllRegistered' = AllRegistered \ {o}
  BY <1>4, <1>5, AfterGone
<1>7. Cleared(cache, cache', reg.conn[o].owner)
  <2> DEFINE n == reg.conn[o].owner
  <2>1. n \in Names \union {NoName}
    BY <1>3, <1>4 DEF Registry, Connections
  <2>2. cache' = IF n = NoName THEN cache ELSE Disconnected(n)
    BY <1>1 DEF ClearOwner, Owner, Disconnected
  <2> HIDE DEF n
  <2>3. CASE n = NoName
    BY <1>3, <2>2, <2>3, Types DEF n, Cleared
  <2>4. CASE n # NoName
    BY <1>3, <2>1, <2>2, <2>4, DisconnectedIsCleared DEF n
  <2> QED BY <2>3, <2>4
<1>8. Links(reg', cache')
  BY <1>3, <1>4, <1>5, <1>7, LinksWithout
<1>9. KnownFirst(cache')
  BY <1>3, <1>7 DEF KnownFirst, Cleared
<1>10. EventsAreLive'
  BY <1>1, <1>2, <1>6 DEF IInv, EventsAreLive
<1>11. TypeOK'
  BY <1>1, <1>2, <1>6, <1>7 DEF IInv, TypeOK, MaxCount, Cache, Cleared
<1> QED BY <1>2, <1>6, <1>8, <1>9, <1>10, <1>11 DEF IInv
\* identity_report_request_handling.
LEMMA ReportStep ==
  ASSUME IInv, NEW n \in Names, ReportIdentity(n)
  PROVE  IInv'
<1>1. PICK o \in active \ ({Listening} \union closed) :
        /\ active' = active \ {o}
        /\ IF Free(n)
           THEN /\ cache' = [cache EXCEPT ![n] = [known |-> TRUE, detail |-> o, fd |-> reg.conn[o].fd]]
                /\ reg' = [reg EXCEPT !.conn[o].owner = n, !.conn[o].validated = TRUE]
                /\ damaged' = (IF Owner(o) # NoName THEN {"renamed"} ELSE {})
                                \union (IF n \in Servers THEN {"address"} ELSE {})
           ELSE Refuse(n)
  BY DEF ReportIdentity
<1>2. Intact /\ turn = "listener" /\ UNCHANGED <<turn, todo, up, closed>>
  BY DEF ReportIdentity, InEvents, world
<1>3. /\ reg \in Registry /\ Agrees(reg) /\ Links(reg, cache) /\ cache \in Cache
      /\ KnownFirst(cache) /\ "listener" \in Sides
  BY <1>2 DEF IInv, TypeOK, Cache, Sides
<1>4. o \in Held(reg, "listener") /\ o \in Objects /\ o # None
  <2>1. o \in Held(reg, "listener")
    BY <1>1, <1>2, RegisteredIsHeld DEF IInv, EventsAreLive, Sides
  <2> QED BY <2>1, <1>3, HeldObjects
<1>5. CASE ~Free(n)
  <2>1. UNCHANGED <<reg, cache, damaged>>
    BY <1>1, <1>5 DEF Refuse
  <2>2. EventsAreLive'
    BY <2>1, <1>1, <1>2 DEF IInv, EventsAreLive, Registered
  <2>3. TypeOK'
    BY <2>1, <1>1, <1>2 DEF IInv, TypeOK, AllRegistered, Registered
  <2> QED BY <2>1, <2>2, <2>3 DEF IInv, Intact
<1>6. CASE Free(n)
  <2> DEFINE entry == [known |-> TRUE, detail |-> o, fd |-> reg.conn[o].fd]
             named == [reg.conn[o] EXCEPT !.owner = n, !.validated = TRUE]
  <2>1. /\ cache' = [cache EXCEPT ![n] = entry]
        /\ reg' = [reg EXCEPT !.conn[o].owner = n, !.conn[o].validated = TRUE]
        /\ damaged' = (IF Owner(o) # NoName THEN {"renamed"} ELSE {})
                        \union (IF n \in Servers THEN {"address"} ELSE {})
    BY <1>1, <1>6
  <2>2. cache[n].detail = None
    BY <1>3, <1>6 DEF Free, KnownFirst
  <2>3. reg.conn[o] \in Connections /\ named \in Connections /\ named.fd = reg.conn[o].fd /\ named.owner = n
    <3>1. reg.conn[o] \in Connections
      BY <1>3, <1>4 DEF Registry
    <3> QED BY <3>1 DEF Connections
  <2>4. /\ reg'.live = reg.live /\ reg'.open = reg.open /\ reg'.peers = reg.peers
        /\ reg'.monitored = reg.monitored /\ reg'.count = reg.count
        /\ reg'.conn = [reg.conn EXCEPT ![o] = named]
        /\ reg' = [live |-> reg'.live, open |-> reg'.open, conn |-> reg'.conn, peers |-> reg'.peers,
                   monitored |-> reg'.monitored, count |-> reg'.count]
    BY <2>1, <1>3, <1>4 DEF Registry
  <2> HIDE DEF named
  <2>5. reg' \in Registry
    BY <2>3, <2>4, <1>3 DEF Registry
  <2>6. \A p \in Objects : reg'.conn[p].fd = reg.conn[p].fd
    BY <2>3, <2>4, <1>3, <1>4 DEF Registry
  <2>7. \A s \in Sides : Held(reg', s) = Held(reg, s)
    BY <2>4 DEF Held
  <2>8. Agrees(reg')
    <3>1. ASSUME NEW s \in Sides PROVE MapAgrees(reg', s)
      BY <2>4, <2>6, <1>3 DEF Agrees, MapAgrees, Registry
    <3>2. ASSUME NEW s \in Sides PROVE PollerAgrees(reg', s)
      BY <2>4, <2>7, <1>3 DEF Agrees, PollerAgrees
    <3>3. OneSide(reg')
      BY <2>4, <1>3 DEF Agrees, OneSide
    <3> QED BY <3>1, <3>2, <3>3 DEF Agrees
  <2>9. entry \in [known : BOOLEAN, detail : Objects \union {None}, fd : Fds \union {INVALID_SOCK_FD}]
    BY <2>3, <1>4 DEF Connections
  <2>10. cache' \in Cache /\ KnownFirst(cache')
    BY <2>1, <2>9, <1>3 DEF Cache, KnownFirst
  <2>11. /\ \A s \in Sides : Registered(s)' = Registered(s)
         /\ AllRegistered' = AllRegistered
    BY <2>4 DEF Registered, AllRegistered
  <2>12. EventsAreLive'
    BY <2>11, <1>1, <1>2 DEF IInv, EventsAreLive
  <2>13. TypeOK'
    BY <2>1, <2>4, <2>5, <2>10, <2>11, <1>1, <1>2 DEF IInv, TypeOK, MaxCount, Cache
  <2>14. ASSUME Intact' PROVE Links(reg', cache')
    <3>1. reg.conn[o].owner = NoName /\ n \in Names \ Servers
      BY <2>1, <2>14 DEF Intact, Owner
    <3>2. \A p \in Objects \ {o} : reg'.conn[p] = reg.conn[p]
      BY <2>4, <1>3 DEF Registry
    <3>3. reg'.conn[o].fd = reg.conn[o].fd /\ reg'.conn[o].owner = n
      BY <2>3, <2>4, <1>3, <1>4 DEF Registry
    <3>4. Named(reg, reg', cache, cache', o, n)
      BY <3>1, <3>2, <3>3, <2>1, <2>2, <2>7 DEF Named
    <3> QED BY <3>1, <3>4, <1>3, <1>4, LinksNamed
  <2> QED BY <2>5, <2>8, <2>10, <2>12, <2>13, <2>14 DEF IInv
<1> QED BY <1>5, <1>6

\* identity_report_response_handling.
LEMMA ResponseStep ==
  ASSUME IInv, IdentityResponse
  PROVE  IInv'
<1>1. PICK o \in active \ closed :
        active' = active \ {o} /\ reg' = [reg EXCEPT !.conn[o].validated = TRUE]
  BY DEF IdentityResponse
<1>2. Intact /\ turn = "requester" /\ UNCHANGED <<cache, turn, todo, up, closed, damaged>>
  BY DEF IdentityResponse, InEvents, world
<1>3. /\ reg \in Registry /\ Agrees(reg) /\ Links(reg, cache) /\ KnownFirst(cache)
  BY <1>2 DEF IInv, TypeOK
<1> DEFINE conn == [reg.conn EXCEPT ![o].validated = TRUE]
<1>4. /\ reg'.live = reg.live /\ reg'.open = reg.open /\ reg'.peers = reg.peers
      /\ reg'.monitored = reg.monitored /\ reg'.count = reg.count /\ reg'.conn = conn
      /\ reg' = [live |-> reg'.live, open |-> reg'.open, conn |-> reg'.conn, peers |-> reg'.peers,
                 monitored |-> reg'.monitored, count |-> reg'.count]
  BY <1>1, <1>3 DEF Registry
<1>5. /\ conn \in [Objects -> Connections]
      /\ \A p \in Objects : conn[p].fd = reg.conn[p].fd /\ conn[p].owner = reg.conn[p].owner
  BY <1>3 DEF Registry, Connections
<1> HIDE DEF conn
<1>6. reg' \in Registry
  BY <1>3, <1>4, <1>5 DEF Registry
<1>7. \A s \in Sides : Held(reg', s) = Held(reg, s) /\ Registered(s)' = Registered(s)
  BY <1>4 DEF Held, Registered
<1>8. Agrees(reg')
  <2>1. ASSUME NEW s \in Sides PROVE MapAgrees(reg', s)
    BY <1>3, <1>4, <1>5 DEF Agrees, MapAgrees, Registry
  <2>2. ASSUME NEW s \in Sides PROVE PollerAgrees(reg', s)
    BY <1>3, <1>4, <1>7 DEF Agrees, PollerAgrees
  <2>3. OneSide(reg')
    BY <1>3, <1>4 DEF Agrees, OneSide
  <2> QED BY <2>1, <2>2, <2>3 DEF Agrees
<1>9. Links(reg', cache)
  <2>1. \A s \in Sides : \A p \in Held(reg, s) :
          reg'.conn[p].fd = reg.conn[p].fd /\ reg'.conn[p].owner = reg.conn[p].owner
    BY <1>3, <1>4, <1>5, HeldObjects
  <2> QED BY <2>1, <1>3, <1>7, LinksKept
<1>10. EventsAreLive'
  BY <1>1, <1>2, <1>7 DEF IInv, EventsAreLive
<1>11. AllRegistered' = AllRegistered
  BY <1>7 DEF AllRegistered
<1>12. TypeOK'
  BY <1>1, <1>2, <1>4, <1>6, <1>11 DEF IInv, TypeOK, MaxCount
<1> QED BY <1>2, <1>3, <1>6, <1>8, <1>9, <1>10, <1>12 DEF IInv
-----------------------------------------------------------------------------
\* The entry of a server and its connection find each other, or the entry is free.
LEMMA ConnectedIsHeld ==
  ASSUME IInv, Intact, NEW n \in Servers
  PROVE  IF Connected(n)
         THEN LET o == reg.peers["requester"][cache[n].fd] IN
              o \in Held(reg, "requester") /\ reg.conn[o].owner = n
         ELSE cache[n].detail = None
<1>1. /\ reg \in Registry /\ Agrees(reg) /\ Links(reg, cache) /\ cache \in Cache /\ n \in Names
      /\ Sides = {"listener", "requester"}
  BY DEF IInv, TypeOK, Cache, Names, Sides
<1>2. CASE Connected(n)
  <2>1. cache[n].fd \in Fds
    BY <1>1, <1>2 DEF Connected, Cache
  <2> QED BY <1>2, <2>1 DEF Connected, Owner, Held
<1>3. CASE ~Connected(n) /\ cache[n].detail # None
  <2> DEFINE o == cache[n].detail
  <2>1. /\ \E side \in Sides : o \in Held(reg, side)
        /\ cache[n].fd = reg.conn[o].fd /\ reg.conn[o].owner = n
    BY <1>1, <1>3 DEF Links, Entries
  <2>2. o \in Held(reg, "requester")
    BY <1>1, <2>1 DEF Links, ServersApart
  <2>3. reg.conn[o].fd \in Fds /\ reg.peers["requester"][reg.conn[o].fd] = o /\ o # None
    BY <1>1, <2>2, HeldUnder
  <2> QED BY <1>3, <2>1, <2>3, Types DEF Connected, Owner
<1> QED BY <1>2, <1>3

\* disconnect_server() of a silent server.
LEMMA SilentStep ==
  ASSUME IInv, NEW n \in Names, VisitSilent(n)
  PROVE  IInv'
<1> DEFINE o == reg.peers["requester"][cache[n].fd]
<1>1. /\ Intact /\ turn = "heartbeat" /\ n \in Servers /\ Connected(n) /\ todo' = todo \ {n}
      /\ reg' = Deleted(reg, "requester", o) /\ closed' = closed \ {o}
      /\ cache' = Disconnected(n) /\ UNCHANGED <<turn, active, up, damaged>>
  BY DEF VisitSilent, Visiting
<1>2. /\ reg \in Registry /\ Agrees(reg) /\ Links(reg, cache) /\ cache \in Cache
      /\ KnownFirst(cache) /\ "requester" \in Sides
  BY <1>1 DEF IInv, TypeOK, Cache, Sides
<1>3. o \in Held(reg, "requester") /\ reg.conn[o].owner = n
  BY <1>1, ConnectedIsHeld
<1> HIDE DEF o
<1>4. Gone(reg, reg', "requester", o)
  BY <1>1, <1>2, <1>3, Deleting
<1>5. /\ reg' \in Registry /\ Agrees(reg')
      /\ \A s \in Sides : reg'.count[s] <= MaxCount(s)
      /\ AllRegistered' = AllRegistered \ {o}
  BY <1>2, <1>3, <1>4, AfterGone
<1>6. Cleared(cache, cache', reg.conn[o].owner)
  BY <1>1, <1>2, <1>3, DisconnectedIsCleared
<1>7. Links(reg', cache')
  BY <1>2, <1>3, <1>4, <1>6, LinksWithout
<1>8. KnownFirst(cache')
  BY <1>2, <1>6 DEF KnownFirst, Cleared
<1>9. EventsAreLive'
  BY <1>1 DEF EventsAreLive, Sides
<1>10. TypeOK'
  BY <1>1, <1>5, <1>6 DEF IInv, TypeOK, MaxCount, Cache, Cleared
<1> QED BY <1>1, <1>5, <1>7, <1>8, <1>9, <1>10 DEF IInv

\* connect_server() that fails: the entry had no connection already.
LEMMA UnreachableStep ==
  ASSUME IInv, NEW n \in Names, VisitUnreachable(n)
  PROVE  IInv'
<1>1. /\ Intact /\ turn = "heartbeat" /\ n \in Servers /\ ~Connected(n) /\ todo' = todo \ {n}
      /\ cache' = Disconnected(n) /\ UNCHANGED <<reg, turn, active, up, closed, damaged>>
  BY DEF VisitUnreachable, Visiting, world
<1>2. /\ reg \in Registry /\ Agrees(reg) /\ Links(reg, cache) /\ cache \in Cache
      /\ KnownFirst(cache)
  BY <1>1 DEF IInv, TypeOK, Cache
<1>3. cache[n].detail = None /\ cache[n].fd = INVALID_SOCK_FD
  BY <1>1, <1>2, ConnectedIsHeld DEF Links, Entries
<1>4. Cleared(cache, cache', n)
  BY <1>1, <1>2, DisconnectedIsCleared
<1>5. Links(reg', cache') /\ KnownFirst(cache')
  <2>1. \A m \in Names : /\ cache'[m].detail = cache[m].detail /\ cache'[m].fd = cache[m].fd
                         /\ cache'[m].known = cache[m].known
    BY <1>3, <1>4 DEF Cleared
  <2>2. KnownFirst(cache')
    BY <2>1, <1>2 DEF KnownFirst
  <2>3. Entries(reg, cache')
    BY <2>1, <1>2 DEF Links, Entries
  <2>4. Owners(reg, cache')
    <3> SUFFICES ASSUME NEW s \in Sides, NEW p \in Held(reg, s), reg.conn[p].owner # NoName
                 PROVE  cache'[reg.conn[p].owner].detail = p
      BY DEF Owners
    <3>1. reg.conn[p].owner \in Names
      BY <1>2, HeldObjects DEF Registry, Connections
    <3> QED BY <3>1, <2>1, <1>2 DEF Links, Owners
  <2> QED BY <2>2, <2>3, <2>4, <1>1, <1>2 DEF Links
<1>6. AllRegistered' = AllRegistered
  BY <1>1 DEF AllRegistered, Registered
<1>7. TypeOK'
  BY <1>1, <1>4, <1>6 DEF IInv, TypeOK, MaxCount, Cache, Cleared
<1> QED BY <1>1, <1>2, <1>5, <1>7 DEF IInv, EventsAreLive, Sides

\* connect_server() that succeeds.
LEMMA ReachableStep ==
  ASSUME IInv, NEW n \in Names, VisitReachable(n)
  PROVE  IInv'
<1> DEFINE o == Min(Unused)
           fd == Min(Fds \ reg.open)
           a == Established(reg, "requester", o, fd)
<1>1. /\ Intact /\ turn = "heartbeat" /\ n \in Servers /\ ~Connected(n) /\ todo' = todo \ {n}
      /\ PollerHasRoom(reg, "requester") /\ Unused # {} /\ reg.open # Fds
      /\ reg' = [a EXCEPT !.conn[o].owner = n]
      /\ cache' = [cache EXCEPT ![n].fd = fd, ![n].detail = o]
      /\ closed' \subseteq closed \union {o}
      /\ UNCHANGED <<turn, active, up, damaged>>
  BY DEF VisitReachable, CanConnect, Visiting, Established
<1>2. /\ reg \in Registry /\ Agrees(reg) /\ Links(reg, cache) /\ cache \in Cache
      /\ KnownFirst(cache) /\ "requester" \in Sides /\ n \in Names
  BY <1>1 DEF IInv, TypeOK, Cache, Sides
<1>3. Fresh(reg, o, fd)
  BY <1>1, UnusedIsFresh
<1> HIDE DEF o, fd
<1>4. Come(reg, a, "requester", o, fd)
  BY <1>2, <1>3, Establishing
<1> HIDE DEF a
<1>5. cache[n].detail = None /\ cache[n].known
  BY <1>1, <1>2, ConnectedIsHeld DEF KnownFirst
<1>6. o \in Objects /\ fd \in Fds
  BY <1>3 DEF Fresh
<1>7. /\ a \in Registry /\ Agrees(a) /\ a.count = [reg.count EXCEPT !["requester"] = @ + 1]
      /\ Held(a, "requester") = Held(reg, "requester") \union {o}
      /\ Held(a, "listener") = Held(reg, "listener")
  BY <1>4 DEF Come, Sides
<1> DEFINE owned == [a.conn[o] EXCEPT !.owner = n]
<1>8. owned \in Connections /\ owned.fd = a.conn[o].fd
  <2>1. a.conn[o] \in Connections
    BY <1>6, <1>7 DEF Registry
  <2> QED BY <2>1, <1>2 DEF Connections
<1>9. /\ reg'.live = a.live /\ reg'.open = a.open /\ reg'.peers = a.peers
      /\ reg'.monitored = a.monitored /\ reg'.count = a.count
      /\ reg'.conn = [a.conn EXCEPT ![o].owner = n] /\ reg'.conn = [a.conn EXCEPT ![o] = owned]
      /\ reg' = [live |-> reg'.live, open |-> reg'.open, conn |-> reg'.conn, peers |-> reg'.peers,
                 monitored |-> reg'.monitored, count |-> reg'.count]
  BY <1>1, <1>6, <1>7 DEF Registry
<1> HIDE DEF owned
<1>10. reg' \in Registry
  BY <1>7, <1>8, <1>9 DEF Registry
<1>11. \A p \in Objects : reg'.conn[p].fd = a.conn[p].fd
  BY <1>7, <1>8, <1>9 DEF Registry
<1>12. \A s \in Sides : Held(reg', s) = Held(a, s)
  BY <1>9 DEF Held
<1>13. Agrees(reg')
  <2>1. ASSUME NEW s \in Sides PROVE MapAgrees(reg', s)
    BY <1>7, <1>9, <1>11 DEF Agrees, MapAgrees, Registry
  <2>2. ASSUME NEW s \in Sides PROVE PollerAgrees(reg', s)
    BY <1>7, <1>9, <1>12 DEF Agrees, PollerAgrees
  <2>3. OneSide(reg')
    BY <1>7, <1>9 DEF Agrees, OneSide
  <2> QED BY <2>1, <2>2, <2>3 DEF Agrees
<1>14. /\ cache' \in Cache /\ KnownFirst(cache')
       /\ cache'[n].detail = o /\ cache'[n].fd = fd /\ \A m \in Names \ {n} : cache'[m] = cache[m]
  <2> DEFINE entry == [cache[n] EXCEPT !.fd = fd, !.detail = o]
  <2>1. cache' = [cache EXCEPT ![n] = entry]
    BY <1>1, <1>2 DEF Cache
  <2>2. /\ entry \in [known : BOOLEAN, detail : Objects \union {None}, fd : Fds \union {INVALID_SOCK_FD}]
        /\ entry.fd = fd /\ entry.detail = o /\ entry.known = cache[n].known
    BY <1>2, <1>6 DEF Cache
  <2> HIDE DEF entry
  <2>3. /\ cache' \in Cache /\ cache'[n] = entry
        /\ \A m \in Names \ {n} : cache'[m] = cache[m]
    BY <2>1, <2>2, <1>2 DEF Cache
  <2> QED BY <2>2, <2>3, <1>2, <1>5 DEF KnownFirst
<1>15. Links(reg', cache')
  <2>1. \E m \in Servers :
          /\ "requester" = "requester" /\ cache[m].detail = None
          /\ cache'[m].detail = o /\ cache'[m].fd = fd /\ \A k \in Names \ {m} : cache'[k] = cache[k]
          /\ reg'.conn = [a.conn EXCEPT ![o].owner = m]
    BY <1>1, <1>5, <1>9, <1>14
  <2> QED BY <2>1, <1>2, <1>3, <1>4, <1>12, <1>14, LinksWith
<1>16. AllRegistered' = AllRegistered \union {o}
  <2>1. AllRegistered' = Held(reg', "listener") \union Held(reg', "requester")
    BY DEF AllRegistered, Registered, Held, Sides
  <2> QED BY <2>1, <1>7, <1>12, RegisteredIsHeld DEF Sides
<1>17. \A s \in Sides : reg'.count[s] <= MaxCount(s)
  <2>1. /\ reg.count["requester"] < MaxCount("requester") /\ reg.count["listener"] <= MaxCount("listener")
        /\ reg.count \in [Sides -> Nat]
    BY <1>1, <1>2 DEF PollerHasRoom, IInv, TypeOK, Registry, Sides
  <2>2. MaxCount("requester") \in Nat
    BY Types, FS_CardinalityType DEF MaxCount
  <2>3. reg'.count["requester"] = reg.count["requester"] + 1 /\ reg'.count["listener"] = reg.count["listener"]
    BY <2>1, <1>7, <1>9 DEF Sides
  <2>4. reg'.count["requester"] <= MaxCount("requester")
    BY <2>1, <2>2, <2>3 DEF Sides
  <2> QED BY <2>1, <2>3, <2>4 DEF Sides
<1>18. TypeOK'
  BY <1>1, <1>10, <1>14, <1>16, <1>17 DEF IInv, TypeOK, MaxCount, Cache
<1>19. EventsAreLive'
  BY <1>1 DEF EventsAreLive, Sides
<1> QED BY <1>10, <1>13, <1>14, <1>15, <1>18, <1>19 DEF IInv
-----------------------------------------------------------------------------
\* Every step keeps the invariant.
LEMMA NextHolds == IInv /\ [Next]_vars => IInv'
<1> SUFFICES ASSUME IInv, [Next]_vars PROVE IInv'
  OBVIOUS
<1>1. CASE Quiet
  BY <1>1, QuietStep
<1>2. CASE \E stage \in {"refused", "blocking", "accepted"} : Accept(stage)
  BY <1>2, AcceptStep
<1>3. CASE \E side \in Sides : Shut(side)
  BY <1>3, ShutStep
<1>4. CASE \E n \in Names : ReportIdentity(n)
  BY <1>4, ReportStep
<1>5. CASE IdentityResponse
  BY <1>5, ResponseStep
<1>6. CASE \E n \in Names : VisitSilent(n)
  BY <1>6, SilentStep
<1>7. CASE \E n \in Names : VisitUnreachable(n)
  BY <1>7, UnreachableStep
<1>8. CASE \E n \in Names : VisitReachable(n)
  BY <1>8, ReachableStep
<1> QED BY <1>1, <1>2, <1>3, <1>4, <1>5, <1>6, <1>7, <1>8 DEF Next, Events, Tasks, Quiet

\* Names, connections, map and poller agree in every run.
THEOREM Invariance == Spec => []IInv
  BY InitHolds, NextHolds, PTL DEF Spec

\* Registry, cache and turns are well-formed for any number of them, and the poller
\* never counts more than its limit.
THEOREM TypeCorrect == Spec => []TypeOK
<1>1. IInv => TypeOK
  BY DEF IInv
<1> QED BY <1>1, Invariance, PTL

\* Map, poller and open descriptors agree whatever accept, report or heartbeat came.
THEOREM RegistriesAgree == Spec => []RegistryAgrees
<1>1. IInv => RegistryAgrees
  BY AgreesIsInvariant DEF IInv
<1> QED BY <1>1, Invariance, PTL

\* No event of a poll speaks of a connection that an earlier event has destroyed.
THEOREM EventsStayLive == Spec => []EventsAreLive
<1>1. IInv => EventsAreLive
  BY DEF IInv
<1> QED BY <1>1, Invariance, PTL

\* The cache never points to a connection that is freed or belongs to another name.
THEOREM CachesAgree == Spec => []CacheAgrees
<1>1. IInv => CacheAgrees
  BY LinksIsInvariant DEF IInv, CacheAgrees
<1> QED BY <1>1, Invariance, PTL

\* A message for a type finds a registered connection of that type if there is one.
THEOREM PicksFindAlive == Spec => []PickFindsAlive
<1>1. IInv => PickFindsAlive
  <2> SUFFICES ASSUME IInv, Intact, NEW place \in Nodes
               PROVE  IF Alive # {} THEN Pick(place) # NoName /\ cache[Pick(place)].detail \in AllRegistered
                      ELSE Pick(place) = NoName
    BY DEF PickFindsAlive
  <2>1. CASE Alive = {}
    BY <2>1 DEF Pick, Smallest
  <2>2. CASE Alive # {}
    <3>1. Group \in Seq(Names) /\ NoName \notin Names
      BY ConnRegistryAssumption
    <3>2. Alive \in SUBSET Nat
      BY <3>1 DEF Alive, Nodes
    <3>3. Min(Alive) \in Alive
      BY <2>2, <3>2, LeastIn
    <3>4. \A i \in Alive : Group[i] \in Names /\ cache[Group[i]].detail # None
      BY <3>1 DEF Alive, Nodes
    <3>5. PICK i \in Alive : Pick(place) = Group[i]
      BY <2>2, <3>3 DEF Pick, Smallest
    <3>6. cache[Group[i]].detail \in AllRegistered
      BY <3>4, RegisteredIsHeld DEF IInv, Links, Entries, Sides
    <3> QED BY <2>2, <3>1, <3>4, <3>5, <3>6
  <2> QED BY <2>1, <2>2
<1> QED BY <1>1, Invariance, PTL

\* In every step that refuses a client, another connection of its name, or itself, is
\* registered.
THEOREM RefusalsAreHeld == Spec => RefusedOnlyWhileHeld
<1>1. ASSUME IInv, NEW n \in Clients \ Servers, ReportIdentity(n), reg' = reg
      PROVE  \E o \in Registered("listener") : Owner(o) = n
  <2>1. /\ Intact /\ reg \in Registry /\ Links(reg, cache) /\ KnownFirst(cache) /\ cache \in Cache
        /\ Agrees(reg) /\ n \in Names /\ turn = "listener" /\ Sides = {"listener", "requester"}
    BY <1>1 DEF ReportIdentity, InEvents, IInv, TypeOK, Names, Cache, Sides
  <2>2. PICK o \in active \ ({Listening} \union closed) :
          Free(n) => reg' = [reg EXCEPT !.conn[o].owner = n, !.conn[o].validated = TRUE]
    BY <1>1 DEF ReportIdentity
  <2>3. o \in Registered("listener") /\ o \in Objects
    BY <2>1, RegisteredIsHeld, HeldObjects, <1>1 DEF IInv, EventsAreLive
  <2>4. CASE Free(n)
    <3>1. reg.conn[o] \in Connections
      BY <2>1, <2>3 DEF Registry
    <3>2. reg'.conn[o] = [reg.conn[o] EXCEPT !.owner = n, !.validated = TRUE]
      <4>1. reg' = [reg EXCEPT !.conn[o].owner = n, !.conn[o].validated = TRUE]
        BY <2>2, <2>4
      <4>2. reg'.conn = [reg.conn EXCEPT ![o] = [@ EXCEPT !.owner = n, !.validated = TRUE]]
        BY <4>1, <2>1, <2>3 DEF Registry
      <4>3. DOMAIN reg.conn = Objects
        BY <2>1 DEF Registry
      <4> QED BY <4>2, <4>3, <2>3
    <3>3. reg.conn[o].owner = n
      BY <1>1, <3>1, <3>2 DEF Connections
    <3> QED BY <2>3, <3>3 DEF Owner
  <2>5. CASE ~Free(n)
    <3> DEFINE p == cache[n].detail
    <3>1. p # None
      BY <2>5 DEF Free
    <3>2. reg.conn[p].owner = n /\ \E side \in Sides : p \in Held(reg, side)
      BY <2>1, <3>1 DEF Links, Entries
    <3>3. p \in Held(reg, "listener")
      BY <1>1, <2>1, <3>2 DEF Links, ServersApart
    <3> QED BY <3>2, <3>3, RegisteredIsHeld DEF Owner
  <2> QED BY <2>4, <2>5
<1>2. IInv /\ [Next]_vars =>
        [\A n \in Clients \ Servers : ReportIdentity(n) /\ reg' = reg =>
          \E o \in Registered("listener") : Owner(o) = n]_vars
  BY <1>1
<1> QED BY <1>2, Invariance, PTL DEF Spec, RefusedOnlyWhileHeld
-----------------------------------------------------------------------------
\* The packets
\*
\* The clients send the fragments of a message in order, over one connection, and
\* process() takes what is in front; but two sendings of one message may come over
\* two connections.  The invariant says why this does no harm: a fragment only
\* continues a message behind the fragment before it, and a first fragment that
\* meets an open message is one of the mishaps.

\* p is the fragment right before q of the same sending.
Precedes(p, q) == p.sid = q.sid /\ p.attempt = q.attempt /\ p.num + 1 = q.num

\* p is the fragment sent last of its session.
SentLast(p) ==
  /\ p.attempt = sending[p.sid].attempt /\ p.num = sending[p.sid].num

\* A connection holds what a client has sent over it, in the order of sending.
NothingButSent ==
  /\ \A s \in Sessions : /\ sending[s].num > 0 => sending[s].conn \in Conns /\ sending[s].attempt > 0
                         /\ sending[s].num <= Length(s) /\ sending[s].attempt <= MaxAttempts[s]
  /\ \A c \in Conns : \A i \in DOMAIN recv_buf[c] : LET p == recv_buf[c][i] IN
       /\ p.num <= Length(p.sid) /\ p.attempt <= sending[p.sid].attempt
       /\ p.attempt = sending[p.sid].attempt =>
            c = sending[p.sid].conn /\ p.num <= sending[p.sid].num

InOrder == \A c, d \in Conns : \A i \in DOMAIN recv_buf[c], j \in DOMAIN recv_buf[d] :
  LET p == recv_buf[c][i]  q == recv_buf[d][j] IN
  p.sid = q.sid /\ p.attempt = q.attempt => c = d /\ (i < j => p.num < q.num)

\* None of the five mishaps after which a message may have lost its order.
Clean(s) == blame[s] \intersect {"ungrouped", "unparsed", "resumed", "moved over", "not taken"} = {}

\* The packets of s come to the cache.
Flowing(s) == component[s].known /\ ~(s \in saved /\ Filters(s))

EndsWith(s, q) == parts[s] # <<>> /\ Precedes(parts[s][Len(parts[s])], q)

\* Before each fragment but the first comes its predecessor, in the buffer or as
\* the last one grouped.
Follows == \A c \in Conns : \A i \in DOMAIN recv_buf[c] : LET q == recv_buf[c][i] IN
  Clean(q.sid) /\ Flowing(q.sid) /\ q.num > 1 =>
    (\E j \in 1 .. i - 1 : Precedes(recv_buf[c][j], q)) \/ EndsWith(q.sid, q)

\* Before a fragment not yet sent comes the one sent last.
NextFollows == \A s \in Sessions :
  Clean(s) /\ Flowing(s) /\ sending[s].num \in 1 .. Length(s) - 1 =>
    \/ \E i \in DOMAIN recv_buf[sending[s].conn] :
         LET p == recv_buf[sending[s].conn][i] IN p.sid = s /\ SentLast(p)
    \/ parts[s] # <<>> /\ SentLast(parts[s][Len(parts[s])])

\* What is grouped of a session is of this session, begins with a first fragment,
\* and goes on in order.
PartsAgree(s) ==
  /\ \A i \in DOMAIN parts[s] : parts[s][i].sid = s
  /\ s \in cached => (parts[s] # <<>> /\ parts[s][1].num = 1) \/ "ungrouped" \in blame[s]
  /\ Clean(s) => \A i \in DOMAIN parts[s] :
                   parts[s][i].num = i /\ parts[s][i].attempt = parts[s][1].attempt
  /\ (\E i \in DOMAIN parts[s] : Final(parts[s][i])) => "discarded" \in blame[s]

\* The attempts whose last fragment has been sent and is no longer in a buffer.
Ended(s) == {a \in 1 .. sending[s].attempt :
  /\ a < sending[s].attempt \/ sending[s].num = Length(s)
  /\ \A c \in Conns : \A i \in DOMAIN recv_buf[c] :
       recv_buf[c][i].sid = s /\ recv_buf[c][i].attempt = a => ~Final(recv_buf[c][i])}

\* What the business of a session has worked on: whole messages, one for each
\* attempt that has ended, and one at all when the reply could be saved.
WorkAgrees(s) ==
  /\ "not taken" \notin blame[s] => Len(done[s]) <= Cardinality(Ended(s))
  /\ Filters(s) /\ done[s] # <<>> => s \in saved \/ blame[s] \intersect {"silent", "discarded"} # {}

ProcessorInv ==
  /\ ProcessorTypeOK /\ (in_buf \in Conns => input_conn \in Conns)
  /\ NothingButSent /\ InOrder /\ Follows /\ NextFollows
  /\ \A s \in Sessions : PartsAgree(s) /\ WorkAgrees(s)
  /\ BusinessOnWhole /\ RepeatedOnlyUnanswered
-----------------------------------------------------------------------------
\* The fields of a packet, and a packet by its fields.
LEMMA PacketFields ==
  ASSUME NEW p \in Packets
  PROVE  /\ p.sid \in Sessions /\ p.num \in 1 .. Fragments
         /\ p.num \in Nat \ {0} /\ p.attempt \in Nat \ {0}
BY PacketProcessorAssumption DEF Packets

LEMMA IsPacket ==
  ASSUME NEW s \in Sessions, NEW n \in 1 .. Fragments, NEW a \in 1 .. MaxAttempts[s]
  PROVE  [sid |-> s, num |-> n, attempt |-> a] \in Packets
BY DEF Packets

\* A message has one to Fragments fragments.
LEMMA LengthInRange ==
  ASSUME component \in Components, NEW s \in Sessions
  PROVE  /\ Length(s) \in 1 .. Fragments
         /\ Multi(s) \in BOOLEAN /\ Filters(s) \in BOOLEAN
         /\ ~Multi(s) => Length(s) = 1
<1>1. component[s] \in [known : BOOLEAN, multi : BOOLEAN, filters : BOOLEAN]
  BY PacketProcessorAssumption
<1>2. Multi(s) \in BOOLEAN /\ Filters(s) \in BOOLEAN
  BY <1>1 DEF Multi, Filters
<1>3. Length(s) \in 1 .. Fragments /\ (~Multi(s) => Length(s) = 1)
  BY <1>2, PacketProcessorAssumption DEF Length
<1> QED BY <1>2, <1>3

\* A packet is added behind the others of a connection.
LEMMA AddedBehind ==
  ASSUME recv_buf \in [Conns -> Seq(Packets)], NEW c \in Conns, NEW e \in Packets,
         recv_buf' = [recv_buf EXCEPT ![c] = Append(@, e)]
  PROVE  /\ recv_buf' \in [Conns -> Seq(Packets)]
         /\ \A d \in Conns : \A i \in DOMAIN recv_buf[d] :
              i \in DOMAIN recv_buf'[d] /\ recv_buf'[d][i] = recv_buf[d][i]
         /\ \A d \in Conns : \A i \in DOMAIN recv_buf'[d] :
              i \in DOMAIN recv_buf[d] \/ (d = c /\ i = Len(recv_buf[c]) + 1)
         /\ Len(recv_buf[c]) + 1 \in DOMAIN recv_buf'[c]
         /\ recv_buf'[c][Len(recv_buf[c]) + 1] = e
<1>1. recv_buf'[c] = Append(recv_buf[c], e) /\ recv_buf[c] \in Seq(Packets)
  OBVIOUS
<1>2. \A d \in Conns \ {c} : recv_buf'[d] = recv_buf[d]
  OBVIOUS
<1> QED BY <1>1, <1>2

\* The front packet of a connection is taken.
LEMMA TakenFirst ==
  ASSUME recv_buf \in [Conns -> Seq(Packets)], NEW c \in Conns, recv_buf[c] # <<>>,
         recv_buf' = [recv_buf EXCEPT ![c] = Tail(@)]
  PROVE  /\ recv_buf' \in [Conns -> Seq(Packets)]
         /\ \A d \in Conns : \A i \in DOMAIN recv_buf'[d] :
              /\ d = c => i + 1 \in DOMAIN recv_buf[d] /\ recv_buf'[d][i] = recv_buf[d][i + 1]
              /\ d # c => i \in DOMAIN recv_buf[d] /\ recv_buf'[d][i] = recv_buf[d][i]
         /\ \A d \in Conns : \A i \in DOMAIN recv_buf[d] :
              /\ d = c /\ i # 1 => i - 1 \in DOMAIN recv_buf'[d] /\ recv_buf'[d][i - 1] = recv_buf[d][i]
              /\ d # c => i \in DOMAIN recv_buf'[d] /\ recv_buf'[d][i] = recv_buf[d][i]
         /\ 1 \in DOMAIN recv_buf[c] /\ Head(recv_buf[c]) = recv_buf[c][1]
         /\ Head(recv_buf[c]) \in Packets
<1>1. /\ recv_buf'[c] = Tail(recv_buf[c]) /\ recv_buf[c] \in Seq(Packets)
      /\ recv_buf' = [d \in Conns |-> IF d = c THEN Tail(recv_buf[c]) ELSE recv_buf[d]]
  OBVIOUS
<1>2. \A d \in Conns \ {c} : recv_buf'[d] = recv_buf[d]
  OBVIOUS
<1>3. Len(recv_buf[c]) \in Nat \ {0} /\ DOMAIN recv_buf[c] = 1 .. Len(recv_buf[c])
  BY <1>1, EmptySeq
<1>4. /\ Tail(recv_buf[c]) \in Seq(Packets) /\ Len(Tail(recv_buf[c])) = Len(recv_buf[c]) - 1
      /\ \A i \in 1 .. Len(recv_buf[c]) - 1 : Tail(recv_buf[c])[i] = recv_buf[c][i + 1]
  BY <1>1, <1>3
<1>5. DOMAIN Tail(recv_buf[c]) = 1 .. Len(recv_buf[c]) - 1
  BY <1>4
<1>6. recv_buf' \in [Conns -> Seq(Packets)]
  BY <1>1, <1>4
<1>7. Head(recv_buf[c]) = recv_buf[c][1] /\ recv_buf[c][1] \in Packets
  BY <1>1, <1>3
<1> QED BY <1>1, <1>2, <1>3, <1>4, <1>5, <1>6, <1>7
-----------------------------------------------------------------------------
\* Nothing is pending in the beginning.
LEMMA ProcessorInitHolds == ProcessorInit => ProcessorInv
<1> SUFFICES ASSUME ProcessorInit PROVE ProcessorInv
  OBVIOUS
<1> USE DEF ProcessorInit
<1>1. ProcessorTypeOK
  BY PacketProcessorAssumption DEF ProcessorTypeOK
<1>2. /\ \A c \in Conns : DOMAIN recv_buf[c] = {}
      /\ \A s \in Sessions : /\ DOMAIN parts[s] = {} /\ DOMAIN done[s] = {} /\ Len(done[s]) = 0
                             /\ Works(s) = {}
  BY DEF Works
<1>3. NothingButSent
  <2>1. \A s \in Sessions : /\ sending[s].num = 0 /\ 0 <= Length(s)
                            /\ sending[s].attempt = 0 /\ 0 <= MaxAttempts[s]
    BY LengthInRange, PacketProcessorAssumption
  <2> QED BY <1>2, <2>1 DEF NothingButSent
<1>4. InOrder /\ Follows /\ NextFollows
  <2>1. \A s \in Sessions : sending[s].num = 0 /\ Length(s) \in Nat
    BY LengthInRange, PacketProcessorAssumption
  <2>2. NextFollows
    BY <2>1 DEF NextFollows
  <2> QED BY <1>2, <2>2 DEF InOrder, Follows
<1>5. \A s \in Sessions : PartsAgree(s)
  BY <1>2 DEF PartsAgree
<1>6. \A s \in Sessions : WorkAgrees(s)
  <2> SUFFICES ASSUME NEW s \in Sessions PROVE WorkAgrees(s)
    OBVIOUS
  <2>1. Ended(s) = {}
    BY DEF Ended
  <2>2. Cardinality(Ended(s)) = 0
    BY <2>1, FS_EmptySet
  <2> QED BY <1>2, <2>2 DEF WorkAgrees
<1>7. BusinessOnWhole /\ RepeatedOnlyUnanswered
  BY <1>2 DEF BusinessOnWhole, RepeatedOnlyUnanswered
<1> QED BY <1>1, <1>3, <1>4, <1>5, <1>6, <1>7 DEF ProcessorInv

\* Of n attempts finitely many have ended, and no more than n.
LEMMA UpTo ==
  ASSUME NEW n \in Nat, NEW S, S \subseteq 1 .. n
  PROVE  /\ IsFiniteSet(S) /\ Cardinality(S) \in Nat /\ Cardinality(S) <= n
         /\ \A k \in Nat : k <= Cardinality(S) => k <= n
<1>1. n \in Int /\ 1 \in Int
  OBVIOUS
<1>2. IsFiniteSet(1 .. n) /\ Cardinality(1 .. n) = IF 1 > n THEN 0 ELSE n - 1 + 1
  BY <1>1, FS_Interval
<1>3. Cardinality(1 .. n) = n
  BY <1>2
<1>4. IsFiniteSet(S) /\ Cardinality(S) \in Nat /\ Cardinality(S) <= n
  BY <1>2, <1>3, FS_Subset, FS_CardinalityType
<1> QED BY <1>4

\* A bound by the number of some attempts is one by the number of more attempts, and
\* leaves room for one more if one was added.
LEMMA MoreEnded ==
  ASSUME NEW n \in Nat, NEW T, T \subseteq 1 .. n, NEW S, S \subseteq T, NEW k \in Nat,
         k <= Cardinality(S)
  PROVE  k <= Cardinality(T) /\ (S # T => k + 1 <= Cardinality(T))
<1>1. IsFiniteSet(T) /\ Cardinality(T) \in Nat /\ Cardinality(S) \in Nat
  BY UpTo
<1>2. S \in SUBSET T
  OBVIOUS
<1>3. Cardinality(S) <= Cardinality(T) /\ (Cardinality(T) = Cardinality(S) => T = S)
  BY <1>1, <1>2, FS_Subset
<1> QED BY <1>1, <1>3

\* A client sends the first fragment of its next attempt, or the next one of the
\* attempt it is in.
LEMMA SendStep ==
  ASSUME ProcessorInv, NEW s \in Sessions, NEW c \in Conns, NEW n \in 1 .. Length(s),
         NEW a \in 1 .. MaxAttempts[s],
         \/ n = 1 /\ a = sending[s].attempt + 1
         \/ /\ n = sending[s].num + 1 /\ a = sending[s].attempt
            /\ c = sending[s].conn /\ sending[s].num \in 1 .. Length(s) - 1,
         sending' \in [Sessions -> [conn : Conns \union {NoConn}, num : 0 .. Fragments, attempt : Nat]],
         sending'[s].conn = c, sending'[s].num = n, sending'[s].attempt = a,
         \A t \in Sessions \ {s} : sending'[t] = sending[t],
         recv_buf' = [recv_buf EXCEPT ![c] = Append(@, [sid |-> s, num |-> n, attempt |-> a])],
         UNCHANGED <<component, cached, parts, saved, in_buf, input_conn, handle_count, done, blame>>
  PROVE  ProcessorInv'
<1> DEFINE e == [sid |-> s, num |-> n, attempt |-> a]
           new == Len(recv_buf[c]) + 1
<1>0. /\ ProcessorTypeOK /\ MaxAttempts[s] \in Nat
      /\ recv_buf \in [Conns -> Seq(Packets)] /\ sending[s].num \in Nat /\ sending[s].attempt \in Nat
      /\ \A t \in Sessions : sending[t].num \in Nat /\ sending[t].attempt \in Nat
  BY PacketProcessorAssumption DEF ProcessorInv, ProcessorTypeOK
<1>1. \A t \in Sessions : /\ Length(t) \in Nat \ {0} /\ Length(t) <= Fragments
                            /\ Length(t)' = Length(t)
  BY LengthInRange, <1>0, PacketProcessorAssumption DEF ProcessorTypeOK, Length, Multi
<1>2. e \in Packets
  BY <1>1, IsPacket, PacketProcessorAssumption
<1>e. e.sid = s /\ e.num = n /\ e.attempt = a
  OBVIOUS
<1> HIDE DEF e
<1>3. /\ recv_buf' \in [Conns -> Seq(Packets)]
      /\ \A d \in Conns : \A i \in DOMAIN recv_buf[d] :
           i \in DOMAIN recv_buf'[d] /\ recv_buf'[d][i] = recv_buf[d][i]
      /\ \A d \in Conns : \A i \in DOMAIN recv_buf'[d] :
           i \in DOMAIN recv_buf[d] \/ (d = c /\ i = new)
      /\ new \in DOMAIN recv_buf'[c] /\ recv_buf'[c][new] = e
  <2>1. recv_buf' = [recv_buf EXCEPT ![c] = Append(@, e)]
    BY DEF e
  <2> QED BY <2>1, <1>0, <1>2, AddedBehind
<1>4. /\ DOMAIN recv_buf[c] = 1 .. new - 1 /\ new \in Nat \ {0}
      /\ \A d \in Conns : \A i \in DOMAIN recv_buf[d] : i \in Nat \ {0} /\ recv_buf[d][i] \in Packets
  BY <1>0
<1>5. \A d \in Conns : \A i \in DOMAIN recv_buf[d] :
        /\ recv_buf[d][i].sid \in Sessions /\ recv_buf[d][i].num \in Nat /\ recv_buf[d][i].attempt \in Nat
        /\ recv_buf[d][i].num <= Length(recv_buf[d][i].sid)
        /\ recv_buf[d][i].attempt <= sending[recv_buf[d][i].sid].attempt
        /\ recv_buf[d][i].attempt = sending[recv_buf[d][i].sid].attempt =>
             d = sending[recv_buf[d][i].sid].conn /\ recv_buf[d][i].num <= sending[recv_buf[d][i].sid].num
  <2>1. NothingButSent
    BY DEF ProcessorInv
  <2> QED BY <2>1, <1>4, PacketFields DEF NothingButSent
<1>6. ASSUME NEW d \in Conns, NEW i \in DOMAIN recv_buf[d], recv_buf[d][i].sid = s
      PROVE  /\ recv_buf[d][i].attempt <= a
             /\ recv_buf[d][i].attempt = a => d = c /\ recv_buf[d][i].num < n
  <2>1. /\ recv_buf[d][i].attempt <= sending[s].attempt
        /\ recv_buf[d][i].attempt \in Nat /\ recv_buf[d][i].num \in Nat
        /\ recv_buf[d][i].attempt = sending[s].attempt =>
             d = sending[s].conn /\ recv_buf[d][i].num <= sending[s].num
    BY <1>5, <1>6
  <2>2. CASE n = 1 /\ a = sending[s].attempt + 1
    BY <2>1, <2>2, <1>0
  <2>3. CASE /\ n = sending[s].num + 1 /\ a = sending[s].attempt
             /\ c = sending[s].conn /\ sending[s].num \in 1 .. Length(s) - 1
    BY <2>1, <2>3, <1>0
  <2> QED BY <2>2, <2>3
<1> HIDE DEF new
<1>7. ProcessorTypeOK'
  BY <1>0, <1>3 DEF ProcessorTypeOK
<1>8. NothingButSent'
  <2>1. ASSUME NEW t \in Sessions
        PROVE  /\ sending'[t].num > 0 => sending'[t].conn \in Conns /\ sending'[t].attempt > 0
               /\ sending'[t].num <= Length(t) /\ sending'[t].attempt <= MaxAttempts[t]
    <3>1. CASE t = s
      BY <3>1, <1>0, <1>1
    <3>2. CASE t # s
      BY <3>2 DEF ProcessorInv, NothingButSent
    <3> QED BY <3>1, <3>2
  <2>2. ASSUME NEW d \in Conns, NEW i \in DOMAIN recv_buf'[d]
        PROVE  /\ recv_buf'[d][i].num <= Length(recv_buf'[d][i].sid)
               /\ recv_buf'[d][i].sid \in Sessions
               /\ recv_buf'[d][i].attempt <= sending'[recv_buf'[d][i].sid].attempt
               /\ recv_buf'[d][i].attempt = sending'[recv_buf'[d][i].sid].attempt =>
                    /\ d = sending'[recv_buf'[d][i].sid].conn
                    /\ recv_buf'[d][i].num <= sending'[recv_buf'[d][i].sid].num
    <3>1. CASE i \in DOMAIN recv_buf[d] /\ recv_buf[d][i].sid = s
      BY <3>1, <1>3, <1>5, <1>6
    <3>2. CASE i \in DOMAIN recv_buf[d] /\ recv_buf[d][i].sid # s
      <4>1. recv_buf'[d][i] = recv_buf[d][i] /\ recv_buf[d][i].sid \in Sessions \ {s}
        BY <3>2, <1>3, <1>5
      <4>2. sending'[recv_buf[d][i].sid] = sending[recv_buf[d][i].sid]
        BY <4>1
      <4> QED BY <3>2, <4>1, <4>2, <1>5
    <3>3. CASE d = c /\ i = new
      <4>1. n <= Length(s) /\ a <= a /\ n <= n
        BY <1>0, <1>1
      <4> QED BY <4>1, <3>3, <1>3, <1>e
    <3> QED BY <3>1, <3>2, <3>3, <1>3
  <2> QED BY <2>1, <2>2, <1>1 DEF NothingButSent
<1>9. InOrder'
  <2> SUFFICES ASSUME NEW d \in Conns, NEW b \in Conns,
                      NEW i \in DOMAIN recv_buf'[d], NEW j \in DOMAIN recv_buf'[b],
                      recv_buf'[d][i].sid = recv_buf'[b][j].sid,
                      recv_buf'[d][i].attempt = recv_buf'[b][j].attempt
               PROVE  d = b /\ (i < j => recv_buf'[d][i].num < recv_buf'[b][j].num)
    BY DEF InOrder
  <2>1. CASE i \in DOMAIN recv_buf[d] /\ j \in DOMAIN recv_buf[b]
    BY <2>1, <1>3 DEF ProcessorInv, InOrder
  <2>2. CASE i \in DOMAIN recv_buf[d] /\ b = c /\ j = new
    BY <2>2, <1>3, <1>6, <1>e
  <2>3. CASE d = c /\ i = new /\ j \in DOMAIN recv_buf[b]
    <3>1. b = c /\ j < new
      BY <2>3, <1>3, <1>4, <1>6, <1>e
    <3> QED BY <3>1, <2>3, <1>4
  <2>4. CASE d = c /\ i = new /\ b = c /\ j = new
    BY <2>4, <1>4
  <2> QED BY <2>1, <2>2, <2>3, <2>4, <1>3
<1>10. \A t \in Sessions : (Clean(t)' <=> Clean(t)) /\ (Flowing(t)' <=> Flowing(t))
  BY DEF Clean, Flowing, Filters
<1>11. Follows'
  <2> SUFFICES ASSUME NEW d \in Conns, NEW i \in DOMAIN recv_buf'[d],
                      NEW q, q = recv_buf'[d][i], Clean(q.sid)', Flowing(q.sid)', q.num > 1
               PROVE  (\E j \in 1 .. i - 1 : Precedes(recv_buf'[d][j], q)) \/ EndsWith(q.sid, q)'
    BY DEF Follows, Precedes
  <2>1. CASE i \in DOMAIN recv_buf[d]
    <3>1. q = recv_buf[d][i] /\ q.sid \in Sessions
      BY <2>1, <1>3, <1>5
    <3>2. Clean(q.sid) /\ Flowing(q.sid)
      BY <3>1, <1>10
    <3>3. (\E j \in 1 .. i - 1 : Precedes(recv_buf[d][j], q)) \/ EndsWith(q.sid, q)
      BY <3>1, <3>2, <2>1 DEF ProcessorInv, Follows
    <3>4. \A j \in 1 .. i - 1 : j \in DOMAIN recv_buf[d]
      BY <2>1, <1>0
    <3>5. EndsWith(q.sid, q)' <=> EndsWith(q.sid, q)
      BY DEF EndsWith
    <3>6. \A j \in 1 .. i - 1 : recv_buf'[d][j] = recv_buf[d][j]
      BY <3>4, <1>3
    <3> QED BY <3>3, <3>5, <3>6
  <2>2. CASE d = c /\ i = new
    <3>1. q = e /\ Clean(s) /\ Flowing(s) /\ n > 1
      BY <2>2, <1>3, <1>e, <1>10
    <3>2. /\ n = sending[s].num + 1 /\ a = sending[s].attempt
          /\ c = sending[s].conn /\ sending[s].num \in 1 .. Length(s) - 1
      BY <3>1
    <3>3. \/ \E j \in DOMAIN recv_buf[c] : recv_buf[c][j].sid = s /\ SentLast(recv_buf[c][j])
          \/ parts[s] # <<>> /\ SentLast(parts[s][Len(parts[s])])
      BY <3>1, <3>2 DEF ProcessorInv, NextFollows
    <3>4. ASSUME NEW j \in DOMAIN recv_buf[c], recv_buf[c][j].sid = s, SentLast(recv_buf[c][j])
          PROVE  j \in 1 .. i - 1 /\ Precedes(recv_buf'[c][j], q)
      BY <3>1, <3>2, <3>4, <2>2, <1>3, <1>4, <1>e DEF SentLast, Precedes
    <3>5. CASE parts[s] # <<>> /\ SentLast(parts[s][Len(parts[s])])
      <4>1. Len(parts[s]) \in DOMAIN parts[s]
        BY <3>5, <1>0 DEF ProcessorTypeOK
      <4>2. parts[s][Len(parts[s])].sid = s
        BY <4>1 DEF ProcessorInv, PartsAgree
      <4> QED BY <3>1, <3>2, <3>5, <4>2, <1>e DEF SentLast, Precedes, EndsWith
    <3> QED BY <3>3, <3>4, <3>5, <2>2
  <2> QED BY <2>1, <2>2, <1>3
<1>12. NextFollows'
  <2> SUFFICES ASSUME NEW t \in Sessions, Clean(t)', Flowing(t)', sending'[t].num \in 1 .. Length(t) - 1
               PROVE  \/ \E i \in DOMAIN recv_buf'[sending'[t].conn] :
                           /\ recv_buf'[sending'[t].conn][i].sid = t
                           /\ SentLast(recv_buf[sending[t].conn][i])'
                      \/ parts'[t] # <<>> /\ SentLast(parts[t][Len(parts[t])])'
    BY <1>1 DEF NextFollows
  <2> USE DEF SentLast
  <2>1. CASE t = s
    <3>1. new \in DOMAIN recv_buf'[sending'[t].conn] /\ recv_buf'[sending'[t].conn][new] = e
      BY <2>1, <1>3
    <3> QED BY <3>1, <2>1, <1>e
  <2>2. CASE t # s
    <3>1. sending'[t] = sending[t] /\ Clean(t) /\ Flowing(t) /\ sending[t].conn \in Conns
      BY <2>2, <1>0, <1>10 DEF ProcessorInv, NothingButSent
    <3>2. \/ \E i \in DOMAIN recv_buf[sending[t].conn] :
               recv_buf[sending[t].conn][i].sid = t /\ SentLast(recv_buf[sending[t].conn][i])
          \/ parts[t] # <<>> /\ SentLast(parts[t][Len(parts[t])])
      BY <3>1 DEF ProcessorInv, NextFollows
    <3>3. CASE parts[t] # <<>> /\ SentLast(parts[t][Len(parts[t])])
      <4>1. Len(parts[t]) \in DOMAIN parts[t]
        BY <3>3, <1>0 DEF ProcessorTypeOK
      <4>2. parts[t][Len(parts[t])].sid = t
        BY <4>1 DEF ProcessorInv, PartsAgree
      <4> QED BY <3>1, <3>3, <4>2
    <3>4. ASSUME NEW i \in DOMAIN recv_buf[sending[t].conn],
                 recv_buf[sending[t].conn][i].sid = t, SentLast(recv_buf[sending[t].conn][i])
          PROVE  /\ i \in DOMAIN recv_buf'[sending'[t].conn]
                 /\ recv_buf'[sending'[t].conn][i].sid = t
                 /\ SentLast(recv_buf[sending[t].conn][i])'
      <4>1. i \in DOMAIN recv_buf'[sending[t].conn] /\ recv_buf'[sending[t].conn][i] = recv_buf[sending[t].conn][i]
        BY <3>1, <1>3
      <4> QED BY <4>1, <3>1, <3>4
    <3> QED BY <3>2, <3>3, <3>4
  <2> QED BY <2>1, <2>2
<1>13. \A t \in Sessions : PartsAgree(t)'
  BY <1>10, <1>1 DEF ProcessorInv, PartsAgree, Final, Length, Multi
<1>14. ASSUME NEW t \in Sessions PROVE WorkAgrees(t)'
  <2>1. Ended(t) \subseteq Ended(t)'
    <3>1. CASE t # s
      <4>1. sending'[t] = sending[t]
        BY <3>1
      <4>2. \A d \in Conns : \A i \in DOMAIN recv_buf'[d] : recv_buf'[d][i].sid = t =>
              i \in DOMAIN recv_buf[d] /\ recv_buf'[d][i] = recv_buf[d][i]
        BY <3>1, <1>3, <1>e
      <4> QED BY <4>1, <4>2, <1>1 DEF Ended, Final
    <3>2. CASE t = s
      <4> SUFFICES ASSUME NEW b \in Ended(s) PROVE b \in Ended(s)'
        BY <3>2
      <4>1. /\ b \in 1 .. sending[s].attempt /\ (b < sending[s].attempt \/ sending[s].num = Length(s))
            /\ \A d \in Conns : \A i \in DOMAIN recv_buf[d] :
                 recv_buf[d][i].sid = s /\ recv_buf[d][i].attempt = b => ~Final(recv_buf[d][i])
        BY DEF Ended
      <4>2. b \in 1 .. a /\ b < a
        <5>1. b \in Nat \ {0} /\ b <= sending[s].attempt /\ a \in Nat
          BY <4>1, <1>0
        <5>2. CASE n = 1 /\ a = sending[s].attempt + 1
          BY <5>1, <5>2, <1>0
        <5>3. CASE /\ a = sending[s].attempt /\ sending[s].num \in 1 .. Length(s) - 1
          BY <5>1, <5>3, <4>1, <1>0, <1>1
        <5> QED BY <5>2, <5>3
      <4>3. \A d \in Conns : \A i \in DOMAIN recv_buf'[d] :
              recv_buf'[d][i].sid = s /\ recv_buf'[d][i].attempt = b =>
                i \in DOMAIN recv_buf[d] /\ recv_buf'[d][i] = recv_buf[d][i]
        BY <4>2, <1>3, <1>e
      <4>4. \A d \in Conns : \A i \in DOMAIN recv_buf'[d] :
              recv_buf'[d][i].sid = s /\ recv_buf'[d][i].attempt = b =>
                ~(recv_buf'[d][i].num = Length(recv_buf'[d][i].sid))
        BY <4>1, <4>3 DEF Final
      <4> QED BY <4>2, <4>4, <1>1 DEF Ended, Final
    <3> QED BY <3>1, <3>2
  <2>2. sending[t].attempt \in Nat /\ sending'[t].attempt \in Nat
    BY <1>0, <1>7 DEF ProcessorTypeOK
  <2>3. Ended(t)' \subseteq 1 .. sending'[t].attempt
    BY DEF Ended
  <2>5. Len(done[t]) \in Nat
    BY <1>0 DEF ProcessorTypeOK
  <2>6. WorkAgrees(t)
    BY DEF ProcessorInv
  <2>7. "not taken" \notin blame'[t] => Len(done'[t]) <= Cardinality(Ended(t)')
    <3>1. done'[t] = done[t] /\ blame'[t] = blame[t]
      OBVIOUS
    <3>2. "not taken" \notin blame[t] => Len(done[t]) <= Cardinality(Ended(t))
      BY <2>6 DEF WorkAgrees
    <3> QED BY <3>1, <3>2, <2>1, <2>2, <2>3, <2>5, MoreEnded, Zenon
  <2> QED BY <2>6, <2>7 DEF WorkAgrees, Filters
<1>15. BusinessOnWhole' /\ RepeatedOnlyUnanswered'
  <2>1. \A t \in Sessions : Works(t)' = Works(t) /\ (Filters(t)' <=> Filters(t))
    BY DEF Works, Filters
  <2>2. BusinessOnWhole'
    BY <2>1, <1>1 DEF ProcessorInv, BusinessOnWhole
  <2>3. RepeatedOnlyUnanswered'
    BY <2>1 DEF ProcessorInv, RepeatedOnlyUnanswered
  <2> QED BY <2>2, <2>3
<1>16. (in_buf \in Conns => input_conn \in Conns)'
  BY DEF ProcessorInv
<1> QED BY <1>7, <1>8, <1>9, <1>11, <1>12, <1>13, <1>14, <1>15, <1>16 DEF ProcessorInv
-----------------------------------------------------------------------------
\* The packet the pointer is moved over, which is the one handled unless a reply was
\* redirected.
Front == recv_buf[in_buf][1]

\* Handling p moves the pointer of one buffer over its front packet and forgives nothing.
LEMMA HandlesState ==
  ASSUME ProcessorInv, NEW p, NEW what \in SUBSET Blames, Handles(p, what)
  PROVE  /\ in_buf \in Conns /\ input_conn \in Conns
         /\ p \in Packets /\ p = recv_buf[input_conn][1] /\ 1 \in DOMAIN recv_buf[input_conn]
         /\ recv_buf[in_buf] # <<>> /\ Front \in Packets /\ 1 \in DOMAIN recv_buf[in_buf]
         /\ recv_buf' = [recv_buf EXCEPT ![in_buf] = Tail(@)]
         /\ recv_buf' \in [Conns -> Seq(Packets)]
         /\ handle_count' \in 0 .. MaxPerRound
         /\ UNCHANGED <<component, sending, in_buf>>
         /\ blame' \in [Sessions -> SUBSET Blames]
         /\ \A t \in Sessions : blame[t] \subseteq blame'[t]
         /\ what \subseteq blame'[p.sid]
         /\ Front # p => "not taken" \in blame'[p.sid] /\ "moved over" \in blame'[Front.sid]
<1>1. /\ in_buf \in Conns /\ input_conn \in Conns
      /\ recv_buf \in [Conns -> Seq(Packets)] /\ blame \in [Sessions -> SUBSET Blames]
      /\ recv_buf[in_buf] # <<>> /\ recv_buf[input_conn] # <<>>
  BY DEF Handles, Looping, ProcessorInv, ProcessorTypeOK
<1>2. recv_buf' = [recv_buf EXCEPT ![in_buf] = Tail(@)] /\ p = Head(recv_buf[input_conn])
  BY DEF Handles, Packet
<1>3. /\ recv_buf' \in [Conns -> Seq(Packets)] /\ 1 \in DOMAIN recv_buf[in_buf]
      /\ Head(recv_buf[in_buf]) = Front /\ Front \in Packets
  BY <1>1, <1>2, TakenFirst DEF Front
<1>4. 1 \in DOMAIN recv_buf[input_conn] /\ p = recv_buf[input_conn][1] /\ p \in Packets
  <2>1. recv_buf[input_conn] \in Seq(Packets)
    BY <1>1
  <2> QED BY <1>1, <1>2, <2>1, EmptySeq
<1>5. handle_count' \in 0 .. MaxPerRound /\ UNCHANGED <<component, sending, in_buf>>
  <2>1. handle_count' = handle_count + 1 /\ handle_count < MaxPerRound /\ MaxPerRound \in Nat
    BY PacketProcessorAssumption DEF Handles, Looping
  <2>2. handle_count \in 0 .. MaxPerRound
    BY DEF ProcessorInv, ProcessorTypeOK
  <2>3. UNCHANGED <<component, sending, in_buf>>
    BY DEF Handles
  <2> QED BY <2>1, <2>2, <2>3
<1>6. p.sid \in Sessions /\ Front.sid \in Sessions
  BY <1>3, <1>4, PacketFields
<1>7. blame' = IF Front = p THEN [blame EXCEPT ![p.sid] = @ \union what]
               ELSE [[blame EXCEPT ![p.sid] = @ \union (what \union {"not taken"})] EXCEPT
                       ![Front.sid] = @ \union {"moved over"}]
  BY <1>3 DEF Handles, Blamed
<1>8. /\ blame' \in [Sessions -> SUBSET Blames]
      /\ \A t \in Sessions : blame[t] \subseteq blame'[t]
      /\ what \subseteq blame'[p.sid]
      /\ Front # p => "not taken" \in blame'[p.sid] /\ "moved over" \in blame'[Front.sid]
  <2>1. CASE Front = p
    <3>1. blame' = [blame EXCEPT ![p.sid] = @ \union what]
      BY <2>1, <1>7
    <3> QED BY <2>1, <3>1, <1>1, <1>6
  <2>2. CASE Front # p
    <3> DEFINE first == [blame EXCEPT ![p.sid] = @ \union (what \union {"not taken"})]
    <3>1. blame' = [first EXCEPT ![Front.sid] = @ \union {"moved over"}]
      BY <2>2, <1>7
    <3>2. first \in [Sessions -> SUBSET Blames] /\ {"moved over", "not taken"} \subseteq Blames
      BY <1>1, <1>6 DEF Blames
    <3>3. /\ \A t \in Sessions : blame[t] \subseteq first[t]
          /\ what \subseteq first[p.sid] /\ "not taken" \in first[p.sid]
      BY <1>1, <1>6
    <3> HIDE DEF first
    <3>4. \A t \in Sessions : blame'[t] = IF t = Front.sid THEN first[t] \union {"moved over"} ELSE first[t]
      BY <3>1, <3>2
    <3>5. blame' \in [Sessions -> SUBSET Blames]
      BY <3>1, <3>2
    <3> QED BY <3>3, <3>4, <3>5, <1>6
  <2> QED BY <2>1, <2>2
<1> QED BY <1>1, <1>2, <1>3, <1>4, <1>5, <1>8

\* Where the packets of a buffer are after its front packet is taken.
LEMMA Shifted ==
  ASSUME ProcessorInv, NEW p, NEW what \in SUBSET Blames, Handles(p, what),
         NEW c \in Conns
  PROVE  /\ \A i \in DOMAIN recv_buf'[c] : LET k == IF c = in_buf THEN i + 1 ELSE i IN
              k \in DOMAIN recv_buf[c] /\ recv_buf'[c][i] = recv_buf[c][k]
         /\ \A k \in DOMAIN recv_buf[c] : LET i == IF c = in_buf THEN k - 1 ELSE k IN
              c # in_buf \/ k # 1 => i \in DOMAIN recv_buf'[c] /\ recv_buf'[c][i] = recv_buf[c][k]
         /\ DOMAIN recv_buf'[c] \subseteq Nat \ {0} /\ DOMAIN recv_buf[c] \subseteq Nat \ {0}
<1>1. /\ recv_buf \in [Conns -> Seq(Packets)] /\ in_buf \in Conns /\ recv_buf[in_buf] # <<>>
      /\ recv_buf' = [recv_buf EXCEPT ![in_buf] = Tail(@)] /\ recv_buf' \in [Conns -> Seq(Packets)]
  BY HandlesState DEF ProcessorInv, ProcessorTypeOK
<1>2. DOMAIN recv_buf'[c] \subseteq Nat \ {0} /\ DOMAIN recv_buf[c] \subseteq Nat \ {0}
  BY <1>1
<1> QED BY <1>1, <1>2, TakenFirst

\* What is left in the buffers is still what was sent, in the order of sending.
LEMMA BuffersAgree ==
  ASSUME ProcessorInv, NEW p, NEW what \in SUBSET Blames, Handles(p, what)
  PROVE  NothingButSent' /\ InOrder'
<1>1. \A c \in Conns : \A i \in DOMAIN recv_buf'[c] : LET k == IF c = in_buf THEN i + 1 ELSE i IN
        i \in Nat /\ k \in DOMAIN recv_buf[c] /\ recv_buf'[c][i] = recv_buf[c][k]
  BY Shifted
<1>2. UNCHANGED <<component, sending, in_buf>>
  BY HandlesState
<1>3. NothingButSent'
  <2>1. \A t \in Sessions : Length(t)' = Length(t)
    BY <1>2 DEF Length, Multi
  <2>2. ASSUME NEW c \in Conns, NEW i \in DOMAIN recv_buf'[c], NEW q, q = recv_buf'[c][i]
        PROVE  /\ q.num <= Length(q.sid)' /\ q.attempt <= sending'[q.sid].attempt
               /\ q.attempt = sending'[q.sid].attempt =>
                    c = sending'[q.sid].conn /\ q.num <= sending'[q.sid].num
    <3>1. PICK k \in DOMAIN recv_buf[c] : q = recv_buf[c][k]
      BY <1>1, <2>2
    <3>2. Length(q.sid)' = Length(q.sid)
      BY <1>2 DEF Length, Multi
    <3> QED BY <3>1, <3>2, <1>2 DEF ProcessorInv, NothingButSent
  <2> QED BY <1>2, <2>1, <2>2 DEF ProcessorInv, NothingButSent
<1>4. InOrder'
  <2> SUFFICES ASSUME NEW c \in Conns, NEW d \in Conns,
                      NEW i \in DOMAIN recv_buf'[c], NEW j \in DOMAIN recv_buf'[d],
                      recv_buf'[c][i].sid = recv_buf'[d][j].sid,
                      recv_buf'[c][i].attempt = recv_buf'[d][j].attempt
               PROVE  c = d /\ (i < j => recv_buf'[c][i].num < recv_buf'[d][j].num)
    BY DEF InOrder
  <2> DEFINE k == IF c = in_buf THEN i + 1 ELSE i
             l == IF d = in_buf THEN j + 1 ELSE j
  <2>1. /\ k \in DOMAIN recv_buf[c] /\ recv_buf'[c][i] = recv_buf[c][k]
        /\ l \in DOMAIN recv_buf[d] /\ recv_buf'[d][j] = recv_buf[d][l]
        /\ i \in Nat /\ j \in Nat
    BY <1>1
  <2>2. c = d /\ i < j => k < l
    BY <2>1
  <2> HIDE DEF k, l
  <2>3. c = d /\ (k < l => recv_buf[c][k].num < recv_buf[d][l].num)
    BY <2>1 DEF ProcessorInv, InOrder
  <2> QED BY <2>1, <2>2, <2>3
<1> QED BY <1>3, <1>4

\* No attempt that has ended begins again, and taking its last fragment ends it.
LEMMA EndedGrows ==
  ASSUME ProcessorInv, NEW p, NEW what \in SUBSET Blames, Handles(p, what), NEW s \in Sessions
  PROVE  /\ Ended(s) \subseteq Ended(s)'
         /\ Ended(s)' \subseteq 1 .. sending[s].attempt /\ sending[s].attempt \in Nat
         /\ Front = p /\ p.sid = s /\ Final(p) => Ended(s) # Ended(s)'
<1>1. \A c \in Conns : \A i \in DOMAIN recv_buf'[c] : LET k == IF c = in_buf THEN i + 1 ELSE i IN
        i \in Nat \ {0} /\ k \in DOMAIN recv_buf[c] /\ recv_buf'[c][i] = recv_buf[c][k]
  BY Shifted
<1>2. UNCHANGED <<component, sending>> /\ in_buf \in Conns /\ 1 \in DOMAIN recv_buf[in_buf]
  BY HandlesState
<1>3. Length(s)' = Length(s) /\ sending[s].attempt \in Nat
  BY <1>2 DEF Length, Multi, ProcessorInv, ProcessorTypeOK
<1>4. \A q : Final(q)' <=> Final(q)
  BY <1>2 DEF Final, Length, Multi
<1>5. Ended(s)' = {a \in 1 .. sending[s].attempt :
        /\ a < sending[s].attempt \/ sending[s].num = Length(s)
        /\ \A c \in Conns : \A i \in DOMAIN recv_buf'[c] :
             recv_buf'[c][i].sid = s /\ recv_buf'[c][i].attempt = a =>
               recv_buf'[c][i].num # Length(recv_buf'[c][i].sid)}
  BY <1>2 DEF Ended, Final, Length, Multi
<1>6. Ended(s) \subseteq Ended(s)'
  BY <1>1, <1>5 DEF Ended, Final
<1>7. ASSUME Front = p, p.sid = s, Final(p) PROVE Ended(s) # Ended(s)'
  <2>0. NothingButSent /\ InOrder
    BY DEF ProcessorInv
  <2>1. /\ p.attempt \in Nat \ {0} /\ p.num \in Nat /\ p.num = Length(s)
        /\ p = recv_buf[in_buf][1]
    <3>1. p \in Packets
      BY HandlesState
    <3> QED BY <3>1, <1>7, PacketFields DEF Front, Final
  <2>2. /\ p.attempt <= sending[s].attempt
        /\ p.attempt = sending[s].attempt => p.num <= sending[s].num
        /\ sending[s].num <= Length(s)
    <3>1. LET x == recv_buf[in_buf][1] IN
            /\ x.attempt <= sending[x.sid].attempt
            /\ x.attempt = sending[x.sid].attempt => x.num <= sending[x.sid].num
      BY <2>0, <1>2 DEF NothingButSent
    <3>2. sending[s].num <= Length(s)
      BY <2>0 DEF NothingButSent
    <3> QED BY <3>1, <3>2, <2>1, <1>7
  <2>3. p.attempt \notin Ended(s)
    BY <2>1, <1>2, <1>7 DEF Ended
  <2>4. ASSUME NEW c \in Conns, NEW i \in DOMAIN recv_buf'[c], NEW q, q = recv_buf'[c][i],
               q.sid = s, q.attempt = p.attempt
        PROVE  q.num # Length(s)
    <3>1. PICK k \in DOMAIN recv_buf[c] : q = recv_buf[c][k] /\ (c = in_buf => k > 1)
      BY <1>1, <2>4
    <3>2. c = in_buf /\ (1 < k => p.num < q.num)
      <4>1. LET x == recv_buf[in_buf][1]  y == recv_buf[c][k] IN
              x.sid = y.sid /\ x.attempt = y.attempt => in_buf = c /\ (1 < k => x.num < y.num)
        BY <3>1, <2>0, <1>2 DEF InOrder
      <4> QED BY <4>1, <3>1, <2>1, <2>4, <1>7
    <3>3. q.num \in Nat
      BY <3>1, PacketFields DEF ProcessorInv, ProcessorTypeOK
    <3> QED BY <3>1, <3>2, <3>3, <2>1
  <2>5. sending[s].num \in Nat
    BY DEF ProcessorInv, ProcessorTypeOK
  <2>6. p.attempt < sending[s].attempt \/ sending[s].num = Length(s)
    BY <2>1, <2>2, <2>5, <1>3
  <2>7. p.attempt \in Ended(s)'
    BY <2>1, <2>2, <2>4, <2>6, <1>3, <1>5
  <2> QED BY <2>3, <2>7
<1>8. Ended(s)' \subseteq 1 .. sending[s].attempt
  BY <1>5
<1> QED BY <1>3, <1>6, <1>7, <1>8
-----------------------------------------------------------------------------
\* A session without mishaps had none before; the packet handled was taken, and
\* it was no other session's.
LEMMA CleanBefore ==
  ASSUME ProcessorInv, NEW p, NEW what \in SUBSET Blames, Handles(p, what),
         NEW s \in Sessions, Clean(s)'
  PROVE  /\ Clean(s)
         /\ p.sid = s => Front = p /\ what \intersect {"ungrouped", "unparsed", "resumed"} = {}
         /\ p.sid # s => Front.sid # s
<1>1. /\ blame[s] \subseteq blame'[s] /\ what \subseteq blame'[p.sid]
      /\ Front # p => "not taken" \in blame'[p.sid] /\ "moved over" \in blame'[Front.sid]
  BY HandlesState
<1> QED BY <1>1 DEF Clean

\* What is handled next of a message continues what is grouped of it.
LEMMA HandledFollows ==
  ASSUME ProcessorInv, NEW p, NEW what \in SUBSET Blames, Handles(p, what),
         Clean(p.sid)', Flowing(p.sid), p.num > 1
  PROVE  EndsWith(p.sid, p) /\ p.sid \in cached
<1>1. p \in Packets /\ p.sid \in Sessions /\ in_buf \in Conns /\ 1 \in DOMAIN recv_buf[in_buf]
  BY HandlesState, PacketFields
<1>2. Front = p /\ Clean(p.sid)
  BY <1>1, CleanBefore
<1>3. p = recv_buf[in_buf][1]
  BY <1>2 DEF Front
<1>4. LET q == recv_buf[in_buf][1] IN
      Clean(q.sid) /\ Flowing(q.sid) /\ q.num > 1 =>
        (\E j \in 1 .. 1 - 1 : Precedes(recv_buf[in_buf][j], q)) \/ EndsWith(q.sid, q)
  BY <1>1 DEF ProcessorInv, Follows
<1>5. EndsWith(p.sid, p)
  BY <1>2, <1>3, <1>4
<1>6. parts[p.sid] # <<>>
  BY <1>5 DEF EndsWith
<1> QED BY <1>1, <1>5, <1>6 DEF ProcessorInv, ProcessorTypeOK

\* If a handler of a session without mishaps opens a message only when none is open,
\* and leaves p as the last fragment grouped unless p ends its message, then
\* the order of what is pending and what is grouped goes on.
LEMMA TakesInOrder ==
  ASSUME ProcessorInv, NEW p, NEW what \in SUBSET Blames, Handles(p, what),
         \A t \in Sessions \ {p.sid} : parts'[t] = parts[t],
         saved \subseteq saved',
         Clean(p.sid)' /\ Flowing(p.sid)' /\ p.num = 1 => parts[p.sid] = <<>> \/ Length(p.sid) = 1,
         Clean(p.sid)' /\ Flowing(p.sid)' =>
           p.num = Length(p.sid) \/ (parts'[p.sid] # <<>> /\ parts'[p.sid][Len(parts'[p.sid])] = p)
  PROVE  Follows' /\ NextFollows'
<1> DEFINE s == p.sid
<1>1. /\ p \in Packets /\ s \in Sessions /\ in_buf \in Conns /\ 1 \in DOMAIN recv_buf[in_buf]
      /\ p.num \in Nat \ {0}
      /\ UNCHANGED <<component, sending, in_buf>>
  <2>1. p \in Packets
    BY HandlesState
  <2>2. p.sid \in Sessions /\ p.num \in 1 .. Fragments /\ Fragments \in Nat
    BY <2>1, PacketFields, PacketProcessorAssumption
  <2>3. in_buf \in Conns /\ 1 \in DOMAIN recv_buf[in_buf] /\ UNCHANGED <<component, sending, in_buf>>
    BY HandlesState
  <2> QED BY <2>1, <2>2, <2>3
<1>2. ProcessorTypeOK /\ NothingButSent /\ InOrder /\ Follows /\ NextFollows
  BY DEF ProcessorInv
<1>3. \A t \in Sessions : Flowing(t)' => Flowing(t)
  BY <1>1 DEF Flowing, Filters
<1>4. \A t \in Sessions : Length(t)' = Length(t) /\ Length(t) \in Nat /\ sending[t].num \in Nat
  BY <1>1, <1>2, LengthInRange, PacketProcessorAssumption DEF Length, Multi, ProcessorTypeOK
<1>5. \A c \in Conns :
        /\ \A i \in DOMAIN recv_buf'[c] : LET k == IF c = in_buf THEN i + 1 ELSE i IN
             k \in DOMAIN recv_buf[c] /\ recv_buf'[c][i] = recv_buf[c][k]
        /\ \A k \in DOMAIN recv_buf[c] : LET i == IF c = in_buf THEN k - 1 ELSE k IN
             c # in_buf \/ k # 1 => i \in DOMAIN recv_buf'[c] /\ recv_buf'[c][i] = recv_buf[c][k]
        /\ DOMAIN recv_buf'[c] \subseteq Nat \ {0} /\ DOMAIN recv_buf[c] \subseteq Nat \ {0}
  BY Shifted
<1>6. \A t \in Sessions : Clean(t)' =>
        Clean(t) /\ (t = s => Front = p) /\ (t # s => Front.sid # t)
  BY CleanBefore
\* What is true when p itself belongs to a session in order
<1>7. ASSUME Clean(s)', Flowing(s)'
      PROVE  /\ p = recv_buf[in_buf][1]
             /\ p.num = Length(s) \/ (parts'[s] # <<>> /\ parts'[s][Len(parts'[s])] = p)
             /\ p.num = 1 => parts[s] = <<>> \/ Length(s) = 1
             /\ p.num > 1 => EndsWith(s, p)
             /\ p.num <= Length(s)
             /\ p.attempt = sending[s].attempt => p.num <= sending[s].num
  <2>1. Front = p
    BY <1>1, <1>6, <1>7
  <2>2. p = recv_buf[in_buf][1]
    BY <2>1 DEF Front
  <2>3. p.num > 1 => EndsWith(s, p)
    BY <1>1, <1>3, <1>7, HandledFollows
  <2>4. LET x == recv_buf[in_buf][1] IN
          /\ x.num <= Length(x.sid)
          /\ x.attempt = sending[x.sid].attempt => x.num <= sending[x.sid].num
    BY <1>1, <1>2 DEF NothingButSent
  <2> QED BY <2>2, <2>3, <2>4, <1>7
<1>8. Follows'
  <2> SUFFICES ASSUME NEW c \in Conns, NEW i \in DOMAIN recv_buf'[c],
                      NEW q, q = recv_buf'[c][i], Clean(q.sid)', Flowing(q.sid)', q.num > 1
               PROVE  (\E j \in 1 .. i - 1 : Precedes(recv_buf'[c][j], q)) \/ EndsWith(q.sid, q)'
    BY DEF Follows, Precedes
  <2> DEFINE k == IF c = in_buf THEN i + 1 ELSE i
  <2>1. /\ k \in DOMAIN recv_buf[c] /\ q = recv_buf[c][k] /\ i \in Nat \ {0}
        /\ k = i \/ (c = in_buf /\ k = i + 1)
    BY <1>5
  <2>2. q \in Packets /\ q.sid \in Sessions /\ q.num \in Nat /\ q.num <= Length(q.sid)
    <3>1. q \in Packets
      BY <2>1, <1>2 DEF ProcessorTypeOK
    <3>2. LET x == recv_buf[c][k] IN x.num <= Length(x.sid)
      BY <2>1, <1>2 DEF NothingButSent
    <3> QED BY <3>1, <3>2, <2>1, PacketFields
  <2>3. Clean(q.sid) /\ Flowing(q.sid)
    BY <2>2, <1>3, <1>6
  <2>4. (\E j \in 1 .. k - 1 : Precedes(recv_buf[c][j], q)) \/ EndsWith(q.sid, q)
    BY <2>1, <2>3, <1>2 DEF Follows
  <2>5. \A j \in 1 .. k - 1 : j \in DOMAIN recv_buf[c] /\ j \in Nat \ {0}
    <3>1. recv_buf[c] \in Seq(Packets)
      BY <1>2 DEF ProcessorTypeOK
    <3> QED BY <3>1, <2>1
  <2>6. ASSUME NEW j \in 1 .. k - 1, Precedes(recv_buf[c][j], q), c # in_buf \/ j # 1
        PROVE  \E l \in 1 .. i - 1 : Precedes(recv_buf'[c][l], q)
    <3> DEFINE l == IF c = in_buf THEN j - 1 ELSE j
    <3>1. recv_buf'[c][l] = recv_buf[c][j] /\ l \in 1 .. i - 1
      BY <2>1, <2>5, <2>6, <1>5
    <3> QED BY <3>1, <2>6
  <2>7. CASE q.sid # s
    <3>1. Front.sid # q.sid /\ parts'[q.sid] = parts[q.sid]
      BY <2>2, <2>7, <1>6
    <3>2. \A j \in 1 .. k - 1 : Precedes(recv_buf[c][j], q) => c # in_buf \/ j # 1
      BY <3>1 DEF Precedes, Front
    <3> QED BY <2>4, <2>6, <3>1, <3>2 DEF EndsWith
  <2>8. CASE q.sid = s
    <3>1. /\ p = recv_buf[in_buf][1] /\ p.num <= Length(s)
          /\ p.num = Length(s) \/ (parts'[s] # <<>> /\ parts'[s][Len(parts'[s])] = p)
      BY <2>8, <1>7
    <3>2. ASSUME c = in_buf, NEW j \in 1 .. k - 1, j = 1, Precedes(recv_buf[c][j], q)
          PROVE  EndsWith(q.sid, q)'
      <4>1. Precedes(p, q)
        BY <3>1, <3>2
      <4>2. p.num # Length(s)
        BY <4>1, <2>2, <2>8, <1>1 DEF Precedes
      <4> QED BY <4>1, <4>2, <3>1, <2>8 DEF EndsWith, Precedes
    <3>3. ~EndsWith(q.sid, q)
      <4> SUFFICES ASSUME EndsWith(s, q) PROVE FALSE
        BY <2>8
      <4>1. p.num > 1 /\ EndsWith(s, p)
        BY <1>1, <1>7, <2>2, <2>8 DEF EndsWith
      <4>2. p.num = q.num /\ p.attempt = q.attempt /\ p.sid = q.sid
        BY <4>1, <2>8 DEF EndsWith, Precedes
      <4>3. LET x == recv_buf[in_buf][1]  y == recv_buf[c][k] IN
              x.sid = y.sid /\ x.attempt = y.attempt => in_buf = c /\ (1 < k => x.num < y.num)
        BY <2>1, <1>1, <1>2 DEF InOrder
      <4> QED BY <4>2, <4>3, <3>1, <2>1, <1>1
    <3> QED BY <2>4, <2>6, <3>2, <3>3
  <2> QED BY <2>7, <2>8
<1>9. NextFollows'
  <2> SUFFICES ASSUME NEW t \in Sessions, Clean(t)', Flowing(t)', sending[t].num \in 1 .. Length(t) - 1
               PROVE  \/ \E i \in DOMAIN recv_buf'[sending[t].conn] :
                           /\ recv_buf'[sending[t].conn][i].sid = t
                           /\ SentLast(recv_buf[sending[t].conn][i])'
                      \/ parts'[t] # <<>> /\ SentLast(parts[t][Len(parts[t])])'
    BY <1>1, <1>4 DEF NextFollows
  <2> DEFINE c == sending[t].conn
  <2> USE DEF SentLast
  <2>1. Clean(t) /\ Flowing(t) /\ c \in Conns
    BY <1>2, <1>3, <1>4, <1>6 DEF NothingButSent
  <2>2. \/ \E k \in DOMAIN recv_buf[c] : recv_buf[c][k].sid = t /\ SentLast(recv_buf[c][k])
        \/ parts[t] # <<>> /\ SentLast(parts[t][Len(parts[t])])
    BY <2>1, <1>2 DEF NextFollows
  <2>3. ASSUME NEW k \in DOMAIN recv_buf[c], recv_buf[c][k].sid = t, SentLast(recv_buf[c][k]),
               c # in_buf \/ k # 1
        PROVE  \E i \in DOMAIN recv_buf'[c] :
                 recv_buf'[c][i].sid = t /\ SentLast(recv_buf[c][i])'
    <3> DEFINE i == IF c = in_buf THEN k - 1 ELSE k
    <3>1. i \in DOMAIN recv_buf'[c] /\ recv_buf'[c][i] = recv_buf[c][k]
      BY <2>1, <2>3, <1>5
    <3> QED BY <3>1, <2>3, <1>1
  <2>4. parts[t] # <<>> => parts[t][Len(parts[t])].sid = t
    <3>1. parts[t] # <<>> => Len(parts[t]) \in DOMAIN parts[t]
      BY <1>2 DEF ProcessorTypeOK
    <3> QED BY <3>1 DEF ProcessorInv, PartsAgree
  <2>5. CASE t # s
    <3>1. Front.sid # t /\ parts'[t] = parts[t]
      BY <2>5, <1>6
    <3>2. \A k \in DOMAIN recv_buf[c] : recv_buf[c][k].sid = t => c # in_buf \/ k # 1
      BY <3>1 DEF Front
    <3> QED BY <2>2, <2>3, <3>1, <3>2, <1>1
  <2>6. CASE t = s
    <3>1. /\ p = recv_buf[in_buf][1]
          /\ p.num = Length(s) \/ (parts'[s] # <<>> /\ parts'[s][Len(parts'[s])] = p)
          /\ p.attempt = sending[s].attempt => p.num <= sending[s].num
      BY <2>6, <1>7
    <3>2. ASSUME NEW k \in DOMAIN recv_buf[c], recv_buf[c][k].sid = t, SentLast(recv_buf[c][k]),
                 c = in_buf, k = 1
          PROVE  parts'[t] # <<>> /\ SentLast(parts[t][Len(parts[t])])'
      <4>1. recv_buf[c][k] = p /\ p.num = sending[s].num /\ p.num # Length(s)
        BY <3>1, <3>2, <2>6, <1>4
      <4> QED BY <4>1, <3>1, <3>2, <2>6, <1>1
    <3>3. ASSUME parts[t] # <<>>, SentLast(parts[t][Len(parts[t])])
          PROVE  FALSE
      <4>1. p.num > 1 /\ EndsWith(s, p)
        BY <3>3, <2>6, <1>1, <1>4, <1>7
      <4>2. p.num = sending[s].num + 1 /\ p.attempt = sending[s].attempt
        BY <4>1, <3>3, <2>4, <2>6 DEF EndsWith, Precedes
      <4> QED BY <4>2, <3>1, <1>1, <1>4
    <3> QED BY <2>2, <2>3, <3>2, <3>3
  <2> QED BY <2>5, <2>6
<1> QED BY <1>8, <1>9
-----------------------------------------------------------------------------
\* What BusinessOnWhole asks of one work.
WholeWork(s, w) ==
  /\ w[Len(w)].num = Length(s)
  /\ w[1].num = 1 \/ "ungrouped" \in blame[s]
  /\ ~Clean(s) \/ \A i \in 1 .. Length(s) :
                     i \in DOMAIN w /\ w[i].num = i /\ w[i].attempt = w[1].attempt

\* The part of the invariant about one session.
SessionAgrees(s) ==
  /\ PartsAgree(s) /\ WorkAgrees(s)
  /\ \A w \in Works(s) : WholeWork(s, w)
  /\ Filters(s) /\ Len(done[s]) > 1 => blame[s] \intersect {"silent", "discarded"} # {}

LEMMA SessionsAgree ==
  ASSUME ProcessorInv, NEW s \in Sessions
  PROVE  SessionAgrees(s)
BY DEF ProcessorInv, SessionAgrees, RepeatedOnlyUnanswered, BusinessOnWhole, WholeWork, Clean

\* The invariant after a step, by its parts.
LEMMA InvByParts ==
  ASSUME ProcessorTypeOK', (in_buf \in Conns => input_conn \in Conns)', NothingButSent', InOrder',
         Follows', NextFollows', \A s \in Sessions : SessionAgrees(s)'
  PROVE  ProcessorInv'
<1>1. BusinessOnWhole'
  BY DEF SessionAgrees, BusinessOnWhole, WholeWork, Clean
<1>2. RepeatedOnlyUnanswered'
  BY DEF SessionAgrees, RepeatedOnlyUnanswered
<1> QED BY <1>1, <1>2 DEF ProcessorInv, SessionAgrees

\* The flags of a component never change.
LEMMA SameFlags ==
  ASSUME NEW s \in Sessions, UNCHANGED component
  PROVE  Length(s)' = Length(s) /\ (Filters(s)' <=> Filters(s)) /\ (Multi(s)' <=> Multi(s))
BY DEF Length, Filters, Multi

\* A session of which nothing is grouped or worked on keeps its part of the invariant.
LEMMA SessionKept ==
  ASSUME ProcessorInv, NEW p, NEW what \in SUBSET Blames, Handles(p, what),
         NEW s \in Sessions, parts'[s] = parts[s], done'[s] = done[s], saved \subseteq saved',
         s \in cached' => s \in cached \/ "ungrouped" \in blame'[s]
  PROVE  SessionAgrees(s)'
<1>1. UNCHANGED component /\ blame[s] \subseteq blame'[s]
  BY HandlesState
<1>2. Length(s)' = Length(s) /\ (Filters(s)' <=> Filters(s))
  BY <1>1, SameFlags
<1>3. PartsAgree(s) /\ WorkAgrees(s) /\ SessionAgrees(s)
  BY SessionsAgree DEF SessionAgrees
<1>4. Clean(s)' => Clean(s)
  BY <1>1 DEF Clean
<1>5. PartsAgree(s)'
  <2>1. \A i \in DOMAIN parts[s] : Final(parts[s][i])' <=> Final(parts[s][i])
    BY <1>1 DEF Final, Length, Multi
  <2> QED BY <1>1, <1>3, <1>4, <2>1 DEF PartsAgree
<1>6. WorkAgrees(s)'
  <2>1. /\ Ended(s) \subseteq Ended(s)' /\ sending[s].attempt \in Nat
        /\ Ended(s)' \subseteq 1 .. sending[s].attempt
    BY EndedGrows
  <2>2. Len(done[s]) \in Nat
    BY DEF ProcessorInv, ProcessorTypeOK
  <2>3. "not taken" \notin blame[s] => Len(done[s]) <= Cardinality(Ended(s))
    BY <1>3 DEF WorkAgrees
  <2>4. "not taken" \notin blame'[s] => Len(done'[s]) <= Cardinality(Ended(s)')
    BY <1>1, <2>1, <2>2, <2>3, MoreEnded, Zenon
  <2> QED BY <1>1, <1>2, <1>3, <2>4 DEF WorkAgrees
<1>7. Works(s)' = Works(s)
  BY DEF Works
<1>8. \A w \in Works(s)' : WholeWork(s, w)'
  BY <1>1, <1>2, <1>3, <1>4, <1>7 DEF SessionAgrees, WholeWork
<1>9. Filters(s)' /\ Len(done'[s]) > 1 => blame'[s] \intersect {"silent", "discarded"} # {}
  BY <1>1, <1>2, <1>3 DEF SessionAgrees
<1> QED BY <1>5, <1>6, <1>8, <1>9 DEF SessionAgrees

\* Handlers that neither group nor work: of a session without mishaps they are only
\* called when it does not flow.
LEMMA KeepStep ==
  ASSUME ProcessorInv, NEW p, NEW what \in SUBSET Blames, Handles(p, what),
         UNCHANGED <<input_conn, parts, saved, done>>,
         \/ cached' = cached
         \/ cached' = cached \union {p.sid} /\ "ungrouped" \in what,
         Clean(p.sid)' => ~Flowing(p.sid)'
  PROVE  ProcessorInv'
<1>1. /\ in_buf' \in Conns /\ input_conn \in Conns /\ p.sid \in Sessions
      /\ recv_buf' \in [Conns -> Seq(Packets)] /\ handle_count' \in 0 .. MaxPerRound
      /\ UNCHANGED <<component, sending>> /\ blame' \in [Sessions -> SUBSET Blames]
      /\ what \subseteq blame'[p.sid]
  BY HandlesState, PacketFields
<1>2. ProcessorTypeOK'
  BY <1>1 DEF ProcessorInv, ProcessorTypeOK
<1>3. Follows' /\ NextFollows'
  BY TakesInOrder
<1>4. \A s \in Sessions : SessionAgrees(s)'
  BY <1>1, SessionKept
<1>5. NothingButSent' /\ InOrder'
  BY BuffersAgree
<1> QED BY <1>1, <1>2, <1>3, <1>4, <1>5, InvByParts

\* What grouping p makes of the fragments of its session.
LEMMA GroupedAgrees ==
  ASSUME ProcessorInv, NEW p, NEW what \in SUBSET Blames, Flows(p, what), Opens(p),
         Begun(p) \subseteq what,
         NEW m, m = Grouped(p)
  PROVE  /\ m \in Seq(Packets) /\ DOMAIN m = 1 .. Len(parts[p.sid]) + 1
         /\ Len(m) = Len(parts[p.sid]) + 1 /\ Len(parts[p.sid]) \in Nat
         /\ m # <<>> /\ m[Len(m)] = p
         /\ \A i \in 1 .. Len(parts[p.sid]) : m[i] = parts[p.sid][i] /\ i \in DOMAIN parts[p.sid]
         /\ \A i \in DOMAIN m : m[i].sid = p.sid
         /\ m[1].num = 1 \/ "ungrouped" \in blame'[p.sid]
         /\ Clean(p.sid)' => /\ Len(m) = p.num /\ (p.num = 1 => parts[p.sid] = <<>>)
                             /\ \A i \in DOMAIN m : m[i].num = i /\ m[i].attempt = m[1].attempt
<1> DEFINE s == p.sid
           k == Len(parts[s])
<1>0. Handles(p, what)
  BY DEF Flows
<1>1. p \in Packets /\ s \in Sessions /\ p.num \in Nat \ {0}
  <2>1. p \in Packets
    BY <1>0, HandlesState
  <2> QED BY <2>1, PacketFields, PacketProcessorAssumption
<1>2. /\ parts[s] \in Seq(Packets) /\ m = Append(parts[s], p)
      /\ s \notin cached => parts[s] = <<>>
  BY <1>1 DEF ProcessorInv, ProcessorTypeOK, Grouped
<1>3. /\ m \in Seq(Packets) /\ DOMAIN m = 1 .. k + 1 /\ Len(m) = k + 1 /\ k \in Nat
      /\ m # <<>> /\ m[k + 1] = p
      /\ \A i \in 1 .. k : m[i] = parts[s][i] /\ i \in DOMAIN parts[s]
      /\ (k = 0 <=> parts[s] = <<>>)
  BY <1>1, <1>2
<1>4. PartsAgree(s) /\ blame[s] \subseteq blame'[s] /\ what \subseteq blame'[s]
  BY <1>0, <1>1, HandlesState DEF ProcessorInv
<1> HIDE DEF k
<1>5. \A i \in DOMAIN m : m[i].sid = s
  <2>1. \A i \in 1 .. k : m[i].sid = s
    BY <1>3, <1>4 DEF PartsAgree
  <2> QED BY <2>1, <1>3
<1>6. m[1].num = 1 \/ "ungrouped" \in blame'[s]
  <2>1. CASE k = 0
    <3>1. m[1] = p
      BY <2>1, <1>3
    <3>2. s \in cached => "ungrouped" \in blame[s]
      BY <2>1, <1>3, <1>4 DEF PartsAgree
    <3> QED BY <3>1, <3>2, <1>4 DEF Opens
  <2>2. CASE k # 0
    <3>1. m[1] = parts[s][1] /\ parts[s] # <<>> /\ s \in cached
      BY <2>2, <1>2, <1>3
    <3> QED BY <3>1, <1>4 DEF PartsAgree
  <2> QED BY <2>1, <2>2
<1>7. ASSUME Clean(s)'
      PROVE  /\ k + 1 = p.num /\ (p.num = 1 => parts[s] = <<>>)
             /\ \A i \in DOMAIN m : m[i].num = i /\ m[i].attempt = m[1].attempt
  <2>1. Clean(s) /\ "resumed" \notin what
    BY <1>0, <1>1, <1>7, CleanBefore
  <2>2. p.num = 1 => k = 0
    BY <2>1, <1>3 DEF Begun
  <2>3. Flowing(s)
    BY DEF Flowing, Flows, Repeated
  <2>4. \A i \in 1 .. k : m[i].num = i /\ m[i].attempt = parts[s][1].attempt
    BY <2>1, <1>3, <1>4 DEF PartsAgree
  <2>5. CASE p.num = 1
    BY <2>2, <2>5, <1>3
  <2>6. CASE p.num > 1
    <3>1. EndsWith(s, p)
      BY <2>3, <2>6, <1>0, <1>7, HandledFollows
    <3>2. k > 0 /\ m[k] = parts[s][k] /\ Precedes(parts[s][k], p)
      BY <3>1, <1>3 DEF EndsWith, k
    <3>3. m[k].num = k /\ m[k].attempt = parts[s][1].attempt /\ m[1] = parts[s][1]
      BY <3>2, <2>4, <1>3
    <3>4. k + 1 = p.num /\ p.attempt = m[1].attempt
      BY <3>2, <3>3 DEF Precedes
    <3>5. \A i \in 1 .. k + 1 : m[i].num = i /\ m[i].attempt = m[1].attempt
      BY <3>3, <3>4, <2>4, <1>3
    <3> QED BY <3>4, <3>5, <2>6, <1>3
  <2> QED BY <2>5, <2>6, <1>1
<1> QED BY <1>3, <1>5, <1>6, <1>7 DEF k
-----------------------------------------------------------------------------
\* A fragment that does not end its message is grouped.
LEMMA GroupStep ==
  ASSUME ProcessorInv, NEW p, GroupFragment(p)
  PROVE  ProcessorInv'
<1> DEFINE s == p.sid
           m == Grouped(p)
<1>1. Begun(p) \in SUBSET Blames
  BY DEF Begun, Blames
<1>2. /\ Flows(p, Begun(p)) /\ Handles(p, Begun(p)) /\ Multi(s) /\ Opens(p) /\ ~Final(p)
      /\ cached' = cached \union {s} /\ parts' = [parts EXCEPT ![s] = m]
      /\ UNCHANGED <<input_conn, saved, done>>
  BY DEF GroupFragment, Flows
<1>3. /\ in_buf' \in Conns /\ input_conn \in Conns /\ s \in Sessions
      /\ recv_buf' \in [Conns -> Seq(Packets)] /\ handle_count' \in 0 .. MaxPerRound
      /\ UNCHANGED <<component, sending>> /\ blame' \in [Sessions -> SUBSET Blames]
      /\ blame[s] \subseteq blame'[s]
  BY <1>1, <1>2, HandlesState, PacketFields
<1>4. /\ m \in Seq(Packets) /\ DOMAIN m = 1 .. Len(parts[s]) + 1
      /\ Len(m) = Len(parts[s]) + 1 /\ Len(parts[s]) \in Nat
      /\ m # <<>> /\ m[Len(m)] = p
      /\ \A i \in 1 .. Len(parts[s]) : m[i] = parts[s][i] /\ i \in DOMAIN parts[s]
      /\ \A i \in DOMAIN m : m[i].sid = s
      /\ m[1].num = 1 \/ "ungrouped" \in blame'[s]
      /\ Clean(s)' => /\ Len(m) = p.num /\ (p.num = 1 => parts[s] = <<>>)
                      /\ \A i \in DOMAIN m : m[i].num = i /\ m[i].attempt = m[1].attempt
  BY <1>1, <1>2, GroupedAgrees
<1> HIDE DEF m
<1>5. parts'[s] = m /\ \A t \in Sessions \ {s} : parts'[t] = parts[t]
  BY <1>2, <1>3 DEF ProcessorInv, ProcessorTypeOK
<1>6. ProcessorTypeOK'
  <2>1. /\ component \in Components /\ cached \subseteq Sessions /\ saved \subseteq Sessions
        /\ sending \in [Sessions -> [conn : Conns \union {NoConn}, num : 0 .. Fragments, attempt : Nat]]
        /\ parts \in [Sessions -> Seq(Packets)] /\ done \in [Sessions -> Seq(Seq(Packets))]
        /\ \A t \in Sessions \ cached : parts[t] = <<>>
    BY DEF ProcessorInv, ProcessorTypeOK
  <2>2. parts' \in [Sessions -> Seq(Packets)]
    BY <2>1, <1>2, <1>4
  <2>3. cached' \subseteq Sessions /\ \A t \in Sessions \ cached' : parts'[t] = <<>>
    BY <2>1, <1>2, <1>3, <1>5
  <2> QED BY <2>1, <2>2, <2>3, <1>2, <1>3 DEF ProcessorTypeOK
<1>7. Follows' /\ NextFollows'
  BY <1>1, <1>2, <1>4, <1>5, TakesInOrder
<1>8. NothingButSent' /\ InOrder'
  BY <1>1, <1>2, BuffersAgree
<1>9. SessionAgrees(s)'
  <2>1. /\ SessionAgrees(s) /\ PartsAgree(s)
        /\ Length(s)' = Length(s) /\ (Filters(s)' <=> Filters(s))
    BY <1>3, SessionsAgree, SameFlags DEF SessionAgrees
  <2>2. \A q : Final(q)' <=> Final(q)
    BY <1>3 DEF Final, Length, Multi
  <2>3. PartsAgree(s)'
    <3>1. (\E i \in DOMAIN m : Final(m[i])) => "discarded" \in blame'[s]
      BY <1>2, <1>3, <1>4, <2>1 DEF PartsAgree
    <3> QED BY <3>1, <2>2, <1>4, <1>5 DEF PartsAgree
  <2>4. /\ Ended(s) \subseteq Ended(s)' /\ sending[s].attempt \in Nat
        /\ Ended(s)' \subseteq 1 .. sending[s].attempt
    BY <1>1, <1>2, <1>3, EndedGrows
  <2>5. "not taken" \notin blame'[s] => Len(done'[s]) <= Cardinality(Ended(s)')
    <3>1. Len(done[s]) \in Nat /\ done'[s] = done[s]
      BY <1>2, <1>3 DEF ProcessorInv, ProcessorTypeOK
    <3>2. "not taken" \notin blame[s] => Len(done[s]) <= Cardinality(Ended(s))
      BY <2>1 DEF SessionAgrees, WorkAgrees
    <3> QED BY <1>3, <2>4, <3>1, <3>2, MoreEnded, Zenon
  <2>6. WorkAgrees(s)'
    BY <1>2, <1>3, <2>1, <2>5 DEF SessionAgrees, WorkAgrees
  <2>7. \A w \in Works(s)' : WholeWork(s, w)'
    <3>1. Works(s)' = Works(s) /\ (Clean(s)' => Clean(s))
      BY <1>2, <1>3 DEF Works, Clean
    <3> QED BY <3>1, <1>3, <2>1 DEF SessionAgrees, WholeWork
  <2>8. Filters(s)' /\ Len(done'[s]) > 1 => blame'[s] \intersect {"silent", "discarded"} # {}
    BY <1>2, <1>3, <2>1 DEF SessionAgrees
  <2> QED BY <2>3, <2>6, <2>7, <2>8 DEF SessionAgrees
<1>10. \A t \in Sessions \ {s} : SessionAgrees(t)'
  BY <1>1, <1>2, <1>5, SessionKept
<1> QED BY <1>2, <1>3, <1>6, <1>7, <1>8, <1>9, <1>10, InvByParts

\* The last packet of a message goes to its business.
LEMMA OperateStep ==
  ASSUME ProcessorInv, NEW p, NEW ok \in BOOLEAN, NEW out \in Outputs, NEW target \in Conns,
         Operate(p, ok, out, target)
  PROVE  ProcessorInv'
<1> DEFINE s == p.sid
           m == Message(p)
           what == (IF Multi(s) THEN Begun(p) ELSE {}) \union (IF out = "written" THEN {} ELSE {out})
<1>1. what \in SUBSET Blames
  BY DEF Begun, Blames, Outputs
<1>2. /\ Flows(p, what) /\ Handles(p, what)
      /\ Multi(s) => Opens(p) /\ Final(p)
      /\ input_conn' = target
      /\ done' = IF ok THEN [done EXCEPT ![s] = Append(@, m)] ELSE done
      /\ saved' = IF Filters(s) /\ out = "written" THEN saved \union {s} ELSE saved
      /\ \/ /\ out # "discarded" /\ Multi(s)
            /\ cached' = cached \ {s} /\ parts' = [parts EXCEPT ![s] = <<>>]
         \/ /\ out = "discarded" /\ Multi(s)
            /\ cached' = cached \union {s} /\ parts' = [parts EXCEPT ![s] = m]
         \/ ~Multi(s) /\ UNCHANGED <<cached, parts>>
  BY DEF Operate, Flows, Released, Saves
<1>3. /\ in_buf' \in Conns /\ s \in Sessions /\ p \in Packets /\ p = recv_buf[input_conn][1]
      /\ input_conn \in Conns /\ 1 \in DOMAIN recv_buf[input_conn]
      /\ recv_buf' \in [Conns -> Seq(Packets)] /\ handle_count' \in 0 .. MaxPerRound
      /\ UNCHANGED <<component, sending>> /\ blame' \in [Sessions -> SUBSET Blames]
      /\ blame[s] \subseteq blame'[s] /\ what \subseteq blame'[s]
      /\ Front # p => "not taken" \in blame'[s]
  <2>1. p \in Packets
    BY <1>1, <1>2, HandlesState
  <2> QED BY <2>1, <1>1, <1>2, HandlesState, PacketFields
<1>4. out # "written" => out \in blame'[s]
  BY <1>3
<1>5. /\ ProcessorTypeOK /\ component \in Components
      /\ parts \in [Sessions -> Seq(Packets)] /\ done \in [Sessions -> Seq(Seq(Packets))]
      /\ cached \subseteq Sessions /\ saved \subseteq Sessions
      /\ \A t \in Sessions \ cached : parts[t] = <<>>
  BY DEF ProcessorInv, ProcessorTypeOK
<1>6. p.num = Length(s) /\ Final(p) /\ p.num \in Nat \ {0}
  <2>1. LET x == recv_buf[input_conn][1] IN x.num <= Length(x.sid)
    BY <1>3 DEF ProcessorInv, NothingButSent
  <2>2. ~Multi(s) => Length(s) = 1
    BY DEF Length
  <2>3. p.num \in Nat \ {0}
    BY <1>3, PacketFields
  <2>4. p.num <= Length(s)
    BY <2>1, <1>3
  <2>5. ~Multi(s) => p.num = 1
    BY <2>2, <2>3, <2>4
  <2> QED BY <2>2, <2>3, <2>5, <1>2 DEF Final
<1>s. /\ s \in Sessions /\ UNCHANGED component
      /\ done[s] \in Seq(Seq(Packets)) /\ Len(done[s]) \in Nat
  <2>1. s \in Sessions /\ UNCHANGED component
    BY <1>3
  <2>2. done[s] \in Seq(Seq(Packets))
    BY <2>1, <1>5
  <2> QED BY <2>1, <2>2
\* The message
<1>7. /\ m \in Seq(Packets) /\ m # <<>> /\ m[Len(m)] = p
      /\ \A i \in DOMAIN m : m[i].sid = s
      /\ m[1].num = 1 \/ "ungrouped" \in blame'[s]
      /\ Clean(s)' => /\ \A i \in 1 .. Length(s) : i \in DOMAIN m
                      /\ \A i \in DOMAIN m : m[i].num = i /\ m[i].attempt = m[1].attempt
                      /\ p.num = 1 => parts[s] = <<>> \/ Length(s) = 1
  <2>1. CASE Multi(s)
    <3> DEFINE g == Grouped(p)
    <3>1. m = g /\ Begun(p) \subseteq what /\ Opens(p)
      BY <2>1, <1>2 DEF Message
    <3>2. /\ g \in Seq(Packets) /\ DOMAIN g = 1 .. Len(parts[s]) + 1
          /\ Len(g) = Len(parts[s]) + 1 /\ Len(parts[s]) \in Nat
          /\ g # <<>> /\ g[Len(g)] = p
          /\ \A i \in DOMAIN g : g[i].sid = s
          /\ g[1].num = 1 \/ "ungrouped" \in blame'[s]
          /\ Clean(s)' => /\ Len(g) = p.num /\ (p.num = 1 => parts[s] = <<>>)
                          /\ \A i \in DOMAIN g : g[i].num = i /\ g[i].attempt = g[1].attempt
      <4> HIDE DEF what
      <4> QED BY <1>1, <1>2, <3>1, GroupedAgrees
    <3> HIDE DEF g, m
    <3> QED BY <3>1, <3>2, <1>6
  <2>2. CASE ~Multi(s)
    <3>1. m = <<p>> /\ Length(s) = 1
      BY <2>2 DEF Message, Length
    <3> HIDE DEF m
    <3>2. m \in Seq(Packets) /\ Len(m) = 1 /\ m[1] = p /\ m # <<>>
      <4>1. p \in Packets
        BY <1>3
      <4> QED BY <3>1, <4>1
    <3>3. DOMAIN m = 1 .. 1
      BY <3>2
    <3> QED BY <3>1, <3>2, <3>3, <1>6
  <2> QED BY <2>1, <2>2
<1> HIDE DEF m, what
<1>a. LET more == Append(done[s], m) IN
      /\ more \in Seq(Seq(Packets)) /\ more # <<>> /\ Len(more) = Len(done[s]) + 1
      /\ \A i \in DOMAIN more : (i \in DOMAIN done[s] /\ more[i] = done[s][i]) \/ more[i] = m
  <2>1. done[s] \in Seq(Seq(Packets)) /\ m \in Seq(Packets)
    BY <1>7, <1>s
  <2> DEFINE more == Append(done[s], m)
  <2>2. /\ more \in Seq(Seq(Packets)) /\ more # <<>> /\ Len(more) = Len(done[s]) + 1
        /\ \A i \in 1 .. Len(done[s]) : more[i] = done[s][i]
        /\ more[Len(done[s]) + 1] = m
    BY <2>1, AppendProperties
  <2> HIDE DEF more
  <2>3. /\ DOMAIN more = 1 .. Len(done[s]) + 1 /\ DOMAIN done[s] = 1 .. Len(done[s])
        /\ Len(done[s]) \in Nat
    BY <2>1, <2>2
  <2>4. \A i \in DOMAIN more : (i \in DOMAIN done[s] /\ more[i] = done[s][i]) \/ more[i] = m
    <3> SUFFICES ASSUME NEW i \in DOMAIN more
                 PROVE  (i \in DOMAIN done[s] /\ more[i] = done[s][i]) \/ more[i] = m
      OBVIOUS
    <3>1. i \in 1 .. Len(done[s]) \/ i = Len(done[s]) + 1
      BY <2>3
    <3> QED BY <3>1, <2>2, <2>3
  <2> QED BY <2>2, <2>4 DEF more
<1>8. \A t \in Sessions \ {s} : parts'[t] = parts[t] /\ done'[t] = done[t] /\ (t \in cached' => t \in cached)
  BY <1>2, <1>3, <1>5
<1>9. \/ parts'[s] = m /\ s \in cached' /\ out = "discarded" /\ Multi(s)
      \/ parts'[s] = <<>> /\ s \notin cached' /\ Multi(s)
      \/ parts'[s] = parts[s] /\ (s \in cached' <=> s \in cached) /\ ~Multi(s)
  BY <1>2, <1>3, <1>5
<1>10. ProcessorTypeOK'
  <2>1. parts' \in [Sessions -> Seq(Packets)] /\ cached' \subseteq Sessions /\ saved' \subseteq Sessions
    <3>1. cached' \subseteq Sessions /\ saved' \subseteq Sessions
      BY <1>2, <1>5, <1>s
    <3>2. CASE parts' = [parts EXCEPT ![s] = <<>>]
      BY <3>1, <3>2, <1>5, <1>s
    <3>3. CASE parts' = [parts EXCEPT ![s] = m]
      BY <3>1, <3>3, <1>5, <1>7, <1>s
    <3>4. CASE parts' = parts
      BY <3>1, <3>4, <1>5
    <3> QED BY <3>1, <3>2, <3>3, <3>4, <1>2
  <2>2. done' \in [Sessions -> Seq(Seq(Packets))]
    BY <1>2, <1>5, <1>a, <1>s
  <2>3. \A t \in Sessions \ cached' : parts'[t] = <<>>
    BY <1>2, <1>3, <1>5
  <2> QED BY <2>1, <2>2, <2>3, <1>2, <1>3, <1>5 DEF ProcessorTypeOK
<1>11. Follows' /\ NextFollows'
  <2>1. saved \subseteq saved'
    BY <1>2
  <2> QED BY <2>1, <1>1, <1>2, <1>6, <1>7, <1>8, TakesInOrder
<1>12. NothingButSent' /\ InOrder'
  BY <1>1, <1>2, BuffersAgree
<1>13. SessionAgrees(s)'
  <2>1. /\ SessionAgrees(s) /\ PartsAgree(s)
        /\ Length(s)' = Length(s) /\ (Filters(s)' <=> Filters(s))
        /\ Length(s) \in Nat \ {0}
    <3>1. Length(s) \in 1 .. Fragments /\ Fragments \in Nat
      BY <1>3, <1>5, LengthInRange, PacketProcessorAssumption
    <3> QED BY <3>1, <1>s, SessionsAgree, SameFlags DEF SessionAgrees
  <2>2. Clean(s)' => Clean(s)
    BY <1>3 DEF Clean
  <2>3. \A q : Final(q)' <=> Final(q)
    BY <1>3 DEF Final, Length, Multi
  <2>4. PartsAgree(s)'
    <3>1. CASE parts'[s] = m /\ s \in cached' /\ out = "discarded" /\ Multi(s)
      BY <3>1, <1>4, <1>7 DEF PartsAgree
    <3>2. CASE parts'[s] = <<>> /\ s \notin cached'
      BY <3>2 DEF PartsAgree
    <3>3. CASE parts'[s] = parts[s] /\ (s \in cached' <=> s \in cached)
      BY <3>3, <1>3, <2>1, <2>2, <2>3 DEF PartsAgree
    <3> QED BY <3>1, <3>2, <3>3, <1>9
  <2>5. (~ok => done'[s] = done[s]) /\ (ok => done'[s] = Append(done[s], m))
    BY <1>2, <1>5, <1>s
  <2>6. ok => /\ Len(done'[s]) = Len(done[s]) + 1 /\ done'[s] # <<>>
              /\ \A i \in DOMAIN done'[s] : (i \in DOMAIN done[s] /\ done'[s][i] = done[s][i]) \/ done'[s][i] = m
    BY <2>5, <1>a
  <2>7. "not taken" \notin blame'[s] => Len(done'[s]) <= Cardinality(Ended(s)')
    <3> SUFFICES ASSUME "not taken" \notin blame'[s] PROVE Len(done'[s]) <= Cardinality(Ended(s)')
      OBVIOUS
    <3>1. /\ Ended(s) \subseteq Ended(s)' /\ sending[s].attempt \in Nat
          /\ Ended(s)' \subseteq 1 .. sending[s].attempt /\ Ended(s) # Ended(s)'
      BY <1>1, <1>2, <1>3, <1>6, EndedGrows
    <3>2. Len(done[s]) <= Cardinality(Ended(s))
      BY <1>3, <2>1 DEF SessionAgrees, WorkAgrees
    <3>3. Len(done[s]) <= Cardinality(Ended(s)') /\ Len(done[s]) + 1 <= Cardinality(Ended(s)')
      BY <3>1, <3>2, <1>s, MoreEnded, Zenon
    <3> QED BY <3>3, <2>5, <2>6
  <2>8. Filters(s) /\ done'[s] # <<>> => s \in saved' \/ blame'[s] \intersect {"silent", "discarded"} # {}
    <3>1. CASE ok
      BY <3>1, <1>2, <1>4 DEF Outputs
    <3>2. CASE ~ok
      BY <3>2, <2>1, <2>5, <1>2, <1>3 DEF SessionAgrees, WorkAgrees
    <3> QED BY <3>1, <3>2
  <2>9. WorkAgrees(s)'
    BY <2>1, <2>7, <2>8 DEF WorkAgrees
  <2>10. \A w \in Works(s)' : WholeWork(s, w)'
    <3>1. Works(s)' \subseteq Works(s) \union (IF ok THEN {m} ELSE {})
      BY <2>5, <2>6 DEF Works
    <3>2. \A w \in Works(s) : WholeWork(s, w)'
      BY <1>3, <2>1, <2>2 DEF SessionAgrees, WholeWork
    <3>3. ASSUME NEW w, w = m PROVE WholeWork(s, w)'
      <4>1. w[Len(w)].num = Length(s) /\ (w[1].num = 1 \/ "ungrouped" \in blame'[s])
        BY <3>3, <1>6, <1>7
      <4>2. ~Clean(s)' \/ \A i \in 1 .. Length(s) :
                            i \in DOMAIN w /\ w[i].num = i /\ w[i].attempt = w[1].attempt
        BY <3>3, <1>7
      <4> QED BY <4>1, <4>2, <2>1 DEF WholeWork
    <3> QED BY <3>1, <3>2, <3>3
  <2>11. Filters(s)' /\ Len(done'[s]) > 1 => blame'[s] \intersect {"silent", "discarded"} # {}
    <3>1. CASE ok /\ Filters(s) /\ Len(done'[s]) > 1
      <4>1. done[s] # <<>> /\ s \notin saved
        BY <3>1, <2>6, <1>2, <1>s DEF Flows, Repeated
      <4> QED BY <3>1, <4>1, <2>1, <1>3 DEF SessionAgrees, WorkAgrees
    <3>2. CASE ~ok
      BY <3>2, <2>1, <2>5, <1>3 DEF SessionAgrees
    <3> QED BY <3>1, <3>2, <2>1
  <2> QED BY <2>4, <2>9, <2>10, <2>11 DEF SessionAgrees
<1>14. \A t \in Sessions \ {s} : SessionAgrees(t)'
  BY <1>1, <1>2, <1>8, SessionKept
<1> QED BY <1>2, <1>3, <1>10, <1>11, <1>12, <1>13, <1>14, InvByParts
-----------------------------------------------------------------------------
\* What the clients do, and the rounds of handle_received_packets().
LEMMA SendFirstStep ==
  ASSUME ProcessorInv, NEW s \in Sessions, NEW c \in Conns, SendFirst(s, c)
  PROVE  ProcessorInv'
<1> DEFINE a == sending[s].attempt + 1
<1>1. /\ component \in Components /\ MaxAttempts[s] \in Nat
      /\ sending \in [Sessions -> [conn : Conns \union {NoConn}, num : 0 .. Fragments, attempt : Nat]]
  BY PacketProcessorAssumption DEF ProcessorInv, ProcessorTypeOK
<1>2. sending[s].attempt \in Nat /\ sending[s].attempt < MaxAttempts[s]
  BY <1>1 DEF SendFirst
<1>3. a \in 1 .. MaxAttempts[s] /\ a \in Nat
  BY <1>1, <1>2
<1>4. Length(s) \in 1 .. Fragments /\ Fragments \in Nat
  BY <1>1, LengthInRange, PacketProcessorAssumption
<1>5. sending' = [sending EXCEPT ![s] = [conn |-> c, num |-> 1, attempt |-> a]]
  BY DEF SendFirst
<1>6. recv_buf' = [recv_buf EXCEPT ![c] = Append(@, [sid |-> s, num |-> 1, attempt |-> a])]
  BY DEF SendFirst
<1>7. UNCHANGED <<component, cached, parts, saved, in_buf, input_conn, handle_count, done, blame>>
  BY DEF SendFirst
<1> DEFINE e == [conn |-> c, num |-> 1, attempt |-> a]
<1>8. e \in [conn : Conns \union {NoConn}, num : 0 .. Fragments, attempt : Nat]
  BY <1>3, <1>4
<1>9. /\ sending' \in [Sessions -> [conn : Conns \union {NoConn}, num : 0 .. Fragments, attempt : Nat]]
      /\ sending'[s] = e /\ \A t \in Sessions \ {s} : sending'[t] = sending[t]
  <2> HIDE DEF e
  <2>1. sending' = [sending EXCEPT ![s] = e]
    BY <1>5 DEF e
  <2> QED BY <2>1, <1>1, <1>8
<1>10. sending'[s].conn = c /\ sending'[s].num = 1 /\ sending'[s].attempt = a
  BY <1>9
<1>11. 1 \in 1 .. Length(s)
  BY <1>4
<1> HIDE DEF e
<1> QED BY <1>3, <1>6, <1>7, <1>9, <1>10, <1>11, SendStep

LEMMA SendNextStep ==
  ASSUME ProcessorInv, NEW s \in Sessions, SendNext(s)
  PROVE  ProcessorInv'
<1> DEFINE n == sending[s].num + 1
           c == sending[s].conn
           a == sending[s].attempt
<1>1. /\ component \in Components /\ NothingButSent /\ NextFollows
      /\ sending \in [Sessions -> [conn : Conns \union {NoConn}, num : 0 .. Fragments, attempt : Nat]]
  BY DEF ProcessorInv, ProcessorTypeOK
<1>2. Length(s) \in 1 .. Fragments /\ Fragments \in Nat /\ MaxAttempts[s] \in Nat
  BY <1>1, LengthInRange, PacketProcessorAssumption
<1>3. /\ sending[s].num \in 1 .. Length(s) - 1
      /\ sending' = [sending EXCEPT ![s].num = n]
      /\ recv_buf' = [recv_buf EXCEPT ![c] = Append(@, [sid |-> s, num |-> n, attempt |-> a])]
      /\ UNCHANGED <<component, cached, parts, saved, in_buf, input_conn, handle_count, done, blame>>
  BY DEF SendNext
<1>4. c \in Conns /\ n \in 1 .. Length(s) /\ n \in 0 .. Fragments
  BY <1>1, <1>2, <1>3 DEF NothingButSent
<1>5. a \in 1 .. MaxAttempts[s]
  <2>1. a <= MaxAttempts[s] /\ a > 0 /\ a \in Nat
    BY <1>1, <1>3 DEF NothingButSent
  <2> QED BY <2>1, <1>2
<1>6. sending[s] \in [conn : Conns \union {NoConn}, num : 0 .. Fragments, attempt : Nat]
  BY <1>1
<1> DEFINE e == [sending[s] EXCEPT !.num = n]
<1>7. /\ e \in [conn : Conns \union {NoConn}, num : 0 .. Fragments, attempt : Nat]
      /\ e.conn = c /\ e.num = n /\ e.attempt = a
  BY <1>4, <1>6
<1>8. sending' = [sending EXCEPT ![s] = e]
  BY <1>1, <1>3
<1> HIDE DEF e, n, c, a
<1>9. /\ sending' \in [Sessions -> [conn : Conns \union {NoConn}, num : 0 .. Fragments, attempt : Nat]]
      /\ sending'[s] = e /\ \A t \in Sessions \ {s} : sending'[t] = sending[t]
  BY <1>1, <1>7, <1>8
<1>10. sending'[s].conn = c /\ sending'[s].num = n /\ sending'[s].attempt = a
  BY <1>7, <1>9
<1>11. n = sending[s].num + 1 /\ a = sending[s].attempt /\ c = sending[s].conn
  BY DEF n, a, c
<1> QED BY <1>3, <1>4, <1>5, <1>9, <1>10, <1>11, SendStep
\* The rounds move the invariant's sessions and buffers not at all.
LEMMA RoundStep ==
  ASSUME ProcessorInv,
         UNCHANGED <<component, sending, recv_buf, cached, parts, saved, done, blame>>,
         {in_buf', input_conn'} \subseteq Conns \union {NoConn}, handle_count' \in 0 .. MaxPerRound,
         in_buf' \in Conns => input_conn' \in Conns
  PROVE  ProcessorInv'
<1>1. ProcessorTypeOK'
  BY DEF ProcessorInv, ProcessorTypeOK
<1>2. NothingButSent' /\ InOrder'
  BY DEF ProcessorInv, NothingButSent, InOrder, Length, Multi
<1>3. Follows'
  <2>1. /\ \A q : Clean(q.sid)' <=> Clean(q.sid)
        /\ \A q : Flowing(q.sid)' <=> Flowing(q.sid)
        /\ \A q : EndsWith(q.sid, q)' <=> EndsWith(q.sid, q)
    BY DEF Clean, Flowing, Filters, EndsWith
  <2>2. Follows
    BY DEF ProcessorInv
  <2> SUFFICES ASSUME NEW c \in Conns, NEW i \in DOMAIN recv_buf[c],
                      NEW q, q = recv_buf[c][i], Clean(q.sid)', Flowing(q.sid)', q.num > 1
               PROVE  (\E j \in 1 .. i - 1 : Precedes(recv_buf[c][j], q)) \/ EndsWith(q.sid, q)'
    BY DEF Follows, Precedes
  <2> QED BY <2>1, <2>2 DEF Follows
<1>4. NextFollows'
  BY DEF ProcessorInv, NextFollows, Clean, Flowing, Filters, SentLast, Length, Multi
<1>5. ASSUME NEW s \in Sessions PROVE SessionAgrees(s)'
  <2>1. /\ Length(s)' = Length(s) /\ (Filters(s)' <=> Filters(s)) /\ (Clean(s)' <=> Clean(s))
        /\ Works(s)' = Works(s) /\ Ended(s)' = Ended(s)
    BY DEF Length, Multi, Filters, Clean, Works, Ended, Final
  <2>2. SessionAgrees(s)
    BY SessionsAgree
  <2>3. PartsAgree(s)'
    BY <2>1, <2>2 DEF SessionAgrees, PartsAgree, Final, Length, Multi
  <2>4. WorkAgrees(s)'
    BY <2>1, <2>2 DEF SessionAgrees, WorkAgrees
  <2>5. \A w \in Works(s)' : WholeWork(s, w)'
    BY <2>1, <2>2 DEF SessionAgrees, WholeWork
  <2> QED BY <2>1, <2>2, <2>3, <2>4, <2>5 DEF SessionAgrees
<1> QED BY <1>1, <1>2, <1>3, <1>4, <1>5, InvByParts

\* process(), whatever handler the packet comes to.
LEMMA ProcessStep ==
  ASSUME ProcessorInv, Process
  PROVE  ProcessorInv'
<1>1. PICK p \in Packets :
        \/ Discard(p) \/ AnswerRepeated(p) \/ Unparsed(p)
        \/ NotFound(p) \/ GroupFails(p) \/ GroupFragment(p)
        \/ \E ok \in BOOLEAN, out \in Outputs, target \in Conns : Operate(p, ok, out, target)
  BY DEF Process
<1>0. {{}, {"unparsed"}, {"ungrouped"}} \subseteq SUBSET Blames /\ p.sid \in Sessions
  BY PacketFields DEF Blames
<1>2. CASE Discard(p)
  <2>1. Handles(p, {}) /\ ~component[p.sid].known /\ UNCHANGED <<input_conn, cached, parts, saved, done>>
    BY <1>2 DEF Discard
  <2>2. ~Flowing(p.sid)'
    BY <2>1, <1>0, HandlesState DEF Flowing
  <2> QED BY <2>1, <2>2, <1>0, KeepStep
<1>3. CASE AnswerRepeated(p)
  <2>1. Handles(p, {}) /\ Repeated(p) /\ UNCHANGED <<input_conn, cached, parts, saved, done>>
    BY <1>3 DEF AnswerRepeated
  <2>2. ~Flowing(p.sid)'
    BY <2>1, <1>0, HandlesState DEF Flowing, Repeated, Filters
  <2> QED BY <2>1, <2>2, <1>0, KeepStep
<1>4. CASE Unparsed(p)
  <2>1. Handles(p, {"unparsed"}) /\ UNCHANGED <<input_conn, cached, parts, saved, done>>
    BY <1>4 DEF Unparsed, Flows
  <2>2. ~Clean(p.sid)'
    BY <2>1, <1>0, HandlesState DEF Clean
  <2> QED BY <2>1, <2>2, <1>0, KeepStep
<1>5. CASE NotFound(p)
  <2>1. /\ Handles(p, {}) /\ Flows(p, {}) /\ ~Opens(p)
        /\ UNCHANGED <<input_conn, cached, parts, saved, done>>
    BY <1>5 DEF NotFound, Flows
  <2>2. Flowing(p.sid) /\ p.num > 1 /\ p.sid \notin cached
    BY <2>1, <1>0, PacketFields DEF Flows, Flowing, Repeated, Opens
  <2>3. ~Clean(p.sid)'
    BY <2>1, <2>2, <1>0, HandledFollows
  <2> QED BY <2>1, <2>3, <1>0, KeepStep
<1>6. CASE GroupFails(p)
  <2>1. /\ Handles(p, {"ungrouped"}) /\ UNCHANGED <<input_conn, parts, saved, done>>
        /\ cached' = cached \union {p.sid}
    BY <1>6 DEF GroupFails, Flows
  <2>2. ~Clean(p.sid)'
    BY <2>1, <1>0, HandlesState DEF Clean
  <2> QED BY <2>1, <2>2, <1>0, KeepStep
<1>7. CASE GroupFragment(p)
  BY <1>7, GroupStep
<1>8. CASE \E ok \in BOOLEAN, out \in Outputs, target \in Conns : Operate(p, ok, out, target)
  BY <1>8, OperateStep
<1> QED BY <1>1, <1>2, <1>3, <1>4, <1>5, <1>6, <1>7, <1>8

\* Every step keeps the invariant.
LEMMA ProcessorNextHolds == ProcessorInv /\ [ProcessorNext]_processor_vars => ProcessorInv'
<1> SUFFICES ASSUME ProcessorInv, [ProcessorNext]_processor_vars PROVE ProcessorInv'
  OBVIOUS
<1>1. CASE \E s \in Sessions : SendNext(s) \/ \E c \in Conns : SendFirst(s, c)
  BY <1>1, SendNextStep, SendFirstStep
<1>0. /\ MaxPerRound \in Nat \ {0} /\ handle_count \in 0 .. MaxPerRound
      /\ {in_buf, input_conn} \subseteq Conns \union {NoConn}
      /\ in_buf \in Conns => input_conn \in Conns
  BY PacketProcessorAssumption DEF ProcessorInv, ProcessorTypeOK
<1>2. CASE \E c \in Conns : Begin(c)
  BY <1>0, <1>2, RoundStep DEF Begin
<1>3. CASE HandleNothing
  BY <1>0, <1>3, RoundStep DEF HandleNothing, Looping
<1>4. CASE End
  BY <1>0, <1>4, RoundStep DEF End
<1>5. CASE Process
  BY <1>5, ProcessStep
<1>6. CASE UNCHANGED processor_vars
  BY <1>0, <1>6, RoundStep DEF processor_vars
<1> QED BY <1>1, <1>2, <1>3, <1>4, <1>5, <1>6 DEF ProcessorNext
-----------------------------------------------------------------------------
\* The invariant holds in every state.
THEOREM ProcessorInvariance == ProcessorSpec => []ProcessorInv
BY ProcessorInitHolds, ProcessorNextHolds, PTL DEF ProcessorSpec

\* The variables are well-formed for any connections, sessions and components.
THEOREM ProcessorTypeCorrect == ProcessorSpec => []ProcessorTypeOK
<1>1. ProcessorInv => ProcessorTypeOK
  BY DEF ProcessorInv
<1> QED BY <1>1, ProcessorInvariance, PTL

\* process() gives a business operation all fragments of one sending, once and in
\* order, unless one of the five mishaps has happened to the session, and always
\* one that ends with the last and, but for a failed grouping, begins with the first.
THEOREM BusinessGetsWholeMessages == ProcessorSpec => []BusinessOnWhole
<1>1. ProcessorInv => BusinessOnWhole
  BY DEF ProcessorInv
<1> QED BY <1>1, ProcessorInvariance, PTL

\* The filter of repeated sessions lets a second business operation through only if
\* the first one's reply did not come to the buffer.
THEOREM RepeatsAreUnanswered == ProcessorSpec => []RepeatedOnlyUnanswered
<1>1. ProcessorInv => RepeatedOnlyUnanswered
  BY DEF ProcessorInv
<1> QED BY <1>1, ProcessorInvariance, PTL

\* A message that is complete stays in the cache only when its reply was discarded.
THEOREM CompleteIsReleased == ProcessorSpec => []LeftOnlyByDiscard
<1>1. ProcessorInv => LeftOnlyByDiscard
  BY DEF ProcessorInv, ProcessorTypeOK, PartsAgree, LeftOnlyByDiscard
<1> QED BY <1>1, ProcessorInvariance, PTL

\* However the fragments of several sendings of a message meet in the cache, there
\* are no more business operations than sendings.
THEOREM WorkedOnOncePerSending == ProcessorSpec => []OncePerSending
<1>1. ProcessorInv => OncePerSending
  <2> SUFFICES ASSUME ProcessorInv, NEW s \in Sessions, "not taken" \notin blame[s]
               PROVE  Len(done[s]) <= sending[s].attempt
    BY DEF OncePerSending
  <2>0. ProcessorTypeOK /\ WorkAgrees(s)
    BY DEF ProcessorInv
  <2>1. sending[s].attempt \in Nat /\ Len(done[s]) \in Nat
    <3>1. done[s] \in Seq(Seq(Packets))
      BY <2>0 DEF ProcessorTypeOK
    <3>2. sending[s].attempt \in Nat
      BY <2>0 DEF ProcessorTypeOK
    <3> QED BY <3>1, <3>2, LenProperties
  <2>2. Ended(s) \subseteq 1 .. sending[s].attempt
    BY DEF Ended
  <2>3. Len(done[s]) <= Cardinality(Ended(s))
    BY <2>0 DEF WorkAgrees
  <2> QED BY <2>1, <2>2, <2>3, UpTo, Zenon
<1> QED BY <1>1, ProcessorInvariance, PTL
=============================================================================
