------------------------- MODULE PeerTransportProofs -------------------------
(***************************************************************************)
(* PeerTransport implements PeerNetwork, for every set of nodes and         *)
(* descriptors and all bounds.  The invariant: each frame on a connection,  *)
(* waiting or on its way, is meant for the node the connection leads to,    *)
(* although descriptors are reused.  First what every operation on          *)
(* connections makes of it, then the loop of a transport thread, then the   *)
(* handlers, the Raft thread and the processes; every action is a step of   *)
(* the network or leaves what was sent and received alone.                  *)
(***************************************************************************)
EXTENDS PeerTransport, FiniteSetTheorems, TLAPS

-----------------------------------------------------------------------------
(* The inductive invariant *)

\* The messages of S that are meant for p.
For(S, p) == {m \in S : m.to = p}

Connection(S) ==
  [from : Node \cup {None}, to : Node \cup {None},
   near : {"closed", "connecting", "open"}, far : {"closed", "backlog", "open"},
   output : Seq(S), wire : Seq(S), peer_id : Node \cup {None}]

\* Every frame on a connection is meant for the node it leads to.
GoodConnection(S, x) ==
  /\ x \in Connection(S)
  /\ x.output \in Seq(For(S, x.to))
  /\ x.wire \in Seq(For(S, x.to)) /\ Len(x.wire) <= Room

GoodTcp(S, t) == t \in [Fd -> Connection(S)] /\ \A c \in Fd : GoodConnection(S, t[c])

\* A descriptor in outbound_connections_ is open, and of a connection to that peer.
GoodConns(n, t, conns) ==
  /\ conns \in [Node -> Fd \cup {None}]
  /\ \A p \in Node : conns[p] # None =>
       t[conns[p]].from = n /\ t[conns[p]].to = p /\ t[conns[p]].near # "closed"

\* Ids are given in order.
GoodSent(S) ==
  /\ S \subseteq Message
  /\ IsFiniteSet(S)
  /\ \A m \in S : m.from # m.to /\ m.id <= Cardinality(S)

LinkInv ==
  /\ GoodTcp(sent, tcp)
  /\ outbound_connections_ \in [Node -> [Node -> Fd \cup {None}]]
  /\ \A n \in Node : GoodConns(n, tcp, outbound_connections_[n])
  /\ pending_frames_ \in [Node -> [Node -> Seq(sent)]]
  /\ parked \in SUBSET sent

\* An update that syncPeerTransport queues.
PeerUpdate == [add : BOOLEAN, peer : Node]

PeerInv ==
  /\ transport_peers_ \in [Node -> SUBSET Node]
  /\ \A n \in Node : n \notin transport_peers_[n]
  /\ endpoints_ \in [Node -> SUBSET Node]
  /\ pending_updates_ \in [Node -> Seq(PeerUpdate)]

QueueInv ==
  /\ outbound_ \in [Node -> Seq(sent)]
  /\ delayed_frames_ \in [Node -> Seq(sent)]

NetworkInv == GoodSent(sent) /\ LinkInv /\ PeerInv /\ QueueInv

-----------------------------------------------------------------------------
(* What the steps of a transport thread make of the connections *)

LinksType(S) ==
  [tcp : [Fd -> Connection(S)], conns : [Node -> Fd \cup {None}],
   pending : [Node -> Seq(S)], parked : SUBSET S]

\* Links that node n has made out of the connections t: they are good, and the
\* connections that others dialed are as they were.
Good(S, n, t, links) ==
  /\ links \in LinksType(S)
  /\ GoodTcp(S, links.tcp)
  /\ GoodConns(n, links.tcp, links.conns)
  /\ \A c \in Fd : t[c].near # "closed" /\ t[c].from # n =>
       /\ links.tcp[c].from = t[c].from
       /\ links.tcp[c].to = t[c].to
       /\ links.tcp[c].near = t[c].near

\* A sequence over a set is one over a larger set.
LEMMA SeqMonotone ==
  ASSUME NEW S, NEW T, S \subseteq T
  PROVE  Seq(S) \subseteq Seq(T)
  OBVIOUS

\* A free descriptor is a connection without frames.
LEMMA FreeGood ==
  ASSUME NEW S
  PROVE  Free \in Connection(S) /\ GoodConnection(S, Free) /\ Free.near = "closed"
  BY PeerTransportAssumption DEF Free, Connection, GoodConnection

\* Release keeps a connection good.
LEMMA ReleaseGood ==
  ASSUME NEW S, NEW c, GoodConnection(S, c)
  PROVE  /\ Release(c) \in Connection(S) /\ GoodConnection(S, Release(c))
         /\ c.near # "closed" => Release(c) = c
  BY FreeGood DEF Release, GoodConnection

\* Closing a connection that n dialed.
LEMMA CloseNearGood ==
  ASSUME NEW S, NEW n \in Node, NEW t, NEW links, Good(S, n, t, links),
         NEW c \in Fd, links.tcp[c].from = n
  PROVE  Good(S, n, t, closeNear(links, c))
<1> DEFINE old == links.tcp[c]
           new == [old EXCEPT !.near = "closed", !.output = <<>>]
           after == closeNear(links, c)
<1>1. /\ links \in LinksType(S) /\ links.tcp \in [Fd -> Connection(S)]
      /\ links.conns \in [Node -> Fd \cup {None}] /\ old \in Connection(S)
  BY DEF Good, LinksType
<1>2. /\ new \in Connection(S) /\ new.output = <<>> /\ new.wire = old.wire
      /\ new.to = old.to
  <2>1. <<>> \in Seq(S)
    OBVIOUS
  <2>2. \A x \in Connection(S), o \in Seq(S) :
          LET y == [x EXCEPT !.near = "closed", !.output = o] IN
          y \in Connection(S) /\ y.output = o /\ y.wire = x.wire /\ y.to = x.to
    BY ZenonT(60) DEF Connection
  <2> QED BY <1>1, <2>1, <2>2, ZenonT(60)
<1>3. GoodConnection(S, new)
  <2>1. old.wire \in Seq(For(S, old.to)) /\ Len(old.wire) <= Room
    BY DEF Good, GoodTcp, GoodConnection
  <2> HIDE DEF new, old
  <2> QED BY <1>2, <2>1 DEF GoodConnection
<1>4. Release(new) \in Connection(S) /\ GoodConnection(S, Release(new))
  BY <1>3, ReleaseGood
<1>5. /\ after = [tcp |-> [links.tcp EXCEPT ![c] = Release(new)],
                  conns |-> forgetConnection(links.conns, c),
                  pending |-> links.pending, parked |-> links.parked]
  <2>1. links = [tcp |-> links.tcp, conns |-> links.conns,
                 pending |-> links.pending, parked |-> links.parked]
    BY <1>1 DEF LinksType
  <2>2. after = [links EXCEPT !.tcp = [links.tcp EXCEPT ![c] = Release(new)],
                              !.conns = forgetConnection(links.conns, c)]
    BY <1>1, <2>1 DEF closeNear
  <2> QED BY <2>1, <2>2, ZenonT(60)
<1> HIDE DEF new, after
<1>6. /\ after.tcp = [links.tcp EXCEPT ![c] = Release(new)]
      /\ after.conns = forgetConnection(links.conns, c)
      /\ after.pending = links.pending /\ after.parked = links.parked
  BY <1>5
<1>7. forgetConnection(links.conns, c) \in [Node -> Fd \cup {None}]
  BY <1>1 DEF forgetConnection
<1>8. after \in LinksType(S)
  BY <1>1, <1>4, <1>5, <1>7 DEF LinksType
<1>9. GoodTcp(S, after.tcp)
  BY Zenon, <1>1, <1>4, <1>6 DEF Good, GoodTcp
<1>10. GoodConns(n, after.tcp, after.conns)
  BY <1>1, <1>6, <1>7, NoneAssumption DEF Good, GoodConns, forgetConnection
<1>11. \A d \in Fd : t[d].near # "closed" /\ t[d].from # n =>
         /\ after.tcp[d].from = t[d].from
         /\ after.tcp[d].to = t[d].to
         /\ after.tcp[d].near = t[d].near
  BY Zenon, <1>1, <1>6 DEF Good
<1> QED BY <1>8, <1>9, <1>10, <1>11 DEF Good, after

\* A frame joins the output of a connection that leads to its destination.
LEMMA AppendOutputGood ==
  ASSUME NEW S, NEW n \in Node, NEW t, NEW links, Good(S, n, t, links),
         NEW c \in Fd, NEW m \in S, links.tcp[c].to = m.to
  PROVE  Good(S, n, t, [links EXCEPT !.tcp[c].output = Append(@, m)])
<1> DEFINE old == links.tcp[c]
           new == [old EXCEPT !.output = Append(old.output, m)]
           after == [links EXCEPT !.tcp[c].output = Append(@, m)]
<1>1. /\ links \in LinksType(S) /\ links.tcp \in [Fd -> Connection(S)]
      /\ links.conns \in [Node -> Fd \cup {None}] /\ old \in Connection(S)
  BY DEF Good, LinksType
<1>2. Append(old.output, m) \in Seq(S)
  BY <1>1 DEF Connection
<1>3. /\ new \in Connection(S) /\ new.output = Append(old.output, m)
      /\ new.wire = old.wire /\ new.to = old.to /\ new.from = old.from
      /\ new.near = old.near
  <2>1. \A x \in Connection(S), o \in Seq(S) :
          LET y == [x EXCEPT !.output = o] IN
          /\ y \in Connection(S) /\ y.output = o /\ y.wire = x.wire /\ y.to = x.to
          /\ y.from = x.from /\ y.near = x.near
    BY ZenonT(20) DEF Connection
  <2> QED BY <1>1, <1>2, <2>1, ZenonT(60)
<1>4. Append(old.output, m) \in Seq(For(S, old.to))
  <2>1. old.output \in Seq(For(S, old.to)) /\ m \in For(S, old.to)
    BY DEF Good, GoodTcp, GoodConnection, For
  <2> QED BY <2>1
<1>5. GoodConnection(S, new)
  <2>1. old.wire \in Seq(For(S, old.to)) /\ Len(old.wire) <= Room
    BY DEF Good, GoodTcp, GoodConnection
  <2> HIDE DEF new, old
  <2> QED BY <1>3, <1>4, <2>1 DEF GoodConnection
<1>6. after = [tcp |-> [links.tcp EXCEPT ![c] = new], conns |-> links.conns,
               pending |-> links.pending, parked |-> links.parked]
  <2>1. \A f : [links EXCEPT !.tcp = f] = [tcp |-> f, conns |-> links.conns,
                                           pending |-> links.pending, parked |-> links.parked]
    BY ONLY <1>1, SMTT(30) DEF LinksType
  <2>2. after = [links EXCEPT !.tcp = [links.tcp EXCEPT ![c] = new]]
    BY <1>1, ZenonT(20)
  <2> HIDE DEF new, after
  <2> QED BY <2>1, <2>2, Zenon
<1> HIDE DEF new, after
<1>7. /\ after.tcp = [links.tcp EXCEPT ![c] = new] /\ after.conns = links.conns
      /\ after.pending = links.pending /\ after.parked = links.parked
  BY <1>6
<1>8. after \in LinksType(S)
  BY <1>1, <1>3, <1>6 DEF LinksType
<1>9. GoodTcp(S, after.tcp)
  BY <1>1, <1>3, <1>5, <1>7 DEF Good, GoodTcp
<1>10. \A d \in Fd : /\ after.tcp[d].from = links.tcp[d].from
                     /\ after.tcp[d].to = links.tcp[d].to
                     /\ after.tcp[d].near = links.tcp[d].near
  BY Zenon, <1>1, <1>3, <1>7
<1>11. GoodConns(n, after.tcp, after.conns)
  BY <1>1, <1>7, <1>10, NoneAssumption DEF Good, GoodConns
<1> QED BY <1>8, <1>9, <1>10, <1>11 DEF Good, after

\* Frames that wait for a connection do not matter to the connections.
LEMMA PendingGood ==
  ASSUME NEW S, NEW n \in Node, NEW t, NEW links, Good(S, n, t, links),
         NEW pending \in [Node -> Seq(S)], NEW parking \in SUBSET S
  PROVE  Good(S, n, t, [links EXCEPT !.pending = pending, !.parked = parking])
<1> DEFINE after == [links EXCEPT !.pending = pending, !.parked = parking]
<1>1. links \in LinksType(S)
  BY DEF Good
<1>2. after \in LinksType(S) /\ after.tcp = links.tcp /\ after.conns = links.conns
  BY <1>1, ZenonT(60) DEF LinksType
<1> HIDE DEF after
<1> QED BY <1>2 DEF Good, after

\* What is parked for p is discarded.
LEMMA DiscardedGood ==
  ASSUME NEW S, NEW n \in Node, NEW t, NEW links, Good(S, n, t, links), NEW p \in Node
  PROVE  /\ Good(S, n, t, discarded(links, p))
         /\ discarded(links, p).tcp = links.tcp
         /\ discarded(links, p).conns = links.conns
<1> DEFINE cleared == [links.pending EXCEPT ![p] = <<>>]
<1>1. /\ links \in LinksType(S) /\ links.pending \in [Node -> Seq(S)]
      /\ links.parked \in SUBSET S
      /\ links = [tcp |-> links.tcp, conns |-> links.conns,
                  pending |-> links.pending, parked |-> links.parked]
  BY DEF Good, LinksType
<1>2. cleared \in [Node -> Seq(S)]
  BY <1>1
<1>3. discarded(links, p)
        = [links EXCEPT !.pending = cleared, !.parked = links.parked]
  BY <1>1, ZenonT(60) DEF discarded
<1>4. discarded(links, p).tcp = links.tcp
      /\ discarded(links, p).conns = links.conns
  BY <1>1 DEF discarded
<1> HIDE DEF cleared
<1>5. Good(S, n, t, [links EXCEPT !.pending = cleared, !.parked = links.parked])
  BY <1>1, <1>2, PendingGood, ZenonT(60)
<1> QED BY <1>3, <1>4, <1>5

\* queueFrame with a message of S.
LEMMA QueueFrameGood ==
  ASSUME NEW S, S \subseteq Message, NEW n \in Node, NEW t, NEW links,
         Good(S, n, t, links), NEW m \in S
  PROVE  Good(S, n, t, queueFrame(links, m))
<1> DEFINE c == links.conns[m.to]
<1>1. /\ m.to \in Node /\ links \in LinksType(S) /\ links.pending \in [Node -> Seq(S)]
      /\ links.conns \in [Node -> Fd \cup {None}] /\ links.parked \in SUBSET S
      /\ links = [tcp |-> links.tcp, conns |-> links.conns,
                  pending |-> links.pending, parked |-> links.parked]
  BY DEF Good, LinksType, Message
<1>2. CASE c = None
  <2> DEFINE queue == links.pending[m.to]
             kept == IF Len(queue) >= MaxPending THEN Tail(queue) ELSE queue
             pending == [links.pending EXCEPT ![m.to] = Append(kept, m)]
  <2>1. queue \in Seq(S)
    BY <1>1
  <2>2. MaxPending \in Nat \ {0}
    BY PeerTransportAssumption
  <2>3. kept \in Seq(S)
    BY <2>1, <2>2
  <2>4. pending \in [Node -> Seq(S)] /\ links.parked \cup {m} \in SUBSET S
    BY <1>1, <2>3
  <2>5. queueFrame(links, m) = [links EXCEPT !.pending = pending, !.parked = links.parked \cup {m}]
    BY <1>1, <1>2 DEF queueFrame
  <2> HIDE DEF pending
  <2>6. Good(S, n, t, [links EXCEPT !.pending = pending, !.parked = links.parked \cup {m}])
    BY <2>4, PendingGood, ZenonT(60)
  <2> QED BY <2>5, <2>6
<1>3. CASE c # None
  <2>1. c \in Fd /\ links.tcp[c].from = n /\ links.tcp[c].to = m.to
    BY <1>1, <1>3 DEF Good, GoodConns
  <2>2. Good(S, n, t, closeNear(links, c))
    BY <2>1, CloseNearGood
  <2>3. Good(S, n, t, [links EXCEPT !.tcp[c].output = Append(@, m)])
    BY <2>1, AppendOutputGood, ZenonT(60)
  <2> QED BY <1>3, <2>2, <2>3, ZenonT(60) DEF queueFrame
<1> QED BY <1>2, <1>3

\* Dialing p on a free descriptor.
LEMMA DialledGood ==
  ASSUME NEW S, NEW n \in Node, NEW t, NEW links, Good(S, n, t, links),
         NEW p \in Node, NEW c \in Fd, links.tcp[c] = Free
  PROVE  Good(S, n, t, dialled(links, n, p, c))
<1> DEFINE new == [Free EXCEPT !.from = n, !.to = p, !.near = "connecting",
                               !.far = IF alive[p] THEN "backlog" ELSE "closed"]
           after == dialled(links, n, p, c)
<1>1. /\ links \in LinksType(S) /\ links.tcp \in [Fd -> Connection(S)]
      /\ links.conns \in [Node -> Fd \cup {None}] /\ links.pending \in [Node -> Seq(S)]
      /\ links = [tcp |-> links.tcp, conns |-> links.conns,
                  pending |-> links.pending, parked |-> links.parked]
  BY DEF Good, LinksType
<1>2. /\ new \in Connection(S) /\ new.from = n /\ new.to = p /\ new.near = "connecting"
      /\ GoodConnection(S, new)
  <2>1. /\ Free \in Connection(S) /\ Free.output = <<>> /\ Free.wire = <<>>
    BY DEF Free, Connection
  <2>2. \A x \in Connection(S), far \in {"closed", "backlog", "open"} :
          LET y == [x EXCEPT !.from = n, !.to = p, !.near = "connecting", !.far = far] IN
          /\ y \in Connection(S) /\ y.from = n /\ y.to = p /\ y.near = "connecting"
          /\ y.output = x.output /\ y.wire = x.wire
    BY ZenonT(60) DEF Connection
  <2>3. PICK far \in {"closed", "backlog", "open"} :
          far = IF alive[p] THEN "backlog" ELSE "closed"
    OBVIOUS
  <2>4. new = [Free EXCEPT !.from = n, !.to = p, !.near = "connecting", !.far = far]
    BY <2>3
  <2>5. <<>> \in Seq(For(S, p))
    OBVIOUS
  <2> HIDE DEF new
  <2>6. /\ new \in Connection(S) /\ new.from = n /\ new.to = p /\ new.near = "connecting"
        /\ new.output = <<>> /\ new.wire = <<>>
    BY <2>1, <2>2, <2>4, ZenonT(60)
  <2> QED BY <2>5, <2>6, PeerTransportAssumption DEF GoodConnection
<1>3. links.tcp[c].near = "closed"
  BY FreeGood
<1>4. /\ [links.tcp EXCEPT ![c] = new] \in [Fd -> Connection(S)]
      /\ [links.conns EXCEPT ![p] = c] \in [Node -> Fd \cup {None}]
      /\ [links.pending EXCEPT ![p] = <<>>] \in [Node -> Seq(S)]
  BY <1>1, <1>2
<1>5. after = [links EXCEPT !.tcp = [links.tcp EXCEPT ![c] = new],
                            !.conns = [links.conns EXCEPT ![p] = c],
                            !.pending = [links.pending EXCEPT ![p] = <<>>]]
  BY <1>1 DEF dialled
<1> HIDE DEF new, after
<1>6. /\ after \in LinksType(S)
      /\ after.tcp = [links.tcp EXCEPT ![c] = new]
      /\ after.conns = [links.conns EXCEPT ![p] = c]
  <2>1. \A x \in LinksType(S), a \in [Fd -> Connection(S)],
           b \in [Node -> Fd \cup {None}], q \in [Node -> Seq(S)] :
          LET y == [x EXCEPT !.tcp = a, !.conns = b, !.pending = q] IN
          y \in LinksType(S) /\ y.tcp = a /\ y.conns = b
    BY ZenonT(60) DEF LinksType
  <2> QED BY <1>1, <1>4, <1>5, <2>1, ZenonT(60)
<1>7. GoodTcp(S, after.tcp)
  BY Zenon, <1>1, <1>2, <1>6 DEF Good, GoodTcp
<1>8. GoodConns(n, after.tcp, after.conns)
  BY <1>1, <1>2, <1>3, <1>6, NoneAssumption DEF Good, GoodConns
<1>9. \A d \in Fd : t[d].near # "closed" /\ t[d].from # n =>
         /\ after.tcp[d].from = t[d].from
         /\ after.tcp[d].to = t[d].to
         /\ after.tcp[d].near = t[d].near
  BY <1>1, <1>3, <1>6 DEF Good
<1> QED BY Zenon, <1>6, <1>7, <1>8, <1>9 DEF Good, after

\* What a thread starts from.
LEMMA LinksGood ==
  ASSUME LinkInv, NEW n \in Node
  PROVE  Good(sent, n, tcp, Links(n))
<1>1. /\ Links(n).tcp = tcp /\ Links(n).conns = outbound_connections_[n]
      /\ Links(n) \in LinksType(sent)
  BY DEF LinkInv, GoodTcp, Links, LinksType
<1> QED BY <1>1 DEF Good, LinkInv

\* Good links become the next state.
LEMMA BecomeGood ==
  ASSUME LinkInv, NEW n \in Node, NEW links, Good(sent, n, tcp, links),
         Become(n, links), UNCHANGED sent
  PROVE  LinkInv'
<1>1. /\ links \in LinksType(sent)
      /\ links.conns \in [Node -> Fd \cup {None}] /\ links.pending \in [Node -> Seq(sent)]
      /\ links.parked \in SUBSET sent
  BY DEF Good, LinksType
<1>2. /\ tcp' = links.tcp
      /\ outbound_connections_' = [outbound_connections_ EXCEPT ![n] = links.conns]
      /\ pending_frames_' = [pending_frames_ EXCEPT ![n] = links.pending]
      /\ parked' = links.parked
  BY DEF Become
<1>3. GoodTcp(sent', tcp')
  BY <1>2 DEF Good
<1>4. outbound_connections_' \in [Node -> [Node -> Fd \cup {None}]]
  BY Zenon, <1>1, <1>2 DEF LinkInv
<1>5. pending_frames_' \in [Node -> [Node -> Seq(sent')]] /\ parked' \in SUBSET sent'
  BY <1>1, <1>2 DEF LinkInv
<1>6. ASSUME NEW o \in Node PROVE GoodConns(o, tcp', outbound_connections_'[o])
  <2>1. CASE o = n
    BY Zenon, <1>2, <2>1 DEF Good, LinkInv
  <2>2. CASE o # n
    <3>1. outbound_connections_'[o] = outbound_connections_[o]
      BY <1>2, <2>2 DEF LinkInv
    <3>2. GoodConns(o, tcp, outbound_connections_[o])
      BY DEF LinkInv
    <3> QED BY <1>2, <2>2, <3>1, <3>2 DEF Good, GoodConns
  <2> QED BY Zenon, <2>1, <2>2
<1> QED BY Zenon, <1>3, <1>4, <1>5, <1>6 DEF LinkInv

-----------------------------------------------------------------------------
(* Steps that touch connections without Become *)

\* Connections change, and none in a way that the nodes which dialed them notice.
LEMMA TcpGood ==
  ASSUME LinkInv, GoodTcp(sent, tcp'), UNCHANGED <<sent, outbound_connections_, pending_frames_, parked>>,
         \A c \in Fd : tcp[c].near # "closed" =>
            /\ tcp'[c].from = tcp[c].from /\ tcp'[c].to = tcp[c].to
            /\ tcp'[c].near # "closed"
  PROVE  LinkInv'
<1>1. ASSUME NEW o \in Node PROVE GoodConns(o, tcp', outbound_connections_'[o])
  <2>1. GoodConns(o, tcp, outbound_connections_[o])
    BY DEF LinkInv
  <2> QED BY <2>1 DEF GoodConns
<1> QED BY Zenon, <1>1 DEF LinkInv

-----------------------------------------------------------------------------
(* The loop of a transport thread *)

\* A sequence without one of its elements.
LEMMA EraseGood ==
  ASSUME NEW S, NEW s \in Seq(S), NEW i \in DOMAIN s
  PROVE  erase(s, i) \in Seq(S)
<1>1. SubSeq(s, 1, i - 1) \in Seq(S) /\ SubSeq(s, i + 1, Len(s)) \in Seq(S)
  OBVIOUS
<1> QED BY <1>1 DEF erase

\* hold keeps frames of S.
LEMMA HoldGood ==
  ASSUME NEW S, NEW s \in Seq(S), NEW m \in S
  PROVE  hold(s, m) \in Seq(S)
<1>1. MaxDelayed \in Nat \ {0}
  BY PeerTransportAssumption
<1>2. PICK kept : kept = IF Len(s) >= MaxDelayed THEN Tail(s) ELSE s
  BY ZenonT(60)
<1>3. kept \in Seq(S)
  BY <1>1, <1>2
<1> QED BY <1>2, <1>3 DEF hold

\* The steps of the transport thread that go through the links: the connections
\* stay good and nothing is handed over.
LEMMA LoopStep ==
  ASSUME NetworkInv, NEW n \in Node, Loop(n)
  PROVE  NetworkInv' /\ UNCHANGED <<sent, received>>
<1>1. /\ LinkInv /\ sent \subseteq Message /\ Good(sent, n, tcp, Links(n))
      /\ Links(n).tcp = tcp /\ Links(n).conns = outbound_connections_[n]
      /\ delayed_frames_ \in [Node -> Seq(sent)] /\ outbound_ \in [Node -> Seq(sent)]
      /\ pending_updates_ \in [Node -> Seq(PeerUpdate)]
      /\ endpoints_ \in [Node -> SUBSET Node]
  BY Zenon, LinksGood DEF NetworkInv, GoodSent, QueueInv, PeerInv, Links
<1>2. \A links : Good(sent, n, tcp, links) /\ Become(n, links) /\ UNCHANGED sent => LinkInv'
  BY Zenon, <1>1, BecomeGood
<1>3. CASE applyPeerUpdates(n)
  <2>1. UNCHANGED <<sent, received, transport_peers_, outbound_>>
    BY Zenon, <1>3 DEF applyPeerUpdates, raftVars
  <2>2. CASE /\ UNCHANGED <<pending_updates_, endpoints_, delayed_frames_>>
             /\ Become(n, Links(n))
    BY Zenon, <1>1, <1>2, <2>1, <2>2 DEF NetworkInv, PeerInv, QueueInv
  <2>3. ASSUME pending_updates_[n] # <<>>
        PROVE  /\ Head(pending_updates_[n]).peer \in Node
               /\ [pending_updates_ EXCEPT ![n] = Tail(@)]
                    \in [Node -> Seq(PeerUpdate)]
    <3>1. pending_updates_[n] \in Seq(PeerUpdate)
      BY <1>1
    <3>2. Head(pending_updates_[n]) \in PeerUpdate
      BY <2>3, <3>1
    <3>3. Tail(pending_updates_[n]) \in Seq(PeerUpdate)
      BY <2>3, <3>1
    <3>4. Head(pending_updates_[n]).peer \in Node
      BY <3>2 DEF PeerUpdate
    <3> QED BY <1>1, <3>3, <3>4
  <2>4. ASSUME NEW p \in Node, endpoints_' = [endpoints_ EXCEPT ![n] = @ \cup {p}],
               pending_updates_[n] # <<>>,
               pending_updates_' = [pending_updates_ EXCEPT ![n] = Tail(@)],
               UNCHANGED delayed_frames_, Become(n, Links(n))
        PROVE  NetworkInv'
    <3>1. LinkInv'
      BY Zenon, <1>1, <1>2, <2>1, <2>4
    <3>2. endpoints_' \in [Node -> SUBSET Node]
      BY <1>1, <2>4
    <3> QED BY Zenon, <2>1, <2>3, <2>4, <3>1, <3>2 DEF NetworkInv, PeerInv, QueueInv
  <2>5. ASSUME NEW p \in Node, HeldFor(n, p) # {},
               delayed_frames_' = [delayed_frames_ EXCEPT
                                     ![n] = erase(@, CHOOSE i \in HeldFor(n, p) : TRUE)],
               UNCHANGED <<endpoints_, pending_updates_>>, Become(n, Links(n))
        PROVE  NetworkInv'
    <3>1. LinkInv'
      BY <1>1, <1>2, <2>1, <2>5
    <3>2. PICK i \in DOMAIN delayed_frames_[n] : i = CHOOSE j \in HeldFor(n, p) : TRUE
      BY Zenon, <2>5 DEF HeldFor
    <3>3. erase(delayed_frames_[n], i) \in Seq(sent)
      BY Zenon, <1>1, EraseGood
    <3>4. delayed_frames_' \in [Node -> Seq(sent)]
      BY Zenon, <1>1, <2>5, <3>2, <3>3
    <3> QED BY Zenon, <2>1, <2>5, <3>1, <3>4 DEF NetworkInv, PeerInv, QueueInv
  <2>6. ASSUME NEW p \in Node, endpoints_' = [endpoints_ EXCEPT ![n] = @ \ {p}],
               pending_updates_[n] # <<>>,
               pending_updates_' = [pending_updates_ EXCEPT ![n] = Tail(@)],
               UNCHANGED delayed_frames_, NEW c, c = outbound_connections_[n][p],
               NEW cleared, cleared = discarded(Links(n), p),
               Become(n, IF c = None THEN cleared ELSE closeNear(cleared, c))
        PROVE  NetworkInv'
    <3>6. /\ Good(sent, n, tcp, discarded(Links(n), p))
          /\ discarded(Links(n), p).tcp = Links(n).tcp
      <4>1. Good(sent, n, tcp, Links(n))
        BY Zenon, <1>1
      <4> QED BY ONLY <4>1, n \in Node, p \in Node, DiscardedGood
    <3>1. Good(sent, n, tcp, cleared) /\ cleared.tcp = tcp
      BY Zenon, <1>1, <2>6, <3>6
    <3>7. GoodConns(n, tcp, outbound_connections_[n])
      BY Zenon, <1>1 DEF LinkInv
    <3>2. ASSUME c # None PROVE c \in Fd /\ cleared.tcp[c].from = n
      BY <2>6, <3>1, <3>7, <3>2 DEF GoodConns
    <3>3. ASSUME c # None PROVE Good(sent, n, tcp, closeNear(cleared, c))
      BY Zenon, <3>1, <3>2, <3>3, CloseNearGood
    <3>4. LinkInv'
      BY Zenon, <1>2, <2>1, <2>6, <3>1, <3>3
    <3>5. endpoints_' \in [Node -> SUBSET Node]
      BY <1>1, <2>6
    <3> QED BY Zenon, <2>1, <2>3, <2>6, <3>4, <3>5 DEF NetworkInv, PeerInv, QueueInv
  <2> QED BY <1>3, <2>1, <2>2, <2>3, <2>4, <2>5, <2>6, ZenonT(20) DEF applyPeerUpdates
<1>4. CASE releaseDelayedFrames(n)
  <2>1. UNCHANGED <<sent, received, transport_peers_, outbound_, pending_updates_, endpoints_>>
    BY Zenon, <1>4 DEF releaseDelayedFrames, raftVars
  <2>2. CASE Become(n, Links(n)) /\ UNCHANGED delayed_frames_
    BY Zenon, <1>1, <1>2, <2>1, <2>2 DEF NetworkInv, PeerInv, QueueInv
  <2>3. ASSUME NEW i \in DOMAIN delayed_frames_[n],
               Become(n, queueFrame(Links(n), delayed_frames_[n][i])),
               delayed_frames_' = [delayed_frames_ EXCEPT ![n] = erase(@, i)]
        PROVE  NetworkInv'
    <3>1. delayed_frames_[n][i] \in sent
      BY <1>1
    <3>2. Good(sent, n, tcp, queueFrame(Links(n), delayed_frames_[n][i]))
      BY Zenon, <1>1, <3>1, QueueFrameGood
    <3>3. LinkInv'
      BY Zenon, <1>2, <2>1, <2>3, <3>2
    <3>4. erase(delayed_frames_[n], i) \in Seq(sent)
      BY Zenon, <1>1, EraseGood
    <3>5. delayed_frames_' \in [Node -> Seq(sent)]
      BY <1>1, <2>3, <3>4
    <3> QED BY Zenon, <2>1, <3>3, <3>5 DEF NetworkInv, PeerInv, QueueInv
  <2> QED BY <1>4, <2>1, <2>2, <2>3 DEF releaseDelayedFrames
<1>5. CASE drainOutbound(n)
  <2>1. UNCHANGED <<sent, received, transport_peers_, pending_updates_, endpoints_>>
    BY <1>5 DEF drainOutbound, raftVars
  <2>2. ASSUME NEW links, Good(sent, n, tcp, links), Become(n, links),
               delayed_frames_' \in [Node -> Seq(sent)], outbound_' \in [Node -> Seq(sent)]
        PROVE  NetworkInv'
    <3>1. LinkInv'
      BY <1>2, <2>1, <2>2
    <3> QED BY <2>1, <2>2, <3>1 DEF NetworkInv, PeerInv, QueueInv
  <2>3. CASE outbound_[n] = <<>>
    <3>1. Become(n, Links(n)) /\ UNCHANGED <<outbound_, delayed_frames_>>
      BY Zenon, <1>5, <2>3 DEF drainOutbound
    <3> QED BY <1>1, <2>1, <2>2, <3>1, ZenonT(60)
  <2>4. CASE outbound_[n] # <<>>
    <3> DEFINE m == Head(outbound_[n])
    <3>1. outbound_' = [outbound_ EXCEPT ![n] = Tail(@)]
      BY <1>5, <2>4, ZenonT(20) DEF drainOutbound
    <3>2. outbound_[n] \in Seq(sent)
      BY <1>1
    <3>3. m \in sent /\ Tail(outbound_[n]) \in Seq(sent)
      BY ONLY <2>4, <3>2
    <3>4. outbound_' \in [Node -> Seq(sent)]
      BY Zenon, <1>1, <3>1, <3>3
    <3>5. m.to \in Node
      BY <1>1, <3>3, ZenonT(20) DEF Message
    <3> HIDE DEF m
    <3>6. CASE Become(n, Links(n)) /\ UNCHANGED delayed_frames_
      BY Zenon, <1>1, <2>1, <2>2, <3>4, <3>6
    <3>7. ASSUME NEW firstChunk \in BOOLEAN, NEW twice \in BOOLEAN,
                 NEW links, links = IF firstChunk THEN discarded(Links(n), m.to) ELSE Links(n)
          PROVE  Good(sent, n, tcp, links)
      <4>1. Good(sent, n, tcp, Links(n))
        BY <1>1
      <4>2. Good(sent, n, tcp, discarded(Links(n), m.to))
        BY ONLY <4>1, n \in Node, <3>5, DiscardedGood
      <4> QED BY Zenon, <3>7, <4>1, <4>2
    <3>8. ASSUME NEW links, Good(sent, n, tcp, links), NEW twice \in BOOLEAN,
                 delayed_frames_' = [delayed_frames_ EXCEPT
                                       ![n] = IF twice THEN hold(hold(@, m), m) ELSE hold(@, m)],
                 Become(n, links)
          PROVE  NetworkInv'
      <4>1. hold(delayed_frames_[n], m) \in Seq(sent)
        BY <1>1, <3>3, HoldGood
      <4>2. hold(hold(delayed_frames_[n], m), m) \in Seq(sent)
        BY Zenon, <3>3, <4>1, HoldGood
      <4>3. delayed_frames_' \in [Node -> Seq(sent)]
        BY <1>1, <3>8, <4>1, <4>2
      <4> QED BY Zenon, <2>2, <3>4, <3>8, <4>3
    <3>9. ASSUME NEW links, Good(sent, n, tcp, links), NEW twice \in BOOLEAN,
                 UNCHANGED delayed_frames_,
                 Become(n, IF twice THEN queueFrame(queueFrame(links, m), m)
                           ELSE queueFrame(links, m))
          PROVE  NetworkInv'
      <4>1. Good(sent, n, tcp, queueFrame(links, m))
        BY Zenon, <1>1, <3>3, <3>9, QueueFrameGood
      <4>2. Good(sent, n, tcp, queueFrame(queueFrame(links, m), m))
        BY Zenon, <1>1, <3>3, <4>1, QueueFrameGood
      <4> QED BY <1>1, <2>2, <3>4, <3>9, <4>1, <4>2, ZenonT(60)
    <3>10. ASSUME NEW links, Good(sent, n, tcp, links), Become(n, links), UNCHANGED delayed_frames_
           PROVE  NetworkInv'
      BY Zenon, <1>1, <2>2, <3>4, <3>10
    <3>11. CASE \E firstChunk \in BOOLEAN, twice \in {FALSE, "duplicate" \in Faults} :
                  LET links == IF firstChunk THEN discarded(Links(n), m.to) ELSE Links(n)
                  IN  \/ Become(n, links) /\ UNCHANGED delayed_frames_
                      \/ /\ delayed_frames_' =
                              [delayed_frames_ EXCEPT
                                 ![n] = IF twice THEN hold(hold(@, m), m) ELSE hold(@, m)]
                         /\ Become(n, links)
                      \/ /\ Become(n, IF twice THEN queueFrame(queueFrame(links, m), m)
                                      ELSE queueFrame(links, m))
                         /\ UNCHANGED delayed_frames_
      <4>1. PICK firstChunk \in BOOLEAN, twice \in BOOLEAN :
                  LET links == IF firstChunk THEN discarded(Links(n), m.to) ELSE Links(n)
                  IN  \/ Become(n, links) /\ UNCHANGED delayed_frames_
                      \/ /\ delayed_frames_' =
                              [delayed_frames_ EXCEPT
                                 ![n] = IF twice THEN hold(hold(@, m), m) ELSE hold(@, m)]
                         /\ Become(n, links)
                      \/ /\ Become(n, IF twice THEN queueFrame(queueFrame(links, m), m)
                                      ELSE queueFrame(links, m))
                         /\ UNCHANGED delayed_frames_
        BY <3>11, Zenon
      <4>2. PICK links : links = IF firstChunk THEN discarded(Links(n), m.to) ELSE Links(n)
        OBVIOUS
      <4>3. Good(sent, n, tcp, links)
        BY Zenon, <3>7, <4>2
      <4> QED BY Zenon, <2>1, <3>8, <3>9, <3>10, <4>1, <4>2, <4>3
    <3> QED BY <1>5, <2>4, <3>6, <3>11, ZenonT(60) DEF drainOutbound, m
  <2> QED BY Zenon, <2>1, <2>3, <2>4
<1>6. CASE connectMissingPeers(n)
  <2>1. UNCHANGED <<sent, received, transport_peers_, outbound_, pending_updates_,
                    endpoints_, delayed_frames_>>
    BY Zenon, <1>6 DEF connectMissingPeers, raftVars
  <2>2. CASE Become(n, Links(n))
    <3>1. LinkInv'
      BY Zenon, <1>1, <1>2, <2>1, <2>2
    <3> QED BY Zenon, <2>1, <3>1 DEF NetworkInv, PeerInv, QueueInv
  <2>3. ASSUME NEW p \in Missing(n), FreeFds # {},
               Become(n, dialled(Links(n), n, p, CHOOSE c \in FreeFds : TRUE))
        PROVE  NetworkInv'
    <3>1. p \in Node
      BY <1>1 DEF Missing
    <3>2. PICK c \in Fd : c = (CHOOSE d \in FreeFds : TRUE) /\ tcp[c] = Free
      BY Zenon, <2>3 DEF FreeFds
    <3>3. Good(sent, n, tcp, dialled(Links(n), n, p, c))
      BY Zenon, <1>1, <3>1, <3>2, DialledGood
    <3>4. LinkInv'
      BY Zenon, <1>2, <2>1, <2>3, <3>2, <3>3
    <3> QED BY Zenon, <2>1, <3>4 DEF NetworkInv, PeerInv, QueueInv
  <2> QED BY Zenon, <1>6, <2>1, <2>2, <2>3 DEF connectMissingPeers
<1>7. CASE around(n)
  BY Zenon, <1>7 DEF around, raftVars, NetworkInv, LinkInv, PeerInv, QueueInv
<1> QED BY Zenon, <1>3, <1>4, <1>5, <1>6, <1>7 DEF Loop

-----------------------------------------------------------------------------
(* The invariant, action by action *)

\* Init: nothing was sent and every descriptor is free.
LEMMA InitNetworkInv == Init => NetworkInv
<1> SUFFICES ASSUME Init PROVE NetworkInv
  BY Zenon
<1>1. GoodSent(sent)
  BY FS_EmptySet DEF Init, GoodSent
<1>2. GoodTcp(sent, tcp)
  BY Zenon, FreeGood DEF Init, GoodTcp
<1>3. LinkInv
  BY <1>2 DEF Init, LinkInv, GoodConns
<1>4. PeerInv
  BY PeerTransportAssumption DEF Init, PeerInv
<1>5. QueueInv
  BY DEF Init, QueueInv
<1> QED BY <1>1, <1>3, <1>4, <1>5 DEF NetworkInv

\* sendRpc: a new message, with an id above all others.
LEMMA SendStep ==
  ASSUME NetworkInv, NEW n \in Node, NEW p \in Node, sendRpc(n, p)
  PROVE  NetworkInv' /\ Network!Send(n, p, Cardinality(sent) + 1)
         /\ Cardinality(sent) + 1 \in 1..MaxMessages
<1> DEFINE k == Cardinality(sent)
           m == [from |-> n, to |-> p, id |-> k + 1]
<1>1. /\ sent \subseteq Message /\ IsFiniteSet(sent) /\ k \in Nat /\ MaxMessages \in Nat
      /\ \A x \in sent : x.from # x.to /\ x.id <= k /\ x.id \in Nat
  BY FS_CardinalityType, PeerTransportAssumption DEF NetworkInv, GoodSent, Message
<1>2. sent' = sent \cup {m} /\ k < MaxMessages /\ p \in transport_peers_[n] /\ UNCHANGED received
  BY DEF sendRpc
<1>3. n # p
  BY Zenon, <1>2 DEF NetworkInv, PeerInv
<1>4. m \in Message /\ m \notin sent /\ k + 1 \in 1..MaxMessages
  BY <1>1, <1>2 DEF Message
<1>5. IsFiniteSet(sent') /\ Cardinality(sent') = k + 1
  BY <1>1, <1>2, <1>4, FS_AddElement, ZenonT(60)
<1>12. m.from = n /\ m.to = p /\ m.id = k + 1
  BY Zenon
<1> HIDE DEF k, m
<1>6. GoodSent(sent')
  <2>1. \A x \in sent' : x.from # x.to /\ x.id <= k + 1
    BY ONLY <1>1, <1>2, <1>3, <1>12
  <2> QED BY Zenon, <1>1, <1>2, <1>4, <1>5, <2>1 DEF GoodSent
<1>7. sent \subseteq sent' /\ Seq(sent) \subseteq Seq(sent')
  BY Zenon, <1>2, SeqMonotone
<1>8. LinkInv'
  <2>1. UNCHANGED <<tcp, outbound_connections_, pending_frames_, parked>>
    BY Zenon DEF sendRpc, threadVars
  <2>2. Connection(sent) \subseteq Connection(sent')
    BY <1>7 DEF Connection
  <2>3. \A q : Seq(For(sent, q)) \subseteq Seq(For(sent', q))
    BY Zenon, <1>7, SeqMonotone DEF For
  <2>4. GoodTcp(sent', tcp')
    BY <2>1, <2>2, <2>3 DEF NetworkInv, LinkInv, GoodTcp, GoodConnection
  <2>5. pending_frames_' \in [Node -> [Node -> Seq(sent')]]
    BY <1>7, <2>1 DEF NetworkInv, LinkInv
  <2>6. \A o \in Node : GoodConns(o, tcp', outbound_connections_'[o])
    BY Zenon, <2>1 DEF NetworkInv, LinkInv
  <2> QED BY Zenon, <1>7, <2>1, <2>4, <2>5, <2>6 DEF NetworkInv, LinkInv
<1>9. PeerInv'
  BY DEF NetworkInv, PeerInv, sendRpc, threadVars
<1>10. QueueInv'
  <2>1. UNCHANGED delayed_frames_ /\ delayed_frames_ \in [Node -> Seq(sent)]
    BY Zenon DEF NetworkInv, QueueInv, sendRpc, threadVars
  <2>2. outbound_' = [outbound_ EXCEPT ![n] = Append(@, m)] \/ UNCHANGED outbound_
    BY DEF sendRpc, m, k
  <2>3. outbound_ \in [Node -> Seq(sent')] /\ m \in sent'
    BY Zenon, <1>2, <1>7 DEF NetworkInv, QueueInv
  <2>4. outbound_' \in [Node -> Seq(sent')]
    <3>1. Append(outbound_[n], m) \in Seq(sent')
      BY <2>3
    <3> QED BY Zenon, <2>2, <2>3, <3>1
  <2> QED BY Zenon, <1>7, <2>1, <2>4 DEF QueueInv
<1>11. \A x \in sent : x.id # k + 1
  BY <1>1
<1> QED BY Zenon, <1>2, <1>3, <1>4, <1>6, <1>8, <1>9, <1>10, <1>11 DEF NetworkInv, Network!Send, k, m

\* The steps of the Raft thread that hand over no message.
LEMMA RaftStep ==
  ASSUME NetworkInv, NEW n \in Node, NEW p \in Node,
         receiveRpc(n) \/ syncPeerTransport(n, p)
  PROVE  NetworkInv' /\ UNCHANGED <<sent, received>>
<1>1. CASE receiveRpc(n)
  BY Zenon, <1>1 DEF receiveRpc, threadVars, raftVars, NetworkInv, LinkInv, PeerInv, QueueInv
<1>2. CASE syncPeerTransport(n, p)
  <2>1. UNCHANGED <<sent, received, tcp, outbound_connections_, pending_frames_, parked,
                    endpoints_, outbound_, delayed_frames_>>
    BY <1>2 DEF syncPeerTransport, threadVars
  <2>2. PICK add \in BOOLEAN :
          /\ transport_peers_' = [transport_peers_ EXCEPT
                                    ![n] = IF add THEN @ \cup {p} ELSE @ \ {p}]
          /\ pending_updates_' = [pending_updates_ EXCEPT
                                    ![n] = Append(@, [add |-> add, peer |-> p])]
    BY <1>2, ZenonT(60) DEF syncPeerTransport
  <2>3. n # p
    BY Zenon, <1>2 DEF syncPeerTransport
  <2>4. [add |-> add, peer |-> p] \in PeerUpdate
    BY Zenon DEF PeerUpdate
  <2>5. PeerInv'
    <3>1. pending_updates_' \in [Node -> Seq(PeerUpdate)]
      BY <2>2, <2>4 DEF NetworkInv, PeerInv
    <3>2. transport_peers_' \in [Node -> SUBSET Node]
      BY Zenon, <2>2 DEF NetworkInv, PeerInv
    <3>3. \A o \in Node : o \notin transport_peers_'[o]
      BY Zenon, <2>2, <2>3 DEF NetworkInv, PeerInv
    <3> QED BY Zenon, <2>1, <3>1, <3>2, <3>3 DEF NetworkInv, PeerInv
  <2> QED BY Zenon, <2>1, <2>5 DEF NetworkInv, LinkInv, QueueInv
<1> QED BY <1>1, <1>2

\* Closing an accepted connection is nothing the node that dialed it depends on.
LEMMA CloseFarGood ==
  ASSUME LinkInv, NEW c \in Fd, tcp' = closeFar(c),
         UNCHANGED <<sent, outbound_connections_, pending_frames_, parked>>
  PROVE  LinkInv'
<1> DEFINE old == tcp[c]
           new == [old EXCEPT !.far = "closed", !.wire = <<>>]
<1>1. tcp \in [Fd -> Connection(sent)] /\ GoodConnection(sent, old) /\ GoodTcp(sent, tcp)
  BY DEF LinkInv, GoodTcp
<1>2. old \in Connection(sent) /\ old.output \in Seq(For(sent, old.to))
  BY <1>1 DEF GoodConnection
<1>3. /\ new \in Connection(sent) /\ new.output = old.output /\ new.wire = <<>>
      /\ new.to = old.to /\ new.from = old.from /\ new.near = old.near
  <2>1. <<>> \in Seq(sent)
    OBVIOUS
  <2>2. \A x \in Connection(sent), o \in Seq(sent) :
          LET y == [x EXCEPT !.far = "closed", !.wire = o] IN
          /\ y \in Connection(sent) /\ y.output = x.output /\ y.wire = o
          /\ y.to = x.to /\ y.from = x.from /\ y.near = x.near
    BY ZenonT(60) DEF Connection
  <2> QED BY <1>2, <2>1, <2>2, ZenonT(60)
<1>4. tcp' = [tcp EXCEPT ![c] = Release(new)]
  BY DEF closeFar
<1> HIDE DEF new, old
<1>5. GoodConnection(sent, new)
  BY <1>2, <1>3, PeerTransportAssumption DEF GoodConnection
<1>6. /\ Release(new) \in Connection(sent) /\ GoodConnection(sent, Release(new))
      /\ new.near # "closed" => Release(new) = new
  BY <1>5, ReleaseGood
<1>7. GoodTcp(sent, tcp')
  BY Zenon, <1>1, <1>4, <1>6 DEF GoodTcp
<1>8. \A d \in Fd : tcp[d].near # "closed" =>
        /\ tcp'[d].from = tcp[d].from /\ tcp'[d].to = tcp[d].to
        /\ tcp'[d].near # "closed"
  BY Zenon, <1>1, <1>3, <1>4, <1>6 DEF old
<1> QED BY Zenon, <1>7, <1>8, TcpGood

\* The handling of epoll events: nothing is handed over, or the first frame of
\* an accepted connection is, and it was sent to this node.
LEMMA HandleStep ==
  ASSUME NetworkInv, NEW n \in Node, Handle(n)
  PROVE  /\ NetworkInv'
         /\ UNCHANGED <<sent, received>> \/ \E m \in sent : Network!Deliver(m)
<1>1. LinkInv /\ GoodTcp(sent, tcp) /\ tcp \in [Fd -> Connection(sent)] /\ Room \in Nat
  BY PeerTransportAssumption, ZenonT(20) DEF NetworkInv, LinkInv, GoodTcp
<1>2. ASSUME LinkInv', UNCHANGED <<sent, transport_peers_, endpoints_, pending_updates_,
                                   outbound_, delayed_frames_>>
      PROVE  NetworkInv'
  BY <1>2 DEF NetworkInv, PeerInv, QueueInv
<1>3. CASE acceptConnections(n)
  <2>1. UNCHANGED <<sent, received, transport_peers_, endpoints_, pending_updates_, outbound_,
                    delayed_frames_, outbound_connections_, pending_frames_, parked>>
    BY <1>3 DEF acceptConnections, threadVars, raftVars
  <2>2. tcp' = [c \in Fd |-> IF tcp[c].to = n /\ tcp[c].far = "backlog"
                             THEN [tcp[c] EXCEPT !.far = "open"] ELSE tcp[c]]
    BY <1>3 DEF acceptConnections
  <2>3. ASSUME NEW x \in Connection(sent), GoodConnection(sent, x)
        PROVE  LET y == [x EXCEPT !.far = "open"] IN
               /\ GoodConnection(sent, y) /\ y \in Connection(sent)
               /\ y.from = x.from /\ y.to = x.to /\ y.near = x.near
    <3>1. PICK y : y = [x EXCEPT !.far = "open"]
      BY ZenonT(60)
    <3>2. /\ y \in Connection(sent) /\ y.output = x.output /\ y.wire = x.wire
          /\ y.to = x.to /\ y.from = x.from /\ y.near = x.near
      BY <3>1 DEF Connection
    <3> QED BY <2>3, <3>1, <3>2 DEF GoodConnection
  <2>4. \A c \in Fd : /\ tcp'[c] \in Connection(sent) /\ GoodConnection(sent, tcp'[c])
                      /\ tcp'[c].from = tcp[c].from /\ tcp'[c].to = tcp[c].to
                      /\ tcp'[c].near = tcp[c].near
    BY <1>1, <2>2, <2>3 DEF GoodTcp
  <2>5. GoodTcp(sent, tcp')
    BY Zenon, <2>2, <2>4 DEF GoodTcp
  <2>6. LinkInv'
    BY Zenon, <1>1, <2>1, <2>4, <2>5, TcpGood
  <2> QED BY Zenon, <1>2, <2>1, <2>6
<1>4. ASSUME NEW c \in Fd, handleWrite(n, c)
      PROVE  NetworkInv' /\ UNCHANGED <<sent, received>>
  <2>1. UNCHANGED <<sent, received, transport_peers_, endpoints_, pending_updates_, outbound_,
                    delayed_frames_>>
    BY <1>4, ZenonT(30) DEF handleWrite, raftVars
  <2>2. CASE Become(n, closeNear(Links(n), c))
    <3>1. Links(n).tcp[c].from = n
      BY <1>4, ZenonT(20) DEF handleWrite, Links
    <3>2. Good(sent, n, tcp, Links(n))
      BY Zenon, <1>1, LinksGood
    <3>3. Good(sent, n, tcp, closeNear(Links(n), c))
      BY ONLY Zenon, <3>1, <3>2, n \in Node, c \in Fd, CloseNearGood
    <3>4. LinkInv'
      BY Zenon, <1>1, <2>1, <2>2, <3>3, BecomeGood
    <3> QED BY Zenon, <1>2, <2>1, <3>4
  <2>3. CASE ~Become(n, closeNear(Links(n), c))
    <3> DEFINE old == tcp[c]
               room == Room - Len(old.wire)
               k == IF Len(old.output) < room THEN Len(old.output) ELSE room
               w == old.wire \o SubSeq(old.output, 1, k)
               o == Unsent(old.output, k)
               new == [old EXCEPT !.near = "open", !.wire = w, !.output = o]
    <3>1. /\ tcp' = [tcp EXCEPT ![c].near = "open",
                                ![c].wire = @ \o SubSeq(tcp[c].output, 1, k),
                                ![c].output = Unsent(@, k)]
          /\ UNCHANGED <<outbound_connections_, pending_frames_, parked>>
      BY <1>4, <2>3, ZenonT(60) DEF handleWrite
    <3>2. /\ old \in Connection(sent) /\ GoodConnection(sent, old)
          /\ old.output \in Seq(sent) /\ old.wire \in Seq(sent)
          /\ old.output \in Seq(For(sent, old.to)) /\ old.wire \in Seq(For(sent, old.to))
          /\ Len(old.wire) <= Room
      BY <1>1, ZenonT(20) DEF GoodTcp, GoodConnection, Connection
    <3>3. room \in Nat /\ k \in 0..Len(old.output) /\ k <= room
      <4>1. Len(old.output) \in Nat /\ Len(old.wire) \in Nat
        BY <3>2
      <4>2. \A a, b, r \in Nat : b <= r =>
              LET x == IF a < r - b THEN a ELSE r - b IN
              r - b \in Nat /\ x \in 0..a /\ x <= r - b
        OBVIOUS
      <4> QED BY <1>1, <3>2, <4>1, <4>2, ZenonT(60)
    <3>4. ASSUME NEW T, old.output \in Seq(T), old.wire \in Seq(T)
          PROVE  w \in Seq(T) /\ o \in Seq(T) /\ Len(w) <= Room
      <4>1. SubSeq(old.output, 1, k) \in Seq(T) /\ Len(SubSeq(old.output, 1, k)) = k
        BY <3>3, <3>4
      <4>2. SubSeq(old.output, k + 1, Len(old.output)) \in Seq(T)
        BY <3>3, <3>4
      <4>3. w \in Seq(T) /\ Len(w) = Len(old.wire) + k
        BY <3>4, <4>1
      <4>4. Len(old.wire) \in Nat
        BY <3>2
      <4>5. o \in Seq(T)
        BY <4>2 DEF Unsent
      <4> HIDE DEF k, w, o, old
      <4> QED BY ONLY <1>1, <3>2, <3>3, <4>3, <4>4, <4>5
    <3> HIDE DEF k, w, o
    <3>5. tcp' = [tcp EXCEPT ![c] = new]
      BY <1>1, <3>1, <3>2, ZenonT(60) DEF w, o, Connection
    <3>6. /\ new \in Connection(sent) /\ new.output = o /\ new.wire = w
          /\ new.to = old.to /\ new.from = old.from /\ new.near = "open"
      <4>1. w \in Seq(sent) /\ o \in Seq(sent)
        BY <3>2, <3>4
      <4>2. PICK x, a, b, y : /\ x = old /\ a = w /\ b = o
                              /\ y = [x EXCEPT !.near = "open", !.wire = a, !.output = b]
        BY ZenonT(60)
      <4>3. x \in Connection(sent) /\ a \in Seq(sent) /\ b \in Seq(sent)
        BY <3>2, <4>1, <4>2
      <4>4. /\ y \in Connection(sent) /\ y.output = b /\ y.wire = a
            /\ y.to = x.to /\ y.from = x.from /\ y.near = "open"
        BY <4>2, <4>3, ZenonT(60) DEF Connection
      <4>5. y = new
        BY Zenon, <4>2
      <4> HIDE DEF new
      <4> QED BY <4>2, <4>4, <4>5, ZenonT(60)
    <3> HIDE DEF new, old
    <3>7. GoodConnection(sent, new)
      BY Zenon, <3>2, <3>4, <3>6 DEF GoodConnection
    <3>8. GoodTcp(sent, tcp')
      BY Zenon, <1>1, <3>5, <3>6, <3>7 DEF GoodTcp
    <3>9. \A d \in Fd : tcp[d].near # "closed" =>
            /\ tcp'[d].from = tcp[d].from /\ tcp'[d].to = tcp[d].to
            /\ tcp'[d].near # "closed"
      BY Zenon, <1>1, <3>5, <3>6 DEF old
    <3>10. LinkInv'
      BY Zenon, <1>1, <2>1, <3>1, <3>8, <3>9, TcpGood
    <3> QED BY <1>2, <2>1, <3>10
  <2> QED BY <2>2, <2>3
<1>5. ASSUME NEW c \in Fd, handleRead(n, c)
      PROVE  /\ NetworkInv'
             /\ UNCHANGED <<sent, received>> \/ \E m \in sent : Network!Deliver(m)
  <2> DEFINE old == tcp[c]
             m == Head(old.wire)
  <2>1. UNCHANGED <<sent, transport_peers_, endpoints_, pending_updates_, outbound_,
                    delayed_frames_, outbound_connections_, pending_frames_, parked>>
    BY <1>5 DEF handleRead, threadVars, raftVars
  <2>2. /\ old \in Connection(sent) /\ GoodConnection(sent, old) /\ old.wire # <<>>
        /\ old.wire \in Seq(sent) /\ old.wire \in Seq(For(sent, n)) /\ Len(old.wire) <= Room
        /\ old.to = n
    BY <1>1, <1>5 DEF GoodTcp, GoodConnection, Connection, handleRead
  <2>3. m \in sent /\ m.to = n /\ Tail(old.wire) \in Seq(sent) /\ Tail(old.wire) \in Seq(For(sent, n))
        /\ Len(Tail(old.wire)) <= Room
    <3>1. m \in For(sent, n) /\ Tail(old.wire) \in Seq(sent) /\ Tail(old.wire) \in Seq(For(sent, n))
      BY <2>2
    <3>2. Len(old.wire) \in Nat /\ Len(Tail(old.wire)) = Len(old.wire) - 1
      BY ONLY <2>2
    <3>3. Len(Tail(old.wire)) <= Room
      BY ONLY <1>1, <2>2, <3>2
    <3> QED BY Zenon, <3>1, <3>3 DEF For
  <2>4. m.from \in Node
    BY Zenon, <2>3 DEF NetworkInv, GoodSent, Message
  <2>5. CASE tcp' = closeFar(c) /\ UNCHANGED received
    <3>1. LinkInv'
      BY Zenon, <1>1, <2>1, <2>5, CloseFarGood
    <3> QED BY Zenon, <1>2, <2>1, <2>5, <3>1
  <2>6. CASE /\ received' = [received EXCEPT ![n] = Append(@, m)]
             /\ tcp' = [tcp EXCEPT ![c].wire = Tail(@), ![c].peer_id = m.from]
    <3> DEFINE new == [old EXCEPT !.wire = Tail(old.wire), !.peer_id = m.from]
    <3>1. tcp' = [tcp EXCEPT ![c] = new]
      BY <1>1, <2>2, <2>6, ZenonT(60) DEF Connection
    <3>2. /\ new \in Connection(sent) /\ new.output = old.output /\ new.wire = Tail(old.wire)
          /\ new.to = old.to /\ new.from = old.from /\ new.near = old.near
      <4>1. PICK x, a, b, y : /\ x = old /\ a = Tail(old.wire) /\ b = m.from
                              /\ y = [x EXCEPT !.wire = a, !.peer_id = b]
        BY ZenonT(60)
      <4>2. x \in Connection(sent) /\ a \in Seq(sent) /\ b \in Node
        BY Zenon, <2>2, <2>3, <2>4, <4>1
      <4>3. /\ y \in Connection(sent) /\ y.output = x.output /\ y.wire = a
            /\ y.to = x.to /\ y.from = x.from /\ y.near = x.near
        BY <4>1, <4>2, ZenonT(60) DEF Connection
      <4>4. y = new
        BY Zenon, <4>1
      <4> HIDE DEF new
      <4> QED BY <4>1, <4>3, <4>4, ZenonT(60)
    <3> HIDE DEF new, old, m
    <3>3. GoodConnection(sent, new)
      BY Zenon, <2>2, <2>3, <3>2 DEF GoodConnection
    <3>4. GoodTcp(sent, tcp')
      BY Zenon, <1>1, <3>1, <3>2, <3>3 DEF GoodTcp
    <3>5. \A d \in Fd : tcp[d].near # "closed" =>
            /\ tcp'[d].from = tcp[d].from /\ tcp'[d].to = tcp[d].to
            /\ tcp'[d].near # "closed"
      BY Zenon, <1>1, <3>1, <3>2 DEF old
    <3>6. LinkInv'
      BY Zenon, <1>1, <2>1, <3>4, <3>5, TcpGood
    <3>7. Network!Deliver(m)
      BY Zenon, <2>1, <2>3, <2>6 DEF Network!Deliver
    <3> QED BY Zenon, <1>2, <2>1, <2>3, <3>6, <3>7
  <2> QED BY <1>5, <2>5, <2>6, ZenonT(20) DEF handleRead
<1>6. ASSUME NEW c \in Fd, handleHangUp(n, c)
      PROVE  NetworkInv' /\ UNCHANGED <<sent, received>>
  <2>1. /\ UNCHANGED <<sent, received, transport_peers_, endpoints_, pending_updates_, outbound_,
                       delayed_frames_, outbound_connections_, pending_frames_, parked>>
        /\ tcp' = closeFar(c)
    BY Zenon, <1>6 DEF handleHangUp, threadVars, raftVars
  <2>2. LinkInv'
    BY Zenon, <1>1, <2>1, CloseFarGood
  <2> QED BY Zenon, <1>2, <2>1, <2>2
<1> QED BY Zenon, <1>3, <1>4, <1>5, <1>6 DEF Handle

\* A process that ends, or starts.
LEMMA ProcessStep ==
  ASSUME NetworkInv, NEW n \in Node, crash(n) \/ restart(n)
  PROVE  NetworkInv' /\ UNCHANGED <<sent, received>>
<1>1. CASE crash(n)
  <2>1. UNCHANGED <<sent, received, transport_peers_, endpoints_, parked>>
    BY <1>1, ZenonT(60) DEF crash, raftVars
  <2>2. PeerInv'
    <3>1. pending_updates_' = [pending_updates_ EXCEPT ![n] = <<>>]
      BY <1>1, ZenonT(60) DEF crash
    <3> QED BY <2>1, <3>1 DEF NetworkInv, PeerInv
  <2>3. QueueInv'
    <3>1. /\ outbound_' = [outbound_ EXCEPT ![n] = <<>>]
          /\ delayed_frames_' = [delayed_frames_ EXCEPT ![n] = <<>>]
      BY <1>1, ZenonT(60) DEF crash
    <3> QED BY <2>1, <3>1 DEF NetworkInv, QueueInv
  <2>4. LinkInv /\ tcp \in [Fd -> Connection(sent)]
    BY DEF NetworkInv, LinkInv, GoodTcp
  <2>5. /\ outbound_connections_' = [outbound_connections_ EXCEPT ![n] = [p \in Node |-> None]]
        /\ pending_frames_' = [pending_frames_ EXCEPT ![n] = [p \in Node |-> <<>>]]
    BY <1>1, ZenonT(60) DEF crash
  <2>6. /\ outbound_connections_' \in [Node -> [Node -> Fd \cup {None}]]
        /\ pending_frames_' \in [Node -> [Node -> Seq(sent)]]
    BY <2>4, <2>5 DEF LinkInv
  <2> DEFINE Ended(x) ==
        [x EXCEPT !.near = IF x.from = n THEN "closed" ELSE @,
                  !.output = IF x.from = n THEN <<>> ELSE @,
                  !.far = IF x.to = n THEN "closed" ELSE @,
                  !.wire = IF x.to = n THEN <<>> ELSE @]
  <2>7. tcp' = [c \in Fd |-> Release(Ended(tcp[c]))]
    BY <1>1, ZenonT(60) DEF crash
  <2>8. ASSUME NEW x \in Connection(sent), GoodConnection(sent, x)
        PROVE  /\ GoodConnection(sent, Ended(x))
               /\ Ended(x).from = x.from /\ Ended(x).to = x.to
               /\ x.from # n => Ended(x).near = x.near
    <3>1. PICK near, output, far, wire :
            /\ near = IF x.from = n THEN "closed" ELSE x.near
            /\ output = IF x.from = n THEN <<>> ELSE x.output
            /\ far = IF x.to = n THEN "closed" ELSE x.far
            /\ wire = IF x.to = n THEN <<>> ELSE x.wire
      OBVIOUS
    <3>2. PICK y : y = [x EXCEPT !.near = near, !.output = output, !.far = far, !.wire = wire]
      OBVIOUS
    <3>3. /\ near \in {"closed", "connecting", "open"} /\ far \in {"closed", "backlog", "open"}
          /\ output \in Seq(sent) /\ wire \in Seq(sent)
      BY <3>1 DEF Connection
    <3>4. /\ y \in Connection(sent) /\ y.output = output /\ y.wire = wire /\ y.near = near
          /\ y.to = x.to /\ y.from = x.from
      BY <3>2, <3>3, ZenonT(60) DEF Connection
    <3>5. /\ output \in Seq(For(sent, x.to)) /\ wire \in Seq(For(sent, x.to))
          /\ Len(wire) <= Room
      <4>1. /\ x.output \in Seq(For(sent, x.to)) /\ x.wire \in Seq(For(sent, x.to))
            /\ Len(x.wire) <= Room
        BY Zenon, <2>8 DEF GoodConnection
      <4>2. <<>> \in Seq(For(sent, x.to)) /\ Len(<<>>) <= Room
        BY PeerTransportAssumption
      <4>3. CASE x.from = n
        <5>1. output \in Seq(For(sent, x.to))
          BY Zenon, <3>1, <4>2, <4>3
        <5> QED BY <3>1, <4>1, <4>2, <5>1, ZenonT(60)
      <4>4. CASE x.from # n
        <5>1. output \in Seq(For(sent, x.to))
          BY <3>1, <4>1, <4>4
        <5> QED BY <3>1, <4>1, <4>2, <5>1, ZenonT(60)
      <4> QED BY <4>3, <4>4
    <3>6. y = Ended(x)
      BY <3>1, <3>2
    <3> HIDE DEF Ended
    <3>7. GoodConnection(sent, y)
      BY Zenon, <3>4, <3>5 DEF GoodConnection
    <3> QED BY Zenon, <3>1, <3>4, <3>6, <3>7
  <2> HIDE DEF Ended
  <2>9. ASSUME NEW c \in Fd
        PROVE  /\ tcp'[c] \in Connection(sent) /\ GoodConnection(sent, tcp'[c])
               /\ tcp[c].near # "closed" /\ tcp[c].from # n => tcp'[c] = Ended(tcp[c])
    <3>1. tcp[c] \in Connection(sent) /\ GoodConnection(sent, tcp[c])
      BY <2>4 DEF LinkInv, GoodTcp
    <3>2. GoodConnection(sent, Ended(tcp[c])) /\ (tcp[c].from # n => Ended(tcp[c]).near = tcp[c].near)
      BY Zenon, <2>8, <3>1
    <3> QED BY Zenon, <2>7, <3>2, ReleaseGood
  <2>10. GoodTcp(sent, tcp')
    BY Zenon, <2>7, <2>9 DEF GoodTcp
  <2>11. ASSUME NEW o \in Node PROVE GoodConns(o, tcp', outbound_connections_'[o])
    <3>1. CASE o = n
      BY <2>4, <2>5, <2>6, <3>1, ZenonT(20) DEF GoodConns, LinkInv
    <3>2. CASE o # n
      <4>1. outbound_connections_'[o] = outbound_connections_[o]
        BY Zenon, <2>4, <2>5, <3>2 DEF LinkInv
      <4>2. GoodConns(o, tcp, outbound_connections_[o])
        BY Zenon, <2>4 DEF LinkInv
      <4>3. ASSUME NEW d \in Fd, tcp[d].from = o, tcp[d].near # "closed"
            PROVE  /\ tcp'[d].from = o /\ tcp'[d].to = tcp[d].to
                   /\ tcp'[d].near # "closed"
        <5>1. tcp[d] \in Connection(sent) /\ GoodConnection(sent, tcp[d])
          BY Zenon, <2>4 DEF LinkInv, GoodTcp
        <5> QED BY <2>8, <2>9, <3>2, <4>3, <5>1, ZenonT(20)
      <4> QED BY <4>1, <4>2, <4>3 DEF GoodConns
    <3> QED BY Zenon, <3>1, <3>2
  <2>12. LinkInv'
    BY <2>1, <2>4, <2>6, <2>10, <2>11 DEF LinkInv
  <2> QED BY <2>1, <2>2, <2>3, <2>12 DEF NetworkInv
<1>2. CASE restart(n)
  <2>1. UNCHANGED <<sent, received, transport_peers_, pending_updates_, outbound_, delayed_frames_,
                    tcp, outbound_connections_, pending_frames_, parked>>
    BY Zenon, <1>2 DEF restart, raftVars
  <2>2. endpoints_' = [endpoints_ EXCEPT ![n] = transport_peers_[n]]
    BY <1>2 DEF restart
  <2> QED BY <2>1, <2>2, ZenonT(60) DEF NetworkInv, LinkInv, PeerInv, QueueInv
<1> QED BY Zenon, <1>1, <1>2

-----------------------------------------------------------------------------

\* The transport is the network the consensus models assume: whatever
\* descriptors are reused, connections cut, peers added or removed, frames
\* delayed, repeated or lost, and processes restarted, a node is handed only
\* messages that were sent to it (peer_transport.cpp:180-289, 318-467).
THEOREM TransportIsNetwork == Spec => ImplementsNetwork
<1>1. Init => NetworkInv
  BY Zenon, InitNetworkInv
<1>2. NetworkInv /\ [Next]_vars => NetworkInv' /\ [Network!Next]_<<sent, received>>
  <2> SUFFICES ASSUME NetworkInv, [Next]_vars
               PROVE  NetworkInv' /\ [Network!Next]_<<sent, received>>
    BY Zenon
  <2>1. CASE UNCHANGED vars
    BY <2>1 DEF vars, threadVars, raftVars, NetworkInv, LinkInv, PeerInv, QueueInv
  <2>2. ASSUME NEW n \in Node, Loop(n) PROVE NetworkInv' /\ UNCHANGED <<sent, received>>
    BY <2>2, LoopStep
  <2>3. ASSUME NEW n \in Node, Handle(n) PROVE NetworkInv' /\ [Network!Next]_<<sent, received>>
    BY <2>3, HandleStep DEF Network!Next
  <2>4. ASSUME NEW n \in Node, crash(n) \/ restart(n)
        PROVE  NetworkInv' /\ UNCHANGED <<sent, received>>
    BY <2>4, ProcessStep
  <2>5. ASSUME NEW n \in Node, receiveRpc(n) PROVE NetworkInv' /\ UNCHANGED <<sent, received>>
    BY <2>5, RaftStep
  <2>6. ASSUME NEW n \in Node, NEW p \in Node, syncPeerTransport(n, p)
        PROVE  NetworkInv' /\ UNCHANGED <<sent, received>>
    BY <2>6, RaftStep
  <2>7. ASSUME NEW n \in Node, NEW p \in Node, sendRpc(n, p)
        PROVE  NetworkInv' /\ [Network!Next]_<<sent, received>>
    <3>1. /\ NetworkInv' /\ Network!Send(n, p, Cardinality(sent) + 1)
          /\ Cardinality(sent) + 1 \in 1..MaxMessages
      BY <2>7, SendStep
    <3>2. Network!Next
      BY Zenon, <3>1 DEF Network!Next
    <3> QED BY Zenon, <3>1, <3>2
  <2> QED BY Zenon, <2>1, <2>2, <2>3, <2>4, <2>5, <2>6, <2>7 DEF Next
<1>3. Init => Network!Init
  BY DEF Init, Network!Init
<1> QED BY <1>1, <1>2, <1>3, PTL DEF Spec, ImplementsNetwork, Network!Spec
==============================================================================
