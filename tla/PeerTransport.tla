---------------------------- MODULE PeerTransport ----------------------------
(***************************************************************************)
(* The transport between nodes (network/peer_transport.cpp): every node    *)
(* dials the peers it knows and sends on the connections it dialed, and    *)
(* reads on the connections it accepted.  One thread per node goes round   *)
(* applyPeerUpdates, releaseDelayedFrames, drainOutbound,                  *)
(* connectMissingPeers and the handling of epoll events; the Raft thread   *)
(* exchanges messages and peer updates with it through queues.             *)
(*                                                                         *)
(* A connection is a descriptor with two ends, reused when both are        *)
(* closed.  Data travel from the end that dialed to the end that accepted, *)
(* the only direction the code uses.                                       *)
(***************************************************************************)
EXTENDS Naturals, Sequences, FiniteSets, Functions

CONSTANTS
  Node,
  Known,          \* Known[n]: the peers n starts with
  Fd,             \* descriptors
  QueueCapacity,  \* queue_capacity of the inbound and outbound queues
  MaxPending,     \* kMaximumPendingFramesPerPeer
  MaxDelayed,     \* kMaximumDelayedFrames
  MaxBuffered,    \* kMaximumBufferedBytes of a connection, in frames
  Room,           \* frames a connection holds between its two buffers
  Faults,         \* fault files present: a subset of {"drop", "duplicate", "delay"}
  MaxMessages,    \* messages the Raft threads send
  MaxUpdates,     \* peers added or removed while running
  MaxCrashes      \* processes that end

ASSUME PeerTransportAssumption ==
  /\ IsFiniteSet(Node) /\ IsFiniteSet(Fd)
  /\ Known \in [Node -> SUBSET Node] /\ \A n \in Node : n \notin Known[n]
  /\ Faults \subseteq {"drop", "duplicate", "delay"}
  /\ {QueueCapacity, MaxPending, MaxDelayed, MaxBuffered, Room, MaxMessages,
      MaxUpdates, MaxCrashes} \subseteq Nat
  /\ 0 \notin {MaxPending, MaxDelayed}

CONSTANT None  \* no descriptor, no identity
ASSUME NoneAssumption == None \notin Node \cup Fd

VARIABLES
  alive,                  \* is the process running?
  pc,                     \* where the transport thread is in its loop
  transport_peers_,       \* the Raft thread's view of the transport's peers
  pending_updates_,       \* updates queued for the transport thread
  endpoints_,             \* peers the transport knows
  outbound_, inbound_,    \* queues to and from the Raft thread
  pending_frames_,        \* frames for peers without a connection
  delayed_frames_,        \* frames held back by the delay fault
  outbound_connections_,  \* descriptor of the connection dialed to each peer
  tcp,                    \* the connections
  sent, received,         \* history: what went in and what came out
  parked,                 \* history: messages that met no connection
  updates, crashes        \* bounds

threadVars == <<pc, endpoints_, pending_frames_, delayed_frames_, outbound_connections_>>
raftVars == <<transport_peers_, sent, updates>>
vars == <<threadVars, raftVars, alive, pending_updates_, outbound_, inbound_, tcp,
          received, parked, crashes>>

Free == [from |-> None, to |-> None, near |-> "closed", far |-> "closed",
         output |-> <<>>, wire |-> <<>>, peer_id |-> None]

Init ==
  /\ alive = [n \in Node |-> TRUE]
  /\ pc = [n \in Node |-> "update"]
  /\ transport_peers_ = Known /\ endpoints_ = Known
  /\ pending_updates_ = [n \in Node |-> <<>>]
  /\ outbound_ = [n \in Node |-> <<>>] /\ inbound_ = [n \in Node |-> <<>>]
  /\ pending_frames_ = [n \in Node |-> [p \in Node |-> <<>>]]
  /\ delayed_frames_ = [n \in Node |-> <<>>]
  /\ outbound_connections_ = [n \in Node |-> [p \in Node |-> None]]
  /\ tcp = [c \in Fd |-> Free]
  /\ sent = {} /\ received = [n \in Node |-> <<>>] /\ parked = {}
  /\ updates = 0 /\ crashes = 0

-----------------------------------------------------------------------------
(* The Raft thread *)

\* sendRpcs: a message for a peer; a full queue loses it.
sendRpc(n, p) ==
  /\ alive[n] /\ p \in transport_peers_[n]
  /\ Cardinality(sent) < MaxMessages
  /\ LET m == [from |-> n, to |-> p, id |-> Cardinality(sent) + 1]
     IN  /\ sent' = sent \cup {m}
         /\ outbound_' = IF Len(outbound_[n]) < QueueCapacity
                         THEN [outbound_ EXCEPT ![n] = Append(@, m)]
                         ELSE outbound_
  /\ UNCHANGED <<threadVars, transport_peers_, updates, alive, pending_updates_,
                 inbound_, tcp, received, parked, crashes>>

\* processPeerMessages takes one message.
receiveRpc(n) ==
  /\ alive[n] /\ inbound_[n] # <<>>
  /\ inbound_' = [inbound_ EXCEPT ![n] = Tail(@)]
  /\ UNCHANGED <<threadVars, raftVars, alive, pending_updates_, outbound_, tcp,
                 received, parked, crashes>>

\* syncPeerTransport finds a peer that is new, or one that is gone.
syncPeerTransport(n, p) ==
  /\ alive[n] /\ n # p /\ updates < MaxUpdates
  /\ LET add == p \notin transport_peers_[n]
     IN  /\ transport_peers_' = [transport_peers_ EXCEPT
                                   ![n] = IF add THEN @ \cup {p} ELSE @ \ {p}]
         /\ pending_updates_' = [pending_updates_ EXCEPT
                                   ![n] = Append(@, [add |-> add, peer |-> p])]
  /\ updates' = updates + 1
  /\ UNCHANGED <<threadVars, sent, alive, outbound_, inbound_, tcp, received,
                 parked, crashes>>

-----------------------------------------------------------------------------
(* Connections *)

\* What a transport thread does to frames and connections, as a value: the
\* operators below take one and return one, and Become makes it the next state.
Links(n) == [tcp |-> tcp, conns |-> outbound_connections_[n],
             pending |-> pending_frames_[n], parked |-> parked]

Become(n, links) ==
  /\ tcp' = links.tcp
  /\ outbound_connections_' = [outbound_connections_ EXCEPT ![n] = links.conns]
  /\ pending_frames_' = [pending_frames_ EXCEPT ![n] = links.pending]
  /\ parked' = links.parked

\* A connection whose two ends are closed is a free descriptor again.
Release(c) == IF c.near = "closed" /\ c.far = "closed" THEN Free ELSE c

\* Mutant of forgetConnection: the peer keeps the descriptor of a closed connection.
forgetConnectionNot(conns, c) == conns

\* closeConnection erases the descriptor from outbound_connections_.
forgetConnection(conns, c) == [p \in Node |-> IF conns[p] = c THEN None ELSE conns[p]]

\* closeConnection at the end that dialed: unsent output is gone.
closeNear(links, c) ==
  [links EXCEPT !.tcp[c] = Release([@ EXCEPT !.near = "closed", !.output = <<>>]),
                !.conns = forgetConnection(@, c)]

\* closeConnection at the end that accepted: unread input is gone.
closeFar(c) == [tcp EXCEPT ![c] = Release([@ EXCEPT !.far = "closed", !.wire = <<>>])]

\* What is parked for p is discarded.
discarded(links, p) == [links EXCEPT !.pending[p] = <<>>]

\* queueFrame: without a connection the frame is parked, the oldest making
\* room; a connection whose buffer is full is closed.
queueFrame(links, m) ==
  LET c == links.conns[m.to]
  IN  IF c = None
      THEN [links EXCEPT
              !.pending[m.to] = Append(IF Len(@) >= MaxPending THEN Tail(@) ELSE @, m),
              !.parked = @ \cup {m}]
      ELSE IF Len(links.tcp[c].output) >= MaxBuffered
           THEN closeNear(links, c)
           ELSE [links EXCEPT !.tcp[c].output = Append(@, m)]

-----------------------------------------------------------------------------
(* The transport thread, PeerTransport::run *)

\* The frames without the one at i.
erase(frames, i) == SubSeq(frames, 1, i - 1) \o SubSeq(frames, i + 1, Len(frames))

At(n, label) == alive[n] /\ pc[n] = label
Goto(n, label) == pc' = [pc EXCEPT ![n] = label]

\* The delayed frames that are erased when p is removed.
HeldFor(n, p) == {i \in DOMAIN delayed_frames_[n] : delayed_frames_[n][i].to = p}

\* applyPeerUpdates, one update, or on to the delayed frames.  A removal first
\* erases the delayed frames of the peer, which only this thread sees, one by one.
applyPeerUpdates(n) ==
  /\ At(n, "update")
  /\ \/ /\ pending_updates_[n] = <<>>
        /\ Goto(n, "release")
        /\ UNCHANGED <<pending_updates_, endpoints_, delayed_frames_>>
        /\ Become(n, Links(n))
     \/ /\ pending_updates_[n] # <<>>
        /\ UNCHANGED pc
        /\ LET update == Head(pending_updates_[n])
               p == update.peer
               c == outbound_connections_[n][p]
               cleared == discarded(Links(n), p)
               rest == [pending_updates_ EXCEPT ![n] = Tail(@)]
           IN  \/ /\ update.add
                  /\ endpoints_' = [endpoints_ EXCEPT ![n] = @ \cup {p}]
                  /\ pending_updates_' = rest
                  /\ UNCHANGED delayed_frames_
                  /\ Become(n, Links(n))
               \/ /\ ~update.add /\ HeldFor(n, p) # {}
                  /\ delayed_frames_' = [delayed_frames_ EXCEPT
                                           ![n] = erase(@, CHOOSE i \in HeldFor(n, p) : TRUE)]
                  /\ UNCHANGED <<endpoints_, pending_updates_>>
                  /\ Become(n, Links(n))
               \/ /\ ~update.add /\ HeldFor(n, p) = {}
                  /\ endpoints_' = [endpoints_ EXCEPT ![n] = @ \ {p}]
                  /\ pending_updates_' = rest
                  /\ UNCHANGED delayed_frames_
                  /\ Become(n, IF c = None THEN cleared ELSE closeNear(cleared, c))
  /\ UNCHANGED <<raftVars, alive, outbound_, inbound_, received, crashes>>

\* releaseDelayedFrames: any frame may be due; time is not modelled.
releaseDelayedFrames(n) ==
  /\ At(n, "release")
  /\ \/ /\ Goto(n, "drain")
        /\ Become(n, Links(n))
        /\ UNCHANGED delayed_frames_
     \/ \E i \in DOMAIN delayed_frames_[n] :
          /\ Become(n, queueFrame(Links(n), delayed_frames_[n][i]))
          /\ delayed_frames_' = [delayed_frames_ EXCEPT ![n] = erase(@, i)]
          /\ UNCHANGED pc
  /\ UNCHANGED <<raftVars, alive, pending_updates_, endpoints_, outbound_, inbound_,
                 received, crashes>>

\* A full list of delayed frames drops its oldest.
hold(frames, m) == Append(IF Len(frames) >= MaxDelayed THEN Tail(frames) ELSE frames, m)

\* drainOutbound, one message: an unknown destination loses it, the first chunk
\* of a snapshot discards what is parked for its destination, and the fault
\* files drop, delay or repeat it.
drainOutbound(n) ==
  /\ At(n, "drain")
  /\ \/ /\ outbound_[n] = <<>>
        /\ Goto(n, "connect")
        /\ Become(n, Links(n))
        /\ UNCHANGED <<outbound_, delayed_frames_>>
     \/ /\ outbound_[n] # <<>>
        /\ outbound_' = [outbound_ EXCEPT ![n] = Tail(@)]
        /\ UNCHANGED pc
        /\ LET m == Head(outbound_[n])
           IN  \/ /\ m.to \notin endpoints_[n]
                  /\ Become(n, Links(n)) /\ UNCHANGED delayed_frames_
               \/ \E firstChunk \in BOOLEAN, twice \in {FALSE, "duplicate" \in Faults} :
                    LET links == IF firstChunk THEN discarded(Links(n), m.to) ELSE Links(n)
                    IN  /\ m.to \in endpoints_[n]
                        /\ \/ /\ "drop" \in Faults
                              /\ Become(n, links) /\ UNCHANGED delayed_frames_
                           \/ /\ "delay" \in Faults
                              /\ delayed_frames_' =
                                   [delayed_frames_ EXCEPT
                                      ![n] = IF twice THEN hold(hold(@, m), m) ELSE hold(@, m)]
                              /\ Become(n, links)
                           \/ /\ Become(n, IF twice THEN queueFrame(queueFrame(links, m), m)
                                           ELSE queueFrame(links, m))
                              /\ UNCHANGED delayed_frames_
  /\ UNCHANGED <<raftVars, alive, pending_updates_, endpoints_, inbound_, received, crashes>>

\* Mutant of dialled: what was parked for the peer is sent on the new connection.
dialledFlush(links, n, p, c) ==
  [links EXCEPT !.tcp[c] = [Free EXCEPT !.from = n, !.to = p, !.near = "connecting",
                                        !.far = IF alive[p] THEN "backlog" ELSE "closed",
                                        !.output = links.pending[p]],
                !.conns[p] = c, !.pending[p] = <<>>]

\* A new connection to p: what was parked for p is discarded.
dialled(links, n, p, c) ==
  [links EXCEPT !.tcp[c] = [Free EXCEPT !.from = n, !.to = p, !.near = "connecting",
                                        !.far = IF alive[p] THEN "backlog" ELSE "closed"],
                !.conns[p] = c, !.pending[p] = <<>>]

Missing(n) == {p \in endpoints_[n] : outbound_connections_[n][p] = None}
FreeFds == {c \in Fd : tcp[c] = Free}

\* connectMissingPeers, one peer; it gives up when no descriptor is free.  The
\* peer's kernel completes the connection if its process listens.
connectMissingPeers(n) ==
  /\ At(n, "connect")
  /\ \/ /\ Missing(n) = {} \/ FreeFds = {}
        /\ Goto(n, "poll")
        /\ Become(n, Links(n))
     \/ \E p \in Missing(n) :
          /\ FreeFds # {}
          /\ Become(n, dialled(Links(n), n, p, CHOOSE c \in FreeFds : TRUE))
          /\ UNCHANGED pc
  /\ UNCHANGED <<raftVars, alive, pending_updates_, endpoints_, delayed_frames_,
                 outbound_, inbound_, received, crashes>>

\* acceptConnections: everything that waits is accepted.
acceptConnections(n) ==
  /\ At(n, "poll")
  /\ \E c \in Fd : tcp[c].to = n /\ tcp[c].far = "backlog"
  /\ tcp' = [c \in Fd |-> IF tcp[c].to = n /\ tcp[c].far = "backlog"
                          THEN [tcp[c] EXCEPT !.far = "open"] ELSE tcp[c]]
  /\ UNCHANGED <<threadVars, raftVars, alive, pending_updates_, outbound_, inbound_,
                 received, parked, crashes>>

\* Mutant of Unsent: output_offset_ is not advanced over what was sent.
UnsentAll(output, k) == output

\* The output that is left when k frames of it are sent.
Unsent(output, k) == SubSeq(output, k + 1, Len(output))

\* handleEvent on a connection this node dialed: it failed or the peer closed
\* it; or it is established, and what fits is sent.
handleWrite(n, c) ==
  /\ At(n, "poll")
  /\ tcp[c].from = n /\ tcp[c].near # "closed"
  /\ \/ /\ tcp[c].far = "closed"
        /\ Become(n, closeNear(Links(n), c))
     \/ /\ tcp[c].far # "closed"
        /\ tcp[c].near = "connecting" \/ (tcp[c].output # <<>> /\ Len(tcp[c].wire) < Room)
        /\ LET room == Room - Len(tcp[c].wire)
               k == IF Len(tcp[c].output) < room THEN Len(tcp[c].output) ELSE room
           IN  tcp' = [tcp EXCEPT ![c].near = "open",
                                  ![c].wire = @ \o SubSeq(tcp[c].output, 1, k),
                                  ![c].output = Unsent(@, k)]
        /\ UNCHANGED <<outbound_connections_, pending_frames_, parked>>
  /\ UNCHANGED <<pc, endpoints_, delayed_frames_, raftVars, alive, pending_updates_,
                 outbound_, inbound_, received, crashes>>

\* handleEvent on an accepted connection, one frame of processInput: a source
\* that is not a peer, one that differs from the first frame's, or a full
\* queue closes the connection.
handleRead(n, c) ==
  /\ At(n, "poll")
  /\ tcp[c].to = n /\ tcp[c].far = "open" /\ tcp[c].wire # <<>>
  /\ LET m == Head(tcp[c].wire)
         accepted == /\ m.from \in endpoints_[n]
                     /\ tcp[c].peer_id \in {None, m.from}
                     /\ Len(inbound_[n]) < QueueCapacity
     IN  \/ /\ accepted
            /\ inbound_' = [inbound_ EXCEPT ![n] = Append(@, m)]
            /\ received' = [received EXCEPT ![n] = Append(@, m)]
            /\ tcp' = [tcp EXCEPT ![c].wire = Tail(@), ![c].peer_id = m.from]
         \/ /\ ~accepted
            /\ tcp' = closeFar(c)
            /\ UNCHANGED <<inbound_, received>>
  /\ UNCHANGED <<threadVars, raftVars, alive, pending_updates_, outbound_, parked, crashes>>

\* handleEvent sees that the peer closed; frames not read yet are lost.
handleHangUp(n, c) ==
  /\ At(n, "poll")
  /\ tcp[c].to = n /\ tcp[c].far = "open" /\ tcp[c].near = "closed"
  /\ tcp' = closeFar(c)
  /\ UNCHANGED <<threadVars, raftVars, alive, pending_updates_, outbound_, inbound_,
                 received, parked, crashes>>

\* The events of a batch are handled, or epoll_wait timed out.
around(n) ==
  /\ At(n, "poll")
  /\ Goto(n, "update")
  /\ UNCHANGED <<endpoints_, pending_frames_, delayed_frames_, outbound_connections_,
                 raftVars, alive, pending_updates_, outbound_, inbound_, tcp,
                 received, parked, crashes>>

-----------------------------------------------------------------------------
(* Processes *)

\* A process ends: the kernel closes its ends of every connection.
crash(n) ==
  /\ alive[n] /\ crashes < MaxCrashes
  /\ alive' = [alive EXCEPT ![n] = FALSE]
  /\ crashes' = crashes + 1
  /\ tcp' = [c \in Fd |->
       Release([tcp[c] EXCEPT
         !.near = IF tcp[c].from = n THEN "closed" ELSE @,
         !.output = IF tcp[c].from = n THEN <<>> ELSE @,
         !.far = IF tcp[c].to = n THEN "closed" ELSE @,
         !.wire = IF tcp[c].to = n THEN <<>> ELSE @])]
  /\ outbound_connections_' = [outbound_connections_ EXCEPT ![n] = [p \in Node |-> None]]
  /\ pending_frames_' = [pending_frames_ EXCEPT ![n] = [p \in Node |-> <<>>]]
  /\ delayed_frames_' = [delayed_frames_ EXCEPT ![n] = <<>>]
  /\ pending_updates_' = [pending_updates_ EXCEPT ![n] = <<>>]
  /\ outbound_' = [outbound_ EXCEPT ![n] = <<>>]
  /\ inbound_' = [inbound_ EXCEPT ![n] = <<>>]
  /\ Goto(n, "update")
  /\ UNCHANGED <<endpoints_, raftVars, received, parked>>

\* It starts again with the peers its configuration gives it.
restart(n) ==
  /\ ~alive[n]
  /\ alive' = [alive EXCEPT ![n] = TRUE]
  /\ endpoints_' = [endpoints_ EXCEPT ![n] = transport_peers_[n]]
  /\ UNCHANGED <<pc, pending_frames_, delayed_frames_, outbound_connections_, raftVars,
                 pending_updates_, outbound_, inbound_, tcp, received, parked, crashes>>

-----------------------------------------------------------------------------

Loop(n) ==
  \/ applyPeerUpdates(n) \/ releaseDelayedFrames(n) \/ drainOutbound(n)
  \/ connectMissingPeers(n) \/ around(n)

Handle(n) ==
  acceptConnections(n) \/ \E c \in Fd : handleWrite(n, c) \/ handleRead(n, c) \/ handleHangUp(n, c)

Next ==
  \E n \in Node :
    \/ Loop(n) \/ Handle(n) \/ receiveRpc(n) \/ crash(n) \/ restart(n)
    \/ \E p \in Node : sendRpc(n, p) \/ syncPeerTransport(n, p)

Spec == Init /\ [][Next]_vars

-----------------------------------------------------------------------------
(* Properties *)

Message == [from : Node, to : Node, id : 1..MaxMessages]

Network == INSTANCE PeerNetwork WITH Id <- 1..MaxMessages

\* The transport is the network the consensus models assume: a node is handed
\* only messages that were sent to it, whatever descriptors were reused,
\* connections cut and peers added or removed (peer_transport.cpp:180-289, 318-467).
ImplementsNetwork == Network!Spec

\* Without the duplicate fault nothing is handed over twice: a connection that is
\* cut in the middle of a write is not followed by a repetition
\* (peer_transport.cpp:270-289, 408-417; connection.cpp:88-119).
DeliveredAtMostOnce == \A n \in Node : IsInjective(received[n])

\* A frame that met no connection is stale by the time there is one and is never
\* sent (peer_transport.cpp:270-280, 340; the fix noted in development_log.md:579).
ParkedIsNeverSent ==
  /\ \A c \in Fd : parked \cap Range(tcp[c].output \o tcp[c].wire) = {}
  /\ \A n \in Node : parked \cap Range(received[n]) = {}

Established(n, p) ==
  \E c \in Fd : /\ tcp[c].from = n /\ tcp[c].to = p
                /\ tcp[c].near = "open" /\ tcp[c].far = "open"
=============================================================================
