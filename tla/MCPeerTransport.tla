--------------------------- MODULE MCPeerTransport ---------------------------
(***************************************************************************)
(* An instance of PeerTransport for TLC.  The initial state chooses between *)
(* a pair of nodes that know each other, with three bounds on what happens, *)
(* and three nodes where the first gets to know the third and sends to the  *)
(* second, which dies, so that a descriptor is reused between peers.        *)
(***************************************************************************)
EXTENDS PeerTransport, TLC

CONSTANTS n1, n2, n3

Acquainted == (n1 :> {n2}) @@ (n2 :> {n1}) @@ (n3 :> {n1})

\* Bounds of a behaviour: messages, changes of the peers, processes that end.
Bounds == {[pair |-> TRUE, messages |-> 2, updates |-> 0, crashes |-> 0],
           [pair |-> TRUE, messages |-> 1, updates |-> 1, crashes |-> 0],
           [pair |-> TRUE, messages |-> 1, updates |-> 0, crashes |-> 1],
           [pair |-> FALSE, messages |-> 1, updates |-> 1, crashes |-> 1]}

VARIABLE bounds  \* those of this behaviour; never changes

WithinBounds ==
  /\ Cardinality(sent') <= bounds.messages
  /\ updates' <= bounds.updates /\ crashes' <= bounds.crashes
  /\ bounds.pair \/ delayed_frames_' = delayed_frames_

\* A step of the pair; n3 stands still.
PairNext ==
  \E n \in {n1, n2} :
    \/ Loop(n) \/ Handle(n) \/ receiveRpc(n) \/ crash(n) \/ restart(n)
    \/ \E p \in {n1, n2} : sendRpc(n, p) \/ syncPeerTransport(n, p)

\* A step of the three.
TrioNext ==
  \/ \E n \in Node : Loop(n) \/ Handle(n) \/ receiveRpc(n)
  \/ sendRpc(n1, n2) \/ syncPeerTransport(n1, n3) \/ crash(n2)

BoundedNext == ((bounds.pair /\ PairNext) \/ (~bounds.pair /\ TrioNext)) /\ WithinBounds

\* The thread of a running node keeps going round, each time handling what
\* epoll reports, its Raft thread keeps emptying the queue, and a node that
\* ended is started again.
PairFairness ==
  \A n \in {n1, n2} :
    /\ WF_vars(bounds.pair /\ Loop(n)) /\ SF_vars(bounds.pair /\ Handle(n))
    /\ WF_vars(bounds.pair /\ receiveRpc(n)) /\ WF_vars(bounds.pair /\ restart(n))

BoundedInit == Init /\ bounds \in Bounds

BoundedSpec ==
  BoundedInit /\ [][BoundedNext /\ UNCHANGED bounds]_<<vars, bounds>> /\ PairFairness

\* When processes stop crashing and peers stop changing, the two end up, for good,
\* with established connections to the peers they know: no close, refusal or
\* restart leaves a peer cut off (peer_transport.cpp:318-350, 374-395, 452-467).
PeersEndUpConnected ==
  bounds.pair =>
    <>[](\A n \in {n1, n2} : \A p \in endpoints_[n] : Established(n, p))

=============================================================================
