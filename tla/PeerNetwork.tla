----------------------------- MODULE PeerNetwork -----------------------------
(***************************************************************************)
(* What the Raft thread may assume of the transport between nodes, and no  *)
(* more: what a node receives was sent to it, by the node it is said to    *)
(* come from.  Messages may be lost, repeated, delayed and reordered.      *)
(* This is the network that RaftNode and RaftSnapshot are checked over.    *)
(***************************************************************************)
EXTENDS Sequences

CONSTANTS
  Node,
  Id     \* what tells one message from another

VARIABLES
  sent,     \* every message handed to the transport, [from, to, id]
  received  \* for each node, the messages handed to its Raft thread, in order

Init == sent = {} /\ received = [n \in Node |-> <<>>]

\* A node sends a message nobody has sent before.
Send(n, p, i) ==
  /\ n # p
  /\ \A m \in sent : m.id # i
  /\ sent' = sent \cup {[from |-> n, to |-> p, id |-> i]}
  /\ UNCHANGED received

\* A message that was sent, at any time, arrives where it was sent to.
Deliver(m) ==
  /\ received' = [received EXCEPT ![m.to] = Append(@, m)]
  /\ UNCHANGED sent

Next ==
  \/ \E n, p \in Node, i \in Id : Send(n, p, i)
  \/ \E m \in sent : Deliver(m)

Spec == Init /\ [][Next]_<<sent, received>>
=============================================================================
