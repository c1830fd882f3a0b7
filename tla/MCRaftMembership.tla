-------------------------- MODULE MCRaftMembership --------------------------
(* RaftMembership for TLC: node 4 is to join the nodes 1 to 3, node 3 is to  *)
(* leave, and nodes 1 and 2 stand for election.                              *)
EXTENDS RaftMembership

Two == 1..2
Three == 1..3
Four == 1..4

Add(i, n) == [id |-> i, type |-> "add", node |-> n]
Remove(i, n) == [id |-> i, type |-> "remove", node |-> n]

AddAndRemove == {Add(1, 4), Remove(2, 3)}

\* With a restart the second change does not reach its last entry.
WithinBounds == restarts' > 0 => \A n \in Node : Len(node'[n].log) < MaxLog

BoundedSpec == Init /\ [][Next /\ WithinBounds]_vars

=============================================================================
