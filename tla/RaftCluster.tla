----------------------------- MODULE RaftCluster -----------------------------
(***************************************************************************)
(* What the cluster of RaftNode promises as a whole: it implements the      *)
(* replicated log of ReplicatedLog.                                         *)
(***************************************************************************)
EXTENDS RaftState

\* The longest committed prefix any node knows.
chosen ==
  LET s == CHOOSE s \in Server : \A t \in Server : commitIndex[t] <= commitIndex[s]
  IN  SubSeq(log[s], 1, commitIndex[s])

Abstract == INSTANCE ReplicatedLog WITH known <- commitIndex

\* The nodes implement one replicated log: there is a single committed sequence,
\* it only grows, and no node's knowledge of it is taken back, by whichever
\* sequence of leaders and restarts it is reached.
ImplementsReplicatedLog == Abstract!Spec

=============================================================================
