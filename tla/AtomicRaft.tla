----------------------------- MODULE AtomicRaft -----------------------------
(***************************************************************************)
(* RaftNode as its host, the node service, sees it: a coarser grain than    *)
(* module RaftNode, in which an election and an exchange of AppendEntries   *)
(* with its answer are one step each.  What the messages in between can do  *)
(* to the protocol is checked there; here the log, the commit index and the *)
(* leadership of every node evolve as they do in that module, so that       *)
(* requests of clients can be followed through changes of leader.           *)
(* The operators give the new values; NodeService combines them with what   *)
(* the service does in the same step.                                       *)
(***************************************************************************)
EXTENDS Integers, Sequences, FiniteSets, FiniteSetsExt, TLC

CONSTANT Node  \* the voters

ASSUME NodeAssumption == IsFiniteSet(Node)

VARIABLES role, currentTerm, log, commitIndex, matchIndex

raftVars == <<role, currentTerm, log, commitIndex, matchIndex>>

Majority(S) == 2 * Cardinality(S) > Cardinality(Node)

termAt(lg, i) == IF i = 0 THEN 0 ELSE lg[i].term

\* LeaderElection::isLogUpToDate.
UpToDate(mine, yours) ==
  LET t == termAt(mine, Len(mine))
      u == termAt(yours, Len(yours))
  IN t > u \/ (t = u /\ Len(mine) >= Len(yours))

\* match_index_ where it means anything: at a leader.
NoMatches == [m \in Node |-> 0]

RaftInit ==
  /\ role = [n \in Node |-> "follower"]
  /\ currentTerm = [n \in Node |-> 0]
  /\ log = [n \in Node |-> <<>>]
  /\ commitIndex = [n \in Node |-> 0]
  /\ matchIndex = [n \in Node |-> NoMatches]

\* n times out, stands in a term, is granted the votes of Q and becomes leader:
\* startElection, handleRequestVote at Q, becomeLeader with its no-op.  Q is just
\* enough; the other nodes hear of the term later.
Elected(n, term, Q) ==
  /\ role[n] # "leader"
  /\ n \in Q /\ Majority(Q) /\ \A m \in Q \ {n} : ~Majority(Q \ {m})
  /\ \A m \in Q : currentTerm[m] < term /\ UpToDate(log[n], log[m])
  /\ role' = [m \in Node |-> IF m = n THEN "leader"
                             ELSE IF m \in Q THEN "follower" ELSE role[m]]
  /\ currentTerm' = [m \in Node |-> IF m \in Q THEN term ELSE currentTerm[m]]
  /\ log' = [log EXCEPT ![n] = Append(@, [type |-> "noOp", term |-> term])]
  /\ matchIndex' = [m \in Node |-> IF m \in Q THEN NoMatches ELSE matchIndex[m]]
  /\ UNCHANGED commitIndex

\* RaftNode::propose at a leader.
Proposed(n, entry) ==
  /\ log' = [log EXCEPT ![n] = Append(@, entry @@ [term |-> currentTerm[n]])]
  /\ UNCHANGED <<role, currentTerm, commitIndex, matchIndex>>

\* The follower's log after a batch that reaches the end of the leader's.
Merged(mine, leaders) ==
  IF Len(leaders) <= Len(mine) /\ SubSeq(mine, 1, Len(leaders)) = leaders
  THEN mine ELSE leaders

\* advanceCommitIndex: the highest entry of the current term a majority holds.
Committed(n, match) ==
  Max({commitIndex[n]} \cup
      {i \in (commitIndex[n] + 1)..Len(log[n]) :
         /\ log[n][i].term = currentTerm[n]
         /\ Majority({n} \cup {m \in Node : match[m] >= i})})

\* Leader n sends its log to m, which is not in a later term; the answer reaches
\* n or is lost.
Replicated(n, m, answered) ==
  LET match == IF answered THEN [matchIndex[n] EXCEPT ![m] = Len(log[n])]
                           ELSE matchIndex[n]
  IN /\ role[n] = "leader" /\ m # n
     /\ currentTerm[m] <= currentTerm[n]
     /\ role' = [role EXCEPT ![m] = "follower"]
     /\ currentTerm' = [currentTerm EXCEPT ![m] = currentTerm[n]]
     /\ log' = [log EXCEPT ![m] = Merged(@, log[n])]
     /\ matchIndex' = [matchIndex EXCEPT ![n] = match, ![m] = NoMatches]
     /\ commitIndex' = [commitIndex EXCEPT
          ![m] = Max({@, commitIndex[n]}), ![n] = Committed(n, match)]

\* Leader n hears a later term from m: becomeFollower.
SteppedDown(n, m) ==
  /\ role[n] = "leader" /\ currentTerm[m] > currentTerm[n]
  /\ currentTerm' = [currentTerm EXCEPT ![n] = currentTerm[m]]
  /\ role' = [role EXCEPT ![n] = "follower"]
  /\ matchIndex' = [matchIndex EXCEPT ![n] = NoMatches]
  /\ UNCHANGED <<log, commitIndex>>

\* The process dies and loads its journal: term, log and commit index survive.
Reloaded(n) ==
  /\ role' = [role EXCEPT ![n] = "follower"]
  /\ matchIndex' = [matchIndex EXCEPT ![n] = NoMatches]
  /\ UNCHANGED <<currentTerm, log, commitIndex>>

=============================================================================
