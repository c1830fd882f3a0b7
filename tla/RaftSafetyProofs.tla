-------------------------- MODULE RaftSafetyProofs --------------------------
(***************************************************************************)
(* The safety of RaftNode, and that it implements ReplicatedLog, for every *)
(* set of servers and every bound: RaftNodeProofs and RaftStepProofs give  *)
(* the types, the votes and the shape of a step, RaftProgressProofs and    *)
(* RaftCommitProofs show that the invariant survives it.                   *)
(***************************************************************************)
EXTENDS RaftNodeProofs, RaftStepProofs, RaftProgressProofs, RaftCommitProofs, FiniteSetTheorems

-----------------------------------------------------------------------------
(* Naturals and finite sets *)

\* A non-empty set of naturals has a least element.
LEMMA LeastElement ==
  ASSUME NEW S \in SUBSET Nat, S # {}
  PROVE  \E m \in S : \A k \in S : m <= k
<1>. DEFINE T == {1..x : x \in S}
            R == StrictSubsetOrdering(Nat)
<1>1. \A x \in Nat : 1..x \in FiniteSubsetsOf(Nat)
  <2>. TAKE x \in Nat
  <2>1. IsFiniteSet(1..x)
    BY ONLY FS_Interval
  <2>. QED
    BY ONLY <2>1 DEF FiniteSubsetsOf
<1>2. T \subseteq FiniteSubsetsOf(Nat) /\ T # {}
  BY Zenon, <1>1
<1>3. PICK t \in T : \A u \in T : ~(<<u, t>> \in R)
  <2>. HIDE DEF R, T
  <2>1. IsWellFoundedOn(R, FiniteSubsetsOf(Nat))
    BY Zenon, FS_StrictSubsetOrderingWellFounded DEF R
  <2>. QED
    BY Zenon, <2>1, <1>2, WFMin
<1>4. PICK x \in S : t = 1..x
  BY Zenon, <1>3
<1>5. ASSUME NEW y \in S, y < x
      PROVE  FALSE
  <2>1. 1..y \in T /\ x \in Nat /\ y \in Nat
    BY Zenon
  <2>2. <<1..y, t>> \in (SUBSET Nat) \X (SUBSET Nat)
    BY ONLY <2>1, <1>4
  <2>3. 1..y \subseteq t /\ 1..y # t
    <3>1. x \in t /\ x \notin 1..y
      BY ONLY SMTT(30), <1>4, <1>5, <2>1
    <3>2. 1..y \subseteq 1..x
      BY ONLY SMTT(30), <1>5, <2>1
    <3>. QED
      BY Zenon, <3>1, <3>2, <1>4
  <2>4. <<1..y, t>> \in R
    BY Zenon, <2>2, <2>3 DEF StrictSubsetOrdering
  <2>. QED
    BY Zenon, <2>1, <2>4, <1>3
<1>6. \A y \in S : x <= y
  BY ONLY <1>5
<1>. QED
  BY Zenon, <1>6

\* Two quorums of the voter set share a voter.
LEMMA MajoritiesMeet ==
  ASSUME NEW P \in SUBSET Server, NEW Q \in SUBSET Server,
         hasQuorum(Cardinality(P), Cardinality(Server)),
         hasQuorum(Cardinality(Q), Cardinality(Server))
  PROVE  P \cap Q # {}
<1>1. Cardinality(Server) \in Nat
  BY Zenon, ServerAssumption, FS_CardinalityType
<1>2. /\ IsFiniteSet(P) /\ Cardinality(P) \in Nat
      /\ IsFiniteSet(Q) /\ Cardinality(Q) \in Nat
  BY Zenon, ServerAssumption, FS_Subset, FS_CardinalityType
<1>3. Cardinality(P) + Cardinality(Q) > Cardinality(Server)
  BY SMTT(30), <1>1, <1>2 DEF hasQuorum, quorumSize
<1>. QED
  BY Zenon, <1>3, ServerAssumption, FS_MajoritiesIntersect

\* A function to the naturals has a greatest value on a finite set.
LEMMA GreatestValue ==
  ASSUME NEW S, IsFiniteSet(S), S # {}, NEW f \in [S -> Nat]
  PROVE  \E x \in S : \A y \in S : f[y] <= f[x]
<1>. DEFINE Above(x) == {y \in S : f[y] > f[x]}
            T == {Above(x) : x \in S}
            R == StrictSubsetOrdering(S)
<1>1. T \subseteq FiniteSubsetsOf(S) /\ T # {}
  <2>1. T \subseteq SUBSET S /\ T # {}
    <3>1. \A x \in S : Above(x) \in SUBSET S /\ Above(x) \in T
      OBVIOUS
    <3>. HIDE DEF Above
    <3>. QED
      BY Zenon, <3>1
  <2>2. FiniteSubsetsOf(S) = SUBSET S
    BY Zenon, FS_FiniteSubsetsOfFinite
  <2>. QED
    BY Zenon, <2>1, <2>2
<1>2. PICK t \in T : \A u \in T : ~(<<u, t>> \in R)
  <2>. HIDE DEF R, T
  <2>1. IsWellFoundedOn(R, FiniteSubsetsOf(S))
    BY Zenon, FS_StrictSubsetOrderingWellFounded DEF R
  <2>. QED
    BY Zenon, <1>1, <2>1, WFMin
<1>3. PICK x \in S : t = Above(x)
  BY Zenon, <1>2
<1>4. ASSUME NEW y \in S, f[y] > f[x] PROVE FALSE
  <2>1. y \in Above(x) /\ y \notin Above(y)
    BY ONLY <1>4
  <2>2. Above(y) \subseteq Above(x)
    BY ONLY SMTT(30), <1>4
  <2>3. <<Above(y), Above(x)>> \in (SUBSET S) \X (SUBSET S) /\ Above(y) \in T
    BY Zenon
  <2>4. <<Above(y), t>> \in R
    BY Zenon, <1>3, <2>1, <2>2, <2>3 DEF StrictSubsetOrdering
  <2>. QED
    BY ONLY SMTT(30), <1>2, <2>3, <2>4
<1>. QED
  BY ONLY <1>4

\* The facts that the other modules' lemmas assume.
LEMMA CountingHolds == Counting
<1>1. \A S \in SUBSET Nat : S # {} => \E m \in S : \A k \in S : m <= k
  BY Zenon, LeastElement
<1>2. \A s \in Server : Cardinality({s}) = 1
  BY Zenon, FS_Singleton
<1>3. \A P, Q \in SUBSET Server :
        hasQuorum(Cardinality(P), Cardinality(Server)) /\
        hasQuorum(Cardinality(Q), Cardinality(Server)) => P \cap Q # {}
  BY Zenon, MajoritiesMeet
<1>4. \A f \in [Server -> Nat] : \E s \in Server : \A t \in Server : f[t] <= f[s]
  BY Zenon, ServerAssumption, GreatestValue
<1>. QED
  BY Zenon, <1>1, <1>2, <1>3, <1>4 DEF Counting

-----------------------------------------------------------------------------
(* Types, durability and votes *)

\* The type invariant of the node's state, its disk and its messages holds for
\* every cluster.
THEOREM TypeCorrect == Spec => []TypeOK
<1>1. TypeInv => TypeOK
  BY Zenon DEF TypeInv
<1>2. TypeInv /\ [Next]_vars => TypeInv'
  BY Zenon, CountingHolds, TypeStep
<1>. QED
  BY TypeInit, <1>1, <1>2, PTL DEF Spec

\* Whatever a node answered from is what it loads after a crash.
THEOREM DurabilityCorrect == Spec => []DurableBeforeReply
<1>1. Init => DurableBeforeReply
  BY Zenon DEF Init, DurableBeforeReply
<1>2. TypeInv /\ [Next]_vars => TypeInv'
  BY CountingHolds, TypeStep
<1>. QED
  BY <1>1, <1>2, TypeInit, DurableStep, PTL DEF Spec

\* The votes, their history and the types are kept by every step.
LEMMA VotesKept == VoteInv /\ [Next]_vars => VoteInv'
<1>. SUFFICES ASSUME VoteInv, [Next]_vars PROVE VoteInv'
  BY Zenon
<1>1. TypeInv /\ DurableBeforeReply
  BY Zenon DEF VoteInv
<1>2. TypeInv'
  BY Zenon, <1>1, CountingHolds, TypeStep
<1>3. DurableBeforeReply'
  BY Zenon, <1>1, DurableStep
<1>. QED
  BY Zenon, <1>2, <1>3, CountingHolds, VoteStep

\* They hold before any election.
LEMMA VotesInitially == Init => VoteInv
  BY Zenon, TypeInit, VoteInit

\* handleRequestVote and startElection, with persistOrThrow before any answer
\* and restarts from what was persisted: a node votes once in a term.
THEOREM OneVotePerTermCorrect == Spec => []OneVotePerTerm
<1>1. VoteInv => OneVotePerTerm
  BY Zenon DEF VoteInv
<1>. QED
  BY VotesInitially, VotesKept, <1>1, PTL DEF Spec

\* startElection, handleRequestVoteResponse and becomeLeader: for any number of
\* servers, terms, restarts and lost, repeated or delayed messages, no term has
\* two leaders.
THEOREM ElectionSafetyCorrect == Spec => []ElectionSafety
<1>1. VoteInv => ElectionSafety
  BY Zenon, CountingHolds, VoteInvElectionSafety
<1>. QED
  BY VotesInitially, VotesKept, <1>1, PTL DEF Spec

-----------------------------------------------------------------------------
(* The whole invariant *)

\* The initial state satisfies it.
LEMMA CommittingInit == Init => Committing
<1>. SUFFICES ASSUME Init PROVE Committing
  BY Zenon
<1>. DEFINE L == [t \in Nat |-> <<>>]
            K == [t \in Nat |-> [p \in Server |-> 0]]
<1>1. VoteInv /\ GhostInv(L, K) /\ CommitInv(L, K)
  BY Zenon, VotesInitially, GhostInit, CommitInitially
<1>2. L \in TermLogs /\ K \in Stores
  BY Zenon, SeqEmpty DEF TermLogs, Stores
<1>. HIDE DEF L, K
<1>. QED
  BY Zenon, <1>1, <1>2 DEF Committing

\* Every step is a move that keeps it.
LEMMA CommittingStep ==
  ASSUME Committing, [Next]_vars
  PROVE  Committing' /\ CommittingMove /\ VoteMoves /\ CommitMoves
<1>1. VoteInv /\ VoteInv' /\ VoteMoves /\ CommitMoves
  <2>1. VoteInv /\ TypeInv /\ DurableBeforeReply
    BY Zenon DEF Committing, VoteInv
  <2>. QED
    BY Zenon, <2>1, VotesKept, ChoiceMoves
<1>2. StepFacts /\ StepKind
  BY Zenon, CountingHolds, <1>1, StepShape
<1>3. PICK L \in TermLogs, K \in Stores : GhostInv(L, K) /\ CommitInv(L, K)
  BY Zenon DEF Committing
<1>4. PICK L2 \in TermLogs, K2 \in Stores :
        GhostKind(L, L2, K, K2) /\ GhostMoves(L, L2, K, K2) /\ GhostInv(L2, K2)'
  BY Zenon, CountingHolds, <1>1, <1>2, <1>3, GhostKept
<1>5. Move(L, L2, K, K2)
  BY Zenon, <1>1, <1>2, <1>3, <1>4 DEF Move
<1>6. CommitInv(L2, K2)'
  BY Zenon, CountingHolds, <1>1, <1>3, <1>5, CommitKept
<1>7. CommittingMove
  BY Zenon, <1>3, <1>5, <1>6 DEF CommittingMove
<1>8. Committing'
  BY Zenon, <1>1, <1>4, <1>6 DEF Committing
<1>. QED
  BY Zenon, <1>1, <1>7, <1>8

\* Hence it always holds.
LEMMA AlwaysCommitting == Spec => []Committing
<1>1. Committing /\ [Next]_vars => Committing'
  BY Zenon, CommittingStep
<1>. QED
  BY CommittingInit, <1>1, PTL DEF Spec

\* It contains the invariant on logs and progress.
LEMMA CommittingTracked == Committing => Tracked
  BY Zenon DEF Committing, Tracked

-----------------------------------------------------------------------------
(* Safety *)

\* becomeLeader, propose, makeAppendEntries and appendFrom: for any number of
\* servers, terms and entries, any batch size and any loss, repetition or
\* reordering of messages, logs with the same term at an index are the same up
\* to it.
THEOREM LogMatchingCorrect == Spec => []LogMatching
  BY AlwaysCommitting, CommittingTracked, TrackedLogs, PTL

\* becomeFollower and handleAppendEntries: the leader a node redirects its
\* clients to has won the node's current term.
THEOREM LeaderHintCorrect == Spec => []LeaderHintSound
<1>1. Tracked => LeaderHintSound
  BY Zenon DEF Tracked, GhostInv, MatchInv
<1>. QED
  BY AlwaysCommitting, CommittingTracked, <1>1, PTL

\* handleAppendEntriesResponse and nextIndexAfterConflict: whatever responses
\* were lost, repeated, delayed or overtaken, a leader counts an entry for a
\* peer of its term only when the peer holds it.
THEOREM ProgressCorrect == Spec => []ProgressSound
  BY AlwaysCommitting, CommittingTracked, TrackedProgress, PTL

\* advanceCommitIndex, followerCommit and isCandidateLogUpToDate: in any
\* cluster, whatever is lost, repeated or reordered and whoever restarts, no two
\* nodes ever apply different commands at an index.
THEOREM StateMachineSafetyCorrect == Spec => []StateMachineSafety
  BY AlwaysCommitting, CommittingSafe, PTL

\* becomeLeader: whoever wins a term holds everything that any node of the term
\* or an earlier one has committed, however its log diverged before.
THEOREM LeaderCompletenessCorrect == Spec => []LeaderCompleteness
  BY AlwaysCommitting, CommittingComplete, PTL

\* isCandidateLogUpToDate with advanceCommitIndex: no quorum of logs would ever
\* elect a node that lacks a committed entry, in any cluster.
THEOREM ElectableCorrect == Spec => []ElectableHoldCommitted
<1>1. Committing => ElectableHoldCommitted
  BY Zenon, CountingHolds, CommittingElectable
<1>. QED
  BY AlwaysCommitting, <1>1, PTL

\* The constructor's checks: a node accepts whatever it persisted, in every
\* reachable state of any cluster.
THEOREM RestartCorrect == Spec => []RestartNeverRefused
  BY AlwaysCommitting, CommittingLoads, PTL

\* persistOrThrow and restart: in any cluster, no step of a node, a crash
\* included, takes back a term, a vote, a commit index or a committed entry.
THEOREM NothingLostCorrect == Spec => NothingDurableIsLost
<1>1. Committing /\ [Next]_vars => [\A s \in Server : Durable(s)]_vars
  BY Zenon, CountingHolds, CommittingStep, DurableKept
<1>2. Spec => [][\A s \in Server : Durable(s)]_vars
  BY AlwaysCommitting, <1>1, PTL DEF Spec
<1>. QED
  BY Zenon, <1>2 DEF Durable, NothingDurableIsLost

\* RaftNode, the consensus of any cluster under lost, duplicated and reordered
\* messages and crashes, implements ReplicatedLog: there is one committed
\* sequence, it only grows, and each node knows a prefix of it that only grows.
THEOREM RefinementCorrect == Spec => ImplementsReplicatedLog
<1>1. Committing => OneHistory
  BY Zenon, CountingHolds, OneHistoryHolds
<1>2. OneHistory /\ OneHistory' /\ Committing /\ [Next]_vars =>
        [\E s \in Server : Abstract!Learn(s)]_(Abstract!vars)
  BY Zenon, CountingHolds, CommittingStep, StepLearns
<1>. QED
  BY AlwaysCommitting, RefinementInit, <1>1, <1>2, PTL
     DEF Spec, ImplementsReplicatedLog, Abstract!Spec

=============================================================================
