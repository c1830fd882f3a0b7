-------------------------- MODULE RaftCommitProofs --------------------------
(***************************************************************************)
(* Every shape of a step keeps the invariant on what is committed:         *)
(* CommitInv of the term logs L and the stores K, and what follows from it *)
(* in a state.                                                             *)
(***************************************************************************)
EXTENDS RaftCluster, RaftLogProofs

-----------------------------------------------------------------------------
(* What is, or may still be, on a quorum *)

Majority(Q) == hasQuorum(Cardinality(Q), Cardinality(Server))

\* A quorum stored entry i of term t's own log in term t.
Chosen(L, K, t, i) ==
  /\ i \in 1..Len(L[t]) /\ L[t][i].term = t
  /\ \E Q \in SUBSET Server : Majority(Q) /\ \A p \in Q : K[t][p] >= i

\* A quorum stored it or has not gone past the term, so may still store it.
Choosable(L, K, t, i) ==
  /\ i \in 1..Len(L[t]) /\ L[t][i].term = t
  /\ \E Q \in SUBSET Server :
       Majority(Q) /\ \A p \in Q : currentTerm[p] <= t \/ K[t][p] >= i

\* The leaders of later terms hold what was choosable.
LaterHold(L, K) ==
  \A t, u, i \in Nat :
    t < u /\ L[u] # <<>> /\ Choosable(L, K, t, i) => Agree(L[t], L[u], i)

\* No node gives up what it stored of a choosable prefix.
StoredKept(L, K) ==
  \A p \in Server, t, i \in Nat :
    i <= K[t][p] /\ Choosable(L, K, t, i) => Agree(L[t], log[p], i)

\* A candidate holds what its voters stored of a choosable prefix.
VotesSound(L, K) ==
  \A c, v \in Server, t, u, i \in Nat :
    /\ role[c] = "Candidate" /\ u = currentTerm[c] /\ <<v, u, c>> \in granted
    /\ t < u /\ i <= K[t][v] /\ Choosable(L, K, t, i)
    => Agree(L[t], log[c], i)

\* Votes are cast for terms their candidate has reached.
VotesAsked ==
  \A v, c \in Server, t \in Nat : <<v, t, c>> \in granted => t <= currentTerm[c]

\* A request for a vote describes the log of its candidate for as long as the
\* candidate stands.
RequestsReflect ==
  \A r \in requestVotes :
    /\ r.term >= 1 /\ r.term <= currentTerm[r.src]
    /\ role[r.src] = "Candidate" /\ r.term = currentTerm[r.src] =>
         r.lastLogIndex = lastIndex(log[r.src]) /\ r.lastLogTerm = lastTerm(log[r.src])

\* The first c entries of a log are part of what was chosen by term b.
Backed(L, K, lg, c, b) ==
  c = 0 \/ \E t, j \in Nat :
             t <= b /\ c <= j /\ Chosen(L, K, t, j) /\ Agree(lg, L[t], c)

NodesBacked(L, K) ==
  \A s \in Server : Backed(L, K, log[s], commitIndex[s], currentTerm[s])

RequestsBacked(L, K) ==
  \A m \in appendRequests : Backed(L, K, L[m.term], m.leaderCommit, m.term)

\* A node in term 0 has not voted.
NoVoteInZero == \A s \in Server : currentTerm[s] = 0 => votedFor[s] = None

CommitInv(L, K) ==
  /\ LaterHold(L, K) /\ StoredKept(L, K) /\ VotesSound(L, K)
  /\ VotesAsked /\ RequestsReflect /\ NoVoteInZero
  /\ NodesBacked(L, K) /\ RequestsBacked(L, K)

\* Everything known of a step and of the move of L and K that goes with it.
Move(L, L2, K, K2) ==
  /\ L \in TermLogs /\ L2 \in TermLogs /\ K \in Stores /\ K2 \in Stores
  /\ VoteInv /\ VoteInv' /\ StepFacts
  /\ GhostInv(L, K) /\ GhostInv(L2, K2)'
  /\ GhostKind(L, L2, K, K2) /\ GhostMoves(L, L2, K, K2)

-----------------------------------------------------------------------------
(* The whole invariant *)

Committing ==
  VoteInv /\ \E L \in TermLogs, K \in Stores : GhostInv(L, K) /\ CommitInv(L, K)

-----------------------------------------------------------------------------
(* What is, or may still be, on a quorum *)

\* The types in a move.
LEMMA MoveTypes ==
  ASSUME NEW L, NEW L2, NEW K, NEW K2, Move(L, L2, K, K2), NEW t \in Nat, NEW p \in Server
  PROVE  /\ L[t] \in Seq(Entry) /\ Len(L[t]) \in Nat
         /\ L2[t] \in Seq(Entry) /\ Len(L2[t]) \in Nat /\ StartsWith(L2[t], L[t])
         /\ K[t][p] \in Nat /\ K2[t][p] \in Nat /\ K[t][p] <= K2[t][p]
         /\ currentTerm[p] \in Nat /\ currentTerm'[p] \in Nat
         /\ currentTerm[p] <= currentTerm'[p]
         /\ log[p] \in Seq(Entry) /\ Len(log[p]) \in Nat
         /\ log'[p] \in Seq(Entry) /\ Len(log'[p]) \in Nat
<1>1. L \in TermLogs /\ L2 \in TermLogs /\ K \in Stores /\ K2 \in Stores /\ TypeOK /\ TypeOK'
  BY DEF Move, VoteInv, TypeInv
<1>2. L[t] \in Seq(Entry) /\ L2[t] \in Seq(Entry)
  BY <1>1 DEF TermLogs
<1>3. log[p] \in Seq(Entry) /\ log'[p] \in Seq(Entry)
  BY <1>1 DEF TypeOK
<1>4. currentTerm[p] \in Nat /\ currentTerm'[p] \in Nat /\ currentTerm[p] <= currentTerm'[p]
  BY <1>1 DEF TypeOK, Move, StepFacts
<1>5. K[t][p] \in Nat /\ K2[t][p] \in Nat /\ K[t][p] <= K2[t][p]
  BY <1>1, StoresGrow DEF Move
<1>6. StartsWith(L2[t], L[t])
  BY DEF Move, GhostMoves, Extends
<1>7. Len(L[t]) \in Nat /\ Len(L2[t]) \in Nat /\ Len(log[p]) \in Nat /\ Len(log'[p]) \in Nat
  BY <1>2, <1>3, SeqLen
<1>. QED
  BY <1>2, <1>3, <1>4, <1>5, <1>6, <1>7

\* What a node stored changes in its own term only.
LEMMA StoredInTerm ==
  ASSUME NEW L, NEW L2, NEW K, NEW K2, Move(L, L2, K, K2), NEW t \in Nat, NEW p \in Server,
         K2[t][p] # K[t][p]
  PROVE  t = currentTerm'[p]
<1>. NodeMoves(L2, K, K2, p)
  BY DEF Move, GhostMoves
<1>. QED
  BY DEF NodeMoves

\* A log that agrees with a term's log agrees with it when it has grown.
LEMMA AgreeGrows ==
  ASSUME NEW L, NEW L2, NEW K, NEW K2, Move(L, L2, K, K2), NEW t \in Nat, NEW n \in Nat,
         NEW lg
  PROVE  /\ Agree(lg, L[t], n) => Agree(lg, L2[t], n)
         /\ Agree(L[t], lg, n) => Agree(L2[t], lg, n)
<1>. /\ Len(L[t]) \in Nat /\ Len(L2[t]) \in Nat /\ StartsWith(L2[t], L[t])
  BY MoveTypes, ServerAssumption
<1>. Len(L[t]) <= Len(L2[t]) /\ \A k \in 1..Len(L[t]) : L[t][k] = L2[t][k]
  BY DEF StartsWith, Agree
<1>. QED
  BY DEF Agree

\* What is chosen stays chosen.
LEMMA ChosenGrows ==
  ASSUME NEW L, NEW L2, NEW K, NEW K2, Move(L, L2, K, K2), NEW t \in Nat, NEW i \in Nat,
         Chosen(L, K, t, i)
  PROVE  Chosen(L2, K2, t, i)
<1>1. PICK Q \in SUBSET Server : Majority(Q) /\ \A p \in Q : K[t][p] >= i
  BY DEF Chosen
<1>2. ASSUME NEW p \in Q PROVE K2[t][p] >= i
  <2>. K[t][p] \in Nat /\ K2[t][p] \in Nat /\ K[t][p] <= K2[t][p]
    BY MoveTypes
  <2>. QED
    BY <1>1
<1>3. /\ Len(L[t]) \in Nat /\ Len(L2[t]) \in Nat /\ StartsWith(L2[t], L[t])
  BY MoveTypes, ServerAssumption
<1>4. i \in 1..Len(L2[t]) /\ L2[t][i].term = t
  BY <1>3 DEF Chosen, StartsWith, Agree
<1>. QED
  BY <1>1, <1>2, <1>4 DEF Chosen

\* What is chosen is choosable.
LEMMA ChosenChoosable ==
  ASSUME NEW L, NEW K, NEW t, NEW i, Chosen(L, K, t, i)
  PROVE  Choosable(L, K, t, i)
  BY DEF Chosen, Choosable

\* What is choosable after a step was so before, unless the step appended it.
LEMMA ChoosableBefore ==
  ASSUME NEW L, NEW L2, NEW K, NEW K2, Move(L, L2, K, K2), NEW t \in Nat, NEW i \in Nat,
         i <= Len(L[t]), Choosable(L2, K2, t, i)'
  PROVE  Choosable(L, K, t, i)
<1>1. PICK Q \in SUBSET Server :
        Majority(Q) /\ \A p \in Q : currentTerm'[p] <= t \/ K2[t][p] >= i
  BY DEF Choosable, Majority
<1>2. ASSUME NEW p \in Q PROVE currentTerm[p] <= t \/ K[t][p] >= i
  <2>. /\ K[t][p] \in Nat /\ K2[t][p] \in Nat
       /\ currentTerm[p] \in Nat /\ currentTerm'[p] \in Nat
       /\ currentTerm[p] <= currentTerm'[p]
    BY MoveTypes
  <2>. CASE K2[t][p] = K[t][p]
    BY <1>1
  <2>. CASE K2[t][p] # K[t][p]
    BY StoredInTerm
  <2>. QED
    OBVIOUS
<1>3. /\ Len(L[t]) \in Nat /\ Len(L2[t]) \in Nat /\ StartsWith(L2[t], L[t])
  BY MoveTypes, ServerAssumption
<1>4. i \in 1..Len(L[t]) /\ L[t][i].term = t
  BY <1>3 DEF Choosable, StartsWith, Agree
<1>. QED
  BY <1>1, <1>2, <1>4 DEF Choosable

\* Once a later term is won, some voter of its leader has stored what is still
\* choosable, and did so before the step.
LEMMA VoterStored ==
  ASSUME Counting, NEW L, NEW L2, NEW K, NEW K2, Move(L, L2, K, K2), NEW t \in Nat, NEW u \in Nat,
         t < u, NEW i \in Nat, Choosable(L2, K2, t, i)', NEW l, Elected(u, l)'
  PROVE  \E v \in Server : <<v, u, l>> \in granted' /\ i <= K[t][v]
<1>1. PICK Q \in SUBSET Server :
        Majority(Q) /\ \A p \in Q : currentTerm'[p] <= t \/ K2[t][p] >= i
  BY DEF Choosable, Majority
<1>2. PICK P \in SUBSET Server :
        Majority(P) /\ \A v \in P : <<v, u, l>> \in granted'
  BY DEF Elected, Majority
<1>3. PICK v \in P \cap Q : TRUE
  BY <1>1, <1>2, QuorumsIntersect DEF Majority
<1>4. u <= currentTerm'[v]
  <2>. <<v, u, l>> \in granted' /\ VotesRemembered'
    BY <1>2, <1>3 DEF Move, VoteInv
  <2>. QED
    BY DEF VotesRemembered
<1>5. K[t][v] \in Nat /\ K2[t][v] \in Nat /\ currentTerm'[v] \in Nat
  BY <1>3, MoveTypes
<1>6. K2[t][v] >= i
  BY <1>1, <1>3, <1>4, <1>5
<1>7. K2[t][v] = K[t][v]
  BY <1>3, <1>4, <1>5, StoredInTerm
<1>. QED
  BY Zenon, <1>2, <1>3, <1>5, <1>6, <1>7

\* Nothing a step appends is choosable once a later term is won.
LEMMA ChoosableOld ==
  ASSUME Counting, NEW L, NEW L2, NEW K, NEW K2, Move(L, L2, K, K2), NEW t \in Nat, NEW u \in Nat,
         t < u, NEW i \in Nat, Choosable(L2, K2, t, i)', L2[u] # <<>>
  PROVE  i <= Len(L[t]) /\ Choosable(L, K, t, i)
<1>1. PICK l \in Server : Elected(u, l)'
  <2>. WonOnce(L2)'
    BY DEF Move, GhostInv, MatchInv
  <2>. QED
    BY DEF WonOnce
<1>2. PICK v \in Server : i <= K[t][v]
  BY Zenon, <1>1, VoterStored
<1>3. K[t][v] <= Len(L[t])
  BY DEF Move, GhostInv, ProgressInv, StoreBounds
<1>4. i <= Len(L[t])
  <2>. K[t][v] \in Nat /\ Len(L[t]) \in Nat
    BY MoveTypes
  <2>. QED
    BY <1>2, <1>3
<1>. QED
  BY <1>4, ChoosableBefore

-----------------------------------------------------------------------------
(* Elections *)

\* isCandidateLogUpToDate: a log that is up to date with one that holds a
\* choosable prefix holds it as well.
LEMMA UpToDateHolds ==
  ASSUME NEW L \in TermLogs, NEW K, VoteInv, MatchInv(L), LaterHold(L, K),
         NEW v \in Server, NEW c \in Server,
         isCandidateLogUpToDate(lastIndex(log[c]), lastTerm(log[c]), log[v]),
         NEW t \in Nat, NEW i \in Nat, Choosable(L, K, t, i), Agree(L[t], log[v], i)
  PROVE  Agree(L[t], log[c], i)
<1>. DEFINE n == Len(log[c])
<1>1. /\ log[c] \in Seq(Entry) /\ log[v] \in Seq(Entry) /\ L[t] \in Seq(Entry)
      /\ currentTerm[c] \in Nat /\ currentTerm[v] \in Nat
  BY DEF VoteInv, TypeInv, TypeOK, TermLogs
<1>2. n \in Nat /\ Len(log[v]) \in Nat /\ Len(L[t]) \in Nat
  BY Zenon, <1>1, SeqLen
<1>3. /\ Explained(L, log[c], currentTerm[c]) /\ Explained(L, log[v], currentTerm[v])
      /\ Explained(L, L[t], t) /\ TermsExplained(L)
  BY DEF MatchInv, NodesExplained, TermsExplained
<1>4. i \in 1..Len(L[t]) /\ L[t][i].term = t /\ i \in 1..Len(log[v]) /\ log[v][i].term = t
  BY <1>2 DEF Choosable, Agree
<1>5. t \in 1..lastTerm(log[v]) /\ lastTerm(log[v]) \in Nat
  <2>. Len(log[v]) \in 1..Len(log[v]) /\ i \in 1..Len(log[v]) /\ Len(log[v]) # 0
    BY <1>2, <1>4
  <2>. /\ log[v][i].term \in 1..log[v][Len(log[v])].term
       /\ log[v][Len(log[v])].term \in 1..currentTerm[v]
    BY Zenon, <1>1, <1>3, TermsAscend
  <2>. QED
    BY <1>1, <1>4 DEF lastTerm, termAt, lastIndex
<1>6. PICK w \in Nat : w = lastTerm(log[c]) /\ n >= 1 /\ log[c][n].term = w /\ n \in 1..n
  <2>. CASE n = 0
    <3>. lastTerm(log[c]) = 0
      BY DEF lastTerm, termAt, lastIndex
    <3>. QED
      BY <1>5 DEF isCandidateLogUpToDate
  <2>. CASE n # 0
    <3>. n \in 1..n /\ n >= 1
      BY <1>2
    <3>. log[c][n].term \in 1..currentTerm[c]
      BY Zenon, <1>3 DEF Explained
    <3>. QED
      BY <1>1 DEF lastTerm, termAt, lastIndex
  <2>. QED
    OBVIOUS
<1>7. Agree(log[c], L[w], n)
  BY Zenon, <1>3, <1>6 DEF Explained
<1>8. w >= t /\ (w = t => n >= i)
  BY <1>2, <1>4, <1>5, <1>6 DEF isCandidateLogUpToDate, lastIndex
<1>9. L[w] \in Seq(Entry) /\ Len(L[w]) \in Nat
  BY Zenon, SeqLen DEF TermLogs
<1>. HIDE DEF n
<1>10. CASE w = t
  <2>. Agree(L[t], log[c], n)
    BY <1>7, <1>10, AgreeSym
  <2>. QED
    BY <1>1, <1>2, <1>8, <1>10, AgreeBelow
<1>11. CASE w > t
  <2>1. L[w] # <<>>
    <3>. n <= Len(L[w])
      BY <1>7 DEF Agree
    <3>. QED
      BY <1>2, <1>6, <1>9
  <2>2. Agree(L[t], L[w], i)
    BY Zenon, <1>11, <2>1 DEF LaterHold
  <2>3. n >= i
    <3>1. SUFFICES ASSUME n < i PROVE FALSE
      BY <1>2, <1>4
    <3>2. n \in 1..i /\ n \in 1..Len(L[t])
      BY ONLY <1>2, <1>4, <1>6, <3>1
    <3>3. L[t][n].term \in 1..t
      BY Zenon, <1>3, <3>2 DEF Explained
    <3>4. L[t][n] = L[w][n] /\ L[w][n] = log[c][n]
      BY Zenon, <1>6, <1>7, <2>2, <3>2 DEF Agree
    <3>. QED
      BY ONLY <1>6, <1>11, <3>3, <3>4
  <2>4. Agree(log[c], L[w], i)
    BY Zenon, <1>1, <1>2, <1>7, <1>9, <2>3, AgreeBelow
  <2>. QED
    BY Zenon, <2>2, <2>4, AgreeSym, AgreeTrans
<1>. QED
  BY <1>8, <1>10, <1>11

\* A candidate, or a node about to stand, holds what those that vote for it by
\* the end of a step stored of a choosable prefix.
LEMMA VoteHolds ==
  ASSUME NEW L, NEW L2, NEW K, NEW K2, Move(L, L2, K, K2), CommitInv(L, K),
         NEW c \in Server, NEW v \in Server, NEW u \in Nat, <<v, u, c>> \in granted',
         \/ u = currentTerm[c] /\ role[c] = "Candidate"
         \/ u > currentTerm[c],
         NEW t \in Nat, t < u, NEW i \in Nat, i <= K[t][v], Choosable(L, K, t, i)
  PROVE  Agree(L[t], log[c], i)
<1>1. currentTerm[c] \in Nat
  BY Zenon, MoveTypes
<1>2. Agree(L[t], log[v], i)
  BY Zenon DEF CommitInv, StoredKept
<1>3. CASE <<v, u, c>> \in granted
  <2>. u <= currentTerm[c]
    BY Zenon, <1>3 DEF CommitInv, VotesAsked
  <2>. u = currentTerm[c] /\ role[c] = "Candidate"
    BY <1>1
  <2>. QED
    BY Zenon, <1>3 DEF CommitInv, VotesSound
<1>4. CASE v = c
  BY Zenon, <1>2, <1>4
<1>5. ASSUME NEW m \in requestVotes, m.src = c, m.term = u,
             isCandidateLogUpToDate(m.lastLogIndex, m.lastLogTerm, log[v])
      PROVE  Agree(L[t], log[c], i)
  <2>1. m.term <= currentTerm[m.src]
    BY DEF CommitInv, RequestsReflect
  <2>2. u = currentTerm[c] /\ role[c] = "Candidate"
    BY <1>1, <1>5, <2>1
  <2>3. m.lastLogIndex = lastIndex(log[c]) /\ m.lastLogTerm = lastTerm(log[c])
    BY Zenon, <1>5, <2>2 DEF CommitInv, RequestsReflect
  <2>4. L \in TermLogs /\ VoteInv /\ MatchInv(L) /\ LaterHold(L, K)
    BY Zenon DEF Move, GhostInv, CommitInv
  <2>. QED
    BY <1>2, <1>5, <2>3, <2>4, UpToDateHolds
<1>6. VotesCast
  BY DEF Move, StepFacts
<1>. QED
  BY <1>3, <1>4, <1>5, <1>6 DEF VotesCast

\* An append keeps the log it extends.
LEMMA AppendKeeps ==
  ASSUME VoteInv, NEW s \in Server, NEW t \in Nat, AppendStep(s, t), NEW p \in Server
  PROVE  StartsWith(log'[p], log[p])
<1>1. log \in [Server -> Seq(Entry)]
  BY DEF VoteInv, TypeInv, TypeOK
<1>2. PICK e \in Entry : log' = [log EXCEPT ![s] = Append(log[s], e)]
  BY Zenon DEF AppendStep
<1>3. log[p] \in Seq(Entry) /\ Len(log[p]) \in Nat
  BY Zenon, <1>1, SeqLen
<1>4. CASE p = s
  <2>. log'[p] = Append(log[p], e)
    BY Zenon, <1>1, <1>2, <1>4
  <2>. Len(log'[p]) = Len(log[p]) + 1 /\ \A k \in 1..Len(log[p]) : log'[p][k] = log[p][k]
    BY <1>3, SeqAppend
  <2>. QED
    BY <1>3 DEF StartsWith, Agree
<1>5. CASE p # s
  BY ONLY <1>1, <1>2, <1>3, <1>5 DEF StartsWith, Agree
<1>. QED
  BY Zenon, <1>4, <1>5

\* A log changes at its end, or by a request that fits.
LEMMA LogMoves ==
  ASSUME Counting, NEW L, NEW L2, NEW K, NEW K2, Move(L, L2, K, K2), NEW p \in Server
  PROVE  \/ StartsWith(log'[p], log[p])
         \/ \E m \in appendRequests : FollowStep(p, m) /\ previousMatches(log[p], m)
<1>1. L \in TermLogs /\ VoteInv /\ MatchInv(L)
  BY DEF Move, GhostInv
<1>2. ASSUME log'[p] = log[p] PROVE StartsWith(log'[p], log[p])
  <2>. Len(log[p]) \in Nat
    BY Zenon, MoveTypes
  <2>. QED
    BY ONLY <1>2 DEF StartsWith, Agree
<1>3. CASE KeepStep
  BY Zenon, <1>2, <1>3 DEF KeepStep
<1>4. ASSUME NEW s \in Server, NEW t \in Nat, LeadStep(s, t)
      PROVE  StartsWith(log'[p], log[p])
  BY Zenon, <1>1, <1>4, AppendKeeps DEF LeadStep
<1>5. ASSUME NEW s \in Server, ExtendStep(s)
      PROVE  StartsWith(log'[p], log[p])
  <2>. currentTerm[s] \in Nat
    BY MoveTypes
  <2>. QED
    BY Zenon, <1>1, <1>5, AppendKeeps DEF ExtendStep
<1>6. ASSUME NEW s \in Server, NEW m \in appendRequests, FollowStep(s, m)
      PROVE  \/ log'[p] = log[p]
             \/ p = s /\ previousMatches(log[p], m)
  <2>. TakesIn(L, s, m)
    BY Zenon, <1>1, <1>6, FollowOutcome
  <2>. QED
    BY Zenon DEF TakesIn
<1>7. GhostKind(L, L2, K, K2)
  BY Zenon DEF Move
<1>. QED
  BY Zenon, <1>2, <1>3, <1>4, <1>5, <1>6, <1>7 DEF GhostKind

\* appendFrom: no step takes from a node what it holds of a choosable prefix of
\* its term or an earlier one.
LEMMA Retained ==
  ASSUME Counting, NEW L, NEW L2, NEW K, NEW K2, Move(L, L2, K, K2), LaterHold(L, K),
         NEW p \in Server, NEW t \in Nat, t <= currentTerm[p], NEW i \in Nat,
         Choosable(L, K, t, i), NEW n \in Nat, n <= i, Agree(log[p], L[t], n)
  PROVE  Agree(log'[p], L[t], n)
<1>. /\ log[p] \in Seq(Entry) /\ log'[p] \in Seq(Entry) /\ L[t] \in Seq(Entry)
     /\ Len(log[p]) \in Nat /\ Len(log'[p]) \in Nat /\ Len(L[t]) \in Nat
     /\ currentTerm[p] \in Nat
  BY MoveTypes
<1>. ASSUME StartsWith(log'[p], log[p])
     PROVE  Agree(log'[p], L[t], n)
  <2>1. Len(log[p]) \in Nat /\ Len(log'[p]) \in Nat
    BY Zenon
  <2>. QED
    BY ONLY <2>1, n \in Nat, Agree(log[p], L[t], n), StartsWith(log'[p], log[p])
         DEF StartsWith, Agree
<1>. ASSUME NEW m \in appendRequests, FollowStep(p, m), previousMatches(log[p], m)
     PROVE  Agree(log'[p], L[t], n)
  <2>. DEFINE end == m.prevIndex + Len(m.entries)
  <2>1. L \in TermLogs /\ VoteInv /\ MatchInv(L)
    BY Zenon DEF Move, GhostInv
  <2>2. /\ m.term \in Nat /\ end \in Nat /\ currentTerm[p] <= m.term
        /\ Agree(log'[p], L[m.term], end)
        /\ \/ log'[p] = log[p]
           \/ /\ Len(log'[p]) = end
              /\ \/ Len(log[p]) < end
                 \/ \E k \in 1..end : k <= Len(log[p]) /\ log[p][k].term # L[m.term][k].term
    <3>. TakesIn(L, p, m)
      BY Zenon, <2>1, FollowOutcome
    <3>. QED
      BY Zenon DEF TakesIn
  <2>3. PICK u \in Nat : u = m.term
    BY <2>2
  <2>4. L[u] \in Seq(Entry) /\ L[u] # <<>>
    BY Zenon, <2>1, <2>3 DEF MatchInv, Slices, Offices, TermLogs, VoteInv, TypeInv, TypeOK, AppendRequest
  <2>5. Len(L[u]) \in Nat
    BY Zenon, <2>4, SeqLen
  <2>6. Agree(L[t], L[u], n)
    <3>. CASE t = u
      BY Zenon DEF Agree
    <3>. CASE t # u
      <4>. t < u
        BY <2>2, <2>3
      <4>. Agree(L[t], L[u], i)
        BY Zenon, <2>4 DEF LaterHold
      <4>. QED
        BY Zenon, <2>4, AgreeBelow
    <3>. QED
      BY Zenon
  <2>7. Agree(log[p], L[u], n)
    BY Zenon, <2>6, AgreeTrans
  <2>. HIDE DEF end
  <2>8. CASE log'[p] = log[p]
    BY Zenon, <2>8
  <2>9. CASE Len(log'[p]) = end /\ n <= end
    <3>. Agree(log'[p], L[u], n)
      BY Zenon, <2>2, <2>3, <2>4, <2>9, AgreeBelow
    <3>. QED
      BY Zenon, <2>6, AgreeSym, AgreeTrans
  <2>10. CASE Len(log[p]) < end
    BY <2>2, <2>8, <2>9, <2>10 DEF Agree
  <2>11. ASSUME NEW k \in 1..end, k <= Len(log[p]), log[p][k].term # L[u][k].term
         PROVE  n <= end
    <3>. ~(k \in 1..n)
      BY Zenon, <2>7, <2>11 DEF Agree
    <3>. QED
      BY <2>2
  <2>. QED
    BY Zenon, <2>2, <2>3, <2>8, <2>9, <2>10, <2>11
<1>. QED
  BY Zenon, LogMoves

\* No node gives up what it stored of a choosable prefix.
LEMMA StoredKeptStep ==
  ASSUME Counting, NEW L, NEW L2, NEW K, NEW K2, Move(L, L2, K, K2), CommitInv(L, K)
  PROVE  StoredKept(L2, K2)'
<1>. SUFFICES ASSUME NEW p \in Server, NEW t \in Nat, NEW i \in Nat, i <= K2[t][p],
                     Choosable(L2, K2, t, i)'
              PROVE  Agree(L2[t], log'[p], i)
  BY Zenon DEF StoredKept
<1>1. /\ K[t][p] \in Nat /\ K2[t][p] \in Nat /\ Len(L[t]) \in Nat /\ currentTerm[p] \in Nat
      /\ L2[t] \in Seq(Entry) /\ log'[p] \in Seq(Entry) /\ Len(log'[p]) \in Nat
  BY Zenon, MoveTypes
<1>2. NodeMoves(L2, K, K2, p)
  BY Zenon DEF Move, GhostMoves
<1>3. CASE K2[t][p] = K[t][p] /\ i > 0
  <2>1. K[t][p] <= Len(L[t]) /\ t <= currentTerm[p]
    BY <1>1, <1>3 DEF Move, GhostInv, ProgressInv, StoreBounds
  <2>2. Choosable(L, K, t, i)
    BY <1>1, <1>3, <2>1, ChoosableBefore
  <2>3. Agree(log[p], L[t], i)
    BY Zenon, <1>3, <2>2, AgreeSym DEF CommitInv, StoredKept
  <2>4. Agree(log'[p], L[t], i)
    BY <2>1, <2>2, <2>3, Retained DEF CommitInv
  <2>. QED
    BY Zenon, <2>4, AgreeSym, AgreeGrows
<1>4. CASE K2[t][p] # K[t][p]
  <2>. t = currentTerm'[p]
    BY <1>4, StoredInTerm
  <2>. StartsWith(L2[t], log'[p]) /\ K2[t][p] = Len(log'[p])
    BY Zenon, <1>2, <1>4 DEF NodeMoves
  <2>. QED
    BY Zenon, <1>1, AgreeBelow, AgreeSym DEF StartsWith
<1>. QED
  BY <1>1, <1>3, <1>4 DEF Choosable

\* becomeLeader: a new leader holds what is still choosable, and what a leader
\* appends is not choosable once a later leader is there.
LEMMA LaterHoldStep ==
  ASSUME Counting, NEW L, NEW L2, NEW K, NEW K2, Move(L, L2, K, K2), CommitInv(L, K)
  PROVE  LaterHold(L2, K2)'
<1>. SUFFICES ASSUME NEW t \in Nat, NEW u \in Nat, NEW i \in Nat, t < u, L2[u] # <<>>,
                     Choosable(L2, K2, t, i)'
              PROVE  Agree(L2[t], L2[u], i)
  BY DEF LaterHold
<1>1. Choosable(L, K, t, i)
  BY Zenon, ChoosableOld
<1>2. SUFFICES Agree(L[t], L2[u], i)
  BY Zenon, AgreeGrows
<1>3. CASE L[u] # <<>>
  <2>. Agree(L[t], L[u], i)
    BY Zenon, <1>1, <1>3 DEF CommitInv, LaterHold
  <2>. QED
    BY Zenon, AgreeGrows
<1>4. CASE L[u] = <<>>
  <2>1. PICK s \in Server : LeadStep(s, u) /\ L2[u] = log'[s]
    <3>. GhostKind(L, L2, K, K2) /\ MatchInv(L) /\ L \in TermLogs /\ VoteInv
      BY DEF Move, GhostInv
    <3>. ASSUME NEW s \in Server, NEW w \in Nat, ExtendStep(s), w = currentTerm[s],
                Regrown(L, L2, w, log'[s])
         PROVE  FALSE
      <4>. u = w
        BY <1>4 DEF Regrown
      <4>. L[w] # <<>>
        BY Zenon, ExtendGrows
      <4>. QED
        BY Zenon, <1>4
    <3>. ASSUME NEW s \in Server, NEW w \in Nat, LeadStep(s, w), Regrown(L, L2, w, log'[s])
         PROVE  w = u /\ L2[u] = log'[s]
      BY Zenon, <1>4 DEF Regrown
    <3>. QED
      BY Zenon, <1>4 DEF GhostKind
  <2>2. Elected(u, s)' /\ AppendStep(s, u) /\
          (u > currentTerm[s] \/ (u = currentTerm[s] /\ role[s] = "Candidate"))
    BY Zenon, <2>1 DEF LeadStep
  <2>3. PICK v \in Server : <<v, u, s>> \in granted' /\ i <= K[t][v]
    BY Zenon, <2>2, VoterStored
  <2>4. Agree(L[t], log[s], i)
    BY Zenon, <1>1, <2>2, <2>3, VoteHolds
  <2>5. StartsWith(log'[s], log[s])
    BY Zenon, <2>2, AppendKeeps DEF Move
  <2>6. Len(log[s]) \in Nat /\ Len(log'[s]) \in Nat
    BY Zenon, MoveTypes
  <2>7. Agree(log[s], log'[s], i)
    BY ONLY <2>4, <2>5, <2>6 DEF StartsWith, Agree
  <2>. QED
    BY Zenon, <2>1, <2>4, <2>7, AgreeTrans
<1>. QED
  BY Zenon, <1>3, <1>4

\* handleRequestVote and startElection: a candidate holds what its voters stored.
LEMMA VotesSoundStep ==
  ASSUME NEW L, NEW L2, NEW K, NEW K2, Move(L, L2, K, K2), CommitInv(L, K)
  PROVE  VotesSound(L2, K2)'
<1>. SUFFICES ASSUME NEW c \in Server, NEW v \in Server, NEW t \in Nat, NEW u \in Nat,
                     NEW i \in Nat, role'[c] = "Candidate", u = currentTerm'[c],
                     <<v, u, c>> \in granted', t < u, i <= K2[t][v],
                     Choosable(L2, K2, t, i)'
              PROVE  Agree(L2[t], log'[c], i)
  BY Zenon DEF VotesSound
<1>1. /\ K[t][v] \in Nat /\ Len(L[t]) \in Nat /\ currentTerm'[v] \in Nat
  BY Zenon, MoveTypes
<1>2. u <= currentTerm'[v]
  <2>. VotesRemembered'
    BY Zenon DEF Move, VoteInv
  <2>. QED
    BY Zenon DEF VotesRemembered
<1>3. K2[t][v] = K[t][v]
  BY <1>1, <1>2, StoredInTerm
<1>4. K[t][v] <= Len(L[t])
  BY Zenon DEF Move, GhostInv, ProgressInv, StoreBounds
<1>5. Choosable(L, K, t, i)
  BY <1>1, <1>3, <1>4, ChoosableBefore
<1>6. /\ log'[c] = log[c]
      /\ \/ role[c] = "Candidate" /\ currentTerm'[c] = currentTerm[c]
         \/ currentTerm'[c] > currentTerm[c]
  BY Zenon DEF Move, StepFacts, CandidateMoves
<1>7. Agree(L[t], log[c], i)
  BY Zenon, <1>3, <1>5, <1>6, VoteHolds
<1>. QED
  BY Zenon, <1>6, <1>7, AgreeGrows

\* Requests for votes and votes stay in step with their candidates.
LEMMA RequestsStep ==
  ASSUME NEW L, NEW L2, NEW K, NEW K2, Move(L, L2, K, K2), CommitInv(L, K)
  PROVE  VotesAsked' /\ RequestsReflect'
<1>1. \A s \in Server : /\ currentTerm[s] \in Nat /\ currentTerm'[s] \in Nat
                        /\ currentTerm[s] <= currentTerm'[s]
  BY Zenon, MoveTypes
<1>2. VotesCast /\ VoteRequests /\ CandidateMoves /\ VotesAsked /\ RequestsReflect
  BY DEF Move, StepFacts, CommitInv
<1>3. VotesAsked'
  <2>. SUFFICES ASSUME NEW v \in Server, NEW c \in Server, NEW t \in Nat,
                       <<v, t, c>> \in granted'
                PROVE  t <= currentTerm'[c]
    BY DEF VotesAsked
  <2>. CASE <<v, t, c>> \in granted
    BY <1>1, <1>2 DEF VotesAsked
  <2>. CASE <<v, t, c>> \notin granted
    <3>. \/ t = currentTerm'[v] /\ v = c
         \/ \E m \in requestVotes : m.src = c /\ m.term = t
      BY <1>2 DEF VotesCast
    <3>. ASSUME NEW m \in requestVotes, m.src = c, m.term = t PROVE t <= currentTerm[c]
      BY Zenon, <1>2 DEF RequestsReflect
    <3>. QED
      BY <1>1
  <2>. QED
    OBVIOUS
<1>4. RequestsReflect'
  <2>. SUFFICES ASSUME NEW r \in requestVotes'
                PROVE  /\ r.term >= 1 /\ r.term <= currentTerm'[r.src]
                       /\ role'[r.src] = "Candidate" /\ r.term = currentTerm'[r.src] =>
                            /\ r.lastLogIndex = lastIndex(log'[r.src])
                            /\ r.lastLogTerm = lastTerm(log'[r.src])
    BY DEF RequestsReflect, lastIndex, lastTerm, termAt
  <2>. r.term \in Nat /\ r.src \in Server
    BY Zenon DEF Move, VoteInv, TypeInv, TypeOK, VoteRequest
  <2>. CASE r \in requestVotes
    <3>. /\ r.term >= 1 /\ r.term <= currentTerm[r.src]
         /\ role[r.src] = "Candidate" /\ r.term = currentTerm[r.src] =>
              /\ r.lastLogIndex = lastIndex(log[r.src])
              /\ r.lastLogTerm = lastTerm(log[r.src])
      BY <1>2 DEF RequestsReflect
    <3>. role'[r.src] = "Candidate" =>
            /\ log'[r.src] = log[r.src]
            /\ \/ role[r.src] = "Candidate" /\ currentTerm'[r.src] = currentTerm[r.src]
               \/ currentTerm'[r.src] > currentTerm[r.src]
      BY Zenon, <1>2 DEF CandidateMoves
    <3>. QED
      BY <1>1
  <2>. CASE r \notin requestVotes
    <3>. /\ r.term = currentTerm'[r.src] /\ r.term > currentTerm[r.src]
         /\ r.lastLogIndex = lastIndex(log'[r.src]) /\ r.lastLogTerm = lastTerm(log'[r.src])
      BY Zenon, <1>2 DEF VoteRequests
    <3>. QED
      BY <1>1
  <2>. QED
    BY Zenon
<1>. QED
  BY Zenon, <1>3, <1>4

-----------------------------------------------------------------------------
(* Commit indices *)

\* advanceCommitIndex returns the old index, or that of an entry of the
\* leader's term which a quorum replicated.
LEMMA AdvanceCounts ==
  ASSUME Counting, NEW s, NEW lg \in Seq(Entry), NEW term, NEW match, NEW commit \in Nat,
         NEW c, c = advanceCommitIndex(s, lg, term, match, commit), c # commit
  PROVE  c \in 1..Len(lg) /\ lg[c].term = term /\ hasReplicationQuorum(s, lg, match, c)
<1>. DEFINE S == {commit} \cup
                 {i \in (commit + 1)..lastIndex(lg) :
                    termAt(lg, i) = term /\ hasReplicationQuorum(s, lg, match, i)}
<1>1. Len(lg) \in Nat /\ commit + Len(lg) \in Nat
  BY SeqLen
<1>2. S \in SUBSET Nat /\ S # {} /\ \A x \in S : x <= commit + Len(lg)
  BY <1>1 DEF lastIndex
<1>3. Max(S) \in S
  <2>. HIDE DEF S
  <2>. QED
    BY Zenon, <1>1, <1>2, MaxOfNaturals
<1>4. c = Max(S)
  BY DEF advanceCommitIndex
<1>5. PICK x \in S : x = c
  BY Zenon, <1>3, <1>4
<1>6. /\ x \in (commit + 1)..Len(lg) /\ termAt(lg, x) = term
      /\ hasReplicationQuorum(s, lg, match, x)
  BY Zenon, <1>5 DEF lastIndex
<1>. QED
  BY <1>1, <1>5, <1>6 DEF termAt

\* What backs a prefix backs it after a step.
LEMMA BackedGrows ==
  ASSUME NEW L, NEW L2, NEW K, NEW K2, Move(L, L2, K, K2), NEW lg, NEW c \in Nat,
         NEW b \in Nat, NEW b2 \in Nat, b <= b2, Backed(L, K, lg, c, b)
  PROVE  Backed(L2, K2, lg, c, b2)
<1>. CASE c = 0
  BY DEF Backed
<1>. ASSUME NEW t \in Nat, NEW j \in Nat, t <= b, c <= j, Chosen(L, K, t, j),
            Agree(lg, L[t], c)
     PROVE  Backed(L2, K2, lg, c, b2)
  <2>. Chosen(L2, K2, t, j) /\ Agree(lg, L2[t], c) /\ t <= b2
    BY ChosenGrows, AgreeGrows
  <2>. QED
    BY Zenon DEF Backed
<1>. QED
  BY DEF Backed

\* A node keeps what backs its commit index.
LEMMA BackedKept ==
  ASSUME Counting, NEW L, NEW L2, NEW K, NEW K2, Move(L, L2, K, K2), CommitInv(L, K),
         NEW p \in Server, NEW c \in Nat, Backed(L, K, log[p], c, currentTerm[p])
  PROVE  /\ Backed(L2, K2, log'[p], c, currentTerm'[p])
         /\ Agree(log[p], log'[p], c)
<1>. /\ currentTerm[p] \in Nat /\ currentTerm'[p] \in Nat
     /\ currentTerm[p] <= currentTerm'[p] /\ Len(log[p]) \in Nat /\ Len(log'[p]) \in Nat
  BY Zenon, MoveTypes
<1>. CASE c = 0
  BY DEF Backed, Agree
<1>. ASSUME NEW t \in Nat, NEW j \in Nat, t <= currentTerm[p], c <= j, Chosen(L, K, t, j),
            Agree(log[p], L[t], c)
     PROVE  Backed(L2, K2, log'[p], c, currentTerm'[p]) /\ Agree(log[p], log'[p], c)
  <2>. Agree(log'[p], L[t], c)
    BY Zenon, ChosenChoosable, Retained DEF CommitInv
  <2>. Chosen(L2, K2, t, j) /\ Agree(log'[p], L2[t], c) /\ t <= currentTerm'[p]
    BY ChosenGrows, AgreeGrows
  <2>. Agree(log[p], log'[p], c)
    BY Zenon, AgreeSym, AgreeTrans
  <2>. QED
    BY DEF Backed
<1>. QED
  BY Zenon DEF Backed

\* advanceCommitIndex: what a leader commits has been chosen.
LEMMA CountBacked ==
  ASSUME Counting, NEW L, NEW L2, NEW K, NEW K2, Move(L, L2, K, K2), NEW p \in Server,
         role'[p] = "Leader", commitIndex'[p] # commitIndex[p],
         commitIndex'[p] = advanceCommitIndex(p, log'[p], currentTerm'[p],
                                              matchIndex'[p], commitIndex[p])
  PROVE  Backed(L2, K2, log'[p], commitIndex'[p], currentTerm'[p])
<1>1. /\ currentTerm'[p] \in Nat /\ log'[p] \in Seq(Entry) /\ Len(log'[p]) \in Nat
      /\ commitIndex[p] \in Nat /\ commitIndex'[p] \in Nat
  BY Zenon, MoveTypes DEF Move, VoteInv, TypeInv, TypeOK
<1>2. PICK t \in Nat, c \in Nat : t = currentTerm'[p] /\ c = commitIndex'[p]
  BY Zenon, <1>1
<1>3. /\ c \in 1..Len(log'[p]) /\ log'[p][c].term = t
      /\ hasReplicationQuorum(p, log'[p], matchIndex'[p], c)
  BY <1>1, <1>2, AdvanceCounts
<1>4. L2[t] = log'[p]
  BY Zenon, <1>2 DEF Move, GhostInv, MatchInv, Offices
<1>. DEFINE Q == {q \in Server : \/ q = p /\ lastIndex(log'[p]) >= c
                                 \/ q # p /\ matchIndex'[p][q] >= c}
<1>5. Majority(Q)
  BY <1>3 DEF hasReplicationQuorum, Majority
<1>6. ASSUME NEW q \in Q PROVE K2[t][q] >= c
  <2>. CASE q = p
    <3>. K2[t][p] = Len(log'[p])
      BY Zenon, <1>2 DEF Move, GhostInv, ProgressInv, LeadersStore
    <3>. QED
      BY DEF lastIndex
  <2>. CASE q # p
    <3>. matchIndex'[p][q] <= K2[t][q]
      BY Zenon, <1>2 DEF Move, GhostInv, ProgressInv, MatchStored, peers
    <3>1. K2[t][q] \in Nat
      BY Zenon, MoveTypes
    <3>. matchIndex' \in [Server -> [Server -> Nat]]
      BY Zenon DEF Move, VoteInv, TypeInv, TypeOK
    <3>. matchIndex'[p][q] \in Nat
      BY Zenon
    <3>. QED
      BY <3>1
  <2>. QED
    BY Zenon
<1>7. Chosen(L2, K2, t, c)
  <2>. HIDE DEF Q
  <2>. Q \in SUBSET Server
    BY DEF Q
  <2>. QED
    BY Zenon, <1>3, <1>4, <1>5, <1>6 DEF Chosen
<1>8. Agree(log'[p], L2[t], c) /\ t <= t /\ c <= c
  BY <1>1, <1>3, <1>4 DEF Agree
<1>. QED
  BY Zenon, <1>2, <1>7, <1>8 DEF Backed

\* followerCommit: what a follower takes over from its leader has been chosen.
LEMMA FollowBacked ==
  ASSUME Counting, NEW L, NEW L2, NEW K, NEW K2, Move(L, L2, K, K2), CommitInv(L, K),
         NEW p \in Server, NEW m \in appendRequests, FollowStep(p, m),
         commitIndex'[p] # commitIndex[p]
  PROVE  Backed(L2, K2, log'[p], commitIndex'[p], currentTerm'[p])
<1>1. /\ L \in TermLogs /\ K \in Stores /\ VoteInv /\ VoteInv' /\ MatchInv(L)
      /\ ProgressInv(L, K)
  BY DEF Move, GhostInv
<1>2. m.term \in Nat /\ m.leaderCommit \in Nat /\ currentTerm'[p] = m.term
  <2>. m.term \in Nat /\ m.leaderCommit \in Nat
    BY Zenon, <1>1 DEF VoteInv, TypeInv, TypeOK, AppendRequest
  <2>. QED
    <3>. TakesIn(L, p, m)
      BY Zenon, <1>1, FollowOutcome
    <3>. QED
      BY Zenon DEF TakesIn
<1>3. /\ previousMatches(log[p], m)
      /\ commitIndex'[p] = followerCommit(commitIndex[p], m.leaderCommit, log'[p])
  BY Zenon, <1>1 DEF FollowStep, VoteInv, TypeInv, TypeOK
<1>4. StartsWith(L[m.term], log'[p])
  BY Zenon, <1>1, <1>3, FollowSyncs
<1>5. PICK t \in Nat, c \in Nat : t = m.term /\ c = commitIndex'[p]
  BY Zenon, <1>1, <1>2 DEF VoteInv, TypeInv, TypeOK
<1>6. /\ log'[p] \in Seq(Entry) /\ Len(log'[p]) \in Nat
      /\ L[t] \in Seq(Entry) /\ Len(L[t]) \in Nat
  BY Zenon, MoveTypes
<1>7. c <= Len(log'[p]) /\ c <= m.leaderCommit
  <2>. Min({m.leaderCommit, Len(log'[p])}) =
         IF m.leaderCommit <= Len(log'[p]) THEN m.leaderCommit ELSE Len(log'[p])
    BY Zenon, <1>2, <1>6, MinOfTwo
  <2>. c = Min({m.leaderCommit, Len(log'[p])})
    BY Zenon, <1>3, <1>5 DEF followerCommit, lastIndex
  <2>. QED
    BY <1>2, <1>6
<1>8. Agree(log'[p], L[t], c)
  BY Zenon, <1>4, <1>5, <1>6, <1>7, AgreeBelow DEF StartsWith
<1>9. Backed(L, K, L[t], m.leaderCommit, t)
  BY Zenon, <1>5 DEF CommitInv, RequestsBacked
<1>10. Backed(L, K, log'[p], c, t)
  <2>. CASE m.leaderCommit = 0
    <3>. c = 0
      BY <1>7
    <3>. QED
      BY Zenon DEF Backed
  <2>. ASSUME NEW u \in Nat, NEW j \in Nat, u <= t, m.leaderCommit <= j,
              Chosen(L, K, u, j), Agree(L[t], L[u], m.leaderCommit)
       PROVE  Backed(L, K, log'[p], c, t)
    <3>. L[u] \in Seq(Entry)
      BY Zenon, MoveTypes
    <3>. Agree(L[t], L[u], c)
      BY Zenon, <1>2, <1>6, <1>7, AgreeBelow
    <3>. Agree(log'[p], L[u], c) /\ c <= j
      BY <1>2, <1>7, <1>8, AgreeTrans
    <3>. QED
      BY Zenon DEF Backed
  <2>. QED
    BY Zenon, <1>9 DEF Backed
<1>11. t <= t
  OBVIOUS
<1>12. Backed(L2, K2, log'[p], c, t)
  BY Zenon, <1>10, <1>11, BackedGrows
<1>. QED
  BY Zenon, <1>2, <1>5, <1>12

\* Every commit index stays backed, on the nodes and in the requests.
LEMMA BackedStep ==
  ASSUME Counting, NEW L, NEW L2, NEW K, NEW K2, Move(L, L2, K, K2), CommitInv(L, K)
  PROVE  NodesBacked(L2, K2)' /\ RequestsBacked(L2, K2)'
<1>. ASSUME NEW p \in Server
     PROVE  Backed(L2, K2, log'[p], commitIndex'[p], currentTerm'[p])
  <2>. CASE commitIndex'[p] = commitIndex[p]
    <3>. Backed(L, K, log[p], commitIndex[p], currentTerm[p]) /\ commitIndex[p] \in Nat
      BY DEF CommitInv, NodesBacked, Move, VoteInv, TypeInv, TypeOK
    <3>. QED
      BY Zenon, BackedKept
  <2>. CASE commitIndex'[p] # commitIndex[p]
    <3>. CASE CommitCounted
      BY Zenon, CountBacked DEF CommitCounted
    <3>. ASSUME NEW s \in Server, NEW m \in appendRequests, FollowStep(s, m)
         PROVE  Backed(L2, K2, log'[p], commitIndex'[p], currentTerm'[p])
      <4>. p = s
        BY Zenon DEF FollowStep, Move, VoteInv, TypeInv, TypeOK
      <4>. QED
        BY Zenon, FollowBacked
    <3>. GhostKind(L, L2, K, K2)
      BY Zenon DEF Move
    <3>. QED
      BY Zenon DEF GhostKind, KeepStep, LeadStep, ExtendStep, AppendStep
  <2>. QED
    BY Zenon
<1>. ASSUME NEW m \in appendRequests'
     PROVE  Backed(L2, K2, L2[m.term], m.leaderCommit, m.term)
  <2>. CASE m \in appendRequests
    <3>1. m.term \in Nat /\ m.leaderCommit \in Nat /\ m.term <= m.term
      <4>. m \in AppendRequest
        BY Zenon DEF Move, VoteInv, TypeInv, TypeOK
      <4>. QED
        BY DEF AppendRequest
    <3>2. PICK t \in Nat, c \in Nat : t = m.term /\ c = m.leaderCommit
      BY Zenon, <3>1
    <3>3. Backed(L, K, L[t], c, t)
      BY Zenon, <3>2 DEF CommitInv, RequestsBacked
    <3>4. Backed(L2, K2, L[t], c, t)
      BY Zenon, <3>1, <3>2, <3>3, BackedGrows
    <3>5. ASSUME NEW lg PROVE Agree(L[t], lg, c) => Agree(L2[t], lg, c)
      BY Zenon, AgreeGrows
    <3>6. Backed(L2, K2, L2[t], c, t)
      BY Zenon, <3>4, <3>5 DEF Backed
    <3>. QED
      BY Zenon, <3>2, <3>6
  <2>. CASE m \notin appendRequests
    <3>. PICK s \in Server : \E p \in peers(s) : SentBy(m, s, p)
      BY Zenon, SentSlice DEF Move, StepFacts, GhostInv, VoteInv
    <3>. role'[s] = "Leader" /\ m.term = currentTerm'[s] /\ m.leaderCommit = commitIndex'[s]
      BY Zenon DEF SentBy
    <3>. L2[currentTerm'[s]] = log'[s]
      BY Zenon DEF Move, GhostInv, MatchInv, Offices
    <3>. QED
      BY Zenon
  <2>. QED
    BY Zenon
<1>. QED
  BY Zenon DEF NodesBacked, RequestsBacked

\* A node in term 0 has not voted.
LEMMA ZeroStep ==
  ASSUME NEW L, NEW L2, NEW K, NEW K2, Move(L, L2, K, K2), CommitInv(L, K), VoteMoves
  PROVE  NoVoteInZero'
<1>. SUFFICES ASSUME NEW s \in Server, currentTerm'[s] = 0 PROVE votedFor'[s] = None
  BY DEF NoVoteInZero
<1>1. currentTerm[s] \in Nat /\ currentTerm[s] <= currentTerm'[s]
  BY Zenon, MoveTypes
<1>2. currentTerm[s] = 0
  BY <1>1
<1>3. votedFor[s] = None
  BY Zenon, <1>2 DEF CommitInv, NoVoteInZero
<1>4. ASSUME NEW m \in requestVotes PROVE m.term >= 1
  BY DEF CommitInv, RequestsReflect
<1>5. ~\E m \in requestVotes : m.term = 0
  BY ONLY <1>4
<1>. QED
  BY Zenon, <1>2, <1>3, <1>5 DEF VoteMoves

-----------------------------------------------------------------------------
(* What follows from the invariant *)

\* Two backed prefixes agree.
LEMMA BackedAgree ==
  ASSUME NEW L \in TermLogs, NEW K, LaterHold(L, K),
         NEW a \in Seq(Entry), NEW b \in Seq(Entry), NEW c \in Nat, NEW d \in Nat, c <= d,
         NEW x, NEW y, Backed(L, K, a, c, x), Backed(L, K, b, d, y)
  PROVE  Agree(a, b, c)
<1>. Len(a) \in Nat /\ Len(b) \in Nat
  BY Zenon, SeqLen
<1>. CASE c = 0
  BY DEF Agree
<1>. CASE c # 0
  <2>1. PICK t \in Nat, j \in Nat : c <= j /\ Chosen(L, K, t, j) /\ Agree(a, L[t], c)
    BY DEF Backed
  <2>2. d # 0
    OBVIOUS
  <2>3. PICK u \in Nat, k \in Nat : d <= k /\ Chosen(L, K, u, k) /\ Agree(b, L[u], d)
    BY <2>2 DEF Backed
  <2>4. L[t] \in Seq(Entry) /\ L[u] \in Seq(Entry)
    BY Zenon DEF TermLogs
  <2>5. L[t] # <<>> /\ L[u] # <<>>
    BY ONLY <2>1, <2>3, <2>4, SeqEmpty DEF Chosen
  <2>6. Agree(b, L[u], c)
    BY Zenon, <2>3, <2>4, AgreeBelow
  <2>7. Agree(L[t], L[u], c)
    <3>. CASE t = u
      BY Zenon, <2>1 DEF Agree
    <3>. CASE t < u
      <4>. Agree(L[t], L[u], j)
        BY Zenon, <2>1, <2>5, ChosenChoosable DEF LaterHold
      <4>. QED
        BY Zenon, <2>1, <2>4, AgreeBelow
    <3>. CASE u < t
      <4>. Agree(L[u], L[t], k)
        BY Zenon, <2>3, <2>5, ChosenChoosable DEF LaterHold
      <4>. c <= k
        BY <2>3
      <4>. QED
        BY Zenon, <2>3, <2>4, AgreeBelow, AgreeSym
    <3>. QED
      OBVIOUS
  <2>. QED
    BY Zenon, <2>1, <2>6, <2>7, AgreeSym, AgreeTrans
<1>. QED
  OBVIOUS

\* The committed prefixes of two nodes agree up to the shorter one.
LEMMA CommittedAgree ==
  ASSUME Committing, NEW a \in Server, NEW b \in Server, commitIndex[a] <= commitIndex[b]
  PROVE  Agree(log[a], log[b], commitIndex[a])
<1>. PICK L \in TermLogs, K \in Stores : LaterHold(L, K) /\ NodesBacked(L, K)
  BY Zenon DEF Committing, CommitInv
<1>. /\ log[a] \in Seq(Entry) /\ log[b] \in Seq(Entry)
     /\ commitIndex[a] \in Nat /\ commitIndex[b] \in Nat
  BY DEF Committing, VoteInv, TypeInv, TypeOK
<1>. /\ Backed(L, K, log[a], commitIndex[a], currentTerm[a])
     /\ Backed(L, K, log[b], commitIndex[b], currentTerm[b])
  BY Zenon DEF NodesBacked
<1>. QED
  BY Zenon, BackedAgree

\* A commit index is within the log.
LEMMA CommitInLog ==
  ASSUME Committing, NEW a \in Server
  PROVE  commitIndex[a] \in Nat /\ commitIndex[a] <= Len(log[a])
<1>. commitIndex[a] \in Nat /\ commitIndex[a] <= commitIndex[a]
  BY DEF Committing, VoteInv, TypeInv, TypeOK
<1>. QED
  BY Zenon, CommittedAgree DEF Agree

\* Committed prefixes agree.
LEMMA CommittingSafe == Committing => StateMachineSafety
<1>. SUFFICES ASSUME Committing, NEW a \in Server, NEW b \in Server,
                     NEW i \in 1..Min({commitIndex[a], commitIndex[b]})
              PROVE  /\ i <= lastIndex(log[a]) /\ i <= lastIndex(log[b])
                     /\ log[a][i] = log[b][i]
  BY Zenon DEF StateMachineSafety
<1>1. /\ commitIndex[a] \in Nat /\ commitIndex[a] <= Len(log[a])
      /\ commitIndex[b] \in Nat /\ commitIndex[b] <= Len(log[b])
  BY Zenon, CommitInLog
<1>2. Len(log[a]) \in Nat /\ Len(log[b]) \in Nat
  BY Zenon, SeqLen DEF Committing, VoteInv, TypeInv, TypeOK
<1>3. i \in 1..commitIndex[a] /\ i \in 1..commitIndex[b]
  <2>. Min({commitIndex[a], commitIndex[b]}) =
         IF commitIndex[a] <= commitIndex[b] THEN commitIndex[a] ELSE commitIndex[b]
    BY Zenon, <1>1, MinOfTwo
  <2>. QED
    BY <1>1
<1>4. CASE commitIndex[a] <= commitIndex[b]
  BY <1>1, <1>2, <1>3, <1>4, CommittedAgree DEF Agree, lastIndex
<1>5. CASE commitIndex[b] <= commitIndex[a]
  BY <1>1, <1>2, <1>3, <1>5, CommittedAgree DEF Agree, lastIndex
<1>. QED
  BY ONLY <1>1, <1>4, <1>5

\* A leader holds what nodes of its term and earlier ones committed.
LEMMA CommittingComplete == Committing => LeaderCompleteness
<1>. SUFFICES ASSUME Committing, NEW l \in Server, NEW s \in Server, role[l] = "Leader",
                     currentTerm[l] >= currentTerm[s]
              PROVE  /\ commitIndex[s] <= lastIndex(log[l])
                     /\ SubSeq(log[s], 1, commitIndex[s]) = SubSeq(log[l], 1, commitIndex[s])
  BY Zenon DEF LeaderCompleteness
<1>1. PICK L \in TermLogs, K \in Stores : GhostInv(L, K) /\ CommitInv(L, K)
  BY Zenon DEF Committing
<1>2. /\ log[l] \in Seq(Entry) /\ log[s] \in Seq(Entry) /\ currentTerm[l] \in Nat
      /\ currentTerm[s] \in Nat /\ commitIndex[s] \in Nat
  BY Zenon DEF Committing, VoteInv, TypeInv, TypeOK
<1>3. PICK u \in Nat, c \in Nat : u = currentTerm[l] /\ c = commitIndex[s]
  BY Zenon, <1>2
<1>4. L[u] = log[l] /\ L[u] # <<>>
  BY Zenon, <1>1, <1>3 DEF GhostInv, MatchInv, Offices
<1>5. Agree(log[s], log[l], c)
  <2>. CASE c = 0
    <3>. Len(log[s]) \in Nat /\ Len(log[l]) \in Nat
      BY Zenon, <1>2, SeqLen
    <3>. QED
      BY DEF Agree
  <2>. CASE c # 0
    <3>1. PICK t \in Nat, j \in Nat : /\ t <= currentTerm[s] /\ c <= j
                                      /\ Chosen(L, K, t, j) /\ Agree(log[s], L[t], c)
      BY Zenon, <1>1, <1>3 DEF CommitInv, NodesBacked, Backed
    <3>2. L[t] \in Seq(Entry)
      BY Zenon DEF TermLogs
    <3>3. CASE t = u
      BY Zenon, <1>4, <3>1, <3>3
    <3>4. CASE t < u
      <4>. Agree(L[t], L[u], j)
        BY Zenon, <1>1, <1>4, <3>1, <3>4, ChosenChoosable DEF CommitInv, LaterHold
      <4>. Agree(L[t], log[l], c)
        BY Zenon, <1>2, <1>4, <3>1, <3>2, AgreeBelow
      <4>. QED
        BY Zenon, <3>1, AgreeTrans
    <3>. QED
      BY <1>2, <1>3, <3>1, <3>3, <3>4
  <2>. QED
    BY Zenon
<1>6. SubSeq(log[s], 1, c) = SubSeq(log[l], 1, c) /\ c <= Len(log[l])
  BY Zenon, <1>2, <1>5, AgreeSubSeq DEF Agree
<1>. QED
  BY <1>3, <1>6 DEF lastIndex

\* A log that is up to date with a quorum of logs holds what is committed.
LEMMA CommittingElectable ==
  ASSUME Counting
  PROVE  Committing => ElectableHoldCommitted
<1>. SUFFICES ASSUME Committing, NEW x \in Server,
                     Majority({v \in Server : isCandidateLogUpToDate(
                                 lastIndex(log[x]), lastTerm(log[x]), log[v])}),
                     NEW s \in Server
              PROVE  /\ commitIndex[s] <= lastIndex(log[x])
                     /\ SubSeq(log[s], 1, commitIndex[s]) = SubSeq(log[x], 1, commitIndex[s])
  BY Zenon DEF ElectableHoldCommitted, Majority
<1>. DEFINE V == {v \in Server : isCandidateLogUpToDate(
                    lastIndex(log[x]), lastTerm(log[x]), log[v])}
<1>1. PICK L \in TermLogs, K \in Stores : GhostInv(L, K) /\ CommitInv(L, K)
  BY Zenon DEF Committing
<1>2. log[x] \in Seq(Entry) /\ log[s] \in Seq(Entry)
  BY Zenon DEF Committing, VoteInv, TypeInv, TypeOK
<1>3. PICK c \in Nat : c = commitIndex[s]
  BY Zenon DEF Committing, VoteInv, TypeInv, TypeOK
<1>4. Agree(log[s], log[x], c)
  <2>. CASE c = 0
    <3>. Len(log[s]) \in Nat /\ Len(log[x]) \in Nat
      BY Zenon, <1>2, SeqLen
    <3>. QED
      BY DEF Agree
  <2>. CASE c # 0
    <3>1. PICK t \in Nat, j \in Nat :
            c <= j /\ Chosen(L, K, t, j) /\ Agree(log[s], L[t], c)
      BY Zenon, <1>1, <1>3 DEF CommitInv, NodesBacked, Backed
    <3>2. PICK Q \in SUBSET Server : Majority(Q) /\ \A p \in Q : K[t][p] >= j
      BY Zenon, <3>1 DEF Chosen
    <3>3. V \in SUBSET Server /\ Majority(V)
      BY Zenon
    <3>. HIDE DEF V
    <3>4. PICK v \in V \cap Q : TRUE
      BY Zenon, <3>2, <3>3, QuorumsIntersect DEF Majority
    <3>5. /\ v \in Server /\ j <= K[t][v]
          /\ isCandidateLogUpToDate(lastIndex(log[x]), lastTerm(log[x]), log[v])
      <4>. v \in Server /\ K[t][v] >= j
        BY Zenon, <3>2, <3>4
      <4>. K[t][v] \in Nat
        BY DEF Stores
      <4>. QED
        BY Zenon, <3>4 DEF V
    <3>6. Choosable(L, K, t, j)
      BY Zenon, <3>1, ChosenChoosable
    <3>7. Agree(L[t], log[v], j)
      BY Zenon, <1>1, <3>5, <3>6 DEF CommitInv, StoredKept
    <3>8. Agree(L[t], log[x], j)
      BY Zenon, <1>1, <3>5, <3>6, <3>7, UpToDateHolds DEF Committing, GhostInv, CommitInv
    <3>9. L[t] \in Seq(Entry)
      BY DEF TermLogs
    <3>10. Agree(L[t], log[x], c)
      BY Zenon, <1>2, <3>1, <3>8, <3>9, AgreeBelow
    <3>. QED
      BY Zenon, <3>1, <3>10, AgreeTrans
  <2>. QED
    BY Zenon
<1>5. SubSeq(log[s], 1, c) = SubSeq(log[x], 1, c) /\ c <= Len(log[x])
  BY Zenon, <1>2, <1>4, AgreeSubSeq DEF Agree
<1>. QED
  BY <1>3, <1>5 DEF lastIndex

\* What is on disk can be loaded.
LEMMA CommittingLoads == Committing => RestartNeverRefused
<1>. SUFFICES ASSUME Committing, NEW s \in Server PROVE LoadAccepted(disk[s])
  BY DEF RestartNeverRefused
<1>1. PICK L \in TermLogs, K \in Stores : GhostInv(L, K) /\ CommitInv(L, K)
  BY Zenon DEF Committing
<1>2. log[s] \in Seq(Entry) /\ currentTerm[s] \in Nat
  BY Zenon DEF Committing, VoteInv, TypeInv, TypeOK
<1>3. Len(log[s]) \in Nat
  BY Zenon, <1>2, SeqLen
<1>4. commitIndex[s] \in Nat /\ commitIndex[s] <= Len(log[s])
  BY Zenon, CommitInLog
<1>5. \A i \in 1..Len(log[s]) : log[s][i].term \in 1..currentTerm[s]
  BY Zenon, <1>1 DEF GhostInv, MatchInv, NodesExplained, Explained
<1>6. disk[s] = DurableState(currentTerm[s], votedFor[s], log[s], commitIndex[s])
  BY Zenon DEF Committing, VoteInv, DurableBeforeReply
<1>7. CASE currentTerm[s] = 0
  <2>. Len(log[s]) = 0
    <3>. SUFFICES ASSUME Len(log[s]) # 0 PROVE FALSE
      OBVIOUS
    <3>. 1 \in 1..Len(log[s])
      BY <1>3
    <3>. QED
      BY <1>5, <1>7
  <2>. log[s] = <<>>
    BY Zenon, <1>2, SeqEmpty
  <2>. votedFor[s] = None /\ commitIndex[s] = 0
    BY <1>1, <1>4, <1>7 DEF CommitInv, NoVoteInZero
  <2>. QED
    BY Zenon, <1>6, <1>7 DEF LoadAccepted
<1>8. CASE currentTerm[s] # 0
  <2>. currentTerm[s] > 0
    BY ONLY <1>2, <1>8
  <2>. /\ disk[s].term = currentTerm[s] /\ disk[s].log = log[s]
       /\ disk[s].commitIndex = commitIndex[s]
    BY <1>6 DEF DurableState
  <2>. QED
    BY Zenon, <1>4, <1>5 DEF LoadAccepted, lastIndex
<1>. QED
  BY Zenon, <1>7, <1>8

\* A commit index never goes back.
LEMMA CommitRises ==
  ASSUME Counting, NEW L, NEW L2, NEW K, NEW K2, Move(L, L2, K, K2), CommitInv(L, K), NEW p \in Server
  PROVE  commitIndex'[p] >= commitIndex[p] /\ Agree(log[p], log'[p], commitIndex[p])
<1>0. Agree(log[p], log'[p], commitIndex[p])
  <2>. Backed(L, K, log[p], commitIndex[p], currentTerm[p]) /\ commitIndex[p] \in Nat
    BY Zenon DEF CommitInv, NodesBacked, Move, VoteInv, TypeInv, TypeOK
  <2>. QED
    BY Zenon, BackedKept
<1>. SUFFICES commitIndex'[p] >= commitIndex[p]
  BY Zenon, <1>0
<1>1. /\ commitIndex \in [Server -> Nat] /\ log'[p] \in Seq(Entry) /\ commitIndex[p] \in Nat
  BY DEF Move, VoteInv, TypeInv, TypeOK
<1>2. CASE commitIndex'[p] = commitIndex[p]
  BY ONLY <1>1, <1>2
<1>3. CASE CommitCounted
  <2>. CASE commitIndex'[p] = advanceCommitIndex(p, log'[p], currentTerm'[p],
                                                 matchIndex'[p], commitIndex[p])
    BY Zenon, <1>1, AdvanceCommitIndexType
  <2>. QED
    BY Zenon, <1>2, <1>3 DEF CommitCounted
<1>4. ASSUME NEW s \in Server, NEW m \in appendRequests, FollowStep(s, m)
      PROVE  commitIndex'[p] >= commitIndex[p]
  <2>. PICK lg \in {log'[s]} :
         commitIndex' = [commitIndex EXCEPT ![s] =
                           followerCommit(commitIndex[s], m.leaderCommit, lg)]
         \/ commitIndex' = [commitIndex EXCEPT ![s] = commitIndex[s]]
    BY Zenon, <1>4 DEF FollowStep, Move, VoteInv, TypeInv, TypeOK
  <2>. CASE p # s
    BY Zenon, <1>1, <1>2
  <2>. CASE p = s /\ commitIndex'[p] = followerCommit(commitIndex[p], m.leaderCommit, log'[p])
    <3>. m.leaderCommit \in Nat /\ Len(log'[p]) \in Nat
      <4>. m \in AppendRequest
        BY Zenon DEF Move, VoteInv, TypeInv, TypeOK
      <4>. QED
        BY Zenon, <1>1, SeqLen DEF AppendRequest
    <3>. Min({m.leaderCommit, Len(log'[p])}) =
           IF m.leaderCommit <= Len(log'[p]) THEN m.leaderCommit ELSE Len(log'[p])
      BY Zenon, MinOfTwo
    <3>. commitIndex[p] <= Len(log'[p])
      BY Zenon, <1>0 DEF Agree
    <3>. QED
      BY <1>1 DEF followerCommit, lastIndex
  <2>. QED
    BY <1>1, <1>2
<1>5. GhostKind(L, L2, K, K2)
  BY DEF Move
<1>. QED
  BY Zenon, <1>3, <1>4, <1>5 DEF GhostKind, KeepStep, LeadStep, ExtendStep, AppendStep

-----------------------------------------------------------------------------
(* Every step *)

\* A step with the move of the term logs and the stores that goes with it.
CommittingMove ==
  \E L, L2 \in TermLogs, K, K2 \in Stores :
    Move(L, L2, K, K2) /\ CommitInv(L, K) /\ CommitInv(L2, K2)'

\* The invariant survives a move.
LEMMA CommitKept ==
  ASSUME Counting, NEW L, NEW L2, NEW K, NEW K2, Move(L, L2, K, K2), CommitInv(L, K),
         VoteMoves
  PROVE  CommitInv(L2, K2)'
<1>. LaterHold(L2, K2)' /\ StoredKept(L2, K2)' /\ VotesSound(L2, K2)'
  BY Zenon, LaterHoldStep, StoredKeptStep, VotesSoundStep
<1>. VotesAsked' /\ RequestsReflect' /\ NoVoteInZero'
  BY Zenon, RequestsStep, ZeroStep
<1>. NodesBacked(L2, K2)' /\ RequestsBacked(L2, K2)'
  BY BackedStep
<1>. QED
  BY Zenon DEF CommitInv

\* Nothing is choosable or committed at first.
LEMMA CommitInitially ==
  ASSUME Init
  PROVE  CommitInv([t \in Nat |-> <<>>], [t \in Nat |-> [p \in Server |-> 0]])
<1>. DEFINE L == [t \in Nat |-> <<>>]
            K == [t \in Nat |-> [p \in Server |-> 0]]
<1>1. \A t \in Nat : L[t] = <<>>
  BY Zenon
<1>. HIDE DEF L, K
<1>2. \A t, i \in Nat : ~Choosable(L, K, t, i)
  BY ONLY <1>1 DEF Choosable
<1>3. LaterHold(L, K) /\ StoredKept(L, K) /\ VotesSound(L, K)
  BY Zenon, <1>2 DEF LaterHold, StoredKept, VotesSound
<1>4. /\ VotesAsked /\ RequestsReflect /\ NoVoteInZero
      /\ NodesBacked(L, K) /\ RequestsBacked(L, K)
  BY DEF Init, VotesAsked, RequestsReflect, NoVoteInZero, NodesBacked, RequestsBacked, Backed
<1>5. CommitInv(L, K)
  BY Zenon, <1>3, <1>4 DEF CommitInv
<1>. QED
  BY Zenon, <1>5 DEF L, K

-----------------------------------------------------------------------------
(* What is durable *)

\* The step behind NothingDurableIsLost.
Durable(s) ==
  /\ currentTerm'[s] >= currentTerm[s]
  /\ currentTerm'[s] = currentTerm[s] => votedFor[s] \in {None, votedFor'[s]}
  /\ commitIndex'[s] >= commitIndex[s]
  /\ SubSeq(log'[s], 1, commitIndex[s]) = SubSeq(log[s], 1, commitIndex[s])

\* A step keeps what a node knows committed.
LEMMA DurableAgrees ==
  ASSUME Counting, CommittingMove, NEW s \in Server
  PROVE  commitIndex'[s] >= commitIndex[s] /\ Agree(log[s], log'[s], commitIndex[s])
<1>. PICK L, L2 \in TermLogs, K, K2 \in Stores : Move(L, L2, K, K2) /\ CommitInv(L, K)
  BY DEF CommittingMove
<1>. QED
  BY Zenon, CommitRises

\* No step of a node loses what it has on disk.
LEMMA DurableKept ==
  ASSUME Counting, Committing, CommittingMove, VoteMoves, NEW s \in Server
  PROVE  Durable(s)
<1>1. PICK L, L2 \in TermLogs, K, K2 \in Stores : Move(L, L2, K, K2)
  BY Zenon DEF CommittingMove
<1>2. /\ currentTerm[s] \in Nat /\ currentTerm'[s] \in Nat
      /\ currentTerm[s] <= currentTerm'[s]
      /\ log[s] \in Seq(Entry) /\ log'[s] \in Seq(Entry)
  BY Zenon, <1>1, MoveTypes
<1>3. commitIndex'[s] >= commitIndex[s] /\ Agree(log[s], log'[s], commitIndex[s])
  BY DurableAgrees
<1>4. commitIndex[s] \in Nat
  BY DEF Committing, VoteInv, TypeInv, TypeOK
<1>5. SubSeq(log'[s], 1, commitIndex[s]) = SubSeq(log[s], 1, commitIndex[s])
  BY Zenon, <1>2, <1>3, <1>4, AgreeSubSeq
<1>6. currentTerm'[s] = currentTerm[s] => votedFor[s] \in {None, votedFor'[s]}
  BY Zenon DEF VoteMoves
<1>. QED
  BY Zenon, <1>2, <1>3, <1>5, <1>6 DEF Durable

-----------------------------------------------------------------------------
(* The refinement of ReplicatedLog *)

\* Some node knows the longest committed prefix, and that prefix is chosen.
ChosenHeld ==
  \E s \in Server : /\ \A t \in Server : commitIndex[t] <= commitIndex[s]
                    /\ chosen \in Seq(Entry) /\ Len(chosen) = commitIndex[s]
                    /\ \A k \in 1..commitIndex[s] : chosen[k] = log[s][k]

\* The longest committed prefix is well defined.
LEMMA ChosenIs ==
  ASSUME Counting, Committing
  PROVE  ChosenHeld
<1>. DEFINE Top(s) == \A t \in Server : commitIndex[t] <= commitIndex[s]
<1>1. commitIndex \in [Server -> Nat]
  BY DEF Committing, VoteInv, TypeInv, TypeOK
<1>2. \E s \in Server : Top(s)
  BY Zenon, <1>1 DEF Counting
<1>3. PICK s \in Server : s = CHOOSE x \in Server : Top(x)
  BY <1>2
<1>4. Top(s)
  BY Zenon, <1>2, <1>3
<1>5. chosen = SubSeq(log[s], 1, commitIndex[s])
  BY <1>3 DEF chosen
<1>6. commitIndex[s] \in Nat /\ commitIndex[s] <= Len(log[s]) /\ log[s] \in Seq(Entry)
  BY Zenon, CommitInLog DEF Committing, VoteInv, TypeInv, TypeOK
<1>7. Len(log[s]) \in Nat
  BY Zenon, <1>6, SeqLen
<1>8. /\ chosen \in Seq(Entry) /\ Len(chosen) = commitIndex[s]
      /\ \A k \in 1..commitIndex[s] : chosen[k] = log[s][k]
  BY ONLY <1>5, <1>6, <1>7
<1>. QED
  BY Zenon, <1>4, <1>8 DEF ChosenHeld

\* The two facts about a state that the mapping rests on.
OneHistory ==
  /\ ChosenHeld
  /\ \A a, b \in Server : commitIndex[a] <= commitIndex[b] =>
       Agree(log[a], log[b], commitIndex[a])
  /\ log \in [Server -> Seq(Entry)] /\ commitIndex \in [Server -> Nat]

\* Both hold in every reachable state.
LEMMA OneHistoryHolds ==
  ASSUME Counting
  PROVE  Committing => OneHistory
<1>. SUFFICES ASSUME Committing PROVE OneHistory
  BY Zenon
<1>. log \in [Server -> Seq(Entry)] /\ commitIndex \in [Server -> Nat]
  BY Zenon DEF Committing, VoteInv, TypeInv, TypeOK
<1>. QED
  BY ChosenIs, CommittedAgree DEF OneHistory

\* A step extends the longest committed prefix.
LEMMA PrefixGrows ==
  ASSUME Counting, OneHistory, OneHistory', CommittingMove
  PROVE  /\ chosen \in Seq(Entry) /\ chosen' \in Seq(Entry)
         /\ Len(chosen) <= Len(chosen')
         /\ \A k \in 1..Len(chosen) : chosen[k] = chosen'[k]
<1>1. PICK s \in Server : /\ \A t \in Server : commitIndex[t] <= commitIndex[s]
                          /\ chosen \in Seq(Entry) /\ Len(chosen) = commitIndex[s]
                          /\ \A k \in 1..commitIndex[s] : chosen[k] = log[s][k]
  BY Zenon DEF OneHistory, ChosenHeld
<1>2. PICK r \in Server : /\ \A t \in Server : commitIndex'[t] <= commitIndex'[r]
                          /\ chosen' \in Seq(Entry) /\ Len(chosen') = commitIndex'[r]
                          /\ \A k \in 1..commitIndex'[r] : chosen'[k] = log'[r][k]
  BY Zenon DEF OneHistory, ChosenHeld
<1>3. /\ commitIndex[s] \in Nat /\ commitIndex'[s] \in Nat /\ commitIndex'[r] \in Nat
      /\ log[s] \in Seq(Entry) /\ log'[s] \in Seq(Entry) /\ log'[r] \in Seq(Entry)
  BY Zenon DEF OneHistory
<1>4. commitIndex'[s] >= commitIndex[s] /\ Agree(log[s], log'[s], commitIndex[s])
  BY Zenon, DurableAgrees
<1>5. commitIndex'[s] <= commitIndex'[r] /\ Agree(log'[s], log'[r], commitIndex'[s])
  BY Zenon, <1>2 DEF OneHistory
<1>6. ASSUME NEW k \in 1..commitIndex[s] PROVE chosen[k] = chosen'[k]
  <2>. k \in 1..commitIndex'[s] /\ k \in 1..commitIndex'[r]
    BY ONLY <1>3, <1>4, <1>5
  <2>. log[s][k] = log'[s][k] /\ log'[s][k] = log'[r][k]
    BY Zenon, <1>4, <1>5 DEF Agree
  <2>. QED
    BY Zenon, <1>1, <1>2
<1>7. Len(chosen) <= Len(chosen')
  BY ONLY SMTT(30), <1>1, <1>2, <1>3, <1>4, <1>5
<1>. QED
  BY Zenon, <1>1, <1>2, <1>6, <1>7

\* Its length is the greatest commit index.
LEMMA ChosenReaches ==
  ASSUME OneHistory
  PROVE  /\ Len(chosen) \in Nat
         /\ \A t \in Server : commitIndex[t] <= Len(chosen)
         /\ \E t \in Server : commitIndex[t] = Len(chosen)
  BY Zenon DEF OneHistory, ChosenHeld

\* A step that moves no commit index changes nothing a state machine sees; a step
\* that moves one is that node learning more of the one committed sequence.
LEMMA StepLearns ==
  ASSUME Counting, OneHistory, OneHistory', CommittingMove, CommitMoves
  PROVE  [\E s \in Server : Abstract!Learn(s)]_(Abstract!vars)
<1>1. /\ chosen \in Seq(Entry) /\ chosen' \in Seq(Entry)
      /\ Len(chosen) <= Len(chosen')
      /\ \A k \in 1..Len(chosen) : chosen[k] = chosen'[k]
  BY Zenon, PrefixGrows
<1>2. Len(chosen) \in Nat /\ Len(chosen') \in Nat
  BY Zenon, <1>1, SeqLen
<1>3. SubSeq(chosen', 1, Len(chosen)) = chosen
  BY ONLY <1>1, <1>2
<1>4. /\ \A t \in Server : commitIndex[t] <= Len(chosen)
      /\ \E t \in Server : commitIndex[t] = Len(chosen)
  BY Zenon, ChosenReaches
<1>5. /\ \A t \in Server : commitIndex'[t] <= Len(chosen')
      /\ \E t \in Server : commitIndex'[t] = Len(chosen')
  BY Zenon DEF OneHistory, ChosenHeld
<1>6. commitIndex \in [Server -> Nat] /\ commitIndex' \in [Server -> Nat]
  BY Zenon DEF OneHistory
<1>7. PICK s \in Server : \A x \in Server \ {s} : commitIndex'[x] = commitIndex[x]
  BY Zenon DEF CommitMoves
<1>8. commitIndex'[s] >= commitIndex[s]
  BY Zenon, DurableAgrees
<1>9. CASE commitIndex'[s] = commitIndex[s]
  <2>. commitIndex' = commitIndex
    BY ONLY <1>6, <1>7, <1>9
  <2>. Len(chosen') = Len(chosen)
    BY <1>2, <1>4, <1>5, <1>6
  <2>. chosen' = chosen
    BY <1>1
  <2>. QED
    BY DEF Abstract!vars
<1>10. CASE commitIndex'[s] # commitIndex[s]
  <2>1. commitIndex'[s] > commitIndex[s]
    BY ONLY <1>6, <1>8, <1>10
  <2>2. commitIndex' = [commitIndex EXCEPT ![s] = commitIndex'[s]]
    BY Zenon, <1>6, <1>7
  <2>3. Len(chosen') = IF commitIndex'[s] > Len(chosen) THEN commitIndex'[s] ELSE Len(chosen)
    BY ONLY SMTT(30), <1>1, <1>2, <1>4, <1>5, <1>6, <1>7
  <2>4. Abstract!Learn(s)
    BY <1>3, <2>1, <2>2, <2>3 DEF Abstract!Learn
  <2>. QED
    BY Zenon, <2>4
<1>. QED
  BY Zenon, <1>9, <1>10

\* Nothing is committed in the beginning.
LEMMA RefinementInit == Init => Abstract!Init
<1>. SUFFICES ASSUME Init PROVE chosen = <<>> /\ commitIndex = [s \in Server |-> 0]
  BY Zenon DEF Abstract!Init
<1>. commitIndex = [s \in Server |-> 0] /\ log = [s \in Server |-> <<>>]
  BY DEF Init
<1>. PICK s \in Server : s = CHOOSE x \in Server : \A t \in Server : commitIndex[t] <= commitIndex[x]
  BY ServerAssumption
<1>. chosen = SubSeq(<<>>, 1, 0)
  BY DEF chosen
<1>. QED
  OBVIOUS

=============================================================================
