------------------------- MODULE RaftProgressProofs -------------------------
(***************************************************************************)
(* That every shape of a step keeps ProgressInv, the invariant on the      *)
(* progress of leaders, of the term logs L and the stores K.               *)
(***************************************************************************)
EXTENDS RaftLogProofs

-----------------------------------------------------------------------------
(* Stores *)

\* The bounds on what was stored.
LEMMA BoundsStep ==
  ASSUME NEW L \in TermLogs, NEW L2 \in TermLogs, NEW K \in Stores, NEW K2 \in Stores,
         GhostMoves(L, L2, K, K2), StoreBounds(L, K), TypeOK, TypeOK',
         \A s \in Server : currentTerm'[s] >= currentTerm[s]
  PROVE  StoreBounds(L2, K2)'
<1>. SUFFICES ASSUME NEW t \in Nat, NEW p \in Server
              PROVE  K2[t][p] <= Len(L2[t]) /\ (K2[t][p] > 0 => t <= currentTerm'[p])
  BY DEF StoreBounds
<1>1. /\ K[t][p] \in Nat /\ K2[t][p] \in Nat
      /\ L[t] \in Seq(Entry) /\ L2[t] \in Seq(Entry) /\ Len(L[t]) \in Nat /\ Len(L2[t]) \in Nat
      /\ currentTerm[p] \in Nat /\ currentTerm'[p] \in Nat /\ currentTerm'[p] >= currentTerm[p]
  <2>1. L[t] \in Seq(Entry) /\ L2[t] \in Seq(Entry)
    BY DEF TermLogs
  <2>2. currentTerm[p] \in Nat /\ currentTerm'[p] \in Nat
    BY DEF TypeOK
  <2>3. K[t][p] \in Nat /\ K2[t][p] \in Nat
    BY DEF Stores
  <2>4. Len(L[t]) \in Nat /\ Len(L2[t]) \in Nat
    BY <2>1, SeqLen
  <2>. QED
    BY <2>1, <2>2, <2>3, <2>4
<1>2. NodeMoves(L2, K, K2, p)
  BY DEF GhostMoves
<1>3. CASE K2[t][p] = K[t][p]
  <2>. Len(L[t]) <= Len(L2[t])
    BY DEF GhostMoves, Extends, StartsWith, Agree
  <2>. K[t][p] <= Len(L[t]) /\ (K[t][p] > 0 => t <= currentTerm[p])
    BY DEF StoreBounds
  <2>. QED
    BY <1>1, <1>3
<1>4. CASE K2[t][p] # K[t][p]
  <2>. t = currentTerm'[p]
    BY Zenon, <1>2, <1>4 DEF NodeMoves
  <2>. Len(log'[p]) <= Len(L2[t]) /\ K2[t][p] = Len(log'[p])
    BY Zenon, <1>2, <1>4 DEF NodeMoves, StartsWith, Agree
  <2>. QED
    BY <1>1
<1>. QED
  BY <1>3, <1>4

\* A node in sync with its term stays so.
LEMMA SyncedStep ==
  ASSUME NEW L \in TermLogs, NEW L2 \in TermLogs, NEW K \in Stores, NEW K2 \in Stores,
         GhostMoves(L, L2, K, K2), StoreBounds(L, K), Synced(L, K), TypeOK, TypeOK',
         \A s \in Server : currentTerm'[s] >= currentTerm[s]
  PROVE  Synced(L2, K2)'
<1>. SUFFICES ASSUME NEW p \in Server, NEW t \in Nat, t = currentTerm'[p], K2[t][p] # 0
              PROVE  K2[t][p] = Len(log'[p]) /\ StartsWith(L2[t], log'[p])
  BY DEF Synced
<1>. /\ K[t][p] \in Nat
     /\ L[t] \in Seq(Entry) /\ L2[t] \in Seq(Entry) /\ Len(L[t]) \in Nat /\ Len(L2[t]) \in Nat
     /\ currentTerm[p] \in Nat /\ currentTerm'[p] >= currentTerm[p]
     /\ log[p] \in Seq(Entry) /\ Len(log[p]) \in Nat
  BY SeqLen DEF Stores, TermLogs, TypeOK
<1>. NodeMoves(L2, K, K2, p)
  BY DEF GhostMoves
<1>. CASE log'[p] = log[p] /\ K2[t][p] = K[t][p]
  <2>1. t = currentTerm[p]
    BY DEF StoreBounds
  <2>2. K[t][p] = Len(log[p]) /\ StartsWith(L[t], log[p])
    BY Zenon, <2>1 DEF Synced
  <2>3. StartsWith(L2[t], L[t])
    BY DEF GhostMoves, Extends
  <2>4. StartsWith(L2[t], log[p])
    <3>1. Agree(log[p], L[t], Len(log[p])) /\ Len(log[p]) <= Len(L[t])
      BY Zenon, <2>2 DEF StartsWith, Agree
    <3>2. Agree(L[t], L2[t], Len(log[p]))
      BY Zenon, <2>3, <3>1, AgreeBelow DEF StartsWith
    <3>. QED
      BY Zenon, <3>1, <3>2, AgreeTrans DEF StartsWith
  <2>. QED
    BY Zenon, <2>2, <2>4
<1>. QED
  BY DEF NodeMoves

\* Any node's log matches any term's.
LEMMA LogsMatched ==
  ASSUME NEW L \in TermLogs, VoteInv, MatchInv(L), NEW p \in Server, NEW t \in Nat
  PROVE  Matched(log[p], L[t]) /\ TermsWithin(log[p], currentTerm[p])
<1>. /\ log[p] \in Seq(Entry) /\ L[t] \in Seq(Entry) /\ currentTerm[p] \in Nat
     /\ Explained(L, log[p], currentTerm[p]) /\ Explained(L, L[t], t)
  BY Zenon DEF VoteInv, TypeInv, TypeOK, TermLogs, MatchInv, NodesExplained, TermsExplained
<1>. Matched(log[p], L[t])
  BY ExplainedAgree DEF Matched
<1>. TermsWithin(log[p], currentTerm[p])
  BY DEF TermsWithin, Explained
<1>. QED
  OBVIOUS

\* A place stays good in a step.
LEMMA PlacedStep ==
  ASSUME NEW L \in TermLogs, NEW L2 \in TermLogs, NEW K \in Stores, NEW K2 \in Stores,
         GhostMoves(L, L2, K, K2), VoteInv, VoteInv', MatchInv(L), StepFacts,
         NEW p \in Server, NEW t \in Nat, NEW n \in 1..(Len(L[t]) + 1), NEW e, NEW e2,
         n <= e => n <= e2, Placed(L[t], log[p], currentTerm[p], t, n, e)
  PROVE  Placed(L2[t], log'[p], currentTerm'[p], t, n, e2)
<1>. /\ L[t] \in Seq(Entry) /\ L2[t] \in Seq(Entry) /\ StartsWith(L2[t], L[t])
     /\ log[p] \in Seq(Entry) /\ log'[p] \in Seq(Entry)
     /\ currentTerm[p] \in Nat /\ currentTerm'[p] \in Nat /\ currentTerm[p] <= currentTerm'[p]
  BY DEF TermLogs, GhostMoves, Extends, VoteInv, TypeInv, TypeOK, StepFacts
<1>. Matched(log[p], L[t]) /\ TermsWithin(log[p], currentTerm[p])
  BY Zenon, LogsMatched
<1>. log'[p] = log[p] \/ (currentTerm'[p] = t => StartsWith(L2[t], log'[p]))
  BY Zenon DEF GhostMoves, NodeMoves
<1>. QED
  BY Zenon, PlacedStays

\* A response stays sound.
LEMMA ResponseStep ==
  ASSUME NEW L \in TermLogs, NEW L2 \in TermLogs, NEW K \in Stores, NEW K2 \in Stores,
         GhostMoves(L, L2, K, K2), TypeOK, TypeOK',
         \A s \in Server : currentTerm'[s] >= currentTerm[s],
         NEW r \in AppendResult, ResponseSound(L, K, r)
  PROVE  ResponseSound(L2, K2, r)'
<1>. DEFINE p == r.src
            t == r.term
<1>1. /\ p \in Server /\ t \in Nat /\ r.matchIndex \in Nat /\ r.prevIndex \in Nat
      /\ r.success \in BOOLEAN
  BY DEF AppendResult
<1>. HIDE DEF p, t
<1>2. /\ currentTerm[p] \in Nat /\ currentTerm'[p] \in Nat /\ currentTerm[p] <= currentTerm'[p]
      /\ log[p] \in Seq(Entry) /\ Len(log[p]) \in Nat
      /\ L[t] \in Seq(Entry) /\ L2[t] \in Seq(Entry) /\ StartsWith(L2[t], L[t])
      /\ Len(L[t]) \in Nat /\ Len(L2[t]) \in Nat
  BY Zenon, <1>1, SeqLen DEF TypeOK, TermLogs, GhostMoves, Extends
<1>3. t <= currentTerm'[p]
  BY <1>1, <1>2 DEF ResponseSound, p, t
<1>4. ASSUME r.success PROVE r.matchIndex <= K2[t][p]
  <2>. r.matchIndex <= K[t][p]
    BY <1>4 DEF ResponseSound, p, t
  <2>. K[t][p] \in Nat /\ K2[t][p] \in Nat /\ K[t][p] <= K2[t][p]
    BY <1>1, StoresGrow
  <2>. QED
    BY <1>1
<1>5. ASSUME ~r.success, t = currentTerm'[p]
      PROVE  Hint(L2[t], log'[p], r.prevIndex, r.conflictIndex, r.conflictTerm)
  <2>. CASE StartsWith(L2[t], log'[p])
    BY Zenon DEF Hint
  <2>. CASE log'[p] = log[p]
    <3>1. t = currentTerm[p]
      BY <1>1, <1>2, <1>5 DEF ResponseSound, p, t
    <3>2. Hint(L[t], log[p], r.prevIndex, r.conflictIndex, r.conflictTerm)
      BY Zenon, <1>5, <3>1 DEF ResponseSound, p, t
    <3>3. StartsWith(L[t], log[p]) => StartsWith(L2[t], log[p])
      BY <1>2 DEF StartsWith, Agree
    <3>4. \A k \in 1..Len(log[p]) : k <= Len(L[t]) => k <= Len(L2[t]) /\ L2[t][k] = L[t][k]
      BY ONLY <1>2 DEF StartsWith, Agree
    <3>. QED
      BY Zenon, <3>2, <3>3, <3>4 DEF Hint
  <2>. QED
    BY Zenon, <1>1, <1>5 DEF GhostMoves, NodeMoves
<1>. QED
  BY <1>3, <1>4, <1>5 DEF ResponseSound, p, t

\* A leader in office moves a peer's progress to places that are good and to
\* entries the peer stored.
LEMMA NextMoves ==
  ASSUME Counting, NEW L \in TermLogs, NEW K \in Stores, VoteInv, MatchInv(L), ProgressInv(L, K),
         StepFacts, NEW s \in Server, NEW p \in peers(s), NEW t \in Nat, t = currentTerm[s],
         role[s] = "Leader", role'[s] = "Leader"
  PROVE  /\ nextIndex'[s][p] \in 1..(Len(L[t]) + 1)
         /\ Placed(L[t], log[p], currentTerm[p], t, nextIndex'[s][p],
                   Len(log[s]))
         /\ matchIndex'[s][p] <= K[t][p]
<1>1. TypeOK /\ NextInLog /\ p \in Server
  BY DEF VoteInv, TypeInv, peers
<1>2. log[s] = L[t] /\ L[t] # <<>>
  BY Zenon DEF MatchInv, Offices
<1>3. /\ L[t] \in Seq(Entry) /\ Len(L[t]) \in Nat /\ log[p] \in Seq(Entry) /\ K[t][p] \in Nat
      /\ nextIndex[s][p] \in Nat /\ matchIndex[s][p] \in Nat /\ currentTerm[p] \in Nat
  <2>. L[t] \in Seq(Entry) /\ K[t][p] \in Nat
    BY <1>1 DEF TermLogs, Stores
  <2>. nextIndex[s][p] \in Nat /\ matchIndex[s][p] \in Nat /\ currentTerm[p] \in Nat
    BY <1>1 DEF TypeOK
  <2>. QED
    BY Zenon, <1>1, SeqLen DEF TypeOK
<1>4. /\ nextIndex[s][p] \in 1..(Len(L[t]) + 1)
      /\ Placed(L[t], log[p], currentTerm[p], t, nextIndex[s][p], Len(log[s]))
      /\ matchIndex[s][p] <= K[t][p]
  BY <1>1, <1>2 DEF NextInLog, lastIndex, ProgressInv, NextPlaced, MatchStored
<1>5. CASE nextIndex'[s][p] = nextIndex[s][p] /\ matchIndex'[s][p] = matchIndex[s][p]
  BY Zenon, <1>4, <1>5
<1>6. ASSUME NEW r \in appendResponses, r.src = p, r.term = t, ValidAck(s, r),
             nextIndex'[s][p] = Max({nextIndex[s][p], r.matchIndex + 1}),
             matchIndex'[s][p] = Max({matchIndex[s][p], r.matchIndex})
      PROVE  /\ nextIndex'[s][p] \in 1..(Len(L[t]) + 1)
             /\ Placed(L[t], log[p], currentTerm[p], t, nextIndex'[s][p],
                       Len(log[s]))
             /\ matchIndex'[s][p] <= K[t][p]
  <2>1. r.matchIndex \in Nat /\ r.matchIndex <= Len(L[t]) /\ r.success
    BY Zenon, <1>1, <1>2, <1>6 DEF TypeOK, AppendResult, ValidAck, lastIndex
  <2>2. r.matchIndex <= K[t][p]
    BY Zenon, <1>6, <2>1 DEF ProgressInv, ResponseSound
  <2>3. matchIndex'[s][p] = IF matchIndex[s][p] <= r.matchIndex THEN r.matchIndex
                            ELSE matchIndex[s][p]
    BY Zenon, <1>3, <1>6, <2>1, MaxOfTwo
  <2>4. nextIndex'[s][p] = IF nextIndex[s][p] <= r.matchIndex + 1 THEN r.matchIndex + 1
                           ELSE nextIndex[s][p]
    <3>. r.matchIndex + 1 \in Nat
      BY <2>1
    <3>. QED
      BY Zenon, <1>3, <1>6, MaxOfTwo
  <2>5. nextIndex'[s][p] \in 1..(Len(L[t]) + 1) /\ matchIndex'[s][p] <= K[t][p]
    BY ONLY <1>3, <1>4, <2>1, <2>2, <2>3, <2>4
  <2>6. CASE nextIndex'[s][p] = nextIndex[s][p]
    BY <1>4, <2>5, <2>6
  <2>7. CASE nextIndex'[s][p] # nextIndex[s][p]
    <3>1. K[t][p] > 0
      BY ONLY <1>3, <1>4, <2>1, <2>2, <2>4, <2>7
    <3>2. ~(currentTerm[p] < t)
      BY <1>1, <1>3, <3>1 DEF ProgressInv, StoreBounds
    <3>3. currentTerm[p] = t => StartsWith(L[t], log[p])
      BY <1>1, <1>3, <3>1 DEF ProgressInv, Synced
    <3>4. Placed(L[t], log[p], currentTerm[p], t, nextIndex'[s][p],
                 Len(log[s]))
      BY Zenon, <3>2, <3>3 DEF Placed
    <3>. QED
      BY Zenon, <2>5, <3>4
  <2>. QED
    BY Zenon, <2>6, <2>7
<1>7. ASSUME NEW r \in appendResponses, r.src = p, r.term = t, LatestProbe(s, r),
             nextIndex'[s][p] =
               nextIndexAfterConflict(log[s], r.conflictIndex, r.conflictTerm),
             matchIndex'[s][p] = matchIndex[s][p]
      PROVE  /\ nextIndex'[s][p] \in 1..(Len(L[t]) + 1)
             /\ Placed(L[t], log[p], currentTerm[p], t, nextIndex'[s][p],
                       Len(log[s]))
             /\ matchIndex'[s][p] <= K[t][p]
  <2>1. /\ r.conflictIndex \in Nat /\ r.conflictTerm \in Nat /\ r.prevIndex \in Nat
        /\ ~r.success
    BY Zenon, <1>1, <1>7 DEF TypeOK, AppendResult, LatestProbe
  <2>2. nextIndex'[s][p] \in 1..(Len(L[t]) + 1)
    BY Zenon, <1>2, <1>3, <1>7, <2>1, NextIndexAfterConflictRange DEF lastIndex
  <2>3. t <= currentTerm[p]
    BY Zenon, <1>7 DEF ProgressInv, ResponseSound
  <2>4. CASE currentTerm[p] = t
    <3>. Hint(L[t], log[p], r.prevIndex, r.conflictIndex, r.conflictTerm)
      BY Zenon, <1>7, <2>1, <2>4 DEF ProgressInv, ResponseSound
    <3>. Explained(L, log[p], t) /\ TermsExplained(L) /\ EndsInTerm(L)
      BY Zenon, <1>1, <2>4 DEF MatchInv, NodesExplained
    <3>. Placed(L[t], log[p], t, t, nextIndex'[s][p], Len(L[t]))
      BY Zenon, <1>2, <1>3, <1>7, <2>1, HintPlaces
    <3>. QED
      BY Zenon, <1>2, <1>4, <1>7, <2>2, <2>4
  <2>5. CASE currentTerm[p] > t
    <3>. Placed(L[t], log[p], currentTerm[p], t, nextIndex'[s][p],
                Len(log[s]))
      BY <1>3, <2>5 DEF Placed
    <3>. QED
      BY Zenon, <1>4, <1>7, <2>2
  <2>. QED
    BY ONLY <1>3, <2>3, <2>4, <2>5
<1>8. \/ nextIndex'[s][p] = nextIndex[s][p] /\ matchIndex'[s][p] = matchIndex[s][p]
      \/ \E r \in appendResponses :
           /\ r.src = p /\ r.term = t
           /\ \/ /\ ValidAck(s, r)
                 /\ nextIndex'[s][p] = Max({nextIndex[s][p], r.matchIndex + 1})
                 /\ matchIndex'[s][p] = Max({matchIndex[s][p], r.matchIndex})
              \/ /\ LatestProbe(s, r)
                 /\ nextIndex'[s][p] =
                      nextIndexAfterConflict(log[s], r.conflictIndex, r.conflictTerm)
                 /\ matchIndex'[s][p] = matchIndex[s][p]
  BY Zenon DEF StepFacts, ProgressMoves
<1>. QED
  BY Zenon, <1>5, <1>6, <1>7, <1>8

\* A leader that takes office in this step starts each peer at its old log end.
TakesOffice(s) ==
  /\ matchIndex'[s] = NoProgress
  /\ \A p \in peers(s) : nextIndex'[s][p] = Len(log'[s])

\* A leader stays in office or takes it.
OfficeMoves ==
  \A s \in Server : role'[s] = "Leader" =>
    \/ role[s] = "Leader" /\ currentTerm'[s] = currentTerm[s] /\ Len(log[s]) <= Len(log'[s])
    \/ TakesOffice(s)

-----------------------------------------------------------------------------
(* Responses and indices *)

\* The progress invariant in one step, given what the step does to logs.
LEMMA ProgressRest ==
  ASSUME Counting, NEW L \in TermLogs, NEW L2 \in TermLogs, NEW K \in Stores, NEW K2 \in Stores,
         GhostMoves(L, L2, K, K2), VoteInv, VoteInv', MatchInv(L), MatchInv(L2)',
         ProgressInv(L, K), StepFacts, OfficeMoves, LeadersStore(K2)',
         \A r \in appendResponses' : r \in appendResponses \/ ResponseSound(L2, K2, r)'
  PROVE  ProgressInv(L2, K2)'
<1>1. TypeOK /\ TypeOK' /\ NextInLog'
  BY DEF VoteInv, TypeInv
<1>2. \A x \in Server : currentTerm'[x] >= currentTerm[x]
  BY Zenon DEF StepFacts
<1>3. StoreBounds(L2, K2)'
  BY Zenon, <1>1, <1>2, BoundsStep DEF ProgressInv
<1>4. Synced(L2, K2)'
  BY Zenon, <1>1, <1>2, SyncedStep DEF ProgressInv
<1>5. ASSUME NEW r \in appendResponses' PROVE ResponseSound(L2, K2, r)'
  <2>. CASE r \in appendResponses
    <3>. r \in AppendResult /\ ResponseSound(L, K, r)
      BY <1>1 DEF TypeOK, ProgressInv
    <3>. QED
      BY Zenon, <1>1, <1>2, ResponseStep
  <2>. QED
    BY Zenon
<1>6. ASSUME NEW s \in Server, role'[s] = "Leader", NEW p \in peers(s)
      PROVE  /\ Placed(L2[currentTerm'[s]], log'[p], currentTerm'[p], currentTerm'[s],
                       nextIndex'[s][p], Len(log'[s]))
             /\ matchIndex'[s][p] <= K2[currentTerm'[s]][p]
  <2>1. p \in Server
    BY DEF peers
  <2>2. PICK t \in Nat : t = currentTerm'[s]
    BY <1>1 DEF TypeOK
  <2>3. log'[s] = L2[t] /\ L2[t] # <<>>
    BY Zenon, <1>6, <2>2 DEF MatchInv, Offices
  <2>4. CASE TakesOffice(s)
    <3>. Placed(L2[t], log'[p], currentTerm'[p], t, nextIndex'[s][p],
                Len(L2[t]))
      <4>1. log'[p] \in Seq(Entry) /\ currentTerm'[p] \in Nat
        BY <1>1, <2>1 DEF TypeOK
      <4>2. currentTerm'[p] = t => Explained(L2, log'[p], t)
        BY Zenon, <2>1 DEF MatchInv, NodesExplained
      <4>3. TermsExplained(L2) /\ EndsInTerm(L2)
        BY Zenon DEF MatchInv, TermsExplained, EndsInTerm
      <4>4. nextIndex'[s][p] = Len(L2[t])
        BY Zenon, <2>3, <2>4 DEF TakesOffice
      <4>. QED
        BY Zenon, <2>3, <4>1, <4>2, <4>3, <4>4, FreshPlaced
    <3>1. matchIndex'[s][p] <= K2[t][p]
      <4>1. matchIndex'[s][p] = 0 /\ K2[t][p] \in Nat
        BY Zenon, <2>1, <2>4 DEF TakesOffice, NoProgress, Stores
      <4>. QED
        BY Zenon, <4>1, NatRefl
    <3>. QED
      BY Zenon, <2>2, <2>3, <3>1
  <2>5. CASE role[s] = "Leader" /\ currentTerm'[s] = currentTerm[s] /\ Len(log[s]) <= Len(log'[s])
    <3>1. /\ nextIndex'[s][p] \in 1..(Len(L[t]) + 1)
          /\ Placed(L[t], log[p], currentTerm[p], t, nextIndex'[s][p],
                    Len(log[s]))
          /\ matchIndex'[s][p] <= K[t][p]
      BY Zenon, <1>6, <2>2, <2>5, NextMoves
    <3>2. nextIndex'[s][p] <= Len(log[s]) => nextIndex'[s][p] <= Len(log'[s])
      <4>. nextIndex'[s][p] \in Nat /\ matchIndex'[s][p] \in Nat
        BY Zenon, <1>1, <2>1 DEF TypeOK
      <4>. log[s] \in Seq(Entry) /\ log'[s] \in Seq(Entry)
        BY Zenon, <1>1 DEF TypeOK
      <4>. Len(log[s]) \in Nat /\ Len(log'[s]) \in Nat
        BY SeqLen
      <4>. QED
        BY <2>5
    <3>3. Placed(L2[t], log'[p], currentTerm'[p], t, nextIndex'[s][p],
                 Len(log'[s]))
      BY Zenon, <2>1, <3>1, <3>2, PlacedStep
    <3>4. matchIndex'[s][p] <= K2[t][p]
      <4>. matchIndex'[s][p] \in Nat
        BY <1>1, <2>1 DEF TypeOK
      <4>. K[t][p] \in Nat /\ K2[t][p] \in Nat /\ K[t][p] <= K2[t][p]
        BY Zenon, <1>1, <2>1, StoresGrow
      <4>. QED
        BY <3>1
    <3>. QED
      BY Zenon, <2>2, <3>3, <3>4
  <2>. QED
    BY Zenon, <1>6, <2>4, <2>5 DEF OfficeMoves
<1>7. NextPlaced(L2)' /\ MatchStored(K2)'
  BY Zenon, <1>6 DEF NextPlaced, MatchStored
<1>8. ASSUME NEW m \in appendRequests'
      PROVE  Placed(L2[m.term], log'[m.dst], currentTerm'[m.dst], m.term, m.prevIndex + 1,
                    m.prevIndex + Len(m.entries))
  <2>. CASE m \in appendRequests
    <3>1. m \in AppendRequest /\ SliceOf(L[m.term], m)
      BY Zenon, <1>1 DEF TypeOK, MatchInv, Slices
    <3>2. /\ m.term \in Nat /\ m.dst \in Server /\ m.prevIndex \in Nat
          /\ m.entries \in Seq(Entry) /\ Len(m.entries) \in Nat
      BY <3>1, SeqLen DEF AppendRequest
    <3>3. L[m.term] \in Seq(Entry) /\ Len(L[m.term]) \in Nat
      BY Zenon, <3>2, SeqLen DEF TermLogs
    <3>4. m.prevIndex + 1 \in 1..(Len(L[m.term]) + 1)
      BY <3>1, <3>2, <3>3 DEF SliceOf
    <3>5. Placed(L[m.term], log[m.dst], currentTerm[m.dst], m.term, m.prevIndex + 1,
                 m.prevIndex + Len(m.entries))
      BY Zenon DEF ProgressInv, RequestsPlaced
    <3>6. PICK t \in Nat, p \in Server, n \in Nat, e \in Nat :
            t = m.term /\ p = m.dst /\ n = m.prevIndex + 1 /\ e = m.prevIndex + Len(m.entries)
      <4>. m.prevIndex + 1 \in Nat /\ m.prevIndex + Len(m.entries) \in Nat
        BY ONLY <3>2
      <4>. QED
        BY Zenon, <3>2
    <3>7. n \in 1..(Len(L[t]) + 1) /\ (n <= e => n <= e)
          /\ Placed(L[t], log[p], currentTerm[p], t, n, e)
      BY Zenon, <3>4, <3>5, <3>6
    <3>8. Placed(L2[t], log'[p], currentTerm'[p], t, n, e)
      BY Zenon, <3>7, PlacedStep
    <3>. QED
      BY <3>6, <3>8
  <2>. CASE m \notin appendRequests
    <3>1. PICK s \in Server : \E p \in peers(s) : SentBy(m, s, p)
      BY Zenon, SentSlice DEF VoteInv, StepFacts
    <3>2. PICK p \in peers(s) : SentBy(m, s, p)
      BY Zenon, <3>1
    <3>3. /\ role'[s] = "Leader" /\ m.dst = p /\ m.term = currentTerm'[s]
          /\ nextIndex'[s][p] \in 1..(Len(log'[s]) + 1)
          /\ m.prevIndex = nextIndex'[s][p] - 1
          /\ m.entries = <<>> <=> nextIndex'[s][p] > Len(log'[s])
      BY Zenon, <3>2 DEF SentBy
    <3>4. m.prevIndex + 1 = nextIndex'[s][p]
      <4>. Len(log'[s]) \in Nat
        BY Zenon, <3>2, SeqLen DEF SentBy
      <4>. QED
        BY <3>3
    <3>5. Placed(L2[currentTerm'[s]], log'[p], currentTerm'[p], currentTerm'[s],
                 nextIndex'[s][p], Len(log'[s]))
      BY Zenon, <1>6, <3>3
    <3>6. Placed(L2[currentTerm'[s]], log'[p], currentTerm'[p], currentTerm'[s],
                 nextIndex'[s][p], m.prevIndex + Len(m.entries))
      <4>1. m \in AppendRequest
        BY Zenon, <1>1 DEF TypeOK
      <4>2. m.prevIndex \in Nat /\ m.entries \in Seq(Entry) /\ Len(m.entries) \in Nat
        BY Zenon, <4>1, SeqLen DEF AppendRequest
      <4>3. m.entries = <<>> <=> Len(m.entries) = 0
        BY Zenon, <4>2, SeqEmpty
      <4>4. nextIndex'[s][p] <= Len(log'[s]) => nextIndex'[s][p] <= m.prevIndex + Len(m.entries)
        <5>. Len(log'[s]) \in Nat
          BY Zenon, <3>2, SeqLen DEF SentBy
        <5>. QED
          BY ONLY <3>3, <3>4, <4>2, <4>3
      <4>. QED
        BY Zenon, <3>5, <4>4, PlacedWeaken
    <3>. QED
      BY Zenon, <3>3, <3>4, <3>6
  <2>. QED
    BY Zenon
<1>9. RequestsPlaced(L2)'
  BY Zenon, <1>8 DEF RequestsPlaced
<1>. QED
  BY <1>3, <1>4, <1>5, <1>7, <1>9 DEF ProgressInv

\* A step that appends nothing keeps what was stored.
LEMMA KeepProgress ==
  ASSUME Counting, NEW L \in TermLogs, NEW K \in Stores, VoteInv, VoteInv', MatchInv(L),
         ProgressInv(L, K), StepFacts, KeepStep
  PROVE  GhostMoves(L, L, K, K) /\ ProgressInv(L, K)'
<1>1. TypeOK /\ TypeOK'
  BY Zenon DEF VoteInv, TypeInv
<1>2. Extends(L, L)
  <2>. ASSUME NEW t \in Nat PROVE Len(L[t]) \in Nat
    BY Zenon, SeqLen DEF TermLogs
  <2>. QED
    BY DEF Extends, StartsWith, Agree
<1>3. GhostMoves(L, L, K, K)
  BY Zenon, <1>2 DEF GhostMoves, NodeMoves, KeepStep
<1>4. OfficeMoves
  <2>. ASSUME NEW s \in Server PROVE Len(log[s]) <= Len(log'[s])
    <3>. log[s] \in Seq(Entry) /\ log'[s] = log[s]
      BY <1>1 DEF TypeOK, KeepStep
    <3>. Len(log[s]) \in Nat
      BY SeqLen
    <3>. QED
      OBVIOUS
  <2>. QED
    BY DEF OfficeMoves, KeepStep
<1>5. LeadersStore(K)'
  BY Zenon DEF LeadersStore, KeepStep, ProgressInv
<1>6. ASSUME NEW r \in appendResponses', r \notin appendResponses
      PROVE  ResponseSound(L, K, r)'
  <2>. Refusal(r)
    BY Zenon, <1>6 DEF KeepStep
  <2>. r.src \in Server /\ log'[r.src] = log[r.src] /\ currentTerm'[r.src] \in Nat
    BY Zenon, <1>1 DEF Refusal, KeepStep, TypeOK
  <2>. QED
    BY DEF Refusal, ResponseSound, Hint, lastIndex
<1>7. MatchInv(L)'
  BY Zenon, KeepMatch
<1>8. ProgressInv(L, K)'
  BY Zenon, <1>3, <1>4, <1>5, <1>6, <1>7, ProgressRest
<1>. QED
  BY Zenon, <1>3, <1>8

\* A leader stores what it appends.
LEMMA GrowMoves ==
  ASSUME NEW L \in TermLogs, NEW K \in Stores, VoteInv, VoteInv', MatchInv(L),
         StoreBounds(L, K), NEW s \in Server, NEW t \in Nat, NEW L2, Growing(L, L2, s, t),
         NEW K2, Restored(K, K2, t, s, Len(log'[s]))
  PROVE  GhostMoves(L, L2, K, K2)
<1>1. L2 \in TermLogs /\ Extends(L, L2) /\ L2[t] = log'[s]
  <2>. Grown(L, L2, s, t)
    BY Zenon, GrowTerm
  <2>. QED
    BY Zenon DEF Grown
<1>2. /\ Len(log[s]) \in Nat /\ Len(log'[s]) = Len(log[s]) + 1
      /\ currentTerm'[s] = t /\ \A x \in Server \ {s} : log'[x] = log[x]
  <2>. AppendStep(s, t)
    BY Zenon DEF Growing
  <2>. QED
    BY Zenon, AppendFacts
<1>3. K[t][s] <= Len(log'[s])
  <2>1. Len(L[t]) <= Len(log[s])
    BY Zenon DEF Growing, StartsWith, Agree
  <2>2. K[t][s] <= Len(L[t]) /\ Len(L[t]) \in Nat
    BY Zenon, SeqLen DEF StoreBounds, TermLogs
  <2>3. K[t][s] \in Nat
    BY DEF Stores
  <2>. QED
    BY <1>2, <2>1, <2>2, <2>3
<1>4. NodeMoves(L2, K, K2, s)
  <2>1. StartsWith(L2[t], log'[s])
    BY <1>1, <1>2 DEF StartsWith, Agree
  <2>. QED
    BY Zenon, <1>2, <1>3, <2>1 DEF NodeMoves, Restored
<1>5. ASSUME NEW x \in Server, x # s PROVE NodeMoves(L2, K, K2, x)
  BY Zenon, <1>2, <1>5 DEF NodeMoves, Restored
<1>. QED
  BY Zenon, <1>1, <1>4, <1>5 DEF GhostMoves, Restored

\* And every other leader's store is as it was.
LEMMA GrowStores ==
  ASSUME NEW L, NEW K \in Stores, VoteInv, VoteInv', ProgressInv(L, K),
         NEW s \in Server, NEW t \in Nat, AppendStep(s, t),
         NEW K2, Restored(K, K2, t, s, Len(log'[s]))
  PROVE  LeadersStore(K2)'
<1>. SUFFICES ASSUME NEW x \in Server, role'[x] = "Leader"
              PROVE  K2[currentTerm'[x]][x] = Len(log'[x])
  BY DEF LeadersStore
<1>. /\ currentTerm \in [Server -> Nat] /\ log \in [Server -> Seq(Entry)]
  BY Zenon DEF VoteInv, TypeInv, TypeOK
<1>. CASE x = s
  BY Zenon DEF AppendStep, Restored
<1>. CASE x # s
  <2>. role[x] = "Leader" /\ log'[x] = log[x] /\ currentTerm'[x] = currentTerm[x]
    BY DEF AppendStep
  <2>. K[currentTerm[x]][x] = Len(log[x])
    BY Zenon DEF ProgressInv, LeadersStore
  <2>. QED
    BY Zenon DEF Restored
<1>. QED
  BY Zenon

\* A new leader's progress.
LEMMA LeadProgress ==
  ASSUME Counting, NEW L \in TermLogs, NEW K \in Stores, VoteInv, VoteInv', MatchInv(L),
         ProgressInv(L, K), StepFacts, NEW s \in Server, NEW t \in Nat, LeadStep(s, t),
         NEW L2, Regrown(L, L2, t, log'[s]),
         NEW K2, Restored(K, K2, t, s, Len(log'[s]))
  PROVE  GhostMoves(L, L2, K, K2) /\ ProgressInv(L2, K2)'
<1>1. AppendStep(s, t) /\ Growing(L, L2, s, t)
  BY Zenon, LeadGrows DEF LeadStep
<1>2. /\ Len(log'[s]) = Len(log[s]) + 1 /\ currentTerm'[s] = t
      /\ \A x \in Server \ {s} : log'[x] = log[x] /\ currentTerm'[x] = currentTerm[x]
  BY Zenon, <1>1, AppendFacts
<1>3. GhostMoves(L, L2, K, K2)
  <2>. StoreBounds(L, K)
    BY Zenon DEF ProgressInv
  <2>. QED
    BY Zenon, <1>1, GrowMoves
<1>4. LeadersStore(K2)'
  BY Zenon, <1>1, GrowStores
<1>5. OfficeMoves
  <2>. SUFFICES ASSUME NEW x \in Server, role'[x] = "Leader"
                PROVE  \/ /\ role[x] = "Leader" /\ currentTerm'[x] = currentTerm[x]
                          /\ Len(log[x]) <= Len(log'[x])
                       \/ TakesOffice(x)
    BY Zenon DEF OfficeMoves
  <2>. CASE x = s
    BY Zenon, <1>2 DEF LeadStep, TakesOffice, lastIndex
  <2>. CASE x # s
    <3>1. log[x] \in Seq(Entry)
      BY DEF VoteInv, TypeInv, TypeOK
    <3>2. Len(log[x]) \in Nat
      BY Zenon, <3>1, SeqLen
    <3>3. /\ role[x] = "Leader" /\ currentTerm'[x] = currentTerm[x] /\ log'[x] = log[x]
      BY Zenon, <1>1, <1>2 DEF AppendStep
    <3>. QED
      BY Zenon, <3>2, <3>3, NatRefl
  <2>. QED
    OBVIOUS
<1>6. MatchInv(L2)'
  BY Zenon, LeadMatch
<1>7. appendResponses' = appendResponses
  BY Zenon, <1>1 DEF AppendStep
<1>8. L2 \in TermLogs /\ K2 \in Stores
  BY DEF Regrown, Restored
<1>9. ProgressInv(L2, K2)'
  BY Zenon, <1>3, <1>4, <1>5, <1>6, <1>7, <1>8, ProgressRest
<1>. QED
  BY Zenon, <1>3, <1>9

\* A leader's progress after another entry.
LEMMA ExtendProgress ==
  ASSUME Counting, NEW L \in TermLogs, NEW K \in Stores, VoteInv, VoteInv', MatchInv(L),
         ProgressInv(L, K), StepFacts, NEW s \in Server, ExtendStep(s),
         NEW t \in Nat, t = currentTerm[s],
         NEW L2, Regrown(L, L2, t, log'[s]),
         NEW K2, Restored(K, K2, t, s, Len(log'[s]))
  PROVE  GhostMoves(L, L2, K, K2) /\ ProgressInv(L2, K2)'
<1>1. AppendStep(s, t) /\ Growing(L, L2, s, t)
  BY Zenon, ExtendGrows DEF ExtendStep
<1>2. /\ Len(log'[s]) = Len(log[s]) + 1 /\ currentTerm'[s] = t
      /\ \A x \in Server \ {s} : log'[x] = log[x] /\ currentTerm'[x] = currentTerm[x]
  BY Zenon, <1>1, AppendFacts
<1>3. GhostMoves(L, L2, K, K2)
  <2>. StoreBounds(L, K)
    BY Zenon DEF ProgressInv
  <2>. QED
    BY Zenon, <1>1, GrowMoves
<1>4. LeadersStore(K2)'
  BY Zenon, <1>1, GrowStores
<1>5. OfficeMoves
  <2>. SUFFICES ASSUME NEW x \in Server, role'[x] = "Leader"
                PROVE  /\ role[x] = "Leader" /\ currentTerm'[x] = currentTerm[x]
                       /\ Len(log[x]) <= Len(log'[x])
    BY Zenon DEF OfficeMoves
  <2>1. log[x] \in Seq(Entry)
    BY DEF VoteInv, TypeInv, TypeOK
  <2>2. Len(log[x]) \in Nat
    BY Zenon, <2>1, SeqLen
  <2>3. CASE x = s
    <3>1. role[s] = "Leader" /\ currentTerm'[s] = currentTerm[s]
      BY Zenon, <1>2 DEF ExtendStep
    <3>. QED
      BY Zenon, <1>2, <2>2, <2>3, <3>1, NatRefl
  <2>4. CASE x # s
    <3>. role[x] = "Leader" /\ currentTerm'[x] = currentTerm[x] /\ log'[x] = log[x]
      BY Zenon, <1>1, <1>2, <2>4 DEF AppendStep
    <3>. QED
      BY Zenon, <2>2, NatRefl
  <2>. QED
    BY Zenon, <2>3, <2>4
<1>6. MatchInv(L2)'
  BY Zenon, ExtendMatch
<1>7. appendResponses' = appendResponses
  BY Zenon, <1>1 DEF AppendStep
<1>8. L2 \in TermLogs /\ K2 \in Stores
  BY DEF Regrown, Restored
<1>9. ProgressInv(L2, K2)'
  BY Zenon, <1>3, <1>4, <1>5, <1>6, <1>7, <1>8, ProgressRest
<1>. QED
  BY Zenon, <1>3, <1>9

\* The hint of a follower that cannot place a request.
LEMMA ConflictHint ==
  ASSUME Counting, NEW L \in TermLogs, VoteInv, MatchInv(L), NEW s \in Server,
         NEW m \in appendRequests, ~previousMatches(log[s], m),
         NEW r, r = ConflictResponse(s, m)
  PROVE  /\ r.src = s /\ r.term = m.term /\ ~r.success
         /\ Hint(L[m.term], log[s], r.prevIndex, r.conflictIndex, r.conflictTerm)
<1>1. m \in AppendRequest /\ log[s] \in Seq(Entry) /\ currentTerm[s] \in Nat
  BY DEF VoteInv, TypeInv, TypeOK
<1>2. m.prevIndex \in Nat /\ Len(log[s]) \in Nat /\ m.term \in Nat /\ Len(m.entries) \in Nat
  BY Zenon, <1>1, SeqLen DEF AppendRequest
<1>3. SliceOf(L[m.term], m)
  BY Zenon DEF MatchInv, Slices
<1>4. r.src = s /\ r.term = m.term /\ ~r.success /\ r.prevIndex = m.prevIndex
  BY DEF ConflictResponse, AppendResponse
<1>5. CASE m.prevIndex > Len(log[s])
  <2>. r.conflictTerm = NoTerm /\ r.conflictIndex = Len(log[s]) + 1
    BY Zenon, <1>5 DEF ConflictResponse, AppendResponse, lastIndex
  <2>. QED
    BY Zenon, <1>4 DEF Hint
<1>6. CASE m.prevIndex <= Len(log[s])
  <2>1. /\ r.conflictTerm = termAt(log[s], m.prevIndex)
        /\ r.conflictIndex = firstIndexOfTerm(log[s], termAt(log[s], m.prevIndex))
    BY <1>2, <1>6 DEF ConflictResponse, AppendResponse, lastIndex
  <2>2. termAt(log[s], m.prevIndex) # termAt(L[m.term], m.prevIndex)
    BY Zenon, <1>3, <1>6 DEF previousMatches, lastIndex, SliceOf
  <2>3. m.prevIndex \in 1..Len(log[s])
    BY ONLY <1>2, <1>6, <2>2 DEF termAt
  <2>4. m.prevIndex <= Len(L[m.term])
    <3>. Len(L[m.term]) \in Nat
      BY Zenon, <1>2, SeqLen DEF TermLogs
    <3>. QED
      BY <1>2, <1>3 DEF SliceOf
  <2>5. /\ r.conflictTerm = log[s][m.prevIndex].term
        /\ r.conflictTerm # L[m.term][m.prevIndex].term
        /\ r.conflictIndex = firstIndexOfTerm(log[s], log[s][m.prevIndex].term)
    BY Zenon, <1>2, <2>1, <2>2, <2>3 DEF termAt
  <2>6. log[s][m.prevIndex].term \in 1..currentTerm[s]
    BY Zenon, <2>3 DEF MatchInv, NodesExplained, Explained
  <2>7. /\ r.conflictIndex \in 1..m.prevIndex
        /\ log[s][r.conflictIndex].term = log[s][m.prevIndex].term
    <3>1. log[s][m.prevIndex].term >= 1
      BY <1>1, <2>6
    <3>. QED
      BY Zenon, <1>1, <2>3, <2>5, <3>1, FirstIndexHolds
  <2>. QED
    BY Zenon, <1>4, <2>3, <2>4, <2>5, <2>7 DEF Hint
<1>. QED
  BY ONLY <1>2, <1>5, <1>6

\* A follower's progress.
LEMMA FollowProgress ==
  ASSUME Counting, NEW L \in TermLogs, NEW K \in Stores, VoteInv, VoteInv', MatchInv(L),
         ProgressInv(L, K), StepFacts, NEW s \in Server, NEW m \in appendRequests,
         FollowStep(s, m), NEW K2 \in Stores, FollowStored(K, K2, s, m)
  PROVE  GhostMoves(L, L, K, K2) /\ ProgressInv(L, K2)'
<1>. DEFINE t    == m.term
            fits == previousMatches(log[s], m)
<1>1. /\ t \in Nat
      /\ \A x \in Server \ {s} : log'[x] = log[x] /\ currentTerm'[x] = currentTerm[x]
      /\ currentTerm'[s] = t
      /\ role' = [role EXCEPT ![s] = "Follower"]
      /\ ~fits => log'[s] = log[s]
      /\ fits => ~appendFromFails(log[s], m.prevIndex, m.entries)
  <2>. TakesIn(L, s, m)
    BY Zenon, FollowOutcome
  <2>. QED
    BY Zenon DEF TakesIn
<1>. HIDE DEF t
<1>2. TypeOK /\ TypeOK' /\ role \in [Server -> {"Follower", "Candidate", "Leader"}]
  BY Zenon DEF VoteInv, TypeInv, TypeOK
<1>3. Extends(L, L)
  <2>. ASSUME NEW u \in Nat PROVE Len(L[u]) \in Nat
    BY Zenon, SeqLen DEF TermLogs
  <2>. QED
    BY DEF Extends, StartsWith, Agree
<1>4. GhostMoves(L, L, K, K2)
  <2>. ASSUME NEW x \in Server, x # s PROVE NodeMoves(L, K, K2, x)
    BY Zenon, <1>1 DEF NodeMoves, FollowStored, Restored
  <2>. CASE ~fits
    <3>. NodeMoves(L, K, K2, s)
      BY Zenon, <1>1 DEF NodeMoves, FollowStored
    <3>. QED
      BY <1>3 DEF GhostMoves
  <2>. CASE fits
    <3>. StartsWith(L[t], log'[s]) /\ K[t][s] <= Len(log'[s])
      BY Zenon, FollowSyncs DEF t
    <3>. Restored(K, K2, t, s, Len(log'[s]))
      BY DEF FollowStored, t
    <3>. NodeMoves(L, K, K2, s)
      BY Zenon, <1>1 DEF NodeMoves, Restored
    <3>. QED
      BY Zenon, <1>3 DEF GhostMoves
  <2>. QED
    OBVIOUS
<1>5. ASSUME NEW x \in Server, role'[x] = "Leader"
      PROVE  x # s /\ role[x] = "Leader" /\ log'[x] = log[x] /\ currentTerm'[x] = currentTerm[x]
  BY Zenon, <1>1, <1>2, <1>5
<1>6. LeadersStore(K2)'
  <2>. SUFFICES ASSUME NEW x \in Server, role'[x] = "Leader"
                PROVE  K2[currentTerm'[x]][x] = Len(log'[x])
    BY Zenon DEF LeadersStore
  <2>. x # s /\ role[x] = "Leader" /\ log'[x] = log[x] /\ currentTerm'[x] = currentTerm[x]
    BY <1>5
  <2>. K[currentTerm[x]][x] = Len(log[x]) /\ currentTerm[x] \in Nat
    BY Zenon, <1>2 DEF ProgressInv, LeadersStore, TypeOK
  <2>. QED
    BY Zenon DEF FollowStored, Restored
<1>7. OfficeMoves
  <2>. ASSUME NEW x \in Server PROVE Len(log[x]) <= Len(log[x])
    <3>. log[x] \in Seq(Entry)
      BY Zenon, <1>2 DEF TypeOK
    <3>. QED
      BY Zenon, SeqLen, NatRefl
  <2>. QED
    BY Zenon, <1>5 DEF OfficeMoves
<1>8. ASSUME NEW r \in appendResponses', r \notin appendResponses
      PROVE  ResponseSound(L, K2, r)'
  <2>. CASE fits
    <3>. r = AppendResponse(s, m, t, TRUE, m.prevIndex + Len(m.entries),
                            m.prevIndex + Len(m.entries) + 1, NoTerm)
      <4>. fits /\ ~appendFromFails(log[s], m.prevIndex, m.entries)
        BY Zenon, <1>1
      <4>. HIDE DEF fits
      <4>. appendResponses' = appendResponses \cup
             {AppendResponse(s, m, t, TRUE, m.prevIndex + Len(m.entries),
                             m.prevIndex + Len(m.entries) + 1, NoTerm)}
        BY Zenon DEF FollowStep, t, fits
      <4>. QED
        BY Zenon, <1>8
    <3>1. /\ r.src = s /\ r.term = t /\ r.success
          /\ r.matchIndex = m.prevIndex + Len(m.entries)
      BY DEF AppendResponse
    <3>2. m.prevIndex + Len(m.entries) <= Len(log'[s]) /\ K2[t][s] = Len(log'[s])
      BY Zenon, FollowSyncs DEF FollowStored, Restored, t
    <3>3. t <= currentTerm'[s]
      BY Zenon, <1>1, NatRefl
    <3>. QED
      BY Zenon, <3>1, <3>2, <3>3 DEF ResponseSound
  <2>. CASE ~fits
    <3>1. r = ConflictResponse(s, m)
      BY Zenon, <1>8 DEF FollowStep
    <3>2. /\ r.src = s /\ r.term = t /\ ~r.success
          /\ Hint(L[t], log[s], r.prevIndex, r.conflictIndex, r.conflictTerm)
      <4>1. ~previousMatches(log[s], m)
        BY Zenon
      <4>2. /\ r.src = s /\ r.term = m.term /\ ~r.success
            /\ Hint(L[m.term], log[s], r.prevIndex, r.conflictIndex, r.conflictTerm)
        BY ONLY <3>1, <4>1, Counting, L \in TermLogs, VoteInv, MatchInv(L), s \in Server,
                m \in appendRequests, ConflictHint
      <4>. QED
        BY Zenon, <4>2 DEF t
    <3>3. t <= currentTerm'[s] /\ log'[s] = log[s]
      BY Zenon, <1>1, NatRefl
    <3>4. Hint(L[t], log'[s], r.prevIndex, r.conflictIndex, r.conflictTerm)
      BY Zenon, <3>2, <3>3
    <3>. QED
      BY Zenon, <3>2, <3>3, <3>4 DEF ResponseSound
  <2>. QED
    OBVIOUS
<1>9. MatchInv(L)'
  BY Zenon, FollowMatch
<1>10. ProgressInv(L, K2)'
  BY Zenon, <1>4, <1>6, <1>7, <1>8, <1>9, ProgressRest
<1>. QED
  BY Zenon, <1>4, <1>10

\* Before the first election nothing is stored.
LEMMA GhostInit ==
  Init => GhostInv([t \in Nat |-> <<>>], [t \in Nat |-> [p \in Server |-> 0]])
<1>. SUFFICES ASSUME Init
              PROVE  GhostInv([t \in Nat |-> <<>>], [t \in Nat |-> [p \in Server |-> 0]])
  OBVIOUS
<1>. DEFINE L == [t \in Nat |-> <<>>]
            K == [t \in Nat |-> [p \in Server |-> 0]]
<1>1. \A t \in Nat : L[t] = <<>> /\ \A p \in Server : K[t][p] = 0
  OBVIOUS
<1>2. MatchInv(L)
  BY Zenon, MatchInit
<1>. HIDE DEF L, K
<1>3. StoreBounds(L, K) /\ Synced(L, K)
  BY <1>1 DEF Init, StoreBounds, Synced
<1>4. /\ LeadersStore(K) /\ RequestsPlaced(L) /\ NextPlaced(L) /\ MatchStored(K)
      /\ \A r \in appendResponses : ResponseSound(L, K, r)
  BY Zenon DEF Init, LeadersStore, RequestsPlaced, NextPlaced, MatchStored
<1>. QED
  BY Zenon, <1>2, <1>3, <1>4 DEF GhostInv, ProgressInv, L, K

\* Two explained logs match.
LEMMA TrackedLogs == Tracked => LogMatching
<1>. SUFFICES ASSUME Tracked, NEW a \in Server, NEW b \in Server,
                     NEW i \in 1..Min({lastIndex(log[a]), lastIndex(log[b])}),
                     log[a][i].term = log[b][i].term
              PROVE  SubSeq(log[a], 1, i) = SubSeq(log[b], 1, i)
  BY DEF LogMatching
<1>1. PICK L \in TermLogs : MatchInv(L)
  BY Zenon DEF Tracked, GhostInv
<1>2. /\ log[a] \in Seq(Entry) /\ Len(log[a]) \in Nat
      /\ log[b] \in Seq(Entry) /\ Len(log[b]) \in Nat
      /\ currentTerm[a] \in Nat /\ currentTerm[b] \in Nat
  BY Zenon, SeqLen DEF Tracked, VoteInv, TypeInv, TypeOK
<1>3. i \in Nat /\ i >= 1 /\ i <= Len(log[a]) /\ i <= Len(log[b])
  <2>. lastIndex(log[a]) = Len(log[a]) /\ lastIndex(log[b]) = Len(log[b])
    BY DEF lastIndex
  <2>. Min({Len(log[a]), Len(log[b])}) = IF Len(log[a]) <= Len(log[b]) THEN Len(log[a]) ELSE Len(log[b])
    BY Zenon, <1>2, MinOfTwo
  <2>. QED
    BY <1>2
<1>4. termAt(log[a], i) = termAt(log[b], i)
  BY <1>3 DEF termAt
<1>5. Explained(L, log[a], currentTerm[a]) /\ Explained(L, log[b], currentTerm[b])
  BY Zenon, <1>1 DEF MatchInv, NodesExplained
<1>6. Agree(log[a], log[b], i)
  BY Zenon, <1>2, <1>3, <1>4, <1>5, ExplainedAgree
<1>. QED
  BY Zenon, <1>2, <1>3, <1>6, AgreeSubSeq

\* A leader's progress is what its peers stored.
LEMMA TrackedProgress == Tracked => ProgressSound
<1>. SUFFICES ASSUME Tracked, NEW l \in Server, role[l] = "Leader", NEW p \in peers(l)
              PROVE  /\ nextIndex[l][p] \in 1..(lastIndex(log[l]) + 1)
                     /\ currentTerm[p] = currentTerm[l] =>
                          /\ matchIndex[l][p] <= lastIndex(log[p])
                          /\ SubSeq(log[p], 1, matchIndex[l][p]) =
                               SubSeq(log[l], 1, matchIndex[l][p])
  BY Zenon DEF ProgressSound
<1>1. PICK L \in TermLogs, K \in Stores : MatchInv(L) /\ ProgressInv(L, K)
  BY DEF Tracked, GhostInv
<1>2. TypeOK /\ NextInLog /\ p \in Server
  BY Zenon DEF Tracked, VoteInv, TypeInv, peers
<1>3. nextIndex[l][p] \in 1..(lastIndex(log[l]) + 1)
  BY Zenon, <1>2 DEF NextInLog
<1>4. ASSUME currentTerm[p] = currentTerm[l]
      PROVE  /\ matchIndex[l][p] <= lastIndex(log[p])
             /\ SubSeq(log[p], 1, matchIndex[l][p]) = SubSeq(log[l], 1, matchIndex[l][p])
  <2>1. PICK t \in Nat : t = currentTerm[l]
    BY Zenon, <1>2 DEF TypeOK
  <2>2. PICK n \in Nat : n = matchIndex[l][p]
    BY Zenon, <1>2 DEF TypeOK
  <2>3. log[p] \in Seq(Entry) /\ log[l] \in Seq(Entry) /\ K[t][p] \in Nat
    BY Zenon, <1>2 DEF TypeOK, Stores
  <2>4. Len(log[p]) \in Nat /\ Len(log[l]) \in Nat
    BY Zenon, <2>3, SeqLen
  <2>5. n <= K[t][p] /\ log[l] = L[t]
    BY Zenon, <1>1, <2>1, <2>2 DEF ProgressInv, MatchStored, MatchInv, Offices
  <2>6. n <= Len(log[p]) /\ Agree(log[p], log[l], n)
    <3>. CASE n = 0
      BY <2>4 DEF Agree
    <3>. CASE n # 0
      <4>. K[t][p] = Len(log[p]) /\ StartsWith(L[t], log[p])
        BY <1>1, <1>2, <1>4, <2>1, <2>3, <2>5 DEF ProgressInv, Synced
      <4>. QED
        BY Zenon, <2>3, <2>4, <2>5, AgreeBelow DEF StartsWith
    <3>. QED
      BY Zenon
  <2>7. SubSeq(log[p], 1, n) = SubSeq(log[l], 1, n)
    BY Zenon, <2>3, <2>6, AgreeSubSeq
  <2>. QED
    BY Zenon, <2>2, <2>6, <2>7 DEF lastIndex
<1>. QED
  BY Zenon, <1>3, <1>4

-----------------------------------------------------------------------------
(* Every step *)

\* Every step has a move of the term logs and the stores that keeps the
\* invariants.
LEMMA GhostKept ==
  ASSUME Counting, NEW L \in TermLogs, NEW K \in Stores, VoteInv, VoteInv', StepFacts,
         StepKind, GhostInv(L, K)
  PROVE  \E L2 \in TermLogs, K2 \in Stores :
           GhostKind(L, L2, K, K2) /\ GhostMoves(L, L2, K, K2) /\ GhostInv(L2, K2)'
<1>1. MatchInv(L) /\ ProgressInv(L, K)
  BY DEF GhostInv
<1>2. /\ log' \in [Server -> Seq(Entry)] /\ currentTerm \in [Server -> Nat]
      /\ \A s \in Server : Len(log'[s]) \in Nat
  <2>. log' \in [Server -> Seq(Entry)] /\ currentTerm \in [Server -> Nat]
    BY DEF VoteInv, TypeInv, TypeOK
  <2>. QED
    BY Zenon, SeqLen
<1>3. ASSUME NEW s \in Server, NEW t \in Nat
      PROVE  \E L2 \in TermLogs : Regrown(L, L2, t, log'[s])
  <2>. [L EXCEPT ![t] = log'[s]] \in TermLogs
    BY <1>2 DEF TermLogs
  <2>. QED
    BY Zenon, <1>2 DEF TermLogs, Regrown
<1>4. ASSUME NEW s \in Server, NEW t \in Nat
      PROVE  \E K2 \in Stores : Restored(K, K2, t, s, Len(log'[s]))
  BY <1>2, RestoredExists
<1>. DEFINE Goal == \E L2 \in TermLogs, K2 \in Stores :
              GhostKind(L, L2, K, K2) /\ GhostMoves(L, L2, K, K2) /\ GhostInv(L2, K2)'
<1>5. CASE KeepStep
  <2>. GhostMoves(L, L, K, K) /\ ProgressInv(L, K)'
    BY Zenon, <1>1, <1>5, KeepProgress
  <2>. MatchInv(L)'
    BY <1>1, <1>5, KeepMatch
  <2>. GhostKind(L, L, K, K) /\ GhostInv(L, K)'
    BY Zenon, <1>5 DEF GhostKind, GhostInv
  <2>. QED
    OBVIOUS
<1>6. ASSUME NEW s \in Server, NEW t \in Nat, LeadStep(s, t) PROVE Goal
  <2>1. PICK L2 \in TermLogs : Regrown(L, L2, t, log'[s])
    BY <1>3
  <2>2. PICK K2 \in Stores : Restored(K, K2, t, s, Len(log'[s]))
    BY Zenon, <1>4
  <2>3. GhostMoves(L, L2, K, K2) /\ ProgressInv(L2, K2)'
    BY Zenon, <1>1, <1>6, <2>1, <2>2, LeadProgress
  <2>4. MatchInv(L2)'
    BY Zenon, <1>1, <1>6, <2>1, LeadMatch
  <2>5. GhostKind(L, L2, K, K2) /\ GhostInv(L2, K2)'
    BY Zenon, <1>6, <2>1, <2>2, <2>3, <2>4 DEF GhostKind, GhostInv
  <2>. QED
    BY Zenon, <2>3, <2>5
<1>7. ASSUME NEW s \in Server, ExtendStep(s) PROVE Goal
  <2>0. PICK t \in Nat : t = currentTerm[s]
    BY <1>2
  <2>1. PICK L2 \in TermLogs : Regrown(L, L2, t, log'[s])
    BY <1>3
  <2>2. PICK K2 \in Stores : Restored(K, K2, t, s, Len(log'[s]))
    BY <1>4
  <2>3. GhostMoves(L, L2, K, K2) /\ ProgressInv(L2, K2)'
    BY Zenon, <1>1, <1>7, <2>0, <2>1, <2>2, ExtendProgress
  <2>4. MatchInv(L2)'
    BY Zenon, <1>1, <1>7, <2>0, <2>1, ExtendMatch
  <2>5. GhostKind(L, L2, K, K2) /\ GhostInv(L2, K2)'
    BY Zenon, <1>7, <2>0, <2>1, <2>2, <2>3, <2>4 DEF GhostKind, GhostInv
  <2>. QED
    BY <2>3, <2>5
<1>8. ASSUME NEW s \in Server, NEW m \in appendRequests, FollowStep(s, m) PROVE Goal
  <2>1. m.term \in Nat
    BY DEF VoteInv, TypeInv, TypeOK, AppendRequest
  <2>2. PICK K2 \in Stores : FollowStored(K, K2, s, m)
    BY Zenon, <1>4, <2>1 DEF FollowStored
  <2>3. GhostMoves(L, L, K, K2) /\ ProgressInv(L, K2)'
    BY Zenon, <1>1, <1>8, <2>2, FollowProgress
  <2>4. MatchInv(L)'
    BY <1>1, <1>8, FollowMatch
  <2>5. GhostKind(L, L, K, K2) /\ GhostInv(L, K2)'
    BY Zenon, <1>8, <2>2, <2>3, <2>4 DEF GhostKind, GhostInv
  <2>. QED
    BY Zenon, <2>3, <2>5
<1>. HIDE DEF Goal
<1>9. Goal
  <2>. CASE KeepStep
    BY <1>5 DEF Goal
  <2>. QED
    BY Zenon, <1>6, <1>7, <1>8 DEF StepKind
<1>. QED
  BY <1>9 DEF Goal

=============================================================================
