----------------------------- MODULE RaftGhost ------------------------------
(***************************************************************************)
(* The inductive invariant behind the safety of RaftNode's logs.  L[t]     *)
(* stands for the longest log the leader of term t has had and K[t][p] for *)
(* the length of p's log when p last took entries in term t; neither is in *)
(* the program, and the invariant is that such L and K exist.              *)
(***************************************************************************)
EXTENDS RaftInvariant

-----------------------------------------------------------------------------
(* Logs that agree *)

\* Two logs have the same first n entries.
Agree(a, b, n) == n <= Len(a) /\ n <= Len(b) /\ \A k \in 1..n : a[k] = b[k]

\* One log is a prefix of another.
StartsWith(b, a) == Agree(a, b, Len(a))

-----------------------------------------------------------------------------
(* Log matching *)

TermLogs == [Nat -> Seq(Entry)]

\* Every entry of a log is an entry its term's leader appended, with everything
\* before it.
Explained(L, lg, t) ==
  \A i \in 1..Len(lg) : lg[i].term \in 1..t /\ Agree(lg, L[lg[i].term], i)

NodesExplained(L) == \A s \in Server : Explained(L, log[s], currentTerm[s])

TermsExplained(L) == \A t \in Nat : Explained(L, L[t], t)

\* A leader's last entry is its own.
EndsInTerm(L) == \A t \in Nat : L[t] # <<>> => L[t][Len(L[t])].term = t

\* A leader in office won its term and holds all the term's entries.
Offices(L) ==
  /\ \A s \in Server : role[s] = "Leader" =>
       <<currentTerm[s], s>> \in leaders /\ log[s] = L[currentTerm[s]]
  /\ \A t \in Nat, s \in Server : <<t, s>> \in leaders => L[t] # <<>>

\* A term with entries has been won, by a node that will not stand in it again.
WonOnce(L) ==
  \A t \in Nat : L[t] # <<>> =>
    \E l \in Server :
      /\ Elected(t, l)
      /\ currentTerm[l] >= t
      /\ currentTerm[l] = t => role[l] # "Candidate"

\* A request is a piece of its term's log.
SliceOf(lg, m) ==
  /\ m.prevIndex + Len(m.entries) <= Len(lg)
  /\ \A k \in 1..Len(m.entries) : m.entries[k] = lg[m.prevIndex + k]
  /\ m.prevTerm = termAt(lg, m.prevIndex)

Slices(L) ==
  \A m \in appendRequests : SliceOf(L[m.term], m) /\ <<m.term, m.src>> \in leaders

\* A candidate stands in a term after the first.
CandidateTerms == \A s \in Server : role[s] = "Candidate" => currentTerm[s] >= 1

MatchInv(L) ==
  /\ LeaderHintSound /\ CandidateTerms
  /\ NodesExplained(L) /\ TermsExplained(L) /\ EndsInTerm(L)
  /\ Offices(L) /\ WonOnce(L) /\ Slices(L)

\* The term logs only grow.
Extends(L, L2) == \A t \in Nat : StartsWith(L2[t], L[t])

\* One term's log has become lg.
Regrown(L, L2, t, lg) ==
  L2 \in TermLogs /\ L2[t] = lg /\ \A u \in Nat \ {t} : L2[u] = L[u]

\* Node s appends an entry of term t to a log that holds the term's.
Growing(L, L2, s, t) ==
  /\ AppendStep(s, t) /\ t >= 1 /\ t >= currentTerm[s]
  /\ StartsWith(log[s], L[t]) /\ Regrown(L, L2, t, log'[s])

\* What that makes of the term logs.
Grown(L, L2, s, t) ==
  /\ L2 \in TermLogs /\ Extends(L, L2) /\ L2[t] = log'[s] /\ L2[t] # <<>>
  /\ \A u \in Nat \ {t} : L2[u] = L[u]
  /\ NodesExplained(L2)' /\ TermsExplained(L2) /\ EndsInTerm(L2)

-----------------------------------------------------------------------------
(* Progress *)

Stores == [Nat -> [Server -> Nat]]

\* A request placed at n, up to end, for a node with log lp and term cp: it starts at a new
\* entry of the term the node has not reached; in the node's term, if its
\* previous entry matches, the node's log is a prefix of the leader's or the
\* first entry sent conflicts.  So no log with a foreign tail accepts a request
\* that leaves the tail in place.
Placed(big, lp, cp, t, n, end) ==
  /\ cp < t => n <= Len(big) /\ big[n].term = t /\ n <= end
  /\ cp = t /\ n - 1 <= Len(lp) /\ termAt(lp, n - 1) = termAt(big, n - 1) =>
       \/ StartsWith(big, lp)
       \/ n <= Len(lp) /\ n <= Len(big) /\ lp[n].term # big[n].term /\ n <= end

\* A rejection tells the end of the node's log, or the start of a term the
\* leader's log does not have at the previous index.
Hint(big, lp, prev, ci, ct) ==
  \/ StartsWith(big, lp)
  \/ ct = NoTerm /\ ci = Len(lp) + 1
  \/ /\ prev \in 1..Len(lp) /\ prev <= Len(big)
     /\ big[prev].term # ct /\ lp[prev].term = ct
     /\ ci \in 1..prev /\ lp[ci].term = ct

StoreBounds(L, K) ==
  \A t \in Nat, p \in Server :
    K[t][p] <= Len(L[t]) /\ (K[t][p] > 0 => t <= currentTerm[p])

\* A node that took entries in its term holds a prefix of the term's log.
Synced(L, K) ==
  \A p \in Server : \A t \in Nat : t = currentTerm[p] /\ K[t][p] # 0 =>
    K[t][p] = Len(log[p]) /\ StartsWith(L[t], log[p])

LeadersStore(K) ==
  \A s \in Server : role[s] = "Leader" => K[currentTerm[s]][s] = Len(log[s])

RequestsPlaced(L) ==
  \A m \in appendRequests :
    Placed(L[m.term], log[m.dst], currentTerm[m.dst], m.term, m.prevIndex + 1,
           m.prevIndex + Len(m.entries))

NextPlaced(L) ==
  \A s \in Server : role[s] = "Leader" => \A p \in peers(s) :
    Placed(L[currentTerm[s]], log[p], currentTerm[p], currentTerm[s], nextIndex[s][p],
           Len(log[s]))

\* What a response says of its sender, while the sender stays in the term.
ResponseSound(L, K, r) ==
  /\ r.term <= currentTerm[r.src]
  /\ r.success => r.matchIndex <= K[r.term][r.src]
  /\ ~r.success /\ r.term = currentTerm[r.src] =>
       Hint(L[r.term], log[r.src], r.prevIndex, r.conflictIndex, r.conflictTerm)

MatchStored(K) ==
  \A s \in Server : role[s] = "Leader" => \A p \in peers(s) :
    matchIndex[s][p] <= K[currentTerm[s]][p]

ProgressInv(L, K) ==
  /\ StoreBounds(L, K) /\ Synced(L, K) /\ LeadersStore(K)
  /\ RequestsPlaced(L) /\ NextPlaced(L) /\ MatchStored(K)
  /\ \A r \in appendResponses : ResponseSound(L, K, r)

\* What a step does to a node's log and to what it stored.
NodeMoves(L2, K, K2, p) ==
  \/ log'[p] = log[p] /\ \A t \in Nat : K2[t][p] = K[t][p]
  \/ /\ StartsWith(L2[currentTerm'[p]], log'[p])
     /\ K2[currentTerm'[p]][p] = Len(log'[p])
     /\ K[currentTerm'[p]][p] <= Len(log'[p])
     /\ \A t \in Nat \ {currentTerm'[p]} : K2[t][p] = K[t][p]

GhostMoves(L, L2, K, K2) ==
  /\ L2 \in TermLogs /\ K2 \in Stores /\ Extends(L, L2)
  /\ \A p \in Server : NodeMoves(L2, K, K2, p)

\* One node has stored n entries of one term.
Restored(K, K2, t, s, n) ==
  /\ K2 \in Stores /\ K2[t][s] = n
  /\ \A u \in Nat, p \in Server : u # t \/ p # s => K2[u][p] = K[u][p]

\* What a follower stores when it takes in a request.
FollowStored(K, K2, s, m) ==
  IF previousMatches(log[s], m) THEN Restored(K, K2, m.term, s, Len(log'[s])) ELSE K2 = K

\* How a step moves the term logs and the stores.
GhostKind(L, L2, K, K2) ==
  \/ KeepStep /\ L2 = L /\ K2 = K
  \/ \E s \in Server, t \in Nat :
       LeadStep(s, t) /\ Regrown(L, L2, t, log'[s]) /\ Restored(K, K2, t, s, Len(log'[s]))
  \/ \E s \in Server, t \in Nat :
       /\ ExtendStep(s) /\ t = currentTerm[s]
       /\ Regrown(L, L2, t, log'[s]) /\ Restored(K, K2, t, s, Len(log'[s]))
  \/ \E s \in Server, m \in appendRequests :
       FollowStep(s, m) /\ L2 = L /\ FollowStored(K, K2, s, m)

GhostInv(L, K) == MatchInv(L) /\ ProgressInv(L, K)

Tracked == VoteInv /\ \E L \in TermLogs, K \in Stores : GhostInv(L, K)

=============================================================================
