--------------------------- MODULE RaftInvariant ----------------------------
(***************************************************************************)
(* Inductive invariants of RaftNode on types and votes, and the shapes a   *)
(* step can have.                                                          *)
(***************************************************************************)
EXTENDS RaftState

-----------------------------------------------------------------------------
(* Types *)

\* A leader's next index stays within its log, so that every request it builds
\* has a previous entry (makeAppendEntries never underflows).
NextInLog ==
  \A s \in Server : role[s] = "Leader" =>
    \A p \in peers(s) : nextIndex[s][p] \in 1..(lastIndex(log[s]) + 1)

TypeInv == TypeOK /\ NextInLog

-----------------------------------------------------------------------------
(* Votes *)

\* A node remembers the vote it cast in its current term and casts none in a
\* later one.
VotesRemembered ==
  \A g \in granted :
    /\ g[2] <= currentTerm[g[1]]
    /\ g[2] = currentTerm[g[1]] => votedFor[g[1]] = g[3]

\* A response that grants a vote stands for a vote that was cast.
ResponsesBacked ==
  \A m \in voteResponses :
    m.voteGranted => <<m.src, m.electionTerm, m.dst>> \in granted

\* A candidate counts only votes cast for it in its current term.
CountedVotesBacked ==
  \A s \in Server : role[s] = "Candidate" =>
    \A v \in votesReceived[s] : <<v, currentTerm[s], s>> \in granted

\* The quorum that elected l in a term.
Elected(term, l) ==
  \E Q \in SUBSET Server :
    /\ hasQuorum(Cardinality(Q), Cardinality(Server))
    /\ \A v \in Q : <<v, term, l>> \in granted

\* Every leader was elected by a quorum.
LeadersBacked == \A e \in leaders : Elected(e[1], e[2])

\* The inductive invariant: the history of votes explains every response in
\* flight, every count in progress and every election won.
VoteInv ==
  /\ TypeInv
  /\ DurableBeforeReply
  /\ VotesRemembered
  /\ OneVotePerTerm
  /\ ResponsesBacked
  /\ CountedVotesBacked
  /\ LeadersBacked

-----------------------------------------------------------------------------
(* What a step may do *)

\* Every request a step sends is what its leader makes of the resulting state.
Sent ==
  \A m \in appendRequests' : m \in appendRequests \/
    \E s \in Server : \E p \in peers(s) :
      /\ role'[s] = "Leader"
      /\ m = makeAppendEntries(s, p, currentTerm'[s], log'[s], nextIndex'[s][p],
                               commitIndex'[s])

\* A hint is kept within a term, cleared, or names a leader of the new term.
HintMoves ==
  \A s \in Server :
    \/ leaderId'[s] = None
    \/ leaderId'[s] = leaderId[s] /\ currentTerm'[s] = currentTerm[s]
    \/ <<currentTerm'[s], leaderId'[s]>> \in leaders'
    \/ \E m \in appendRequests : currentTerm'[s] = m.term /\ leaderId'[s] = m.src

\* A leader's progress for a peer moves by a response of the peer only.
ProgressMoves ==
  \A s \in Server : role[s] = "Leader" /\ role'[s] = "Leader" => \A p \in peers(s) :
    \/ nextIndex'[s][p] = nextIndex[s][p] /\ matchIndex'[s][p] = matchIndex[s][p]
    \/ \E r \in appendResponses :
         /\ r.src = p /\ r.term = currentTerm[s]
         /\ \/ /\ ValidAck(s, r)
               /\ nextIndex'[s][p] = Max({nextIndex[s][p], r.matchIndex + 1})
               /\ matchIndex'[s][p] = Max({matchIndex[s][p], r.matchIndex})
            \/ /\ LatestProbe(s, r)
               /\ nextIndex'[s][p] =
                    nextIndexAfterConflict(log[s], r.conflictIndex, r.conflictTerm)
               /\ matchIndex'[s][p] = matchIndex[s][p]

\* A candidate keeps its log.
CandidateMoves ==
  \A s \in Server : role'[s] = "Candidate" =>
    /\ log'[s] = log[s]
    /\ \/ role[s] = "Candidate" /\ currentTerm'[s] = currentTerm[s]
       \/ currentTerm'[s] > currentTerm[s]

\* A vote is cast in the voter's current term, for itself in a new term or for
\* a candidate whose request shows a log that is up to date.
VotesCast ==
  /\ granted \subseteq granted'
  /\ \A v, c \in Server, t \in Nat : <<v, t, c>> \in granted' \ granted =>
       /\ t = currentTerm'[v]
       /\ \/ v = c /\ t > currentTerm[v]
          \/ /\ log'[v] = log[v]
             /\ \E m \in requestVotes :
                  /\ m.src = c /\ m.term = t
                  /\ isCandidateLogUpToDate(m.lastLogIndex, m.lastLogTerm, log[v])

\* A vote is requested by a new candidate, which describes its log.
VoteRequests ==
  \A r \in requestVotes' : r \in requestVotes \/
    /\ r.src \in Server /\ role'[r.src] = "Candidate"
    /\ r.term = currentTerm'[r.src] /\ r.term > currentTerm[r.src]
    /\ r.lastLogIndex = lastIndex(log'[r.src]) /\ r.lastLogTerm = lastTerm(log'[r.src])

StepFacts ==
  /\ \A s \in Server : currentTerm'[s] >= currentTerm[s]
  /\ leaders \subseteq leaders'
  /\ Sent /\ HintMoves /\ ProgressMoves /\ CandidateMoves /\ VotesCast /\ VoteRequests

\* The commit index moves when a leader counts.
CommitCounted ==
  \A s \in Server :
    \/ commitIndex'[s] = commitIndex[s]
    \/ /\ role'[s] = "Leader"
       /\ commitIndex'[s] = advanceCommitIndex(s, log'[s], currentTerm'[s],
                                               matchIndex'[s], commitIndex[s])

\* A response to a request of an older term.
Refusal(r) ==
  /\ r.src \in Server /\ ~r.success
  /\ r.term = currentTerm[r.src] /\ currentTerm'[r.src] = currentTerm[r.src]
  /\ r.conflictTerm = NoTerm /\ r.conflictIndex = lastIndex(log[r.src]) + 1

\* A step that changes no log and makes no leader.
KeepStep ==
  /\ UNCHANGED <<log, leaders>>
  /\ CommitCounted
  /\ \A s \in Server : role'[s] = "Leader" =>
       role[s] = "Leader" /\ currentTerm'[s] = currentTerm[s]
  /\ \A r \in appendResponses' : r \in appendResponses \/ Refusal(r)

\* s appends an entry of its resulting term, and may die right after it.
AppendStep(s, t) ==
  /\ currentTerm' = [currentTerm EXCEPT ![s] = t]
  /\ \E e \in Entry : e.term = t /\ log' = [log EXCEPT ![s] = Append(log[s], e)]
  /\ role'[s] \in {"Leader", "Follower"}
  /\ \A x \in Server \ {s} : role'[x] = role[x]
  /\ CommitCounted
  /\ appendResponses' = appendResponses

\* s wins the election of term t.
LeadStep(s, t) ==
  /\ AppendStep(s, t)
  /\ t > currentTerm[s] \/ (t = currentTerm[s] /\ role[s] = "Candidate")
  /\ Elected(t, s)'
  /\ leaders' \in {leaders, leaders \cup {<<t, s>>}}
  /\ role'[s] = "Leader" =>
       /\ <<t, s>> \in leaders'
       /\ matchIndex'[s] = NoProgress
       /\ \A p \in peers(s) : nextIndex'[s][p] = lastIndex(log[s]) + 1

\* The leader s appends another entry.
ExtendStep(s) ==
  /\ AppendStep(s, currentTerm[s])
  /\ role[s] = "Leader"
  /\ UNCHANGED leaders

\* s takes in a request of a leader: what FollowLeader does to the logs, the
\* commit indices and the responses.
FollowStep(s, m) ==
  LET fits    == previousMatches(log[s], m)
      success == fits /\ ~appendFromFails(log[s], m.prevIndex, m.entries)
      lg      == IF success THEN appendFrom(log[s], m.prevIndex, m.entries)
                 ELSE log[s]
      commit  == IF success
                 THEN followerCommit(commitIndex[s], m.leaderCommit, lg)
                 ELSE commitIndex[s]
      match   == m.prevIndex + Len(m.entries)
  IN  /\ m \in appendRequests /\ m.dst = s /\ m.term >= currentTerm[s]
      /\ role' = [role EXCEPT ![s] = "Follower"]
      /\ currentTerm' = [currentTerm EXCEPT ![s] = m.term]
      /\ log' = [log EXCEPT ![s] = lg]
      /\ commitIndex' = [commitIndex EXCEPT ![s] = commit]
      /\ appendResponses' = appendResponses \cup
           {IF success
            THEN AppendResponse(s, m, m.term, TRUE, match, match + 1, NoTerm)
            ELSE IF fits
            THEN AppendResponse(s, m, m.term, FALSE, 0,
                                lastIndex(log[s]) + 1, NoTerm)
            ELSE ConflictResponse(s, m)}
      /\ UNCHANGED leaders

StepKind ==
  \/ KeepStep
  \/ \E s \in Server, t \in Nat : LeadStep(s, t)
  \/ \E s \in Server : ExtendStep(s)
  \/ \E s \in Server, m \in appendRequests : FollowStep(s, m)

-----------------------------------------------------------------------------
(* What a step does to votes and commit indices *)

\* A vote in a term is kept, or cast where there was none on a request of the
\* term.
VoteMoves ==
  \A s \in Server : currentTerm'[s] = currentTerm[s] =>
    \/ votedFor'[s] = votedFor[s]
    \/ votedFor[s] = None /\ \E m \in requestVotes : m.term = currentTerm[s]

\* One node at a time moves its commit index.
CommitMoves ==
  \E s \in Server : \A x \in Server \ {s} : commitIndex'[x] = commitIndex[x]

-----------------------------------------------------------------------------
(* Counting *)

\* What the lemmas of the Raft modules take from the theory of naturals and
\* finite sets: sets of naturals have least elements, two quorums of the voter
\* set share a voter, one voter counts as one, and a number kept for every
\* server has a greatest value.  CountingHolds, in RaftSafetyProofs, proves it.
Counting ==
  /\ \A S \in SUBSET Nat : S # {} => \E m \in S : \A k \in S : m <= k
  /\ \A P, Q \in SUBSET Server :
       hasQuorum(Cardinality(P), Cardinality(Server)) /\
       hasQuorum(Cardinality(Q), Cardinality(Server)) => P \cap Q # {}
  /\ \A s \in Server : Cardinality({s}) = 1
  /\ \A f \in [Server -> Nat] : \E s \in Server : \A t \in Server : f[t] <= f[s]

=============================================================================
