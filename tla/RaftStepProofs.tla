--------------------------- MODULE RaftStepProofs ---------------------------
(***************************************************************************)
(* That every step of RaftNode keeps the invariant on votes, and has one   *)
(* of the shapes of RaftInvariant.                                         *)
(***************************************************************************)
EXTENDS RaftNode, RaftInvariant, TLAPS

-----------------------------------------------------------------------------
(* Votes *)

\* No vote was ever cast by s in a term above its own.
LEMMA NoVoteAbove ==
  ASSUME VoteInv, NEW s \in Server, NEW t \in Nat, NEW c, currentTerm[s] < t
  PROVE  <<s, t, c>> \notin granted
<1>. currentTerm[s] \in Nat
  BY DEF VoteInv, TypeInv, TypeOK
<1>. QED
  BY DEF VoteInv, VotesRemembered

\* An election that was won stays won while votes are only added.
LEMMA ElectedStable ==
  ASSUME granted \subseteq granted', NEW t, NEW l, Elected(t, l)
  PROVE  Elected(t, l)'
  BY DEF Elected

\* Steps that cast no vote, make no leader and answer no request for a vote.
LEMMA NoVoteStep ==
  ASSUME VoteInv, TypeInv', DurableBeforeReply', UNCHANGED <<granted, leaders>>,
         \A m \in voteResponses' : m \in voteResponses \/ ~m.voteGranted,
         \A s \in Server :
           /\ currentTerm'[s] >= currentTerm[s]
           /\ currentTerm'[s] = currentTerm[s] => votedFor'[s] = votedFor[s]
           /\ role'[s] = "Candidate" =>
                /\ role[s] = "Candidate" /\ currentTerm'[s] = currentTerm[s]
                /\ votesReceived'[s] = votesReceived[s]
  PROVE  VoteInv'
<1>1. VotesRemembered'
  <2>. SUFFICES ASSUME NEW g \in granted
                PROVE  /\ g[2] <= currentTerm'[g[1]]
                       /\ g[2] = currentTerm'[g[1]] => votedFor'[g[1]] = g[3]
    BY DEF VotesRemembered
  <2>. g[1] \in Server /\ g[2] \in Nat
    BY Zenon DEF VoteInv, TypeInv, TypeOK
  <2>. currentTerm[g[1]] \in Nat /\ currentTerm'[g[1]] \in Nat
    BY DEF VoteInv, TypeInv, TypeOK
  <2>. g[2] <= currentTerm[g[1]] /\ (g[2] = currentTerm[g[1]] => votedFor[g[1]] = g[3])
    BY DEF VoteInv, VotesRemembered
  <2>. QED
    OBVIOUS
<1>2. OneVotePerTerm' /\ LeadersBacked'
  BY DEF VoteInv, OneVotePerTerm, LeadersBacked, Elected
<1>3. ResponsesBacked'
  BY DEF VoteInv, ResponsesBacked
<1>4. CountedVotesBacked'
  BY DEF VoteInv, CountedVotesBacked
<1>. QED
  BY <1>1, <1>2, <1>3, <1>4 DEF VoteInv

\* A step that keeps the terms takes none back.
LEMMA TermsStay ==
  ASSUME currentTerm \in [Server -> Nat], currentTerm' = currentTerm
  PROVE  \A x \in Server : currentTerm'[x] >= currentTerm[x]
<1>. SUFFICES ASSUME NEW x \in Server PROVE currentTerm[x] >= currentTerm[x]
  BY Zenon
<1>1. currentTerm[x] \in Nat
  BY Zenon
<1>. QED
  BY ONLY <1>1

\* A step that leaves the roles, the terms and the votes alone.
LEMMA VotesUntouched ==
  ASSUME VoteInv, TypeInv', DurableBeforeReply', UNCHANGED electionVars,
         UNCHANGED historyVars, voteResponses' \subseteq voteResponses
  PROVE  VoteInv'
<1>1. currentTerm \in [Server -> Nat]
  BY Zenon DEF VoteInv, TypeInv, TypeOK
<1>2. /\ currentTerm' = currentTerm /\ votedFor' = votedFor /\ role' = role
      /\ votesReceived' = votesReceived /\ UNCHANGED <<granted, leaders>>
  BY Zenon DEF electionVars, historyVars
<1>3. \A x \in Server : currentTerm'[x] >= currentTerm[x]
  BY Zenon, <1>1, <1>2, TermsStay
<1>. QED
  BY Zenon, <1>2, <1>3, NoVoteStep

\* A candidate votes for itself in a term it has never voted in.
LEMMA SelfVote ==
  ASSUME VoteInv, NEW s \in Server, NEW term \in Nat, term = currentTerm[s] + 1,
         currentTerm' = [currentTerm EXCEPT ![s] = term],
         votedFor' = [votedFor EXCEPT ![s] = s],
         granted' = granted \cup {<<s, term, s>>},
         UNCHANGED voteResponses
  PROVE  /\ VotesRemembered' /\ OneVotePerTerm' /\ ResponsesBacked'
         /\ \A e \in leaders : Elected(e[1], e[2])'
<1>0. currentTerm[s] \in Nat
  BY DEF VoteInv, TypeInv, TypeOK
<1>2. /\ currentTerm \in [Server -> Nat] /\ votedFor \in [Server -> Server \cup {None}]
      /\ role \in [Server -> {"Follower", "Candidate", "Leader"}]
      /\ votesReceived \in [Server -> SUBSET Server]
      /\ granted \subseteq Server \X Nat \X Server
  BY Zenon DEF VoteInv, TypeInv, TypeOK
<1>3. \A c : <<s, term, c>> \notin granted
  BY <1>0, NoVoteAbove
<1>4. VotesRemembered'
  <2>. SUFFICES ASSUME NEW g \in granted'
                PROVE  /\ g[2] <= currentTerm'[g[1]]
                       /\ g[2] = currentTerm'[g[1]] => votedFor'[g[1]] = g[3]
    BY DEF VotesRemembered
  <2>. CASE g = <<s, term, s>>
    BY <1>2
  <2>. CASE g # <<s, term, s>>
    <3>. g \in granted /\ g[1] \in Server /\ g[2] \in Nat
      BY <1>2
    <3>. /\ g[2] <= currentTerm[g[1]]
         /\ g[2] = currentTerm[g[1]] => votedFor[g[1]] = g[3]
      BY DEF VoteInv, VotesRemembered
    <3>. QED
      BY <1>0, <1>2
  <2>. QED
    OBVIOUS
<1>5. OneVotePerTerm'
  <2>. SUFFICES ASSUME NEW v \in granted', NEW w \in granted', v[1] = w[1], v[2] = w[2]
                PROVE  v[3] = w[3]
    BY DEF OneVotePerTerm
  <2>. v \in granted /\ w \in granted => v[3] = w[3]
    BY DEF VoteInv, OneVotePerTerm
  <2>. ASSUME NEW g \in granted PROVE ~(g[1] = s /\ g[2] = term)
    <3>. g = <<g[1], g[2], g[3]>>
      BY <1>2
    <3>. QED
      BY <1>3
  <2>. QED
    OBVIOUS
<1>6. ResponsesBacked'
  BY DEF VoteInv, ResponsesBacked
<1>7. \A e \in leaders : Elected(e[1], e[2])'
  BY ElectedStable DEF VoteInv, LeadersBacked
<1>. QED
  BY <1>4, <1>5, <1>6, <1>7

\* startElection: the vote for itself, alone or not, backs the new state.
LEMMA StartElectionVotes ==
  ASSUME Counting, VoteInv, TypeInv', DurableBeforeReply', NEW s \in Server, startElection(s)
  PROVE  VoteInv'
<1>0. currentTerm[s] \in Nat
  BY DEF VoteInv, TypeInv, TypeOK
<1>. PICK term \in Nat : term = currentTerm[s] + 1
  BY <1>0
<1>1. /\ currentTerm' = [currentTerm EXCEPT ![s] = term]
      /\ votedFor' = [votedFor EXCEPT ![s] = s]
      /\ granted' = granted \cup {<<s, term, s>>}
      /\ UNCHANGED voteResponses
  BY Zenon DEF startElection
<1>2. /\ currentTerm \in [Server -> Nat]
      /\ role \in [Server -> {"Follower", "Candidate", "Leader"}]
      /\ votesReceived \in [Server -> SUBSET Server]
  BY Zenon DEF VoteInv, TypeInv, TypeOK
<1>3. /\ VotesRemembered' /\ OneVotePerTerm' /\ ResponsesBacked'
      /\ \A e \in leaders : Elected(e[1], e[2])'
  BY Zenon, <1>1, SelfVote
<1>8. CASE becomeLeader(s, term) /\ hasQuorum(1, Cardinality(Server))
  <2>1. /\ role' = [role EXCEPT ![s] = "Leader"]
        /\ votesReceived' = [votesReceived EXCEPT ![s] = {}]
        /\ leaders' = leaders \cup {<<term, s>>}
    BY <1>8 DEF becomeLeader
  <2>2. Elected(term, s)'
    <3>. Cardinality({s}) = 1
      BY Zenon DEF Counting
    <3>. {s} \in SUBSET Server /\ \A v \in {s} : <<v, term, s>> \in granted'
      BY <1>1
    <3>. QED
      BY <1>8 DEF Elected
  <2>3. LeadersBacked'
    BY <1>3, <2>1, <2>2 DEF LeadersBacked
  <2>4. CountedVotesBacked'
    BY <1>1, <1>2, <2>1 DEF VoteInv, CountedVotesBacked
  <2>. QED
    BY <1>3, <2>3, <2>4 DEF VoteInv
<1>9. CASE ~(becomeLeader(s, term) /\ hasQuorum(1, Cardinality(Server)))
  <2>. /\ role' = [role EXCEPT ![s] = "Candidate"]
       /\ votesReceived' = [votesReceived EXCEPT ![s] = {s}]
       /\ UNCHANGED leaders
    BY <1>9 DEF startElection
  <2>. LeadersBacked'
    BY <1>3 DEF LeadersBacked
  <2>. CountedVotesBacked'
    BY <1>1, <1>2 DEF VoteInv, CountedVotesBacked
  <2>. QED
    BY <1>3 DEF VoteInv
<1>. QED
  BY <1>8, <1>9

\* The same for a candidacy that was persisted before the process died.
LEMMA CrashInElectionVotes ==
  ASSUME VoteInv, TypeInv', DurableBeforeReply', NEW s \in Server, crashInElection(s)
  PROVE  VoteInv'
<1>0. currentTerm[s] \in Nat
  BY DEF VoteInv, TypeInv, TypeOK
<1>. PICK term \in Nat : term = currentTerm[s] + 1
  BY <1>0
<1>1. /\ currentTerm' = [currentTerm EXCEPT ![s] = term]
      /\ votedFor' = [votedFor EXCEPT ![s] = s]
      /\ granted' = granted \cup {<<s, term, s>>}
      /\ UNCHANGED <<voteResponses, leaders>>
      /\ role' = [role EXCEPT ![s] = "Follower"]
      /\ votesReceived' = [votesReceived EXCEPT ![s] = {}]
  BY Zenon DEF crashInElection, Rebooted, messageVars
<1>2. /\ currentTerm \in [Server -> Nat]
      /\ role \in [Server -> {"Follower", "Candidate", "Leader"}]
      /\ votesReceived \in [Server -> SUBSET Server]
  BY Zenon DEF VoteInv, TypeInv, TypeOK
<1>3. /\ VotesRemembered' /\ OneVotePerTerm' /\ ResponsesBacked'
      /\ \A e \in leaders : Elected(e[1], e[2])'
  BY Zenon, <1>1, SelfVote
<1>4. LeadersBacked'
  BY <1>1, <1>3 DEF LeadersBacked
<1>5. CountedVotesBacked'
  BY <1>1, <1>2 DEF VoteInv, CountedVotesBacked
<1>. QED
  BY <1>3, <1>4, <1>5 DEF VoteInv

\* A vote is granted once per term, to the candidate the node remembers.
LEMMA HandleRequestVoteVotes ==
  ASSUME VoteInv, TypeInv', DurableBeforeReply', NEW s \in Server,
         NEW m \in requestVotes, handleRequestVote(s, m)
  PROVE  VoteInv'
<1>1. m.term \in Nat /\ m.src \in Server
  BY Zenon DEF VoteInv, TypeInv, TypeOK, VoteRequest
<1>2. /\ currentTerm \in [Server -> Nat] /\ votedFor \in [Server -> Server \cup {None}]
      /\ role \in [Server -> {"Follower", "Candidate", "Leader"}]
      /\ votesReceived \in [Server -> SUBSET Server]
      /\ granted \subseteq Server \X Nat \X Server
      /\ currentTerm[s] \in Nat
  BY Zenon DEF VoteInv, TypeInv, TypeOK
<1>3. CASE RefuseVote(s, m)
  <2>. /\ voteResponses' = voteResponses \cup
            {[src |-> s, dst |-> m.src, term |-> currentTerm[s],
              electionTerm |-> m.term, voteGranted |-> FALSE]}
       /\ UNCHANGED <<role, currentTerm, votedFor, votesReceived, granted, leaders>>
    BY <1>3 DEF handleRequestVote, RefuseVote, electionVars
  <2>. QED
    BY <1>2, NoVoteStep
<1>4. CASE ConsiderVote(s, m)
  <2>. DEFINE newer    == m.term > currentTerm[s]
              vote     == IF newer THEN None ELSE votedFor[s]
              granting == /\ canVote(vote, m.src)
                          /\ isCandidateLogUpToDate(
                               m.lastLogIndex, m.lastLogTerm, log[s])
              response == [src |-> s, dst |-> m.src, term |-> m.term,
                           electionTerm |-> m.term, voteGranted |-> granting]
  <2>1. /\ m.term >= currentTerm[s]
        /\ IF newer
           THEN becomeFollower(s, m.term, None)
           ELSE UNCHANGED <<role, currentTerm, leaderId, votesReceived, progressVars>>
        /\ votedFor' = [votedFor EXCEPT ![s] = IF granting THEN m.src ELSE vote]
        /\ voteResponses' = voteResponses \cup {response}
        /\ granted' = granted \cup IF granting THEN {<<s, m.term, m.src>>} ELSE {}
        /\ UNCHANGED leaders
    BY Zenon, <1>4 DEF handleRequestVote, ConsiderVote
  <2>2. granting => vote \in {None, m.src}
    BY DEF canVote
  <2>3. /\ newer <=> m.term > currentTerm[s]
        /\ vote = IF newer THEN None ELSE votedFor[s]
        /\ granting \in BOOLEAN
    BY Zenon DEF canVote, isCandidateLogUpToDate
  <2>4. /\ response.src = s /\ response.dst = m.src /\ response.electionTerm = m.term
        /\ response.voteGranted = granting
    BY Zenon
  <2>. HIDE DEF newer, vote, granting, response
  <2>5. /\ currentTerm'[s] = m.term
        /\ \A t \in Server \ {s} : /\ currentTerm'[t] = currentTerm[t]
                                   /\ role'[t] = role[t]
                                   /\ votesReceived'[t] = votesReceived[t]
        /\ role'[s] = "Candidate" => ~newer /\ role[s] = "Candidate"
        /\ ~newer => votesReceived'[s] = votesReceived[s] /\ m.term = currentTerm[s]
    BY <1>1, <1>2, <2>1, <2>3 DEF becomeFollower
  <2>6. ASSUME NEW g \in granted, g[1] = s, g[2] = m.term, granting
        PROVE  g[3] = m.src
    <3>. g[2] <= currentTerm[s] /\ (g[2] = currentTerm[s] => votedFor[s] = g[3])
      BY <2>6 DEF VoteInv, VotesRemembered
    <3>. ~newer /\ m.term = currentTerm[s] /\ votedFor[s] = g[3]
      BY <1>1, <1>2, <2>3, <2>5, <2>6
    <3>. g[3] \in Server
      BY <1>2
    <3>. QED
      BY <2>2, <2>3, <2>6, NoneAssumption
  <2>7. VotesRemembered'
    <3>. SUFFICES ASSUME NEW g \in granted'
                  PROVE  /\ g[2] <= currentTerm'[g[1]]
                         /\ g[2] = currentTerm'[g[1]] => votedFor'[g[1]] = g[3]
      BY DEF VotesRemembered
    <3>. CASE granting /\ g = <<s, m.term, m.src>>
      BY <1>1, <1>2, <2>1, <2>5
    <3>. CASE ~(granting /\ g = <<s, m.term, m.src>>)
      <4>1. g \in granted
        BY <2>1
      <4>2. g[1] \in Server /\ g[2] \in Nat
        BY <1>2, <4>1
      <4>3. /\ g[2] <= currentTerm[g[1]]
            /\ g[2] = currentTerm[g[1]] => votedFor[g[1]] = g[3]
        BY <4>1 DEF VoteInv, VotesRemembered
      <4>4. CASE g[1] # s
        BY <1>2, <2>1, <2>5, <4>2, <4>3, <4>4
      <4>5. CASE g[1] = s
        <5>. g[2] <= currentTerm'[g[1]]
          BY <1>1, <1>2, <2>1, <2>5, <4>2, <4>3, <4>5
        <5>. ASSUME g[2] = currentTerm'[g[1]] PROVE votedFor'[g[1]] = g[3]
          <6>. g[2] = m.term /\ ~newer /\ votedFor[s] = g[3]
            BY <1>1, <1>2, <2>3, <2>5, <4>2, <4>3, <4>5
          <6>. CASE granting
            BY <1>2, <2>1, <2>6, <4>1, <4>5
          <6>. CASE ~granting
            BY <1>2, <2>1, <2>3, <4>5
          <6>. QED
            OBVIOUS
        <5>. QED
          OBVIOUS
      <4>. QED
        BY <4>4, <4>5
    <3>. QED
      OBVIOUS
  <2>8. OneVotePerTerm'
    <3>. SUFFICES ASSUME NEW v \in granted', NEW w \in granted',
                         v[1] = w[1], v[2] = w[2]
                  PROVE  v[3] = w[3]
      BY DEF OneVotePerTerm
    <3>. v \in granted /\ w \in granted => v[3] = w[3]
      BY DEF VoteInv, OneVotePerTerm
    <3>. QED
      BY <2>1, <2>6
  <2>9. ResponsesBacked'
    <3>. SUFFICES ASSUME NEW r \in voteResponses', r.voteGranted
                  PROVE  <<r.src, r.electionTerm, r.dst>> \in granted'
      BY DEF ResponsesBacked
    <3>. CASE r \in voteResponses
      BY Zenon, <2>1 DEF VoteInv, ResponsesBacked
    <3>. CASE r = response
      BY Zenon, <2>1, <2>4
    <3>. QED
      BY Zenon, <2>1
  <2>10. CountedVotesBacked'
    BY <2>1, <2>5 DEF VoteInv, CountedVotesBacked
  <2>11. LeadersBacked'
    BY <2>1, ElectedStable DEF VoteInv, LeadersBacked
  <2>. QED
    BY <2>7, <2>8, <2>9, <2>10, <2>11 DEF VoteInv
<1>. QED
  BY <1>3, <1>4 DEF handleRequestVote

\* The votes a candidate counted, the last one included, elect it.
LEMMA CountVoteVotes ==
  ASSUME VoteInv, TypeInv', DurableBeforeReply', NEW s \in Server,
         NEW m \in voteResponses, m.dst = s, CountVote(s, m),
         voteResponses' \subseteq voteResponses
  PROVE  VoteInv'
<1>. DEFINE votes == votesReceived[s] \cup {m.src}
            won   == hasQuorum(Cardinality(votes), Cardinality(Server))
<1>1. /\ CountsVote(s, m)
      /\ UNCHANGED <<currentTerm, votedFor, granted>>
      /\ \/ won /\ becomeLeader(s, currentTerm[s])
         \/ /\ votesReceived' = [votesReceived EXCEPT ![s] = votes]
            /\ UNCHANGED <<role, leaders>>
  BY DEF CountVote
<1>2. /\ role \in [Server -> {"Follower", "Candidate", "Leader"}]
      /\ votesReceived \in [Server -> SUBSET Server]
      /\ m.src \in Server
  BY Zenon DEF VoteInv, TypeInv, TypeOK, VoteResponse
<1>3. votes \in SUBSET Server /\ \A v \in votes : <<v, currentTerm[s], s>> \in granted
  <2>. <<m.src, currentTerm[s], s>> \in granted
    BY <1>1 DEF VoteInv, ResponsesBacked, CountsVote
  <2>. QED
    BY Zenon, <1>1, <1>2 DEF VoteInv, CountedVotesBacked, CountsVote
<1>. HIDE DEF votes
<1>4. VotesRemembered' /\ OneVotePerTerm' /\ ResponsesBacked'
  BY <1>1 DEF VoteInv, VotesRemembered, OneVotePerTerm, ResponsesBacked
<1>5. ASSUME NEW e \in leaders PROVE Elected(e[1], e[2])'
  BY <1>1, ElectedStable DEF VoteInv, LeadersBacked
<1>6. CASE won /\ becomeLeader(s, currentTerm[s])
  <2>1. /\ role' = [role EXCEPT ![s] = "Leader"]
        /\ votesReceived' = [votesReceived EXCEPT ![s] = {}]
        /\ leaders' = leaders \cup {<<currentTerm[s], s>>}
    BY Zenon, <1>6 DEF becomeLeader
  <2>2. Elected(currentTerm[s], s)
    BY <1>3, <1>6 DEF Elected
  <2>3. Elected(currentTerm[s], s)'
    BY Zenon, <1>1, <2>2 DEF Elected
  <2>4. LeadersBacked'
    <3>. SUFFICES ASSUME NEW e \in leaders' PROVE Elected(e[1], e[2])'
      BY DEF LeadersBacked
    <3>. CASE e \in leaders
      BY <1>5
    <3>. CASE e = <<currentTerm[s], s>>
      BY Zenon, <1>1, <1>3, <1>6 DEF Elected
    <3>. QED
      BY <2>1
  <2>5. CountedVotesBacked'
    BY <1>1, <1>2, <2>1 DEF VoteInv, CountedVotesBacked
  <2>. QED
    BY <1>4, <2>4, <2>5 DEF VoteInv
<1>7. CASE votesReceived' = [votesReceived EXCEPT ![s] = votes]
           /\ UNCHANGED <<role, leaders>>
  <2>. LeadersBacked'
    BY Zenon, <1>5, <1>7 DEF LeadersBacked
  <2>. CountedVotesBacked'
    BY <1>1, <1>2, <1>3, <1>7 DEF VoteInv, CountedVotesBacked
  <2>. QED
    BY <1>4 DEF VoteInv
<1>. QED
  BY Zenon, <1>1, <1>6, <1>7

\* Every step that keeps the types and what is durable keeps the invariant
\* behind election safety; all but the three above leave the votes alone.
LEMMA VoteStep ==
  ASSUME Counting, VoteInv, [Next]_vars, TypeInv', DurableBeforeReply'
  PROVE  VoteInv'
<1>1. TypeInv' /\ DurableBeforeReply'
  OBVIOUS
<1>2. /\ currentTerm \in [Server -> Nat] /\ votedFor \in [Server -> Server \cup {None}]
      /\ role \in [Server -> {"Follower", "Candidate", "Leader"}]
      /\ votesReceived \in [Server -> SUBSET Server]
  BY DEF VoteInv, TypeInv, TypeOK
<1>3. CASE UNCHANGED vars
  BY <1>1, <1>2, <1>3, NoVoteStep
     DEF vars, electionVars, messageVars, historyVars
<1>4. CASE lose
  BY <1>1, <1>2, <1>4, NoVoteStep DEF lose, Drop, electionVars, historyVars
<1>5. ASSUME NEW s \in Server, startElection(s) PROVE VoteInv'
  BY Zenon, <1>1, <1>5, StartElectionVotes
<1>6. ASSUME NEW s \in Server, heartbeat(s) PROVE VoteInv'
  BY <1>1, <1>2, <1>6, NoVoteStep DEF heartbeat, electionVars, historyVars
<1>7. ASSUME NEW s \in Server, NEW m \in requestVotes, handleRequestVote(s, m)
      PROVE  VoteInv'
  BY Zenon, <1>1, <1>7, HandleRequestVoteVotes
<1>8. ASSUME NEW s \in Server, NEW m, m.term \in Nat, StepDown(s, m),
             voteResponses' \subseteq voteResponses
      PROVE  VoteInv'
  BY <1>1, <1>2, <1>8, NoVoteStep DEF StepDown, becomeFollower, historyVars
<1>9. ASSUME NEW s \in Server, NEW m \in voteResponses,
             handleRequestVoteResponse(s, m)
      PROVE  VoteInv'
  <2>1. m.term \in Nat
    BY Zenon DEF VoteInv, TypeInv, TypeOK, VoteResponse
  <2>2. voteResponses' \subseteq voteResponses
    BY <1>9 DEF handleRequestVoteResponse, Deliver
  <2>3. CASE m.dst = s /\ CountVote(s, m)
    BY <1>1, <2>2, <2>3, CountVoteVotes
  <2>4. CASE Ignore
    BY <1>1, <1>2, <2>2, <2>4, NoVoteStep DEF Ignore, electionVars, historyVars
  <2>. QED
    BY Zenon, <1>8, <1>9, <2>1, <2>2, <2>3, <2>4 DEF handleRequestVoteResponse
<1>10. ASSUME NEW s \in Server, NEW m \in appendRequests, handleAppendEntries(s, m)
       PROVE  VoteInv'
  <2>1. m.term \in Nat
    BY DEF VoteInv, TypeInv, TypeOK, AppendRequest
  <2>2. UNCHANGED <<voteResponses, granted, leaders>>
    BY <1>10 DEF handleAppendEntries, historyVars
  <2>3. CASE RefuseAppend(s, m)
    BY <1>1, <1>2, <2>2, <2>3, NoVoteStep DEF RefuseAppend, electionVars
  <2>4. CASE FollowLeader(s, m)
    <3>. /\ m.term >= currentTerm[s]
         /\ becomeFollower(s, m.term, m.src)
         /\ votedFor' = [votedFor EXCEPT ![s] =
                           IF m.term > currentTerm[s] THEN None ELSE @]
      BY Zenon, <2>4 DEF FollowLeader
    <3>. QED
      BY <1>1, <1>2, <2>1, <2>2, NoVoteStep DEF becomeFollower
  <2>. QED
    BY <1>10, <2>3, <2>4 DEF handleAppendEntries
<1>11. ASSUME NEW s \in Server, NEW m \in appendResponses,
              handleAppendEntriesResponse(s, m)
       PROVE  VoteInv'
  <2>1. m.term \in Nat
    BY Zenon DEF VoteInv, TypeInv, TypeOK, AppendResult
  <2>2. UNCHANGED voteResponses
    BY <1>11 DEF handleAppendEntriesResponse
  <2>3. CASE StepDown(s, m)
    BY Zenon, <1>8, <2>1, <2>2, <2>3
  <2>4. CASE UNCHANGED <<electionVars, historyVars>>
    BY Zenon, <1>1, <2>2, <2>4, VotesUntouched
  <2>. QED
    BY Zenon, <1>11, <2>3, <2>4 DEF handleAppendEntriesResponse, Ignore
<1>12. ASSUME NEW s \in Server, NEW cmd \in Command, propose(s, cmd) PROVE VoteInv'
  BY Zenon, <1>1, <1>12, VotesUntouched DEF propose
<1>13. ASSUME NEW s \in Server, restart(s) PROVE VoteInv'
  <2>. disk[s] = DurableState(currentTerm[s], votedFor[s], log[s], commitIndex[s])
    BY DEF VoteInv, DurableBeforeReply
  <2>. disk[s].term = currentTerm[s] /\ disk[s].votedFor = votedFor[s]
    BY DEF DurableState
  <2>. QED
    BY <1>1, <1>2, <1>13, NoVoteStep
       DEF restart, Rebooted, messageVars, historyVars
<1>14. ASSUME NEW s \in Server, crashInElection(s) PROVE VoteInv'
  BY Zenon, <1>1, <1>14, CrashInElectionVotes
<1>15. ASSUME NEW s \in Server, NEW cmd \in Command, crashInPropose(s, cmd)
       PROVE  VoteInv'
  BY <1>1, <1>2, <1>15, NoVoteStep DEF crashInPropose, Rebooted, messageVars, historyVars
<1>. QED
  BY Zenon, <1>3, <1>4, <1>5, <1>6, <1>7, <1>9, <1>10, <1>11, <1>12, <1>13, <1>14, <1>15
     DEF Next

\* The invariant holds before any election.
LEMMA VoteInit ==
  ASSUME Init, TypeInv
  PROVE  VoteInv
<1>. DurableBeforeReply
  BY Zenon DEF Init, DurableBeforeReply, DurableState
<1>. QED
  BY DEF Init, VoteInv, VotesRemembered, OneVotePerTerm,
     ResponsesBacked, CountedVotesBacked, LeadersBacked

\* The node x keeps its office, becomes a follower without a leader or stands.
Settled(x) ==
  \/ /\ role'[x] = role[x] /\ currentTerm'[x] = currentTerm[x]
     /\ leaderId'[x] = leaderId[x]
     /\ nextIndex'[x] = nextIndex[x] /\ matchIndex'[x] = matchIndex[x]
  \/ role'[x] = "Follower" /\ leaderId'[x] = None /\ currentTerm'[x] >= currentTerm[x]
  \/ role'[x] = "Candidate" /\ leaderId'[x] = None /\ currentTerm'[x] > currentTerm[x]

-----------------------------------------------------------------------------
(* What a step may do *)

\* The steps that leave logs, commit indices and leaders alone.
LEMMA QuietShape ==
  ASSUME TypeInv, TypeInv', UNCHANGED <<log, commitIndex, leaders>>,
         appendRequests' \subseteq appendRequests,
         \A r \in appendResponses' : r \in appendResponses \/ Refusal(r),
         \A x \in Server : Settled(x), VotesCast, VoteRequests
  PROVE  StepFacts /\ KeepStep
<1>1. currentTerm \in [Server -> Nat] /\ currentTerm' \in [Server -> Nat]
  BY DEF TypeInv, TypeOK
<1>2. Sent
  BY Zenon DEF Sent
<1>3. ASSUME NEW s \in Server PROVE currentTerm'[s] >= currentTerm[s]
  <2>1. \/ currentTerm'[s] = currentTerm[s] \/ currentTerm'[s] >= currentTerm[s]
        \/ currentTerm'[s] > currentTerm[s]
    BY Zenon DEF Settled
  <2>. QED
    BY ONLY <1>1, <2>1, s \in Server
<1>4. HintMoves
  BY DEF HintMoves, Settled
<1>5. ProgressMoves
  BY Zenon DEF ProgressMoves, Settled
<1>6. CandidateMoves
  BY Zenon DEF CandidateMoves, Settled
<1>7. CommitCounted
  BY Zenon DEF CommitCounted
<1>8. ASSUME NEW s \in Server, role'[s] = "Leader"
      PROVE  role[s] = "Leader" /\ currentTerm'[s] = currentTerm[s]
  BY Zenon, <1>8 DEF Settled
<1>. QED
  BY Zenon, <1>2, <1>3, <1>4, <1>5, <1>6, <1>7, <1>8 DEF StepFacts, KeepStep

\* No vote is cast and none requested.
LEMMA NoVotes ==
  ASSUME UNCHANGED granted, requestVotes' \subseteq requestVotes
  PROVE  VotesCast /\ VoteRequests
  BY Zenon DEF VotesCast, VoteRequests

\* becomeFollower without a leader settles its node and no other changes.
LEMMA FollowerSettled ==
  ASSUME TypeInv, NEW s \in Server, NEW term \in Nat, term >= currentTerm[s],
         becomeFollower(s, term, None), NEW x \in Server
  PROVE  Settled(x)
<1>. CASE x = s
  BY Zenon DEF TypeInv, TypeOK, becomeFollower, Settled
<1>. CASE x # s
  BY DEF TypeInv, TypeOK, becomeFollower, Settled
<1>. QED
  BY Zenon

\* The same for a node that restarts.
LEMMA RebootedSettled ==
  ASSUME TypeInv, NEW s \in Server, NEW term \in Nat, term >= currentTerm[s],
         Rebooted(s), currentTerm' = [currentTerm EXCEPT ![s] = term], NEW x \in Server
  PROVE  Settled(x)
<1>. CASE x = s
  BY Zenon DEF TypeInv, TypeOK, Rebooted, Settled
<1>. CASE x # s
  BY DEF TypeInv, TypeOK, Rebooted, Settled
<1>. QED
  BY Zenon

\* handleRequestVote: a vote is cast for a log that is up to date.
LEMMA HandleRequestVoteShape ==
  ASSUME TypeInv, TypeInv', NEW s \in Server, NEW m \in requestVotes,
         handleRequestVote(s, m)
  PROVE  StepFacts /\ KeepStep
<1>1. /\ m.term \in Nat /\ m.src \in Server /\ currentTerm[s] \in Nat
      /\ currentTerm \in [Server -> Nat]
  BY Zenon DEF TypeInv, TypeOK, VoteRequest
<1>2. /\ UNCHANGED <<log, commitIndex, leaders>>
      /\ appendRequests' \subseteq appendRequests
      /\ \A r \in appendResponses' : r \in appendResponses \/ Refusal(r)
      /\ requestVotes' \subseteq requestVotes
  BY Zenon DEF handleRequestVote, logVars, Deliver
<1>3. VoteRequests
  BY <1>2 DEF VoteRequests
<1>4. CASE RefuseVote(s, m)
  <2>. UNCHANGED <<role, currentTerm, leaderId, nextIndex, matchIndex, granted>>
    BY Zenon, <1>4 DEF RefuseVote, electionVars, progressVars
  <2>. \A x \in Server : Settled(x)
    BY Zenon DEF Settled
  <2>. QED
    BY Zenon, <1>2, NoVotes, QuietShape
<1>5. CASE ConsiderVote(s, m)
  <2>1. PICK granting \in BOOLEAN :
          /\ granting => isCandidateLogUpToDate(m.lastLogIndex, m.lastLogTerm, log[s])
          /\ granted' = granted \cup IF granting THEN {<<s, m.term, m.src>>} ELSE {}
    BY Zenon, <1>5 DEF ConsiderVote
  <2>2. /\ m.term >= currentTerm[s]
        /\ \/ becomeFollower(s, m.term, None)
           \/ /\ UNCHANGED <<role, currentTerm, leaderId, nextIndex, matchIndex>>
              /\ ~(m.term > currentTerm[s])
    BY Zenon, <1>5 DEF ConsiderVote, progressVars
  <2>3. currentTerm'[s] = m.term
    BY ONLY <1>1, <2>2 DEF becomeFollower
  <2>4. VotesCast
    <3>. SUFFICES ASSUME NEW v \in Server, NEW c \in Server, NEW t \in Nat,
                         <<v, t, c>> \in granted' \ granted
                  PROVE  /\ t = currentTerm'[v]
                         /\ log'[v] = log[v]
                         /\ \E r \in requestVotes :
                              /\ r.src = c /\ r.term = t
                              /\ isCandidateLogUpToDate(
                                   r.lastLogIndex, r.lastLogTerm, log[v])
      BY Zenon, <2>1 DEF VotesCast
    <3>. granting /\ v = s /\ t = m.term /\ c = m.src
      BY Zenon, <2>1
    <3>. QED
      BY Zenon, <1>2, <2>1, <2>3
  <2>5. ASSUME NEW x \in Server PROVE Settled(x)
    <3>. CASE becomeFollower(s, m.term, None)
      BY Zenon, <1>1, <2>2, FollowerSettled
    <3>. CASE UNCHANGED <<role, currentTerm, leaderId, nextIndex, matchIndex>>
      BY DEF Settled
    <3>. QED
      BY Zenon, <2>2
  <2>. QED
    BY Zenon, <1>2, <1>3, <2>4, <2>5, QuietShape
<1>. QED
  BY <1>4, <1>5 DEF handleRequestVote

\* A response of a higher term, to a vote or an append request.
LEMMA StepDownShape ==
  ASSUME TypeInv, TypeInv', NEW s \in Server, NEW m, m.term \in Nat, StepDown(s, m),
         appendResponses' \subseteq appendResponses
  PROVE  StepFacts /\ KeepStep
<1>1. /\ becomeFollower(s, m.term, None) /\ m.term > currentTerm[s]
      /\ UNCHANGED <<log, commitIndex, leaders, granted, requestVotes, appendRequests>>
  BY Zenon DEF StepDown, logVars, historyVars
<1>2. m.term >= currentTerm[s]
  BY <1>1 DEF TypeInv, TypeOK
<1>3. \A x \in Server : Settled(x)
  BY Zenon, <1>1, <1>2, FollowerSettled
<1>4. VotesCast /\ VoteRequests
  BY <1>1, NoVotes
<1>. QED
  BY Zenon, <1>1, <1>3, <1>4, QuietShape

\* A step that only takes messages out of flight.
LEMMA IdleShape ==
  ASSUME TypeInv, TypeInv',
         UNCHANGED <<role, currentTerm, leaderId, nextIndex, matchIndex, log,
                     commitIndex, granted, leaders>>,
         requestVotes' \subseteq requestVotes, appendRequests' \subseteq appendRequests,
         \A r \in appendResponses' : r \in appendResponses \/ Refusal(r)
  PROVE  StepFacts /\ KeepStep
<1>. \A x \in Server : Settled(x)
  BY Zenon DEF Settled
<1>. QED
  BY Zenon, NoVotes, QuietShape

\* becomeLeader, with the votes that elect its node.
LEMMA BecomeLeaderShape ==
  ASSUME TypeInv, TypeInv', LeadersBacked', NEW s \in Server, NEW t \in Nat,
         becomeLeader(s, t), currentTerm' = [currentTerm EXCEPT ![s] = t],
         role[s] # "Leader",
         t > currentTerm[s] \/ (t = currentTerm[s] /\ role[s] = "Candidate"),
         VotesCast, requestVotes' = requestVotes, appendResponses' = appendResponses
  PROVE  StepFacts /\ LeadStep(s, t)
<1>. DEFINE e      == [term |-> t, cmd |-> NoOp]
            lg     == Append(log[s], e)
            next   == [p \in Server |-> IF p = s THEN 0 ELSE lastIndex(log[s]) + 1]
            commit == advanceCommitIndex(s, lg, t, NoProgress, commitIndex[s])
<1>1. /\ role' = [role EXCEPT ![s] = "Leader"]
      /\ leaderId' = [leaderId EXCEPT ![s] = s]
      /\ nextIndex' = [nextIndex EXCEPT ![s] = next]
      /\ matchIndex' = [matchIndex EXCEPT ![s] = NoProgress]
      /\ log' = [log EXCEPT ![s] = lg]
      /\ commitIndex' = [commitIndex EXCEPT ![s] = commit]
      /\ appendRequests' = appendRequests \cup replicateToAll(s, t, lg, next, commit)
      /\ leaders' = leaders \cup {<<t, s>>}
  BY DEF becomeLeader
<1>2. /\ role \in [Server -> {"Follower", "Candidate", "Leader"}]
      /\ leaderId \in [Server -> Server \cup {None}]
      /\ currentTerm \in [Server -> Nat]
      /\ nextIndex \in [Server -> [Server -> Nat]]
      /\ matchIndex \in [Server -> [Server -> Nat]]
      /\ log \in [Server -> Seq(Entry)] /\ commitIndex \in [Server -> Nat]
  BY Zenon DEF TypeInv, TypeOK
<1>3. e \in Entry /\ e.term = t
  BY DEF Entry
<1>4. /\ role'[s] = "Leader" /\ leaderId'[s] = s /\ nextIndex'[s] = next
      /\ matchIndex'[s] = NoProgress /\ log'[s] = lg /\ commitIndex'[s] = commit
      /\ currentTerm'[s] = t
  BY Zenon, <1>1, <1>2
<1>5. \A x \in Server \ {s} :
        /\ role'[x] = role[x] /\ leaderId'[x] = leaderId[x] /\ nextIndex'[x] = nextIndex[x]
        /\ matchIndex'[x] = matchIndex[x] /\ log'[x] = log[x]
        /\ commitIndex'[x] = commitIndex[x] /\ currentTerm'[x] = currentTerm[x]
  BY Zenon, <1>1, <1>2
<1>6. \A p \in peers(s) : next[p] = lastIndex(log[s]) + 1
  BY Zenon DEF peers
<1>7. CommitCounted
  BY Zenon, <1>4, <1>5 DEF CommitCounted
<1>. HIDE DEF lg, next, commit, e
<1>8. LeadStep(s, t)
  <2>. Elected(t, s)'
    <3>. <<t, s>> \in leaders'
      BY Zenon, <1>1
    <3>. Elected(<<t, s>>[1], <<t, s>>[2])'
      BY DEF LeadersBacked, Elected
    <3>. QED
      BY Zenon
  <2>. AppendStep(s, t)
    BY Zenon, <1>1, <1>3, <1>4, <1>5, <1>7 DEF AppendStep, lg
  <2>. QED
    BY Zenon, <1>1, <1>4, <1>6 DEF LeadStep
<1>9. Sent
  <2>. SUFFICES ASSUME NEW m \in replicateToAll(s, t, lg, next, commit)
                PROVE  \E p \in peers(s) :
                         m = makeAppendEntries(s, p, currentTerm'[s], log'[s],
                                               nextIndex'[s][p], commitIndex'[s])
    BY Zenon, <1>1, <1>4 DEF Sent
  <2>. QED
    BY Zenon, <1>4 DEF replicateToAll
<1>10. HintMoves
  BY <1>1, <1>4, <1>5 DEF HintMoves
<1>11. ProgressMoves
  BY Zenon, <1>5 DEF ProgressMoves
<1>12. CandidateMoves /\ VoteRequests
  BY Zenon, <1>4, <1>5 DEF CandidateMoves, VoteRequests
<1>13. \A x \in Server : currentTerm'[x] >= currentTerm[x]
  <2>. SUFFICES ASSUME NEW x \in Server PROVE currentTerm'[x] >= currentTerm[x]
    BY Zenon
  <2>1. CASE x = s
    BY <1>2, <1>4, <2>1
  <2>2. CASE x # s
    <3>1. currentTerm'[x] = currentTerm[x] /\ currentTerm[x] \in Nat
      BY Zenon, <1>2, <1>5, <2>2
    <3>. QED
      BY ONLY <3>1
  <2>. QED
    BY Zenon, <2>1, <2>2
<1>. QED
  BY Zenon, <1>1, <1>8, <1>9, <1>10, <1>11, <1>12, <1>13 DEF StepFacts

\* startElection: a candidate asks for votes, or a lone voter leads at once.
LEMMA StartElectionShape ==
  ASSUME VoteInv, VoteInv', NEW s \in Server, startElection(s)
  PROVE  StepFacts /\ (KeepStep \/ \E t \in Nat : LeadStep(s, t))
<1>1. /\ TypeInv /\ TypeInv' /\ LeadersBacked' /\ currentTerm[s] \in Nat
      /\ currentTerm \in [Server -> Nat] /\ log \in [Server -> Seq(Entry)]
      /\ role \in [Server -> {"Follower", "Candidate", "Leader"}]
      /\ leaderId \in [Server -> Server \cup {None}]
  BY Zenon DEF VoteInv, TypeInv, TypeOK
<1>2. PICK t \in Nat : t = currentTerm[s] + 1
  BY <1>1
<1>3. /\ role[s] # "Leader"
      /\ currentTerm' = [currentTerm EXCEPT ![s] = t]
      /\ granted' = granted \cup {<<s, t, s>>}
      /\ UNCHANGED appendResponses
  BY Zenon, <1>2 DEF startElection
<1>4. currentTerm'[s] = t /\ t > currentTerm[s]
  BY <1>1, <1>2, <1>3
<1>5. VotesCast
  BY <1>3, <1>4 DEF VotesCast
<1>6. CASE becomeLeader(s, t) /\ UNCHANGED requestVotes
  <2>. StepFacts /\ LeadStep(s, t)
    BY Zenon, <1>1, <1>3, <1>4, <1>5, <1>6, BecomeLeaderShape
  <2>. QED
    OBVIOUS
<1>7. CASE ~(becomeLeader(s, t) /\ UNCHANGED requestVotes)
  <2>. /\ role' = [role EXCEPT ![s] = "Candidate"]
       /\ leaderId' = [leaderId EXCEPT ![s] = None]
       /\ requestVotes' = requestVotes \cup
            {[src |-> s, dst |-> p, term |-> t,
              lastLogIndex |-> lastIndex(log[s]),
              lastLogTerm |-> lastTerm(log[s])] : p \in peers(s)}
       /\ UNCHANGED <<log, commitIndex, nextIndex, matchIndex, appendRequests, leaders>>
    BY Zenon, <1>2, <1>7 DEF startElection, logVars, progressVars
  <2>. ASSUME NEW x \in Server PROVE Settled(x)
    <3>. CASE x = s
      BY Zenon, <1>1, <1>4 DEF Settled
    <3>. CASE x # s
      BY Zenon, <1>1, <1>3 DEF Settled
    <3>. QED
      BY Zenon
  <2>. VoteRequests
    <3>. role'[s] = "Candidate" /\ log'[s] = log[s]
      BY Zenon, <1>1
    <3>. QED
      BY <1>4 DEF VoteRequests
  <2>. QED
    BY Zenon, <1>1, <1>3, <1>5, QuietShape
<1>. QED
  BY <1>6, <1>7

\* handleRequestVoteResponse: the quorum of votes makes a leader.
LEMMA HandleRequestVoteResponseShape ==
  ASSUME VoteInv, VoteInv', NEW s \in Server, NEW m \in voteResponses,
         handleRequestVoteResponse(s, m)
  PROVE  StepFacts /\ (KeepStep \/ \E t \in Nat : LeadStep(s, t))
<1>1. /\ TypeInv /\ TypeInv' /\ LeadersBacked' /\ currentTerm[s] \in Nat
      /\ currentTerm \in [Server -> Nat] /\ m.term \in Nat
  BY Zenon DEF VoteInv, TypeInv, TypeOK, VoteResponse
<1>2. UNCHANGED appendResponses
  BY Zenon DEF handleRequestVoteResponse
<1>3. CASE StepDown(s, m)
  BY Zenon, <1>1, <1>2, <1>3, StepDownShape
<1>4. CASE Ignore
  BY Zenon, <1>1, <1>2, <1>4, IdleShape
     DEF Ignore, electionVars, logVars, progressVars, historyVars
<1>5. CASE CountVote(s, m)
  <2>. /\ role[s] = "Candidate" /\ UNCHANGED <<currentTerm, requestVotes, granted>>
       /\ \/ becomeLeader(s, currentTerm[s])
          \/ UNCHANGED <<role, leaderId, log, commitIndex, nextIndex, matchIndex,
                         appendRequests, leaders>>
    BY Zenon, <1>5 DEF CountVote, CountsVote, logVars, progressVars
  <2>. CASE becomeLeader(s, currentTerm[s])
    <3>1. PICK t \in Nat : t = currentTerm[s]
      BY Zenon, <1>1
    <3>2. currentTerm' = [currentTerm EXCEPT ![s] = t]
      BY <1>1, <3>1
    <3>3. VotesCast
      BY Zenon, NoVotes
    <3>4. becomeLeader(s, t) /\ role[s] # "Leader"
      BY <3>1
    <3>5. StepFacts /\ LeadStep(s, t)
      BY Zenon, <1>1, <1>2, <3>1, <3>2, <3>3, <3>4, BecomeLeaderShape
    <3>. QED
      BY Zenon, <3>5
  <2>. CASE UNCHANGED <<role, leaderId, log, commitIndex, nextIndex, matchIndex,
                        appendRequests, leaders>>
    BY Zenon, <1>1, <1>2, IdleShape
  <2>. QED
    BY Zenon
<1>. QED
  BY Zenon, <1>3, <1>4, <1>5 DEF handleRequestVoteResponse

\* handleAppendEntries: a stale request is refused, any other is followed.
LEMMA HandleAppendEntriesShape ==
  ASSUME TypeInv, TypeInv', NEW s \in Server, NEW m \in appendRequests,
         handleAppendEntries(s, m)
  PROVE  StepFacts /\ (KeepStep \/ FollowStep(s, m))
<1>1. /\ currentTerm[s] \in Nat /\ m.term \in Nat
      /\ currentTerm \in [Server -> Nat] /\ log \in [Server -> Seq(Entry)]
      /\ role \in [Server -> {"Follower", "Candidate", "Leader"}]
      /\ leaderId \in [Server -> Server \cup {None}]
      /\ nextIndex \in [Server -> [Server -> Nat]]
      /\ matchIndex \in [Server -> [Server -> Nat]]
  BY Zenon DEF TypeInv, TypeOK, AppendRequest
<1>2. /\ m.dst = s /\ appendRequests' \subseteq appendRequests
      /\ UNCHANGED <<requestVotes, granted, leaders>>
  BY DEF handleAppendEntries, Deliver, historyVars
<1>3. CASE RefuseAppend(s, m)
  <2>. /\ UNCHANGED <<role, currentTerm, leaderId, nextIndex, matchIndex, log, commitIndex>>
       /\ appendResponses' = appendResponses \cup
            {AppendResponse(s, m, currentTerm[s], FALSE, 0,
                            lastIndex(log[s]) + 1, NoTerm)}
    BY <1>3 DEF RefuseAppend, electionVars, progressVars, logVars
  <2>. Refusal(AppendResponse(s, m, currentTerm[s], FALSE, 0,
                              lastIndex(log[s]) + 1, NoTerm))
    BY Zenon DEF AppendResponse, Refusal
  <2>. QED
    BY Zenon, <1>2, IdleShape
<1>4. CASE FollowLeader(s, m)
  <2>1. /\ m.term >= currentTerm[s]
        /\ becomeFollower(s, m.term, m.src)
        /\ \E lg : log' = [log EXCEPT ![s] = lg]
    BY Zenon, <1>4 DEF FollowLeader
  <2>2. role'[s] = "Follower" /\ currentTerm'[s] = m.term /\ leaderId'[s] = m.src
    BY Zenon, <1>1, <2>1 DEF becomeFollower
  <2>3. \A x \in Server \ {s} :
          /\ role'[x] = role[x] /\ leaderId'[x] = leaderId[x]
          /\ nextIndex'[x] = nextIndex[x] /\ matchIndex'[x] = matchIndex[x]
          /\ log'[x] = log[x] /\ currentTerm'[x] = currentTerm[x]
    BY Zenon, <1>1, <2>1 DEF becomeFollower
  <2>4. ASSUME NEW x \in Server PROVE currentTerm'[x] >= currentTerm[x]
    <3>. CASE x = s
      BY Zenon, <2>1, <2>2
    <3>. CASE x # s
      <4>1. currentTerm'[x] = currentTerm[x] /\ currentTerm[x] \in Nat
        BY Zenon, <1>1, <2>3
      <4>. QED
        BY ONLY <4>1
    <3>. QED
      BY Zenon
  <2>5. Sent /\ VotesCast /\ VoteRequests
    BY Zenon, <1>2, NoVotes DEF Sent
  <2>6. HintMoves
    BY Zenon, <2>2, <2>3 DEF HintMoves
  <2>7. ProgressMoves /\ CandidateMoves
    BY Zenon, <2>2, <2>3 DEF ProgressMoves, CandidateMoves
  <2>8. FollowStep(s, m)
    BY Zenon, <1>2, <1>4 DEF FollowLeader, becomeFollower, FollowStep, handleAppendEntries
  <2>. QED
    BY Zenon, <1>2, <2>4, <2>5, <2>6, <2>7, <2>8 DEF StepFacts
<1>. QED
  BY <1>3, <1>4 DEF handleAppendEntries

\* A leader that sends requests and moves its progress for one peer.
LEMMA LeaderShape ==
  ASSUME TypeInv, TypeInv', NEW s \in Server, role[s] = "Leader",
         UNCHANGED <<role, currentTerm, leaderId, log, requestVotes, granted, leaders>>,
         appendResponses' \subseteq appendResponses,
         \A x \in Server \ {s} :
           /\ nextIndex'[x] = nextIndex[x] /\ matchIndex'[x] = matchIndex[x],
         CommitCounted, ProgressMoves,
         \A m \in appendRequests' : m \in appendRequests \/
           \E p \in peers(s) :
             m = makeAppendEntries(s, p, currentTerm'[s], log'[s], nextIndex'[s][p],
                                   commitIndex'[s])
  PROVE  StepFacts /\ KeepStep
<1>. currentTerm \in [Server -> Nat]
  BY DEF TypeInv, TypeOK
<1>. Sent
  BY Zenon DEF Sent
<1>. HintMoves /\ CandidateMoves /\ VotesCast /\ VoteRequests
  BY Zenon, NoVotes DEF HintMoves, CandidateMoves
<1>. \A x \in Server : currentTerm'[x] >= currentTerm[x]
  BY Zenon, TermsStay
<1>. QED
  BY Zenon DEF StepFacts, KeepStep

\* heartbeat sends what the leader's progress asks for.
LEMMA HeartbeatShape ==
  ASSUME TypeInv, TypeInv', NEW s \in Server, heartbeat(s)
  PROVE  StepFacts /\ KeepStep
<1>. /\ role[s] = "Leader"
     /\ UNCHANGED <<role, currentTerm, leaderId, log, commitIndex, nextIndex,
                    matchIndex, requestVotes, appendResponses, granted, leaders>>
     /\ appendRequests' = appendRequests \cup
          replicateToAll(s, currentTerm[s], log[s], nextIndex[s], commitIndex[s])
  BY Zenon DEF heartbeat, electionVars, logVars, progressVars, historyVars
<1>. CommitCounted /\ ProgressMoves
  BY Zenon DEF CommitCounted, ProgressMoves
<1>. \A m \in appendRequests' : m \in appendRequests \/
       \E p \in peers(s) :
         m = makeAppendEntries(s, p, currentTerm'[s], log'[s], nextIndex'[s][p],
                               commitIndex'[s])
  BY DEF replicateToAll
<1>. QED
  BY Zenon, LeaderShape

\* handleAppendEntriesResponse moves the progress of the peer that answered.
LEMMA HandleAppendEntriesResponseShape ==
  ASSUME TypeInv, TypeInv', NEW s \in Server, NEW m \in appendResponses,
         handleAppendEntriesResponse(s, m)
  PROVE  StepFacts /\ KeepStep
<1>1. /\ currentTerm[s] \in Nat /\ m.term \in Nat /\ m.src \in peers(s)
      /\ m.src \in Server
      /\ nextIndex \in [Server -> [Server -> Nat]]
      /\ matchIndex \in [Server -> [Server -> Nat]]
      /\ commitIndex \in [Server -> Nat]
  BY Zenon DEF TypeInv, TypeOK, AppendResult, handleAppendEntriesResponse
<1>2. appendResponses' \subseteq appendResponses
  BY Zenon DEF handleAppendEntriesResponse, Deliver
<1>3. CASE StepDown(s, m)
  BY Zenon, <1>1, <1>2, <1>3, StepDownShape
<1>4. CASE Ignore
  BY <1>2, <1>4, IdleShape DEF Ignore, electionVars, logVars, progressVars, historyVars
<1>5. CASE /\ role[s] = "Leader" /\ m.term = currentTerm[s]
           /\ UNCHANGED <<electionVars, log, requestVotes, historyVars>>
           /\ Acknowledged(s, m)
  <2>. DEFINE match  == [matchIndex[s] EXCEPT ![m.src] = Max({@, m.matchIndex})]
              next   == Max({nextIndex[s][m.src], m.matchIndex + 1})
              commit == advanceCommitIndex(
                          s, log[s], currentTerm[s], match, commitIndex[s])
  <2>1. UNCHANGED <<role, currentTerm, leaderId, log, requestVotes, granted, leaders>>
    BY Zenon, <1>5 DEF electionVars, historyVars
  <2>2. /\ ValidAck(s, m)
        /\ matchIndex' = [matchIndex EXCEPT ![s] = match]
        /\ nextIndex' = [nextIndex EXCEPT ![s][m.src] = next]
        /\ commitIndex' = [commitIndex EXCEPT ![s] = commit]
        /\ appendRequests' = appendRequests \cup
             IF next <= lastIndex(log[s])
             THEN {makeAppendEntries(s, m.src, currentTerm[s], log[s], next, commit)}
             ELSE {}
    BY Zenon, <1>5 DEF Acknowledged
  <2>3. /\ match[m.src] = Max({matchIndex[s][m.src], m.matchIndex})
        /\ \A p \in Server \ {m.src} : match[p] = matchIndex[s][p]
    BY Zenon, <1>1
  <2>. HIDE DEF match, next, commit
  <2>4. /\ matchIndex'[s] = match /\ commitIndex'[s] = commit
        /\ nextIndex'[s][m.src] = next
        /\ \A p \in Server \ {m.src} : nextIndex'[s][p] = nextIndex[s][p]
    BY Zenon, <1>1, <2>2
  <2>5. \A x \in Server \ {s} :
          /\ nextIndex'[x] = nextIndex[x] /\ matchIndex'[x] = matchIndex[x]
          /\ commitIndex'[x] = commitIndex[x]
    BY <1>1, <2>2
  <2>6. CommitCounted
    BY Zenon, <1>5, <2>1, <2>4, <2>5 DEF CommitCounted, commit
  <2>7. ProgressMoves
    <3>. SUFFICES ASSUME NEW x \in Server, role[x] = "Leader", NEW p \in peers(x)
                  PROVE  \/ /\ nextIndex'[x][p] = nextIndex[x][p]
                            /\ matchIndex'[x][p] = matchIndex[x][p]
                         \/ /\ x = s /\ p = m.src
                            /\ nextIndex'[x][p] = Max({nextIndex[x][p], m.matchIndex + 1})
                            /\ matchIndex'[x][p] = Max({matchIndex[x][p], m.matchIndex})
      BY Zenon, <1>5, <2>2 DEF ProgressMoves
    <3>. QED
      BY Zenon, <2>3, <2>4, <2>5 DEF peers, next
  <2>8. \A r \in appendRequests' : r \in appendRequests \/
          \E p \in peers(s) :
            r = makeAppendEntries(s, p, currentTerm'[s], log'[s], nextIndex'[s][p],
                                  commitIndex'[s])
    BY Zenon, <1>1, <2>1, <2>2, <2>4
  <2>. QED
    BY Zenon, <1>2, <1>5, <2>1, <2>5, <2>6, <2>7, <2>8, LeaderShape
<1>6. CASE /\ role[s] = "Leader" /\ m.term = currentTerm[s]
           /\ UNCHANGED <<electionVars, log, requestVotes, historyVars>>
           /\ Rejected(s, m)
  <2>. DEFINE next == nextIndexAfterConflict(log[s], m.conflictIndex, m.conflictTerm)
  <2>1. UNCHANGED <<role, currentTerm, leaderId, log, requestVotes, granted, leaders>>
    BY Zenon, <1>6 DEF electionVars, historyVars
  <2>2. /\ LatestProbe(s, m)
        /\ nextIndex' = [nextIndex EXCEPT ![s][m.src] = next]
        /\ appendRequests' = appendRequests \cup
             {makeAppendEntries(s, m.src, currentTerm[s], log[s], next, commitIndex[s])}
        /\ UNCHANGED <<matchIndex, commitIndex>>
    BY Zenon, <1>6 DEF Rejected
  <2>. HIDE DEF next
  <2>4. /\ nextIndex'[s][m.src] = next
        /\ \A p \in Server \ {m.src} : nextIndex'[s][p] = nextIndex[s][p]
    BY Zenon, <1>1, <2>2
  <2>5. \A x \in Server \ {s} : nextIndex'[x] = nextIndex[x]
    BY Zenon, <1>1, <2>2
  <2>6. CommitCounted
    BY Zenon, <2>2 DEF CommitCounted
  <2>7. ProgressMoves
    <3>. SUFFICES ASSUME NEW x \in Server, role[x] = "Leader", NEW p \in peers(x)
                  PROVE  \/ nextIndex'[x][p] = nextIndex[x][p]
                         \/ x = s /\ p = m.src /\ nextIndex'[x][p] = next
      BY <1>6, <2>2 DEF ProgressMoves, next
    <3>. QED
      BY Zenon, <2>4, <2>5 DEF peers
  <2>8. \A r \in appendRequests' : r \in appendRequests \/
          \E p \in peers(s) :
            r = makeAppendEntries(s, p, currentTerm'[s], log'[s], nextIndex'[s][p],
                                  commitIndex'[s])
    BY Zenon, <1>1, <2>1, <2>2, <2>4
  <2>. QED
    BY Zenon, <1>2, <1>6, <2>1, <2>2, <2>5, <2>6, <2>7, <2>8, LeaderShape
<1>. QED
  BY Zenon, <1>3, <1>4, <1>5, <1>6 DEF handleAppendEntriesResponse

\* s appends an entry in the term it leads, sends it, or dies before that.
LEMMA ExtendShape ==
  ASSUME TypeInv, TypeInv', NEW s \in Server, NEW e \in Entry, e.term = currentTerm[s],
         role[s] = "Leader", log' = [log EXCEPT ![s] = Append(log[s], e)],
         UNCHANGED <<currentTerm, leaders, granted, requestVotes, appendResponses>>,
         CommitCounted, Sent, \A x \in Server : Settled(x),
         \A x \in Server \ {s} : role'[x] = role[x]
  PROVE  StepFacts /\ ExtendStep(s)
<1>1. /\ currentTerm \in [Server -> Nat] /\ log \in [Server -> Seq(Entry)]
      /\ role \in [Server -> {"Follower", "Candidate", "Leader"}]
  BY Zenon DEF TypeInv, TypeOK
<1>2. \A x \in Server : currentTerm'[x] = currentTerm[x] /\ currentTerm[x] \in Nat
  BY Zenon, <1>1
<1>3. ASSUME NEW x \in Server
      PROVE  \/ /\ role'[x] = role[x] /\ leaderId'[x] = leaderId[x]
                /\ nextIndex'[x] = nextIndex[x] /\ matchIndex'[x] = matchIndex[x]
             \/ role'[x] = "Follower" /\ leaderId'[x] = None
  <2>1. ~(currentTerm'[x] > currentTerm[x])
    <3>1. currentTerm'[x] = currentTerm[x] /\ currentTerm[x] \in Nat
      BY Zenon, <1>2
    <3>. QED
      BY ONLY <3>1
  <2>. QED
    BY Zenon, <2>1 DEF Settled
<1>4. HintMoves /\ ProgressMoves
  BY Zenon, <1>2, <1>3 DEF HintMoves, ProgressMoves
<1>5. \A x \in Server \ {s} : log'[x] = log[x]
  BY <1>1
<1>6. CandidateMoves
  BY <1>2, <1>3, <1>5 DEF CandidateMoves
<1>7. VotesCast /\ VoteRequests
  BY NoVotes
<1>8. ExtendStep(s)
  <2>. currentTerm' = [currentTerm EXCEPT ![s] = currentTerm[s]]
    BY <1>1
  <2>. role'[s] \in {"Leader", "Follower"}
    BY <1>3
  <2>. QED
    BY Zenon DEF ExtendStep, AppendStep
<1>. QED
  <2>1. ASSUME NEW x \in Server PROVE currentTerm'[x] >= currentTerm[x]
    BY ONLY <1>2, x \in Server
  <2>. QED
    BY Zenon, <1>4, <1>6, <1>7, <1>8, <2>1 DEF StepFacts

\* propose: the leader appends, counts and sends.
LEMMA ProposeShape ==
  ASSUME TypeInv, TypeInv', NEW s \in Server, NEW cmd \in Command, propose(s, cmd)
  PROVE  StepFacts /\ ExtendStep(s)
<1>. DEFINE e      == [term |-> currentTerm[s], cmd |-> cmd]
            lg     == Append(log[s], e)
            commit == advanceCommitIndex(
                        s, lg, currentTerm[s], matchIndex[s], commitIndex[s])
<1>1. /\ currentTerm[s] \in Nat /\ log \in [Server -> Seq(Entry)]
      /\ commitIndex \in [Server -> Nat]
  BY Zenon DEF TypeInv, TypeOK
<1>2. /\ role[s] = "Leader"
      /\ log' = [log EXCEPT ![s] = lg]
      /\ commitIndex' = [commitIndex EXCEPT ![s] = commit]
      /\ appendRequests' = appendRequests \cup
           replicateToAll(s, currentTerm[s], lg, nextIndex[s], commit)
      /\ UNCHANGED <<role, currentTerm, leaderId, nextIndex, matchIndex, requestVotes,
                     appendResponses, granted, leaders>>
  BY Zenon DEF propose, electionVars, progressVars, historyVars
<1>3. e \in Entry /\ e.term = currentTerm[s]
  BY Zenon, <1>1 DEF Entry
<1>. HIDE DEF e, commit
<1>4. /\ log'[s] = lg /\ commitIndex'[s] = commit
      /\ \A x \in Server \ {s} : commitIndex'[x] = commitIndex[x]
  BY Zenon, <1>1, <1>2
<1>5. CommitCounted
  BY Zenon, <1>2, <1>4 DEF CommitCounted, commit
<1>6. \A x \in Server : Settled(x)
  BY Zenon, <1>2 DEF Settled
<1>7. Sent
  <2>. SUFFICES ASSUME NEW m \in replicateToAll(s, currentTerm[s], lg, nextIndex[s], commit)
                PROVE  \E p \in peers(s) :
                         m = makeAppendEntries(s, p, currentTerm'[s], log'[s],
                                               nextIndex'[s][p], commitIndex'[s])
    BY Zenon, <1>2 DEF Sent
  <2>. QED
    BY <1>2, <1>4 DEF replicateToAll
<1>. QED
  BY Zenon, <1>2, <1>3, <1>5, <1>6, <1>7, ExtendShape

\* The lone leader dies with the entry persisted.
LEMMA CrashInProposeShape ==
  ASSUME TypeInv, TypeInv', NEW s \in Server, NEW cmd \in Command, crashInPropose(s, cmd)
  PROVE  StepFacts /\ ExtendStep(s)
<1>1. /\ currentTerm[s] \in Nat /\ currentTerm \in [Server -> Nat]
      /\ role \in [Server -> {"Follower", "Candidate", "Leader"}]
  BY Zenon DEF TypeInv, TypeOK
<1>2. PICK e \in Entry : e = [term |-> currentTerm[s], cmd |-> cmd]
  BY Zenon, <1>1 DEF Entry
<1>3. e.term = currentTerm[s]
  BY <1>2
<1>4. /\ role[s] = "Leader" /\ Rebooted(s)
      /\ log' = [log EXCEPT ![s] = Append(log[s], e)]
      /\ UNCHANGED <<currentTerm, commitIndex, requestVotes, appendRequests,
                     appendResponses, granted, leaders>>
  BY Zenon, <1>2 DEF crashInPropose, messageVars, historyVars
<1>5. currentTerm' = [currentTerm EXCEPT ![s] = currentTerm[s]]
  BY <1>1, <1>4
<1>6. \A x \in Server : Settled(x)
  <2>. currentTerm[s] >= currentTerm[s]
    BY ONLY <1>1
  <2>. QED
    BY Zenon, <1>1, <1>4, <1>5, RebootedSettled
<1>7. CommitCounted /\ Sent /\ \A x \in Server \ {s} : role'[x] = role[x]
  BY <1>1, <1>4 DEF CommitCounted, Sent, Rebooted
<1>. QED
  BY Zenon, <1>3, <1>4, <1>6, <1>7, ExtendShape

\* restart loads the state the node had.
LEMMA RestartShape ==
  ASSUME TypeInv, TypeInv', DurableBeforeReply, NEW s \in Server, restart(s)
  PROVE  StepFacts /\ KeepStep
<1>1. /\ currentTerm[s] \in Nat /\ currentTerm \in [Server -> Nat]
      /\ log \in [Server -> Seq(Entry)] /\ commitIndex \in [Server -> Nat]
  BY Zenon DEF TypeInv, TypeOK
<1>2. /\ disk[s].term = currentTerm[s] /\ disk[s].log = log[s]
      /\ disk[s].commitIndex = commitIndex[s]
  <2>. disk[s] = DurableState(currentTerm[s], votedFor[s], log[s], commitIndex[s])
    BY Zenon DEF DurableBeforeReply
  <2>. QED
    BY DEF DurableState
<1>3. /\ Rebooted(s)
      /\ currentTerm' = [currentTerm EXCEPT ![s] = currentTerm[s]]
      /\ UNCHANGED <<log, commitIndex, requestVotes, appendRequests, appendResponses,
                     granted, leaders>>
  BY Zenon, <1>1, <1>2 DEF restart, messageVars, historyVars
<1>4. \A x \in Server : Settled(x)
  <2>. currentTerm[s] >= currentTerm[s]
    BY <1>1
  <2>. QED
    BY Zenon, <1>1, <1>3, RebootedSettled
<1>. QED
  BY Zenon, <1>3, <1>4, NoVotes, QuietShape

\* The lone voter dies between two persists of its election.
LEMMA CrashInElectionShape ==
  ASSUME Counting, TypeInv, TypeInv', NEW s \in Server, crashInElection(s)
  PROVE  StepFacts /\ (KeepStep \/ \E t \in Nat : LeadStep(s, t))
<1>1. /\ currentTerm[s] \in Nat /\ currentTerm \in [Server -> Nat]
      /\ log \in [Server -> Seq(Entry)]
      /\ role \in [Server -> {"Follower", "Candidate", "Leader"}]
  BY Zenon DEF TypeInv, TypeOK
<1>2. PICK t \in Nat : t = currentTerm[s] + 1
  BY <1>1
<1>3. PICK e \in Entry : e = [term |-> t, cmd |-> NoOp]
  BY Zenon DEF Entry
<1>4. /\ hasQuorum(1, Cardinality(Server)) /\ Rebooted(s)
      /\ currentTerm' = [currentTerm EXCEPT ![s] = t]
      /\ \/ UNCHANGED log
         \/ log' = [log EXCEPT ![s] = Append(log[s], e)]
      /\ granted' = granted \cup {<<s, t, s>>}
      /\ UNCHANGED <<commitIndex, requestVotes, appendRequests, appendResponses, leaders>>
  BY Zenon, <1>2, <1>3 DEF crashInElection, messageVars
<1>5. currentTerm'[s] = t /\ t > currentTerm[s] /\ t >= currentTerm[s]
  BY <1>1, <1>2, <1>4
<1>6. VotesCast /\ VoteRequests
  BY Zenon, <1>4, <1>5 DEF VotesCast, VoteRequests
<1>7. \A x \in Server : Settled(x)
  BY Zenon, <1>1, <1>4, <1>5, RebootedSettled
<1>8. CASE UNCHANGED log
  BY Zenon, <1>4, <1>6, <1>7, <1>8, QuietShape
<1>9. CASE log' = [log EXCEPT ![s] = Append(log[s], e)]
  <2>1. /\ role'[s] = "Follower"
        /\ \A x \in Server \ {s} : role'[x] = role[x] /\ log'[x] = log[x]
    BY <1>1, <1>4, <1>9 DEF Rebooted
  <2>2. CommitCounted /\ Sent
    BY Zenon, <1>4 DEF CommitCounted, Sent
  <2>3. AppendStep(s, t)
    BY Zenon, <1>3, <1>4, <1>9, <2>1, <2>2 DEF AppendStep
  <2>4. Elected(t, s)'
    <3>. Cardinality({s}) = 1
      BY Zenon DEF Counting
    <3>. {s} \in SUBSET Server /\ \A v \in {s} : <<v, t, s>> \in granted'
      BY <1>4
    <3>. QED
      BY <1>4 DEF Elected
  <2>5. LeadStep(s, t)
    BY Zenon, <1>4, <1>5, <2>1, <2>3, <2>4 DEF LeadStep
  <2>6. \A x \in Server : currentTerm'[x] >= currentTerm[x]
    BY <1>1, <1>4, <1>5
  <2>7. HintMoves /\ ProgressMoves
    BY Zenon, <1>7 DEF Settled, HintMoves, ProgressMoves
  <2>8. CandidateMoves
    BY Zenon, <1>7, <2>1 DEF Settled, CandidateMoves
  <2>. QED
    BY Zenon, <1>4, <1>6, <2>2, <2>5, <2>6, <2>7, <2>8 DEF StepFacts
<1>. QED
  BY <1>4, <1>8, <1>9

\* Every step has one of the four kinds and the facts they share.
LEMMA StepShape ==
  ASSUME Counting, VoteInv, VoteInv', [Next]_vars
  PROVE  StepFacts /\ StepKind
<1>1. TypeInv /\ TypeInv' /\ DurableBeforeReply
  BY Zenon DEF VoteInv
<1>. USE DEF StepKind
<1>2. CASE UNCHANGED vars
  BY Zenon, <1>1, <1>2, IdleShape
     DEF vars, electionVars, logVars, progressVars, messageVars, historyVars
<1>3. CASE lose
  BY Zenon, <1>1, <1>3, IdleShape
     DEF lose, Drop, electionVars, logVars, progressVars, historyVars
<1>4. ASSUME NEW s \in Server, startElection(s) PROVE StepFacts /\ StepKind
  BY <1>4, StartElectionShape
<1>5. ASSUME NEW s \in Server, heartbeat(s) PROVE StepFacts /\ StepKind
  BY Zenon, <1>1, <1>5, HeartbeatShape
<1>6. ASSUME NEW s \in Server, NEW m \in requestVotes, handleRequestVote(s, m)
      PROVE  StepFacts /\ StepKind
  BY Zenon, <1>1, <1>6, HandleRequestVoteShape
<1>7. ASSUME NEW s \in Server, NEW m \in voteResponses, handleRequestVoteResponse(s, m)
      PROVE  StepFacts /\ StepKind
  BY Zenon, <1>7, HandleRequestVoteResponseShape
<1>8. ASSUME NEW s \in Server, NEW m \in appendRequests, handleAppendEntries(s, m)
      PROVE  StepFacts /\ StepKind
  BY Zenon, <1>1, <1>8, HandleAppendEntriesShape
<1>9. ASSUME NEW s \in Server, NEW m \in appendResponses,
             handleAppendEntriesResponse(s, m)
      PROVE  StepFacts /\ StepKind
  BY <1>1, <1>9, HandleAppendEntriesResponseShape
<1>10. ASSUME NEW s \in Server, NEW cmd \in Command, propose(s, cmd)
       PROVE  StepFacts /\ StepKind
  BY Zenon, <1>1, <1>10, ProposeShape
<1>11. ASSUME NEW s \in Server, restart(s) PROVE StepFacts /\ StepKind
  BY Zenon, <1>1, <1>11, RestartShape
<1>12. ASSUME NEW s \in Server, crashInElection(s) PROVE StepFacts /\ StepKind
  BY Zenon, <1>1, <1>12, CrashInElectionShape
<1>13. ASSUME NEW s \in Server, NEW cmd \in Command, crashInPropose(s, cmd)
       PROVE  StepFacts /\ StepKind
  BY <1>1, <1>13, CrashInProposeShape
<1>. QED
  BY Zenon, <1>2, <1>3, <1>4, <1>5, <1>6, <1>7, <1>8, <1>9, <1>10, <1>11, <1>12, <1>13
     DEF Next

-----------------------------------------------------------------------------
(* Votes and commit indices *)

\* Steps that leave votes and commit indices alone.
LEMMA NothingMoves ==
  ASSUME UNCHANGED <<votedFor, commitIndex>>
  PROVE  VoteMoves /\ CommitMoves
  BY ServerAssumption DEF VoteMoves, CommitMoves

\* Steps of one node, which raise its term or keep its vote.
LEMMA OneMoves ==
  ASSUME NEW s \in Server, NEW v, NEW c,
         votedFor \in [Server -> Server \cup {None}], commitIndex \in [Server -> Nat],
         votedFor' = [votedFor EXCEPT ![s] = v], commitIndex' = [commitIndex EXCEPT ![s] = c],
         \/ currentTerm'[s] # currentTerm[s]
         \/ v = votedFor[s]
         \/ votedFor[s] = None /\ \E m \in requestVotes : m.term = currentTerm[s]
  PROVE  VoteMoves /\ CommitMoves
<1>. \A x \in Server \ {s} : commitIndex'[x] = commitIndex[x] /\ votedFor'[x] = votedFor[x]
  BY Zenon
<1>. votedFor'[s] = v
  BY Zenon
<1>. QED
  BY Zenon DEF VoteMoves, CommitMoves

\* handleRequestVote casts a vote where there was none.
LEMMA RequestVoteMoves ==
  ASSUME TypeInv, NEW s \in Server, NEW m \in requestVotes, handleRequestVote(s, m)
  PROVE  VoteMoves /\ CommitMoves
<1>. /\ votedFor \in [Server -> Server \cup {None}] /\ commitIndex \in [Server -> Nat]
     /\ currentTerm \in [Server -> Nat] /\ currentTerm[s] \in Nat
     /\ commitIndex' = commitIndex /\ m.term \in Nat
  <2>. m \in VoteRequest
    BY Zenon DEF TypeInv, TypeOK
  <2>. QED
    BY Zenon DEF TypeInv, TypeOK, handleRequestVote, logVars, VoteRequest
<1>. CASE RefuseVote(s, m)
  BY NothingMoves DEF RefuseVote, electionVars
<1>. CASE ConsiderVote(s, m)
  <2>. commitIndex' = [commitIndex EXCEPT ![s] = commitIndex[s]]
    OBVIOUS
  <2>. CASE m.term > currentTerm[s]
    <3>. becomeFollower(s, m.term, None)
      BY Zenon DEF ConsiderVote
    <3>. currentTerm'[s] # currentTerm[s]
      BY DEF becomeFollower
    <3>. \E v : votedFor' = [votedFor EXCEPT ![s] = v]
      BY Zenon DEF ConsiderVote
    <3>. QED
      BY Zenon, OneMoves
  <2>. CASE ~(m.term > currentTerm[s])
    <3>. m.term = currentTerm[s]
      <4>1. m.term >= currentTerm[s]
        BY Zenon DEF ConsiderVote
      <4>. QED
        BY ONLY <4>1, m.term \in Nat, currentTerm[s] \in Nat, ~(m.term > currentTerm[s])
    <3>1. \/ votedFor' = [votedFor EXCEPT ![s] = votedFor[s]]
          \/ votedFor' = [votedFor EXCEPT ![s] = m.src] /\ votedFor[s] = None
      BY Zenon DEF ConsiderVote, canVote
    <3>2. CASE votedFor' = [votedFor EXCEPT ![s] = votedFor[s]]
      BY Zenon, <3>2, OneMoves
    <3>3. CASE votedFor' = [votedFor EXCEPT ![s] = m.src] /\ votedFor[s] = None
      BY Zenon, <3>3, OneMoves
    <3>. QED
      BY Zenon, <3>1, <3>2, <3>3
  <2>. QED
    OBVIOUS
<1>. QED
  BY Zenon DEF handleRequestVote

\* A step down raises the term.
LEMMA StepDownMoves ==
  ASSUME TypeInv, NEW s \in Server, NEW m, m.term \in Nat, StepDown(s, m)
  PROVE  VoteMoves /\ CommitMoves
<1>. /\ votedFor \in [Server -> Server \cup {None}] /\ commitIndex \in [Server -> Nat]
     /\ currentTerm \in [Server -> Nat] /\ currentTerm[s] \in Nat
  BY Zenon DEF TypeInv, TypeOK
<1>. /\ votedFor' = [votedFor EXCEPT ![s] = None]
     /\ commitIndex' = [commitIndex EXCEPT ![s] = commitIndex[s]]
     /\ currentTerm' = [currentTerm EXCEPT ![s] = m.term] /\ m.term > currentTerm[s]
  BY Zenon DEF StepDown, logVars, becomeFollower
<1>. currentTerm'[s] # currentTerm[s]
  OBVIOUS
<1>. QED
  BY Zenon, OneMoves

\* What a step does to votes and commit indices.
LEMMA ChoiceMoves ==
  ASSUME TypeInv, DurableBeforeReply, [Next]_vars
  PROVE  VoteMoves /\ CommitMoves
<1>1. /\ votedFor \in [Server -> Server \cup {None}] /\ commitIndex \in [Server -> Nat]
      /\ currentTerm \in [Server -> Nat]
  BY DEF TypeInv, TypeOK
<1>. DEFINE Goal == VoteMoves /\ CommitMoves
<1>2. ASSUME NEW s \in Server, NEW c, UNCHANGED votedFor,
             commitIndex' = [commitIndex EXCEPT ![s] = c]
      PROVE  Goal
  <2>. votedFor' = [votedFor EXCEPT ![s] = votedFor[s]]
    BY <1>1, <1>2
  <2>. QED
    BY Zenon, <1>1, <1>2, OneMoves
<1>3. ASSUME NEW s \in Server, NEW v, NEW c,
             currentTerm' = [currentTerm EXCEPT ![s] = currentTerm[s] + 1],
             votedFor' = [votedFor EXCEPT ![s] = v],
             commitIndex' = [commitIndex EXCEPT ![s] = c]
      PROVE  Goal
  <2>. currentTerm'[s] # currentTerm[s]
    BY <1>1, <1>3
  <2>. QED
    BY Zenon, <1>1, <1>3, OneMoves
<1>. HIDE DEF Goal
<1>4. ASSUME votedFor' = votedFor, commitIndex' = commitIndex PROVE Goal
  BY Zenon, <1>4, NothingMoves DEF Goal
<1>5. ASSUME UNCHANGED vars PROVE Goal
  BY Zenon, <1>4, <1>5 DEF vars, electionVars, logVars
<1>6. ASSUME lose PROVE Goal
  BY <1>4, <1>6 DEF lose, electionVars, logVars
<1>7. ASSUME NEW s \in Server, startElection(s) PROVE Goal
  <2>. \E c : commitIndex' = [commitIndex EXCEPT ![s] = c]
    <3>. CASE becomeLeader(s, currentTerm[s] + 1)
      BY Zenon DEF becomeLeader
    <3>. CASE UNCHANGED logVars
      BY <1>1 DEF logVars
    <3>. QED
      BY Zenon, <1>7 DEF startElection
  <2>. /\ currentTerm' = [currentTerm EXCEPT ![s] = currentTerm[s] + 1]
       /\ votedFor' = [votedFor EXCEPT ![s] = s]
    BY Zenon, <1>7 DEF startElection
  <2>. QED
    BY Zenon, <1>3
<1>8. ASSUME NEW s \in Server, heartbeat(s) PROVE Goal
  BY Zenon, <1>4, <1>8 DEF heartbeat, electionVars, logVars
<1>9. ASSUME NEW s \in Server, NEW m \in requestVotes, handleRequestVote(s, m) PROVE Goal
  BY Zenon, <1>9, RequestVoteMoves DEF Goal
<1>10. ASSUME NEW s \in Server, NEW m \in voteResponses, handleRequestVoteResponse(s, m)
       PROVE  Goal
  <2>. CASE StepDown(s, m)
    <3>. m \in VoteResponse
      BY Zenon DEF TypeInv, TypeOK
    <3>. m.term \in Nat
      BY DEF VoteResponse
    <3>. QED
      BY StepDownMoves DEF Goal
  <2>. CASE Ignore
    BY <1>4 DEF Ignore, electionVars, logVars
  <2>. CASE CountVote(s, m)
    <3>. CASE becomeLeader(s, currentTerm[s])
      BY Zenon, <1>2 DEF CountVote, becomeLeader
    <3>. CASE UNCHANGED logVars
      BY Zenon, <1>4 DEF CountVote, logVars
    <3>. QED
      BY Zenon DEF CountVote, logVars
  <2>. QED
    BY Zenon, <1>10 DEF handleRequestVoteResponse
<1>11. ASSUME NEW s \in Server, NEW m \in appendRequests, handleAppendEntries(s, m)
       PROVE  Goal
  <2>. CASE RefuseAppend(s, m)
    BY <1>4 DEF RefuseAppend, electionVars, logVars
  <2>. CASE FollowLeader(s, m)
    <3>1. \E c : commitIndex' = [commitIndex EXCEPT ![s] = c]
      BY Zenon DEF FollowLeader
    <3>2. m \in AppendRequest
      BY Zenon DEF TypeInv, TypeOK
    <3>3. m.term \in Nat
      BY <3>2 DEF AppendRequest
    <3>4. CASE m.term > currentTerm[s]
      <4>. /\ votedFor' = [votedFor EXCEPT ![s] = None]
           /\ currentTerm' = [currentTerm EXCEPT ![s] = m.term]
        BY Zenon, <3>4 DEF FollowLeader, becomeFollower
      <4>. currentTerm'[s] # currentTerm[s]
        BY <1>1, <3>3, <3>4
      <4>. QED
        BY Zenon, <1>1, <3>1, OneMoves DEF Goal
    <3>5. CASE ~(m.term > currentTerm[s])
      <4>. votedFor' = [votedFor EXCEPT ![s] = votedFor[s]]
        BY Zenon, <3>5 DEF FollowLeader
      <4>. QED
        BY Zenon, <1>1, <3>1, OneMoves DEF Goal
    <3>. QED
      BY <3>4, <3>5
  <2>. QED
    BY Zenon, <1>11 DEF handleAppendEntries
<1>12. ASSUME NEW s \in Server, NEW m \in appendResponses,
              handleAppendEntriesResponse(s, m)
       PROVE  Goal
  <2>1. CASE StepDown(s, m)
    <3>. m \in AppendResult
      BY Zenon DEF TypeInv, TypeOK
    <3>. m.term \in Nat
      BY DEF AppendResult
    <3>. QED
      BY <2>1, StepDownMoves DEF Goal
  <2>2. CASE Ignore
    BY <1>4, <2>2 DEF Ignore, electionVars, logVars
  <2>3. CASE UNCHANGED electionVars /\ Acknowledged(s, m)
    BY Zenon, <1>2, <2>3 DEF Acknowledged, electionVars
  <2>4. CASE UNCHANGED electionVars /\ Rejected(s, m)
    BY <1>4, <2>4 DEF Rejected, electionVars
  <2>. QED
    BY Zenon, <1>12, <2>1, <2>2, <2>3, <2>4 DEF handleAppendEntriesResponse
<1>13. ASSUME NEW s \in Server, NEW cmd \in Command, propose(s, cmd) PROVE Goal
  BY Zenon, <1>2, <1>13 DEF propose, electionVars
<1>14. ASSUME NEW s \in Server, restart(s) PROVE Goal
  <2>. disk[s] = DurableState(currentTerm[s], votedFor[s], log[s], commitIndex[s])
    BY Zenon DEF DurableBeforeReply
  <2>. disk[s].votedFor = votedFor[s]
    BY DEF DurableState
  <2>. /\ votedFor' = [votedFor EXCEPT ![s] = votedFor[s]]
       /\ commitIndex' = [commitIndex EXCEPT ![s] = disk[s].commitIndex]
    BY <1>14 DEF restart
  <2>. QED
    BY Zenon, <1>1, OneMoves DEF Goal
<1>15. ASSUME NEW s \in Server, crashInElection(s) PROVE Goal
  <2>. /\ currentTerm' = [currentTerm EXCEPT ![s] = currentTerm[s] + 1]
       /\ votedFor' = [votedFor EXCEPT ![s] = s]
       /\ commitIndex' = [commitIndex EXCEPT ![s] = commitIndex[s]]
    BY Zenon, <1>1, <1>15 DEF crashInElection
  <2>. QED
    BY Zenon, <1>3
<1>16. ASSUME NEW s \in Server, NEW cmd \in Command, crashInPropose(s, cmd) PROVE Goal
  BY Zenon, <1>4, <1>16 DEF crashInPropose
<1>17. Goal
  BY Zenon, <1>5, <1>6, <1>7, <1>8, <1>9, <1>10, <1>11, <1>12, <1>13, <1>14, <1>15, <1>16
     DEF Next
<1>. QED
  BY Zenon, <1>17 DEF Goal

=============================================================================
