--------------------------- MODULE RaftNodeProofs ---------------------------
(***************************************************************************)
(* That every step of RaftNode keeps the types of the nodes' state, their  *)
(* disks and their messages, and that what is in memory is on disk.        *)
(***************************************************************************)
EXTENDS RaftNode, RaftLogProofs

-----------------------------------------------------------------------------
(* What the operators on a log return *)

\* termAt answers for every index from the sentinel to the log's end.
LEMMA TermAtType ==
  ASSUME NEW E, Entries(E), NEW lg \in Seq(E), NEW i \in 0..Len(lg)
  PROVE  termAt(lg, i) \in Nat
<1>. i # 0 => lg[i] \in E
  BY SeqElement
<1>. QED
  BY DEF termAt, Entries

\* entriesFrom copies entries of the log.
LEMMA EntriesFromType ==
  ASSUME NEW E, NEW lg \in Seq(E), NEW i \in Nat \ {0}, NEW count \in Nat
  PROVE  entriesFrom(lg, i, count) \in Seq(E)
<1>. DEFINE last == Min({lastIndex(lg), i + count - 1})
<1>1. Len(lg) \in Nat /\ i + count - 1 \in Nat
  BY SeqLen
<1>2. last \in Nat /\ last <= Len(lg)
  BY <1>1, MinOfTwo DEF lastIndex
<1>. HIDE DEF last
<1>3. \A k \in i..last : lg[k] \in E
  <2>. TAKE k \in i..last
  <2>. k \in 1..Len(lg)
    BY <1>1, <1>2
  <2>. QED
    BY SeqElement
<1>4. SubSeq(lg, i, last) \in Seq(E)
  BY <1>2, <1>3, SeqSlice
<1>. QED
  BY Zenon, <1>4 DEF entriesFrom, last

\* A term some index holds has a first index; the conflict hint is never empty.
LEMMA FirstIndexOfTermType ==
  ASSUME Counting, NEW E, NEW lg \in Seq(E), NEW i \in 0..Len(lg)
  PROVE  firstIndexOfTerm(lg, termAt(lg, i)) \in 0..i
<1>. DEFINE S == IndicesOfTerm(lg, termAt(lg, i))
<1>1. Len(lg) \in Nat
  BY SeqLen
<1>2. S \in SUBSET Nat /\ i \in S
  BY <1>1 DEF IndicesOfTerm
<1>. HIDE DEF S
<1>3. Min(S) \in S /\ Min(S) <= i
  BY <1>2, MinOfNaturals
<1>4. PICK k \in S : k = Min(S)
  BY <1>3
<1>5. k \in 0..i
  BY <1>1, <1>2, <1>3, <1>4
<1>. QED
  BY Zenon, <1>4, <1>5 DEF firstIndexOfTerm, S

\* An empty batch, a heartbeat, leaves the log as it is.
LEMMA AppendFromEmpty ==
  ASSUME NEW E, NEW lg \in Seq(E), NEW prev \in 0..Len(lg)
  PROVE  appendFrom(lg, prev, <<>>) = lg
<1>1. Len(lg) \in Nat /\ Len(<<>>) = 0
  BY SeqLen
<1>2. TermConflicts(lg, prev, <<>>) = {}
  BY <1>1 DEF TermConflicts, Overlap
<1>3. KeptLength(lg, prev, <<>>) = Len(lg)
  BY <1>2 DEF KeptLength
<1>4. SubSeq(lg, 1, Len(lg)) = lg
  BY SeqWhole
<1>5. SubSeq(<<>>, Len(lg) - prev + 1, 0) = <<>>
  BY <1>1, SeqNothing
<1>6. lg \o <<>> = lg
  BY Zenon, SeqConcatEmpty
<1>. QED
  BY Zenon, <1>1, <1>3, <1>4, <1>5, <1>6 DEF appendFrom

\* The entries of the node's log are entries for the lemmas on RaftLog.
LEMMA EntryEntries == Entries(Entry)
  BY DEF Entries, Entry

-----------------------------------------------------------------------------
(* Type correctness *)

\* The initial state is well typed.
LEMMA TypeInit == Init => TypeInv
<1>. <<>> \in Seq(Entry)
  BY SeqEmpty
<1>. DurableState(0, None, <<>>, 0) \in RaftPersistentState
  BY DEF DurableState, RaftPersistentState
<1>. QED
  BY DEF Init, TypeInv, TypeOK, NextInLog, NoProgress

\* Every step preserves the types.
LEMMA TypeStep ==
  ASSUME Counting
  PROVE  TypeInv /\ [Next]_vars => TypeInv'
\* A request built from a next index inside the log is well formed.
<1>MakeAppendEntriesType.
      ASSUME NEW s \in Server, NEW p \in Server, NEW term \in Nat,
             NEW lg \in Seq(Entry), NEW next \in 1..(Len(lg) + 1), NEW commit \in Nat
      PROVE  makeAppendEntries(s, p, term, lg, next, commit) \in AppendRequest
  <2>. USE <1>MakeAppendEntriesType
  <2>1. Len(lg) \in Nat
    BY SeqLen
  <2>2. next - 1 \in 0..Len(lg) /\ next \in Nat \ {0}
    BY <2>1
  <2>3. termAt(lg, next - 1) \in Nat
    BY Zenon, <2>2, EntryEntries, TermAtType
  <2>4. entriesFrom(lg, next, MaxEntries) \in Seq(Entry)
    BY Zenon, <2>2, BoundAssumption, EntriesFromType
  <2>. QED
    BY ONLY <2>1, <2>2, <2>3, <2>4 DEF makeAppendEntries, AppendRequest
\* So is every request of a broadcast.
<1>ReplicateToAllType.
      ASSUME NEW s \in Server, NEW term \in Nat, NEW lg \in Seq(Entry),
             NEW next, \A p \in peers(s) : next[p] \in 1..(Len(lg) + 1),
             NEW commit \in Nat
      PROVE  replicateToAll(s, term, lg, next, commit) \subseteq AppendRequest
  <2>. USE <1>ReplicateToAllType
  <2>. ASSUME NEW p \in peers(s)
       PROVE  makeAppendEntries(s, p, term, lg, next[p], commit) \in AppendRequest
    BY <1>MakeAppendEntriesType DEF peers
  <2>. QED
    BY DEF replicateToAll
\* Responses built from naturals are well formed.
<1>AppendResponseType.
      ASSUME NEW s \in Server, NEW m \in AppendRequest, NEW term \in Nat,
             NEW success \in BOOLEAN, NEW match \in Nat,
             NEW conflictIndex \in Nat, NEW conflictTerm \in Nat
      PROVE  AppendResponse(s, m, term, success, match, conflictIndex, conflictTerm)
               \in AppendResult
  <2>. USE <1>AppendResponseType
  <2>. Len(m.entries) \in Nat
    BY SeqLen DEF AppendRequest
  <2>. QED
    BY DEF AppendResponse, AppendResult, AppendRequest
\* The response of handleRequestVote is a vote response.
<1>VoteResponseType.
      ASSUME NEW s \in Server, NEW c \in Server, NEW term \in Nat,
             NEW electionTerm \in Nat, NEW voteGranted \in BOOLEAN
      PROVE  [src |-> s, dst |-> c, term |-> term, electionTerm |-> electionTerm,
              voteGranted |-> voteGranted] \in VoteResponse
  BY <1>VoteResponseType DEF VoteResponse
\* The conflict hint names an index of the follower's log or its end.
<1>ConflictResponseType.
      ASSUME TypeOK, NEW s \in Server, NEW m \in AppendRequest
      PROVE  ConflictResponse(s, m) \in AppendResult
  <2>. USE <1>ConflictResponseType
  <2>1. log[s] \in Seq(Entry) /\ Len(log[s]) \in Nat
    BY SeqLen DEF TypeOK
  <2>2. m.term \in Nat /\ m.prevIndex \in Nat
    BY DEF AppendRequest
  <2>3. CASE m.prevIndex > lastIndex(log[s])
    <3>. lastIndex(log[s]) + 1 \in Nat /\ NoTerm \in Nat
      BY <2>1 DEF lastIndex, NoTerm
    <3>. AppendResponse(s, m, m.term, FALSE, 0, lastIndex(log[s]) + 1, NoTerm)
           \in AppendResult
      BY Zenon, <2>2, <1>AppendResponseType
    <3>. QED
      BY Zenon, <2>3 DEF ConflictResponse
  <2>4. CASE ~(m.prevIndex > lastIndex(log[s]))
    <3>. DEFINE term == termAt(log[s], m.prevIndex)
    <3>1. m.prevIndex \in 0..Len(log[s])
      BY ONLY <2>1, <2>2, <2>4 DEF lastIndex
    <3>2. term \in Nat
      BY Zenon, <2>1, <3>1, EntryEntries, TermAtType
    <3>3. firstIndexOfTerm(log[s], term) \in 0..m.prevIndex
      BY Zenon, <2>1, <3>1, FirstIndexOfTermType
    <3>4. firstIndexOfTerm(log[s], term) \in Nat
      BY <2>2, <3>3
    <3>. HIDE DEF term
    <3>5. AppendResponse(s, m, m.term, FALSE, 0,
                         firstIndexOfTerm(log[s], term), term) \in AppendResult
      BY Zenon, <2>2, <3>2, <3>4, <1>AppendResponseType
    <3>. QED
      BY Zenon, <2>4, <3>5 DEF ConflictResponse, term
  <2>. QED
    BY Zenon, <2>3, <2>4
\* persistOrThrow writes a well-formed state and makes the disk equal to memory.
<1>PersistType.
      ASSUME disk \in [Server -> RaftPersistentState], NEW s \in Server,
             currentTerm'[s] \in Nat, votedFor'[s] \in Server \cup {None},
             log'[s] \in Seq(Entry), commitIndex'[s] \in Nat, Persist(s)
      PROVE  disk' \in [Server -> RaftPersistentState]
  <2>. USE <1>PersistType
  <2>. DurableState(currentTerm'[s], votedFor'[s], log'[s], commitIndex'[s])
         \in RaftPersistentState
    BY DEF DurableState, RaftPersistentState
  <2>. QED
    BY Zenon DEF Persist
\* becomeLeader leaves everything it assigns well typed.
<1>BecomeLeaderType.
      ASSUME TypeInv, NEW s \in Server, NEW term \in Nat, becomeLeader(s, term)
      PROVE  /\ role' \in [Server -> {"Follower", "Candidate", "Leader"}]
             /\ leaderId' \in [Server -> Server \cup {None}]
             /\ votesReceived' \in [Server -> SUBSET Server]
             /\ log' \in [Server -> Seq(Entry)]
             /\ commitIndex' \in [Server -> Nat]
             /\ nextIndex' \in [Server -> [Server -> Nat]]
             /\ matchIndex' \in [Server -> [Server -> Nat]]
             /\ appendRequests' \subseteq AppendRequest
             /\ leaders' \subseteq Nat \X Server
             /\ NextInLog'
  <2>. USE <1>BecomeLeaderType
  <2>. DEFINE lg     == Append(log[s], [term |-> term, cmd |-> NoOp])
              next   == [p \in Server |-> IF p = s THEN 0 ELSE lastIndex(log[s]) + 1]
              commit == advanceCommitIndex(s, lg, term, NoProgress, commitIndex[s])
  <2>1. log[s] \in Seq(Entry) /\ Len(log[s]) \in Nat /\ commitIndex[s] \in Nat
    BY SeqLen DEF TypeInv, TypeOK
  <2>2. lg \in Seq(Entry) /\ Len(lg) = Len(log[s]) + 1
    <3>. [term |-> term, cmd |-> NoOp] \in Entry
      BY DEF Entry
    <3>. QED
      BY <2>1, SeqAppend
  <2>3. next \in [Server -> Nat] /\ \A p \in peers(s) : next[p] \in 1..(Len(lg) + 1)
    BY <2>1, <2>2 DEF lastIndex, peers
  <2>. HIDE DEF lg
  <2>4. commit \in Nat
    BY <2>1, <2>2, AdvanceCommitIndexType
  <2>. HIDE DEF next, commit
  <2>5. replicateToAll(s, term, lg, next, commit) \subseteq AppendRequest
    BY Zenon, <2>2, <2>3, <2>4, <1>ReplicateToAllType
  <2>6. /\ role' = [role EXCEPT ![s] = "Leader"]
        /\ leaderId' = [leaderId EXCEPT ![s] = s]
        /\ votesReceived' = [votesReceived EXCEPT ![s] = {}]
        /\ nextIndex' = [nextIndex EXCEPT ![s] = next]
        /\ matchIndex' = [matchIndex EXCEPT ![s] = NoProgress]
        /\ log' = [log EXCEPT ![s] = lg]
        /\ commitIndex' = [commitIndex EXCEPT ![s] = commit]
        /\ appendRequests' = appendRequests \cup replicateToAll(s, term, lg, next, commit)
        /\ leaders' = leaders \cup {<<term, s>>}
    BY DEF becomeLeader, lg, next, commit
  <2>7. NextInLog'
    <3>. SUFFICES ASSUME NEW t \in Server, role'[t] = "Leader", NEW p \in peers(t)
                  PROVE  nextIndex'[t][p] \in 1..(lastIndex(log'[t]) + 1)
      BY DEF NextInLog
    <3>. CASE t = s
      BY Zenon, <2>3, <2>6 DEF TypeInv, TypeOK, lastIndex
    <3>. CASE t # s
      BY <2>6 DEF TypeInv, TypeOK, NextInLog
    <3>. QED
      OBVIOUS
  <2>8. NoProgress \in [Server -> Nat]
    BY DEF NoProgress
  <2>9. leaders' \subseteq Nat \X Server /\ appendRequests' \subseteq AppendRequest
    BY <2>5, <2>6 DEF TypeInv, TypeOK
  <2>. QED
    BY Zenon, <2>2, <2>3, <2>4, <2>6, <2>7, <2>8, <2>9 DEF TypeInv, TypeOK
\* becomeFollower leaves everything it assigns well typed, whatever becomes of
\* the log of s.
<1>BecomeFollowerType.
      ASSUME TypeInv, NEW s \in Server, NEW term \in Nat,
             NEW leader \in Server \cup {None}, becomeFollower(s, term, leader),
             \A t \in Server \ {s} : log'[t] = log[t]
      PROVE  /\ role' \in [Server -> {"Follower", "Candidate", "Leader"}]
             /\ currentTerm' \in [Server -> Nat]
             /\ leaderId' \in [Server -> Server \cup {None}]
             /\ votesReceived' \in [Server -> SUBSET Server]
             /\ nextIndex' \in [Server -> [Server -> Nat]]
             /\ matchIndex' \in [Server -> [Server -> Nat]]
             /\ NextInLog'
  <2>. USE <1>BecomeFollowerType
  <2>. NoProgress \in [Server -> Nat]
    BY Zenon DEF NoProgress
  <2>. NextInLog'
    <3>. SUFFICES ASSUME NEW t \in Server, role'[t] = "Leader", NEW p \in peers(t)
                  PROVE  nextIndex'[t][p] \in 1..(lastIndex(log'[t]) + 1)
      BY DEF NextInLog
    <3>. t # s
      BY Zenon DEF TypeInv, TypeOK, becomeFollower
    <3>. role[t] = "Leader" /\ nextIndex'[t] = nextIndex[t] /\ log'[t] = log[t]
      BY DEF TypeInv, TypeOK, becomeFollower
    <3>. QED
      BY DEF TypeInv, NextInLog
  <2>. QED
    BY Zenon DEF TypeInv, TypeOK, becomeFollower
\* Each operation preserves the types.
<1>StartElectionType.
      ASSUME TypeInv, NEW s \in Server, startElection(s)
      PROVE  TypeInv'
  <2>. USE <1>StartElectionType
  <2>. DEFINE term == currentTerm[s] + 1
  <2>1. term \in Nat
    BY DEF TypeInv, TypeOK
  <2>2. /\ currentTerm' \in [Server -> Nat]
        /\ votedFor' \in [Server -> Server \cup {None}]
        /\ granted' \subseteq Server \X Nat \X Server
        /\ currentTerm'[s] \in Nat
        /\ votedFor'[s] \in Server \cup {None}
    BY DEF TypeInv, TypeOK, startElection
  <2>3. CASE becomeLeader(s, term) /\ UNCHANGED requestVotes
    <3>. /\ role' \in [Server -> {"Follower", "Candidate", "Leader"}]
         /\ leaderId' \in [Server -> Server \cup {None}]
         /\ votesReceived' \in [Server -> SUBSET Server]
         /\ log' \in [Server -> Seq(Entry)]
         /\ commitIndex' \in [Server -> Nat]
         /\ nextIndex' \in [Server -> [Server -> Nat]]
         /\ matchIndex' \in [Server -> [Server -> Nat]]
         /\ appendRequests' \subseteq AppendRequest
         /\ leaders' \subseteq Nat \X Server
         /\ NextInLog'
      BY Zenon, <2>1, <2>3, <1>BecomeLeaderType
    <3>. disk' \in [Server -> RaftPersistentState]
      BY <2>2, <1>PersistType DEF TypeInv, TypeOK, startElection
    <3>. QED
      BY Zenon, <2>2, <2>3 DEF TypeInv, TypeOK, startElection
  <2>4. CASE ~(becomeLeader(s, term) /\ UNCHANGED requestVotes)
    <3>1. /\ role' = [role EXCEPT ![s] = "Candidate"]
          /\ leaderId' = [leaderId EXCEPT ![s] = None]
          /\ votesReceived' = [votesReceived EXCEPT ![s] = {s}]
          /\ requestVotes' = requestVotes \cup
               {[src |-> s, dst |-> p, term |-> term,
                 lastLogIndex |-> lastIndex(log[s]),
                 lastLogTerm |-> lastTerm(log[s])] : p \in peers(s)}
          /\ UNCHANGED <<logVars, progressVars, appendRequests, leaders>>
          /\ UNCHANGED <<voteResponses, appendResponses>>
      BY <2>4 DEF startElection
    <3>2. log[s] \in Seq(Entry) /\ Len(log[s]) \in Nat
      BY SeqLen DEF TypeInv, TypeOK
    <3>3. lastTerm(log[s]) \in Nat /\ lastIndex(log[s]) \in Nat
      BY ONLY <3>2, EntryEntries, TermAtType DEF lastTerm, lastIndex
    <3>4. requestVotes' \subseteq VoteRequest
      BY <2>1, <3>1, <3>3 DEF TypeInv, TypeOK, VoteRequest, peers
    <3>5. log'[s] \in Seq(Entry) /\ commitIndex'[s] \in Nat
      BY Zenon, <3>1 DEF TypeInv, TypeOK, logVars
    <3>6. disk' \in [Server -> RaftPersistentState]
      BY Zenon, <2>2, <3>5, <1>PersistType DEF TypeInv, TypeOK, startElection
    <3>7. NextInLog'
      BY <3>1 DEF TypeInv, TypeOK, NextInLog, logVars, progressVars
    <3>. QED
      BY Zenon, <2>2, <3>1, <3>4, <3>6, <3>7
         DEF TypeInv, TypeOK, logVars, progressVars
  <2>. QED
    BY Zenon, <2>3, <2>4
\* tick of a leader (heartbeat) keeps the type invariant.
<1>HeartbeatType.
      ASSUME TypeInv, NEW s \in Server, heartbeat(s)
      PROVE  TypeInv'
  <2>. USE <1>HeartbeatType
  <2>. replicateToAll(s, currentTerm[s], log[s], nextIndex[s], commitIndex[s])
         \subseteq AppendRequest
    <3>. \A p \in peers(s) : nextIndex[s][p] \in 1..(Len(log[s]) + 1)
      BY DEF TypeInv, NextInLog, heartbeat, lastIndex
    <3>. QED
      BY Zenon, <1>ReplicateToAllType DEF TypeInv, TypeOK
  <2>. QED
    BY Zenon DEF TypeInv, TypeOK, NextInLog, heartbeat, electionVars, logVars,
                progressVars, historyVars
\* handleRequestVote keeps the type invariant.
<1>HandleRequestVoteType.
      ASSUME TypeInv, NEW s \in Server, NEW m \in requestVotes, handleRequestVote(s, m)
      PROVE  TypeInv'
  <2>. USE <1>HandleRequestVoteType
  <2>1. m.src \in Server /\ m.term \in Nat /\ currentTerm[s] \in Nat
    BY Zenon DEF TypeInv, TypeOK, VoteRequest
  <2>2. requestVotes' \subseteq VoteRequest
    BY DEF TypeInv, TypeOK, handleRequestVote, Deliver
  <2>3. CASE RefuseVote(s, m)
    <3>. /\ voteResponses' = voteResponses \cup
              {[src |-> s, dst |-> m.src, term |-> currentTerm[s],
                electionTerm |-> m.term, voteGranted |-> FALSE]}
         /\ UNCHANGED <<electionVars, progressVars, disk, granted>>
      BY <2>3 DEF RefuseVote
    <3>. voteResponses' \subseteq VoteResponse
      <4>. [src |-> s, dst |-> m.src, term |-> currentTerm[s],
            electionTerm |-> m.term, voteGranted |-> FALSE] \in VoteResponse
        BY Zenon, <2>1, <1>VoteResponseType
      <4>. QED
        BY Zenon DEF TypeInv, TypeOK
    <3>. QED
      BY Zenon, <2>2 DEF handleRequestVote, TypeInv, TypeOK, NextInLog,
                              electionVars, logVars, progressVars
  <2>4. CASE ConsiderVote(s, m)
    <3>. DEFINE newer    == m.term > currentTerm[s]
                vote     == IF newer THEN None ELSE votedFor[s]
                granting == /\ canVote(vote, m.src)
                            /\ isCandidateLogUpToDate(
                                 m.lastLogIndex, m.lastLogTerm, log[s])
    <3>1. /\ IF newer
             THEN becomeFollower(s, m.term, None)
             ELSE UNCHANGED <<role, currentTerm, leaderId, votesReceived, progressVars>>
          /\ votedFor' = [votedFor EXCEPT ![s] = IF granting THEN m.src ELSE vote]
          /\ IF VoteIsDurable(s, newer) THEN Persist(s) ELSE UNCHANGED disk
          /\ voteResponses' = voteResponses \cup
               {[src |-> s, dst |-> m.src, term |-> m.term,
                 electionTerm |-> m.term, voteGranted |-> granting]}
          /\ granted' = granted \cup IF granting THEN {<<s, m.term, m.src>>} ELSE {}
      BY Zenon, <2>4 DEF ConsiderVote
    <3>2. vote \in Server \cup {None} /\ granting \in BOOLEAN
      BY DEF TypeInv, TypeOK, canVote, isCandidateLogUpToDate
    <3>. HIDE DEF newer, vote, granting
    <3>3. /\ role' \in [Server -> {"Follower", "Candidate", "Leader"}]
          /\ currentTerm' \in [Server -> Nat]
          /\ leaderId' \in [Server -> Server \cup {None}]
          /\ votesReceived' \in [Server -> SUBSET Server]
          /\ nextIndex' \in [Server -> [Server -> Nat]]
          /\ matchIndex' \in [Server -> [Server -> Nat]]
          /\ NextInLog'
      <4>. log' = log
        BY DEF handleRequestVote, logVars
      <4>. CASE newer
        BY Zenon, <2>1, <3>1, <1>BecomeFollowerType
      <4>. CASE ~newer
        BY Zenon, <3>1 DEF TypeInv, TypeOK, NextInLog, progressVars
      <4>. QED
        OBVIOUS
    <3>4. votedFor' \in [Server -> Server \cup {None}]
      <4>. votedFor \in [Server -> Server \cup {None}]
        BY DEF TypeInv, TypeOK
      <4>. QED
        BY Zenon, <2>1, <3>1, <3>2
    <3>5. log' \in [Server -> Seq(Entry)] /\ commitIndex' \in [Server -> Nat]
      BY DEF handleRequestVote, TypeInv, TypeOK, logVars
    <3>6. disk' \in [Server -> RaftPersistentState]
      BY Zenon, <3>1, <3>3, <3>4, <3>5, <1>PersistType DEF TypeInv, TypeOK
    <3>7. voteResponses' \subseteq VoteResponse
      <4>. [src |-> s, dst |-> m.src, term |-> m.term,
            electionTerm |-> m.term, voteGranted |-> granting] \in VoteResponse
        BY Zenon, <2>1, <3>2, <1>VoteResponseType
      <4>. QED
        BY Zenon, <3>1 DEF TypeInv, TypeOK
    <3>8. granted' \subseteq Server \X Nat \X Server
      <4>. <<s, m.term, m.src>> \in Server \X Nat \X Server
        BY <2>1
      <4>. QED
        BY Zenon, <3>1 DEF TypeInv, TypeOK
    <3>. QED
      BY Zenon, <2>2, <3>3, <3>4, <3>5, <3>6, <3>7, <3>8
         DEF handleRequestVote, TypeInv, TypeOK
  <2>. QED
    BY Zenon, <2>3, <2>4 DEF handleRequestVote
\* becomeFollower on a response of a higher term keeps the type invariant.
<1>StepDownType.
      ASSUME TypeInv, NEW s \in Server, NEW m, m.term \in Nat, StepDown(s, m),
             voteResponses' \subseteq VoteResponse, appendResponses' \subseteq AppendResult
      PROVE  TypeInv'
  <2>. USE <1>StepDownType
  <2>1. /\ becomeFollower(s, m.term, None)
        /\ votedFor' = [votedFor EXCEPT ![s] = None]
        /\ UNCHANGED <<log, commitIndex, requestVotes, appendRequests, granted, leaders>>
        /\ Persist(s)
    BY DEF StepDown, logVars, historyVars
  <2>2. /\ role' \in [Server -> {"Follower", "Candidate", "Leader"}]
        /\ currentTerm' \in [Server -> Nat]
        /\ leaderId' \in [Server -> Server \cup {None}]
        /\ votesReceived' \in [Server -> SUBSET Server]
        /\ nextIndex' \in [Server -> [Server -> Nat]]
        /\ matchIndex' \in [Server -> [Server -> Nat]]
        /\ NextInLog'
    BY Zenon, <2>1, <1>BecomeFollowerType
  <2>3. /\ votedFor' \in [Server -> Server \cup {None}]
        /\ log' \in [Server -> Seq(Entry)] /\ commitIndex' \in [Server -> Nat]
    BY Zenon, <2>1 DEF TypeInv, TypeOK
  <2>4. disk' \in [Server -> RaftPersistentState]
    BY Zenon, <2>1, <2>2, <2>3, <1>PersistType DEF TypeInv, TypeOK
  <2>. QED
    BY Zenon, <2>1, <2>2, <2>3, <2>4 DEF TypeInv, TypeOK
\* A response without effect keeps the type invariant.
<1>IgnoreType.
      ASSUME TypeInv, Ignore, voteResponses' \subseteq VoteResponse,
             appendResponses' \subseteq AppendResult
      PROVE  TypeInv'
  BY <1>IgnoreType, Zenon DEF Ignore, TypeInv, TypeOK, NextInLog, electionVars, logVars, progressVars,
           historyVars
\* handleRequestVoteResponse keeps the type invariant.
<1>HandleRequestVoteResponseType.
      ASSUME TypeInv, NEW s \in Server, NEW m \in voteResponses,
             handleRequestVoteResponse(s, m)
      PROVE  TypeInv'
  <2>. USE <1>HandleRequestVoteResponseType
  <2>1. m.src \in Server /\ m.term \in Nat /\ currentTerm[s] \in Nat
    BY Zenon DEF TypeInv, TypeOK, VoteResponse
  <2>2. voteResponses' \subseteq VoteResponse /\ appendResponses' \subseteq AppendResult
    BY DEF TypeInv, TypeOK, handleRequestVoteResponse, Deliver
  <2>3. CASE StepDown(s, m)
    BY Zenon, <2>1, <2>2, <2>3, <1>StepDownType
  <2>4. CASE CountVote(s, m)
    <3>. DEFINE votes == votesReceived[s] \cup {m.src}
                won   == hasQuorum(Cardinality(votes), Cardinality(Server))
    <3>1. /\ UNCHANGED <<currentTerm, votedFor, requestVotes, granted>>
          /\ \/ won /\ becomeLeader(s, currentTerm[s]) /\ Persist(s)
             \/ /\ ~won
                /\ votesReceived' = [votesReceived EXCEPT ![s] = votes]
                /\ UNCHANGED <<role, leaderId, logVars, progressVars, disk,
                               appendRequests, leaders>>
      BY Zenon, <2>4 DEF CountVote
    <3>2. votes \in SUBSET Server
      BY Zenon, <2>1 DEF TypeInv, TypeOK
    <3>3. /\ currentTerm' \in [Server -> Nat]
          /\ votedFor' \in [Server -> Server \cup {None}]
      BY <3>1 DEF TypeInv, TypeOK
    <3>. HIDE DEF votes, won
    <3>4. CASE becomeLeader(s, currentTerm[s]) /\ Persist(s)
      <4>. /\ role' \in [Server -> {"Follower", "Candidate", "Leader"}]
           /\ leaderId' \in [Server -> Server \cup {None}]
           /\ votesReceived' \in [Server -> SUBSET Server]
           /\ log' \in [Server -> Seq(Entry)]
           /\ commitIndex' \in [Server -> Nat]
           /\ nextIndex' \in [Server -> [Server -> Nat]]
           /\ matchIndex' \in [Server -> [Server -> Nat]]
           /\ appendRequests' \subseteq AppendRequest
           /\ leaders' \subseteq Nat \X Server
           /\ NextInLog'
        BY Zenon, <2>1, <3>4, <1>BecomeLeaderType
      <4>. disk' \in [Server -> RaftPersistentState]
        BY Zenon, <3>3, <3>4, <1>PersistType DEF TypeInv, TypeOK
      <4>. QED
        BY Zenon, <2>2, <3>1, <3>3 DEF TypeInv, TypeOK
    <3>5. CASE ~(becomeLeader(s, currentTerm[s]) /\ Persist(s))
      <4>. /\ votesReceived' = [votesReceived EXCEPT ![s] = votes]
           /\ UNCHANGED <<role, leaderId, log, commitIndex, nextIndex, matchIndex,
                          disk, appendRequests, leaders>>
        BY <3>1, <3>5 DEF logVars, progressVars
      <4>. QED
        BY Zenon, <2>2, <3>1, <3>2, <3>3 DEF TypeInv, TypeOK, NextInLog
    <3>. QED
      BY Zenon, <3>4, <3>5
  <2>5. CASE Ignore
    BY Zenon, <2>2, <2>5, <1>IgnoreType
  <2>. QED
    BY Zenon, <2>3, <2>4, <2>5 DEF handleRequestVoteResponse
\* handleAppendEntries keeps the type invariant.
<1>HandleAppendEntriesType.
      ASSUME TypeInv, NEW s \in Server, NEW m \in appendRequests,
             handleAppendEntries(s, m)
      PROVE  TypeInv'
  <2>. USE <1>HandleAppendEntriesType
  <2>1. /\ m \in AppendRequest /\ m.src \in Server /\ m.term \in Nat
        /\ m.prevIndex \in Nat /\ m.entries \in Seq(Entry) /\ m.leaderCommit \in Nat
        /\ currentTerm[s] \in Nat /\ log[s] \in Seq(Entry) /\ commitIndex[s] \in Nat
    BY Zenon DEF TypeInv, TypeOK, AppendRequest
  <2>2. Len(log[s]) \in Nat /\ Len(m.entries) \in Nat
    BY Zenon, <2>1, SeqLen
  <2>3. /\ appendRequests' \subseteq AppendRequest
        /\ UNCHANGED <<requestVotes, voteResponses, granted, leaders>>
    BY DEF TypeInv, TypeOK, handleAppendEntries, Deliver, historyVars
  <2>4. lastIndex(log[s]) + 1 \in Nat /\ NoTerm \in Nat
    BY <2>2 DEF lastIndex, NoTerm
  <2>5. CASE RefuseAppend(s, m)
    <3>. /\ appendResponses' = appendResponses \cup
              {AppendResponse(s, m, currentTerm[s], FALSE, 0,
                              lastIndex(log[s]) + 1, NoTerm)}
         /\ UNCHANGED <<electionVars, logVars, progressVars, disk>>
      BY <2>5 DEF RefuseAppend
    <3>. AppendResponse(s, m, currentTerm[s], FALSE, 0, lastIndex(log[s]) + 1, NoTerm)
           \in AppendResult
      BY Zenon, <2>1, <2>4, <1>AppendResponseType
    <3>. QED
      BY Zenon, <2>3 DEF TypeInv, TypeOK, NextInLog, electionVars, logVars,
                              progressVars
  <2>6. CASE FollowLeader(s, m)
    <3>. DEFINE newer   == m.term > currentTerm[s]
                fits    == previousMatches(log[s], m)
                success == fits /\ ~appendFromFails(log[s], m.prevIndex, m.entries)
                lg      == IF success
                           THEN appendFrom(log[s], m.prevIndex, m.entries)
                           ELSE log[s]
                commit  == IF success
                           THEN followerCommit(commitIndex[s], m.leaderCommit, lg)
                           ELSE commitIndex[s]
                match   == m.prevIndex + Len(m.entries)
                reply   == IF success
                           THEN AppendResponse(s, m, m.term, TRUE, match, match + 1, NoTerm)
                           ELSE IF fits
                           THEN AppendResponse(s, m, m.term, FALSE, 0,
                                               lastIndex(log[s]) + 1, NoTerm)
                           ELSE ConflictResponse(s, m)
    <3>1. /\ becomeFollower(s, m.term, m.src)
          /\ votedFor' = [votedFor EXCEPT ![s] = IF newer THEN None ELSE @]
          /\ log' = [log EXCEPT ![s] = lg]
          /\ commitIndex' = [commitIndex EXCEPT ![s] = commit]
          /\ Persist(s) \/ UNCHANGED disk
          /\ appendResponses' = appendResponses \cup {reply}
      BY Zenon, <2>6 DEF FollowLeader
    <3>2. lg \in Seq(Entry)
      <4>. success => m.prevIndex \in 0..Len(log[s])
        BY ONLY <2>1, <2>2 DEF previousMatches, lastIndex
      <4>. success => appendFrom(log[s], m.prevIndex, m.entries) \in Seq(Entry)
        BY Zenon, <2>1, AppendFromType
      <4>. QED
        BY Zenon, <2>1
    <3>3. reply \in AppendResult
      <4>1. ConflictResponse(s, m) \in AppendResult
        BY Zenon, <2>1, <1>ConflictResponseType DEF TypeInv
      <4>2. match \in Nat /\ match + 1 \in Nat
        BY <2>1, <2>2
      <4>. HIDE DEF match
      <4>3. AppendResponse(s, m, m.term, TRUE, match, match + 1, NoTerm) \in AppendResult
        BY Zenon, <2>1, <2>4, <4>2, <1>AppendResponseType
      <4>4. AppendResponse(s, m, m.term, FALSE, 0, lastIndex(log[s]) + 1, NoTerm)
              \in AppendResult
        BY Zenon, <2>1, <2>4, <1>AppendResponseType
      <4>. HIDE DEF success, fits
      <4>. QED
        BY Zenon, <4>1, <4>3, <4>4
    <3>. HIDE DEF newer, lg, success, reply
    <3>4. commit \in Nat
      <4>. Len(lg) \in Nat
        BY Zenon, <3>2, SeqLen
      <4>. followerCommit(commitIndex[s], m.leaderCommit, lg) \in Nat
        BY Zenon, <2>1, MinOfTwo DEF followerCommit, lastIndex
      <4>. QED
        BY <2>1
    <3>. HIDE DEF commit
    <3>5. /\ votedFor' \in [Server -> Server \cup {None}]
          /\ log' \in [Server -> Seq(Entry)] /\ commitIndex' \in [Server -> Nat]
          /\ \A t \in Server \ {s} : log'[t] = log[t]
      BY Zenon, <3>1, <3>2, <3>4 DEF TypeInv, TypeOK
    <3>6. /\ role' \in [Server -> {"Follower", "Candidate", "Leader"}]
          /\ currentTerm' \in [Server -> Nat]
          /\ leaderId' \in [Server -> Server \cup {None}]
          /\ votesReceived' \in [Server -> SUBSET Server]
          /\ nextIndex' \in [Server -> [Server -> Nat]]
          /\ matchIndex' \in [Server -> [Server -> Nat]]
          /\ NextInLog'
      BY Zenon, <2>1, <3>1, <3>5, <1>BecomeFollowerType
    <3>7. disk' \in [Server -> RaftPersistentState]
      BY Zenon, <3>1, <3>5, <3>6, <1>PersistType DEF TypeInv, TypeOK
    <3>. QED
      BY Zenon, <2>3, <3>1, <3>3, <3>5, <3>6, <3>7 DEF TypeInv, TypeOK
  <2>. QED
    BY Zenon, <2>5, <2>6 DEF handleAppendEntries
\* handleAppendEntriesResponse on success: next stays within the log.
<1>AcknowledgedType.
      ASSUME TypeInv, NEW s \in Server, NEW m \in AppendResult, role[s] = "Leader",
             m.src \in peers(s), Acknowledged(s, m), UNCHANGED <<role, log>>,
             currentTerm' = currentTerm, votedFor' = votedFor
      PROVE  /\ commitIndex' \in [Server -> Nat]
             /\ nextIndex' \in [Server -> [Server -> Nat]]
             /\ matchIndex' \in [Server -> [Server -> Nat]]
             /\ disk' \in [Server -> RaftPersistentState]
             /\ appendRequests' \subseteq AppendRequest
             /\ NextInLog'
  <2>. USE <1>AcknowledgedType
  <2>. DEFINE match  == [matchIndex[s] EXCEPT ![m.src] = Max({@, m.matchIndex})]
              next   == Max({nextIndex[s][m.src], m.matchIndex + 1})
              commit == advanceCommitIndex(
                          s, log[s], currentTerm[s], match, commitIndex[s])
  <2>1. /\ m.src \in Server /\ m.matchIndex \in Nat /\ currentTerm[s] \in Nat
        /\ log[s] \in Seq(Entry) /\ Len(log[s]) \in Nat /\ commitIndex[s] \in Nat
        /\ nextIndex[s][m.src] \in Nat /\ matchIndex[s][m.src] \in Nat
        /\ matchIndex[s] \in [Server -> Nat] /\ nextIndex[s] \in [Server -> Nat]
    <3>. m.src \in Server /\ m.matchIndex \in Nat
      BY Zenon DEF AppendResult
    <3>. log[s] \in Seq(Entry) /\ Len(log[s]) \in Nat
      BY Zenon, SeqLen DEF TypeInv, TypeOK
    <3>. QED
      BY Zenon DEF TypeInv, TypeOK
  <2>2. match \in [Server -> Nat]
    <3>. Max({matchIndex[s][m.src], m.matchIndex}) \in Nat
      BY Zenon, <2>1, MaxOfTwo
    <3>. QED
      BY Zenon, <2>1
  <2>3. next \in 1..(Len(log[s]) + 1)
    <3>1. m.matchIndex <= Len(log[s])
      BY Zenon DEF Acknowledged, ValidAck, lastIndex
    <3>2. nextIndex[s][m.src] \in 1..(Len(log[s]) + 1)
      BY Zenon DEF TypeInv, NextInLog, lastIndex
    <3>3. m.matchIndex + 1 \in Nat
      BY <2>1
    <3>4. next = IF nextIndex[s][m.src] <= m.matchIndex + 1
                 THEN m.matchIndex + 1 ELSE nextIndex[s][m.src]
      BY Zenon, <2>1, <3>3, MaxOfTwo
    <3>. QED
      BY ONLY <2>1, <3>1, <3>2, <3>4
  <2>. HIDE DEF match
  <2>4. commit \in Nat
    BY Zenon, <2>1, AdvanceCommitIndexType
  <2>. HIDE DEF next, commit
  <2>5. makeAppendEntries(s, m.src, currentTerm[s], log[s], next, commit)
          \in AppendRequest
    BY Zenon, <2>1, <2>3, <2>4, <1>MakeAppendEntriesType
  <2>6. /\ matchIndex' = [matchIndex EXCEPT ![s] = match]
        /\ nextIndex' = [nextIndex EXCEPT ![s][m.src] = next]
        /\ commitIndex' = [commitIndex EXCEPT ![s] = commit]
        /\ Persist(s) \/ UNCHANGED disk
        /\ \/ appendRequests' = appendRequests \cup
                {makeAppendEntries(s, m.src, currentTerm[s], log[s], next, commit)}
           \/ appendRequests' = appendRequests \cup {}
    BY Zenon DEF Acknowledged, match, next, commit
  <2>7. /\ commitIndex' \in [Server -> Nat]
        /\ matchIndex' \in [Server -> [Server -> Nat]]
        /\ appendRequests' \subseteq AppendRequest
    BY Zenon, <2>2, <2>4, <2>5, <2>6 DEF TypeInv, TypeOK
  <2>8. nextIndex' \in [Server -> [Server -> Nat]]
    <3>. next \in Nat
      BY <2>1, <2>3
    <3>. QED
      BY Zenon, <2>6 DEF TypeInv, TypeOK
  <2>9. NextInLog'
    BY Zenon, <2>3, <2>6 DEF TypeInv, TypeOK, NextInLog, lastIndex, peers
  <2>10. disk' \in [Server -> RaftPersistentState]
    <3>. /\ currentTerm'[s] \in Nat /\ votedFor'[s] \in Server \cup {None}
         /\ log'[s] \in Seq(Entry) /\ commitIndex'[s] \in Nat
      BY <2>7 DEF TypeInv, TypeOK
    <3>. QED
      BY Zenon, <2>6, <1>PersistType DEF TypeInv, TypeOK
  <2>. QED
    BY Zenon, <2>7, <2>8, <2>9, <2>10
\* handleAppendEntriesResponse on a conflict: next stays within the log.
<1>RejectedType.
      ASSUME TypeInv, NEW s \in Server, NEW m \in AppendResult,
             m.src \in peers(s), Rejected(s, m), UNCHANGED <<role, log>>
      PROVE  /\ nextIndex' \in [Server -> [Server -> Nat]]
             /\ appendRequests' \subseteq AppendRequest
             /\ NextInLog'
  <2>. USE <1>RejectedType
  <2>. DEFINE next == nextIndexAfterConflict(log[s], m.conflictIndex, m.conflictTerm)
  <2>1. /\ m.src \in Server /\ m.conflictIndex \in Nat /\ currentTerm[s] \in Nat
        /\ log[s] \in Seq(Entry) /\ Len(log[s]) \in Nat /\ commitIndex[s] \in Nat
    BY Zenon, SeqLen DEF TypeInv, TypeOK, AppendResult
  <2>2. next \in 1..(Len(log[s]) + 1)
    BY <2>1, NextIndexAfterConflictRange DEF lastIndex
  <2>. HIDE DEF next
  <2>3. makeAppendEntries(s, m.src, currentTerm[s], log[s], next, commitIndex[s])
          \in AppendRequest
    BY Zenon, <2>1, <2>2, <1>MakeAppendEntriesType
  <2>4. /\ nextIndex' = [nextIndex EXCEPT ![s][m.src] = next]
        /\ appendRequests' = appendRequests \cup
             {makeAppendEntries(s, m.src, currentTerm[s], log[s], next, commitIndex[s])}
    BY DEF Rejected, next
  <2>5. nextIndex' \in [Server -> [Server -> Nat]]
    <3>. next \in Nat
      BY <2>2
    <3>. QED
      BY Zenon, <2>4 DEF TypeInv, TypeOK
  <2>6. NextInLog'
    <3>1. ASSUME NEW x \in Server, role'[x] = "Leader", NEW p \in peers(x),
                 x # s \/ p # m.src
          PROVE  nextIndex'[x][p] = nextIndex[x][p]
      BY Zenon, <2>4, <3>1 DEF TypeInv, TypeOK, peers
    <3>2. nextIndex'[s][m.src] = next
      BY Zenon, <2>1, <2>4 DEF TypeInv, TypeOK
    <3>. QED
      BY Zenon, <2>2, <2>4, <3>1, <3>2 DEF TypeInv, NextInLog, lastIndex
  <2>. QED
    BY Zenon, <2>3, <2>4, <2>5, <2>6 DEF TypeInv, TypeOK
\* handleAppendEntriesResponse keeps the type invariant.
<1>HandleAppendEntriesResponseType.
      ASSUME TypeInv, NEW s \in Server, NEW m \in appendResponses,
             handleAppendEntriesResponse(s, m)
      PROVE  TypeInv'
  <2>. USE <1>HandleAppendEntriesResponseType
  <2>1. m \in AppendResult /\ m.term \in Nat /\ m.src \in peers(s)
    BY Zenon DEF TypeInv, TypeOK, AppendResult, handleAppendEntriesResponse
  <2>2. voteResponses' \subseteq VoteResponse /\ appendResponses' \subseteq AppendResult
    BY Zenon DEF TypeInv, TypeOK, handleAppendEntriesResponse, Deliver
  <2>3. CASE StepDown(s, m)
    BY Zenon, <2>1, <2>2, <2>3, <1>StepDownType
  <2>4. CASE /\ role[s] = "Leader"
             /\ Acknowledged(s, m) \/ Rejected(s, m)
             /\ UNCHANGED <<electionVars, log, requestVotes, historyVars>>
    <3>. /\ role[s] = "Leader"
         /\ Acknowledged(s, m) \/ Rejected(s, m)
         /\ UNCHANGED <<role, currentTerm, votedFor, leaderId, votesReceived, log,
                        requestVotes, granted, leaders>>
      BY <2>4 DEF electionVars, historyVars
    <3>. CASE Acknowledged(s, m)
      <4>. /\ commitIndex' \in [Server -> Nat]
           /\ nextIndex' \in [Server -> [Server -> Nat]]
           /\ matchIndex' \in [Server -> [Server -> Nat]]
           /\ disk' \in [Server -> RaftPersistentState]
           /\ appendRequests' \subseteq AppendRequest
           /\ NextInLog'
        BY Zenon, <2>1, <1>AcknowledgedType
      <4>. QED
        BY Zenon, <2>2 DEF TypeInv, TypeOK
    <3>. CASE Rejected(s, m)
      <4>. /\ nextIndex' \in [Server -> [Server -> Nat]]
           /\ appendRequests' \subseteq AppendRequest
           /\ NextInLog'
        BY Zenon, <2>1, <1>RejectedType
      <4>. UNCHANGED <<matchIndex, commitIndex, disk>>
        BY DEF Rejected
      <4>. QED
        BY Zenon, <2>2 DEF TypeInv, TypeOK
    <3>. QED
      OBVIOUS
  <2>5. CASE Ignore
    BY Zenon, <2>2, <2>5, <1>IgnoreType
  <2>. QED
    BY Zenon, <2>3, <2>4, <2>5 DEF handleAppendEntriesResponse
\* propose keeps the type invariant.
<1>ProposeType.
      ASSUME TypeInv, NEW s \in Server, NEW cmd \in Command, propose(s, cmd)
      PROVE  TypeInv'
  <2>. USE <1>ProposeType
  <2>. DEFINE lg     == Append(log[s], [term |-> currentTerm[s], cmd |-> cmd])
              commit == advanceCommitIndex(
                          s, lg, currentTerm[s], matchIndex[s], commitIndex[s])
  <2>1. /\ log[s] \in Seq(Entry) /\ Len(log[s]) \in Nat /\ commitIndex[s] \in Nat
        /\ currentTerm[s] \in Nat
    BY Zenon, SeqLen DEF TypeInv, TypeOK
  <2>2. lg \in Seq(Entry) /\ Len(lg) = Len(log[s]) + 1
    <3>. [term |-> currentTerm[s], cmd |-> cmd] \in Entry
      BY Zenon, <2>1 DEF Entry
    <3>. QED
      BY <2>1, SeqAppend
  <2>. HIDE DEF lg
  <2>3. commit \in Nat
    BY Zenon, <2>1, <2>2, AdvanceCommitIndexType
  <2>. HIDE DEF commit
  <2>4. /\ role[s] = "Leader"
        /\ log' = [log EXCEPT ![s] = lg]
        /\ commitIndex' = [commitIndex EXCEPT ![s] = commit]
        /\ appendRequests' = appendRequests \cup
             replicateToAll(s, currentTerm[s], lg, nextIndex[s], commit)
        /\ UNCHANGED <<role, currentTerm, votedFor, leaderId, votesReceived,
                       nextIndex, matchIndex, requestVotes, voteResponses,
                       appendResponses, granted, leaders>>
        /\ Persist(s)
    BY Zenon DEF propose, lg, commit, electionVars, progressVars, historyVars
  <2>5. ASSUME NEW p \in peers(s) PROVE nextIndex[s][p] \in 1..(Len(lg) + 1)
    <3>1. nextIndex[s][p] \in 1..(Len(log[s]) + 1)
      BY Zenon, <2>4 DEF TypeInv, NextInLog, lastIndex
    <3>. QED
      BY ONLY <2>1, <2>2, <3>1
  <2>6. appendRequests' \subseteq AppendRequest
    <3>. replicateToAll(s, currentTerm[s], lg, nextIndex[s], commit)
           \subseteq AppendRequest
      BY Zenon, <2>1, <2>2, <2>3, <2>5, <1>ReplicateToAllType
    <3>. QED
      BY <2>4 DEF TypeInv, TypeOK
  <2>7. log' \in [Server -> Seq(Entry)] /\ commitIndex' \in [Server -> Nat]
    BY Zenon, <2>2, <2>3, <2>4 DEF TypeInv, TypeOK
  <2>8. disk' \in [Server -> RaftPersistentState]
    <3>. /\ currentTerm'[s] \in Nat /\ votedFor'[s] \in Server \cup {None}
         /\ log'[s] \in Seq(Entry) /\ commitIndex'[s] \in Nat
      BY Zenon, <2>4, <2>7 DEF TypeInv, TypeOK
    <3>. QED
      BY Zenon, <2>4, <1>PersistType DEF TypeInv, TypeOK
  <2>9. NextInLog'
    BY Zenon, <2>4, <2>5 DEF TypeInv, TypeOK, NextInLog, lastIndex
  <2>. QED
    BY Zenon, <2>4, <2>6, <2>7, <2>8, <2>9 DEF TypeInv, TypeOK
\* The volatile state of a rebuilt node has its type.
<1>RebootedType.
      ASSUME TypeInv, NEW s \in Server, Rebooted(s),
             log' \in [Server -> Seq(Entry)],
             \A t \in Server \ {s} : log'[t] = log[t]
      PROVE  /\ role' \in [Server -> {"Follower", "Candidate", "Leader"}]
             /\ leaderId' \in [Server -> Server \cup {None}]
             /\ votesReceived' \in [Server -> SUBSET Server]
             /\ nextIndex' \in [Server -> [Server -> Nat]]
             /\ matchIndex' \in [Server -> [Server -> Nat]]
             /\ NextInLog'
  <2>. USE <1>RebootedType
  <2>. NoProgress \in [Server -> Nat]
    BY DEF NoProgress
  <2>. NextInLog'
    BY DEF Rebooted, TypeInv, TypeOK, NextInLog
  <2>. QED
    BY Zenon DEF Rebooted, TypeInv, TypeOK
\* A node rebuilt by its constructor has the state its persistence loads.
<1>RestartType.
      ASSUME TypeInv, NEW s \in Server, restart(s)
      PROVE  TypeInv'
  <2>. USE <1>RestartType
  <2>1. disk[s] \in RaftPersistentState
    BY DEF TypeInv, TypeOK
  <2>2. /\ currentTerm' \in [Server -> Nat]
        /\ votedFor' \in [Server -> Server \cup {None}]
        /\ log' \in [Server -> Seq(Entry)]
        /\ commitIndex' \in [Server -> Nat]
        /\ \A t \in Server \ {s} : log'[t] = log[t]
    BY Zenon, <2>1 DEF restart, TypeInv, TypeOK, RaftPersistentState
  <2>3. Rebooted(s) /\ UNCHANGED <<disk, messageVars, historyVars>>
    BY Zenon DEF restart
  <2>4. /\ role' \in [Server -> {"Follower", "Candidate", "Leader"}]
        /\ leaderId' \in [Server -> Server \cup {None}]
        /\ votesReceived' \in [Server -> SUBSET Server]
        /\ nextIndex' \in [Server -> [Server -> Nat]]
        /\ matchIndex' \in [Server -> [Server -> Nat]]
        /\ NextInLog'
    BY Zenon, <2>2, <2>3, <1>RebootedType
  <2>. QED
    BY Zenon, <2>2, <2>3, <2>4 DEF TypeInv, TypeOK, messageVars, historyVars
\* The durable state between two persists of a lone voter has its type.
<1>CrashInElectionType.
      ASSUME TypeInv, NEW s \in Server, crashInElection(s)
      PROVE  TypeInv'
  <2>. USE <1>CrashInElectionType
  <2>1. PICK term \in Nat : term = currentTerm[s] + 1
    BY DEF TypeInv, TypeOK
  <2>2. /\ log[s] \in Seq(Entry) /\ [term |-> term, cmd |-> NoOp] \in Entry
        /\ Append(log[s], [term |-> term, cmd |-> NoOp]) \in Seq(Entry)
    <3>. log[s] \in Seq(Entry) /\ [term |-> term, cmd |-> NoOp] \in Entry
      BY Zenon DEF TypeInv, TypeOK, Entry
    <3>. QED
      BY SeqAppend
  <2>3. /\ Rebooted(s) /\ Persist(s)
        /\ currentTerm' = [currentTerm EXCEPT ![s] = term]
        /\ votedFor' = [votedFor EXCEPT ![s] = s]
        /\ \/ UNCHANGED log
           \/ log' = [log EXCEPT ![s] = Append(log[s], [term |-> term, cmd |-> NoOp])]
        /\ granted' = granted \cup {<<s, term, s>>}
        /\ UNCHANGED <<commitIndex, messageVars, leaders>>
    BY <2>1 DEF crashInElection
  <2>4. /\ currentTerm' \in [Server -> Nat] /\ votedFor' \in [Server -> Server \cup {None}]
        /\ log' \in [Server -> Seq(Entry)] /\ commitIndex' \in [Server -> Nat]
        /\ \A t \in Server \ {s} : log'[t] = log[t]
    BY Zenon, <2>2, <2>3 DEF TypeInv, TypeOK
  <2>5. disk' \in [Server -> RaftPersistentState]
    BY Zenon, <2>3, <2>4, <1>PersistType DEF TypeInv, TypeOK
  <2>6. /\ role' \in [Server -> {"Follower", "Candidate", "Leader"}]
        /\ leaderId' \in [Server -> Server \cup {None}]
        /\ votesReceived' \in [Server -> SUBSET Server]
        /\ nextIndex' \in [Server -> [Server -> Nat]]
        /\ matchIndex' \in [Server -> [Server -> Nat]]
        /\ NextInLog'
    BY Zenon, <2>3, <2>4, <1>RebootedType
  <2>7. granted' \subseteq Server \X Nat \X Server
    <3>1. granted \subseteq Server \X Nat \X Server
      BY Zenon DEF TypeInv, TypeOK
    <3>2. granted' = granted \cup {<<s, term, s>>} /\ term \in Nat /\ s \in Server
      BY Zenon, <2>2, <2>3
    <3>. QED
      BY ONLY <3>1, <3>2
  <2>. QED
    BY Zenon, <2>3, <2>4, <2>5, <2>6, <2>7 DEF TypeInv, TypeOK, messageVars
\* The same for an entry a lone leader has persisted and not yet committed.
<1>CrashInProposeType.
      ASSUME TypeInv, NEW s \in Server, NEW cmd \in Command, crashInPropose(s, cmd)
      PROVE  TypeInv'
  <2>. USE <1>CrashInProposeType
  <2>1. Append(log[s], [term |-> currentTerm[s], cmd |-> cmd]) \in Seq(Entry)
    <3>. log[s] \in Seq(Entry) /\ [term |-> currentTerm[s], cmd |-> cmd] \in Entry
      BY Zenon DEF TypeInv, TypeOK, Entry
    <3>. QED
      BY Zenon, SeqAppend
  <2>2. /\ Rebooted(s) /\ Persist(s)
        /\ log' = [log EXCEPT ![s] =
                     Append(log[s], [term |-> currentTerm[s], cmd |-> cmd])]
        /\ UNCHANGED <<currentTerm, votedFor, commitIndex, messageVars, historyVars>>
    BY Zenon DEF crashInPropose
  <2>3. /\ currentTerm' \in [Server -> Nat] /\ votedFor' \in [Server -> Server \cup {None}]
        /\ log' \in [Server -> Seq(Entry)] /\ commitIndex' \in [Server -> Nat]
        /\ \A t \in Server \ {s} : log'[t] = log[t]
    BY Zenon, <2>1, <2>2 DEF TypeInv, TypeOK
  <2>4. disk' \in [Server -> RaftPersistentState]
    BY Zenon, <2>2, <2>3, <1>PersistType DEF TypeInv, TypeOK
  <2>5. /\ role' \in [Server -> {"Follower", "Candidate", "Leader"}]
        /\ leaderId' \in [Server -> Server \cup {None}]
        /\ votesReceived' \in [Server -> SUBSET Server]
        /\ nextIndex' \in [Server -> [Server -> Nat]]
        /\ matchIndex' \in [Server -> [Server -> Nat]]
        /\ NextInLog'
    BY Zenon, <2>2, <2>3, <1>RebootedType
  <2>. QED
    BY Zenon, <2>2, <2>3, <2>4, <2>5 DEF TypeInv, TypeOK, messageVars, historyVars
\* Losing a message keeps the type invariant.
<1>LoseType.
      ASSUME TypeInv, lose
      PROVE  TypeInv'
  <2>. USE <1>LoseType
  <2>. /\ requestVotes' \subseteq requestVotes /\ voteResponses' \subseteq voteResponses
       /\ appendRequests' \subseteq appendRequests
       /\ appendResponses' \subseteq appendResponses
    BY Zenon DEF lose, Drop
  <2>. UNCHANGED <<electionVars, logVars, progressVars, disk, historyVars>>
    BY DEF lose
  <2>. QED
    BY Zenon DEF TypeInv, TypeOK, NextInLog, electionVars, logVars,
                      progressVars, historyVars
<1>. SUFFICES ASSUME TypeInv, [Next]_vars PROVE TypeInv'
  OBVIOUS
<1>1. CASE UNCHANGED vars
  BY Zenon, <1>1 DEF vars, TypeInv, TypeOK, NextInLog, electionVars, logVars, progressVars,
              messageVars, historyVars
<1>2. CASE lose
  BY Zenon, <1>2, <1>LoseType
<1>3. ASSUME NEW s \in Server, startElection(s) PROVE TypeInv'
  BY Zenon, <1>3, <1>StartElectionType
<1>4. ASSUME NEW s \in Server, heartbeat(s) PROVE TypeInv'
  BY Zenon, <1>4, <1>HeartbeatType
<1>5. ASSUME NEW s \in Server, NEW m \in requestVotes, handleRequestVote(s, m)
      PROVE  TypeInv'
  BY Zenon, <1>5, <1>HandleRequestVoteType
<1>6. ASSUME NEW s \in Server, NEW m \in voteResponses,
             handleRequestVoteResponse(s, m)
      PROVE  TypeInv'
  BY Zenon, <1>6, <1>HandleRequestVoteResponseType
<1>7. ASSUME NEW s \in Server, NEW m \in appendRequests, handleAppendEntries(s, m)
      PROVE  TypeInv'
  BY <1>7, <1>HandleAppendEntriesType
<1>8. ASSUME NEW s \in Server, NEW m \in appendResponses,
             handleAppendEntriesResponse(s, m)
      PROVE  TypeInv'
  BY <1>8, <1>HandleAppendEntriesResponseType
<1>9. ASSUME NEW s \in Server, NEW cmd \in Command, propose(s, cmd) PROVE TypeInv'
  BY Zenon, <1>9, <1>ProposeType
<1>10. ASSUME NEW s \in Server, restart(s) PROVE TypeInv'
  BY <1>10, <1>RestartType
<1>11. ASSUME NEW s \in Server, crashInElection(s) PROVE TypeInv'
  BY <1>11, <1>CrashInElectionType
<1>12. ASSUME NEW s \in Server, NEW cmd \in Command, crashInPropose(s, cmd)
       PROVE  TypeInv'
  BY Zenon, <1>12, <1>CrashInProposeType
<1>. QED
  BY Zenon, <1>1, <1>2, <1>3, <1>4, <1>5, <1>6, <1>7, <1>8, <1>9, <1>10, <1>11, <1>12
     DEF Next

-----------------------------------------------------------------------------
(* Durability: the disk never lags behind the memory a reply was made from *)

\* Every step keeps the disk equal to the durable part of memory.
LEMMA DurableStep == TypeInv /\ DurableBeforeReply /\ [Next]_vars => DurableBeforeReply'
\* A step of s that ends in Persist keeps every node's disk equal to its memory.
<1>PersistDurable.
      ASSUME TypeInv, DurableBeforeReply, NEW s \in Server, Persist(s),
             \A t \in Server \ {s} :
               /\ currentTerm'[t] = currentTerm[t] /\ votedFor'[t] = votedFor[t]
               /\ log'[t] = log[t] /\ commitIndex'[t] = commitIndex[t]
      PROVE  DurableBeforeReply'
  <2>. USE <1>PersistDurable
  <2>. SUFFICES ASSUME NEW t \in Server
                PROVE  disk'[t] = DurableState(currentTerm'[t], votedFor'[t],
                                               log'[t], commitIndex'[t])
    BY Zenon DEF DurableBeforeReply
  <2>. CASE t = s
    BY Zenon DEF Persist, TypeInv, TypeOK
  <2>. CASE t # s
    BY Zenon DEF Persist, TypeInv, TypeOK, DurableBeforeReply
  <2>. QED
    BY Zenon
\* A step that writes nothing keeps it if no durable part of memory changed.
<1>NoPersistDurable.
      ASSUME DurableBeforeReply, UNCHANGED disk,
             \A t \in Server :
               /\ currentTerm'[t] = currentTerm[t] /\ votedFor'[t] = votedFor[t]
               /\ log'[t] = log[t] /\ commitIndex'[t] = commitIndex[t]
      PROVE  DurableBeforeReply'
  BY Zenon, <1>NoPersistDurable DEF DurableBeforeReply
\* A vote is on disk before it is sent.
<1>HandleRequestVoteDurable.
      ASSUME TypeInv, DurableBeforeReply, NEW s \in Server, NEW m \in requestVotes,
             handleRequestVote(s, m)
      PROVE  DurableBeforeReply'
  <2>. USE <1>HandleRequestVoteDurable
  <2>1. currentTerm \in [Server -> Nat] /\ votedFor \in [Server -> Server \cup {None}]
    BY Zenon DEF TypeInv, TypeOK
  <2>2. UNCHANGED <<log, commitIndex>>
    BY Zenon DEF handleRequestVote, logVars
  <2>3. CASE RefuseVote(s, m)
    <3>. UNCHANGED <<currentTerm, votedFor, disk>>
      BY Zenon, <2>3 DEF RefuseVote, electionVars
    <3>. QED
      BY Zenon, <2>2, <1>NoPersistDurable
  <2>4. CASE ConsiderVote(s, m)
    <3>. DEFINE newer == m.term > currentTerm[s]
                vote  == IF newer THEN None ELSE votedFor[s]
                granting == /\ canVote(vote, m.src)
                            /\ isCandidateLogUpToDate(
                                 m.lastLogIndex, m.lastLogTerm, log[s])
    <3>1. /\ IF newer
             THEN becomeFollower(s, m.term, None)
             ELSE UNCHANGED <<role, currentTerm, leaderId, votesReceived, progressVars>>
          /\ votedFor' = [votedFor EXCEPT ![s] = IF granting THEN m.src ELSE vote]
          /\ IF VoteIsDurable(s, newer) THEN Persist(s) ELSE UNCHANGED disk
      BY Zenon, <2>4 DEF ConsiderVote
    <3>. HIDE DEF newer, vote, granting
    <3>2. \A t \in Server \ {s} : /\ currentTerm'[t] = currentTerm[t]
                                  /\ votedFor'[t] = votedFor[t]
      <4>. \A t \in Server \ {s} : votedFor'[t] = votedFor[t]
        BY Zenon, <2>1, <3>1
      <4>. currentTerm' = currentTerm \/ currentTerm' = [currentTerm EXCEPT ![s] = m.term]
        BY Zenon, <3>1 DEF becomeFollower
      <4>. QED
        BY Zenon, <2>1
    <3>3. CASE VoteIsDurable(s, newer)
      BY Zenon, <2>2, <3>1, <3>2, <3>3, <1>PersistDurable
    <3>4. CASE ~VoteIsDurable(s, newer)
      <4>. /\ currentTerm'[s] = currentTerm[s] /\ votedFor'[s] = votedFor[s]
        BY Zenon, <3>1, <3>4 DEF VoteIsDurable
      <4>. QED
        BY Zenon, <2>2, <3>1, <3>2, <3>4, <1>NoPersistDurable
    <3>. QED
      BY Zenon, <3>3, <3>4
  <2>. QED
    BY Zenon, <2>3, <2>4 DEF handleRequestVote
\* Entries, a new term and a new commit index are on disk before the response.
<1>HandleAppendEntriesDurable.
      ASSUME TypeInv, DurableBeforeReply, NEW s \in Server, NEW m \in appendRequests,
             handleAppendEntries(s, m)
      PROVE  DurableBeforeReply'
  <2>. USE <1>HandleAppendEntriesDurable
  <2>. /\ m.term \in Nat /\ currentTerm[s] \in Nat /\ m.prevIndex \in Nat
       /\ log[s] \in Seq(Entry)
    BY Zenon DEF TypeInv, TypeOK, AppendRequest
  <2>. CASE RefuseAppend(s, m)
    <3>. UNCHANGED <<currentTerm, votedFor, log, commitIndex, disk>>
      BY Zenon DEF RefuseAppend, electionVars, logVars
    <3>. QED
      BY Zenon, <1>NoPersistDurable
  <2>. CASE FollowLeader(s, m)
    <3>. DEFINE newer   == m.term > currentTerm[s]
                success == /\ previousMatches(log[s], m)
                           /\ ~appendFromFails(log[s], m.prevIndex, m.entries)
                lg      == IF success
                           THEN appendFrom(log[s], m.prevIndex, m.entries)
                           ELSE log[s]
                commit  == IF success
                           THEN followerCommit(commitIndex[s], m.leaderCommit, lg)
                           ELSE commitIndex[s]
                changed == \/ newer
                           \/ success /\ m.entries # <<>>
                           \/ commit # commitIndex[s]
    <3>1. /\ m.term >= currentTerm[s]
          /\ becomeFollower(s, m.term, m.src)
          /\ votedFor' = [votedFor EXCEPT ![s] = IF newer THEN None ELSE @]
          /\ log' = [log EXCEPT ![s] = lg]
          /\ commitIndex' = [commitIndex EXCEPT ![s] = commit]
          /\ IF changed THEN Persist(s) ELSE UNCHANGED disk
      BY Zenon DEF FollowLeader
    <3>2. ~changed => lg = log[s]
      <4>. SUFFICES ASSUME success, m.entries = <<>>
                    PROVE  appendFrom(log[s], m.prevIndex, m.entries) = log[s]
        BY Zenon
      <4>. m.prevIndex \in 0..Len(log[s])
        <5>1. m.prevIndex <= Len(log[s])
          BY Zenon DEF previousMatches, lastIndex
        <5>2. Len(log[s]) \in Nat /\ m.prevIndex \in Nat
          BY Zenon, SeqLen
        <5>. QED
          BY ONLY <5>1, <5>2
      <4>. QED
        BY Zenon, AppendFromEmpty
    <3>3. ~changed => ~newer /\ commit = commitIndex[s]
      BY Zenon
    <3>4. newer <=> m.term > currentTerm[s]
      OBVIOUS
    <3>. HIDE DEF changed, lg, commit, success, newer
    <3>5. \A t \in Server \ {s} :
            /\ currentTerm'[t] = currentTerm[t] /\ votedFor'[t] = votedFor[t]
            /\ log'[t] = log[t] /\ commitIndex'[t] = commitIndex[t]
      BY Zenon, <3>1 DEF TypeInv, TypeOK, becomeFollower
    <3>6. CASE changed
      BY Zenon, <3>1, <3>5, <3>6, <1>PersistDurable
    <3>7. CASE ~changed
      <4>. m.term = currentTerm[s]
        <5>1. m.term >= currentTerm[s] /\ ~(m.term > currentTerm[s])
          BY Zenon, <3>1, <3>3, <3>4, <3>7
        <5>2. m.term \in Nat /\ currentTerm[s] \in Nat
          BY Zenon
        <5>. QED
          BY ONLY <5>1, <5>2
      <4>. /\ currentTerm'[s] = currentTerm[s] /\ votedFor'[s] = votedFor[s]
           /\ log'[s] = log[s] /\ commitIndex'[s] = commitIndex[s]
        BY Zenon, <3>1, <3>2, <3>3, <3>7 DEF TypeInv, TypeOK, becomeFollower
      <4>. QED
        BY Zenon, <3>1, <3>5, <3>7, <1>NoPersistDurable
    <3>. QED
      BY Zenon, <3>6, <3>7
  <2>. QED
    BY DEF handleAppendEntries
<1>. SUFFICES ASSUME TypeInv, DurableBeforeReply, [Next]_vars
              PROVE  DurableBeforeReply'
  BY Zenon
<1>1. CASE UNCHANGED vars
  BY Zenon, <1>1, <1>NoPersistDurable DEF vars, electionVars, logVars
<1>2. CASE lose
  BY Zenon, <1>2, <1>NoPersistDurable DEF lose, electionVars, logVars
<1>3. ASSUME NEW s \in Server, startElection(s) PROVE DurableBeforeReply'
  <2>. Persist(s)
    BY Zenon, <1>3 DEF startElection
  <2>. \A t \in Server \ {s} :
         /\ currentTerm'[t] = currentTerm[t] /\ votedFor'[t] = votedFor[t]
         /\ log'[t] = log[t] /\ commitIndex'[t] = commitIndex[t]
    <3>. /\ currentTerm' = [currentTerm EXCEPT ![s] = @ + 1]
         /\ votedFor' = [votedFor EXCEPT ![s] = s]
      BY Zenon, <1>3 DEF startElection
    <3>. \A t \in Server \ {s} : log'[t] = log[t] /\ commitIndex'[t] = commitIndex[t]
      <4>1. becomeLeader(s, currentTerm[s] + 1) \/ UNCHANGED logVars
        BY Zenon, <1>3 DEF startElection
      <4>2. CASE becomeLeader(s, currentTerm[s] + 1)
        BY Zenon, <4>2 DEF becomeLeader, TypeInv, TypeOK
      <4>3. CASE UNCHANGED logVars
        BY Zenon, <4>3 DEF logVars
      <4>. QED
        BY Zenon, <4>1, <4>2, <4>3
    <3>. QED
      BY Zenon DEF TypeInv, TypeOK
  <2>. QED
    BY Zenon, <1>PersistDurable
<1>4. ASSUME NEW s \in Server, heartbeat(s) PROVE DurableBeforeReply'
  BY Zenon, <1>4, <1>NoPersistDurable DEF heartbeat, electionVars, logVars
<1>5. ASSUME NEW s \in Server, NEW m \in requestVotes, handleRequestVote(s, m)
      PROVE  DurableBeforeReply'
  BY <1>5, <1>HandleRequestVoteDurable
<1>. DEFINE OthersKept(s) ==
       \A t \in Server \ {s} :
         /\ currentTerm'[t] = currentTerm[t] /\ votedFor'[t] = votedFor[t]
         /\ log'[t] = log[t] /\ commitIndex'[t] = commitIndex[t]
<1>6. ASSUME NEW s \in Server, NEW m, StepDown(s, m) PROVE DurableBeforeReply'
  <2>. Persist(s) /\ OthersKept(s)
    BY Zenon, <1>6 DEF StepDown, becomeFollower, logVars, TypeInv, TypeOK
  <2>. QED
    BY Zenon, <1>PersistDurable
<1>7. ASSUME NEW s \in Server, NEW m \in voteResponses,
             handleRequestVoteResponse(s, m)
      PROVE  DurableBeforeReply'
  <2>. CASE StepDown(s, m)
    BY Zenon, <1>6
  <2>. CASE CountVote(s, m) \/ Ignore
    <3>. /\ UNCHANGED <<currentTerm, votedFor>>
         /\ \/ becomeLeader(s, currentTerm[s]) /\ Persist(s)
            \/ UNCHANGED <<log, commitIndex, disk>>
      BY Zenon DEF CountVote, Ignore, electionVars, logVars
    <3>. CASE becomeLeader(s, currentTerm[s]) /\ Persist(s)
      <4>. OthersKept(s)
        BY DEF becomeLeader, TypeInv, TypeOK
      <4>. QED
        BY Zenon, <1>PersistDurable
    <3>. CASE UNCHANGED <<log, commitIndex, disk>>
      BY Zenon, <1>NoPersistDurable
    <3>. QED
      OBVIOUS
  <2>. QED
    BY <1>7 DEF handleRequestVoteResponse
<1>8. ASSUME NEW s \in Server, NEW m \in appendRequests, handleAppendEntries(s, m)
      PROVE  DurableBeforeReply'
  BY <1>8, <1>HandleAppendEntriesDurable
<1>9. ASSUME NEW s \in Server, NEW m \in appendResponses,
             handleAppendEntriesResponse(s, m)
      PROVE  DurableBeforeReply'
  <2>. CASE StepDown(s, m)
    BY <1>6
  <2>. CASE Ignore
    BY Zenon, <1>NoPersistDurable DEF Ignore, electionVars, logVars
  <2>. CASE /\ UNCHANGED <<electionVars, log, requestVotes, historyVars>>
            /\ Acknowledged(s, m) \/ Rejected(s, m)
    <3>. UNCHANGED <<currentTerm, votedFor, log>>
      BY Zenon DEF electionVars
    <3>. CASE Rejected(s, m)
      BY Zenon, <1>NoPersistDurable DEF Rejected
    <3>. CASE Acknowledged(s, m)
      <4>. PICK commit :
             /\ commitIndex' = [commitIndex EXCEPT ![s] = commit]
             /\ IF commit # commitIndex[s] THEN Persist(s) ELSE UNCHANGED disk
        BY Zenon DEF Acknowledged
      <4>. CASE commit # commitIndex[s]
        <5>. Persist(s) /\ OthersKept(s)
          BY Zenon DEF TypeInv, TypeOK
        <5>. QED
          BY Zenon, <1>PersistDurable
      <4>. CASE commit = commitIndex[s]
        BY Zenon, <1>NoPersistDurable DEF TypeInv, TypeOK
      <4>. QED
        OBVIOUS
    <3>. QED
      OBVIOUS
  <2>. QED
    BY Zenon, <1>9 DEF handleAppendEntriesResponse
<1>10. ASSUME NEW s \in Server, NEW cmd \in Command, propose(s, cmd)
       PROVE  DurableBeforeReply'
  <2>. Persist(s) /\ OthersKept(s)
    BY Zenon, <1>10 DEF propose, electionVars, TypeInv, TypeOK
  <2>. QED
    BY Zenon, <1>PersistDurable
<1>11. ASSUME NEW s \in Server, restart(s) PROVE DurableBeforeReply'
  BY Zenon, <1>11 DEF restart, DurableBeforeReply, DurableState, TypeInv, TypeOK
<1>12. ASSUME NEW s \in Server, crashInElection(s) PROVE DurableBeforeReply'
  <2>. Persist(s) /\ OthersKept(s)
    BY Zenon, <1>12 DEF crashInElection, TypeInv, TypeOK
  <2>. QED
    BY Zenon, <1>PersistDurable
<1>13. ASSUME NEW s \in Server, NEW cmd \in Command, crashInPropose(s, cmd)
       PROVE  DurableBeforeReply'
  <2>. Persist(s) /\ OthersKept(s)
    BY <1>13 DEF crashInPropose, TypeInv, TypeOK
  <2>. QED
    BY <1>PersistDurable
<1>. QED
  BY Zenon, <1>1, <1>2, <1>3, <1>4, <1>5, <1>7, <1>8, <1>9, <1>10, <1>11, <1>12, <1>13
     DEF Next

=============================================================================
