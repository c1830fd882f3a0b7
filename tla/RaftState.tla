----------------------------- MODULE RaftState ------------------------------
(***************************************************************************)
(* The state of a cluster of RaftNode objects, its messages, what a node   *)
(* reads from its state to build or judge a message, and what must hold of *)
(* the state at all times.  RaftNode adds the operations.                  *)
(***************************************************************************)
EXTENDS RaftLog

CONSTANTS
  Server,      \* the voters: config_.peers and the node itself
  Command,     \* client commands
  NoOp,        \* the payload of the entry a new leader appends
  None,        \* an absent std::optional<NodeId>
  MaxEntries,  \* maximum_entries_per_append
  Candidacy,   \* bound: Candidacy[s] is the set of terms s may be candidate in
  Crashing,    \* bound: the servers that may restart
  MaxInFlight, \* bound: messages in flight at a time
  MaxLog       \* bound: no proposal extends a log beyond this length

ASSUME ServerAssumption == IsFiniteSet(Server) /\ Server # {}
ASSUME NoneAssumption == None \notin Server
ASSUME NoOpAssumption == NoOp \notin Command
ASSUME CandidacyAssumption == DOMAIN Candidacy = Server
ASSUME BoundAssumption ==
  MaxEntries \in Nat \ {0} /\ MaxLog \in Nat /\ MaxInFlight \in Nat

VARIABLES
  role, currentTerm, votedFor, leaderId, votesReceived,
  log, commitIndex, nextIndex, matchIndex,
  disk,            \* what the node's RaftPersistence holds
  requestVotes, voteResponses, appendRequests, appendResponses,
  granted,         \* history: <<voter, term, candidate>> of every vote cast
  leaders          \* history: <<term, server>> of every election won

electionVars == <<role, currentTerm, votedFor, leaderId, votesReceived>>
logVars      == <<log, commitIndex>>
progressVars == <<nextIndex, matchIndex>>
messageVars  == <<requestVotes, voteResponses, appendRequests, appendResponses>>
historyVars  == <<granted, leaders>>
vars == <<electionVars, logVars, progressVars, disk, messageVars, historyVars>>

peers(s) == Server \ {s}

Entry == [term : Nat, cmd : Command \cup {NoOp}]

\* Mutant of DurableState: the vote is not part of what is saved.
DurableStateWithoutVote(term, vote, lg, commit) ==
  [term |-> term, votedFor |-> None, log |-> lg, commitIndex |-> commit]

\* RaftPersistentState, as far as the fixed configuration uses it.
DurableState(term, vote, lg, commit) ==
  [term |-> term, votedFor |-> vote, log |-> lg, commitIndex |-> commit]

\* The maps of a node that is not the leader are empty; 0 stands for absent.
NoProgress == [p \in Server |-> 0]

Init ==
  /\ role = [s \in Server |-> "Follower"]
  /\ currentTerm = [s \in Server |-> 0]
  /\ votedFor = [s \in Server |-> None]
  /\ leaderId = [s \in Server |-> None]
  /\ votesReceived = [s \in Server |-> {}]
  /\ log = [s \in Server |-> <<>>]
  /\ commitIndex = [s \in Server |-> 0]
  /\ nextIndex = [s \in Server |-> NoProgress]
  /\ matchIndex = [s \in Server |-> NoProgress]
  /\ disk = [s \in Server |-> DurableState(0, None, <<>>, 0)]
  /\ requestVotes = {} /\ voteResponses = {}
  /\ appendRequests = {} /\ appendResponses = {}
  /\ granted = {} /\ leaders = {}

-----------------------------------------------------------------------------
(* Commitment and messages *)

hasReplicationQuorum(s, lg, match, index) ==
  hasQuorum(Cardinality({p \in Server : \/ p = s /\ lastIndex(lg) >= index
                                        \/ p # s /\ match[p] >= index}),
            Cardinality(Server))

\* Mutant of advanceCommitIndex: entries of earlier terms are counted as well.
advanceCommitIndexAnyTerm(s, lg, term, match, commit) ==
  Max({commit} \cup {i \in (commit + 1)..lastIndex(lg) :
                       hasReplicationQuorum(s, lg, match, i)})

\* Mutant of advanceCommitIndex: the scan starts one entry too low.
advanceCommitIndexBelowLast(s, lg, term, match, commit) ==
  Max({commit} \cup
      {i \in (commit + 1)..(lastIndex(lg) - 1) :
         termAt(lg, i) = term /\ hasReplicationQuorum(s, lg, match, i)})

\* The highest entry of the leader's own term that a majority replicated.
advanceCommitIndex(s, lg, term, match, commit) ==
  Max({commit} \cup
      {i \in (commit + 1)..lastIndex(lg) :
         termAt(lg, i) = term /\ hasReplicationQuorum(s, lg, match, i)})

makeAppendEntries(s, p, term, lg, next, commit) ==
  [src |-> s, dst |-> p, term |-> term,
   prevIndex |-> next - 1, prevTerm |-> termAt(lg, next - 1),
   entries |-> entriesFrom(lg, next, MaxEntries), leaderCommit |-> commit]

AppendResponse(s, m, term, success, match, conflictIndex, conflictTerm) ==
  [src |-> s, dst |-> m.src, term |-> term, success |-> success,
   prevIndex |-> m.prevIndex, entryCount |-> Len(m.entries),
   matchIndex |-> match,
   conflictIndex |-> conflictIndex, conflictTerm |-> conflictTerm]

\* The follower's hint when it cannot place the batch: its log end when the
\* previous entry is missing, else the start of the conflicting term.
ConflictResponse(s, m) ==
  LET lg == log[s]
  IN  IF m.prevIndex > lastIndex(lg)
      THEN AppendResponse(s, m, m.term, FALSE, 0, lastIndex(lg) + 1, NoTerm)
      ELSE LET term == termAt(lg, m.prevIndex)
           IN  AppendResponse(s, m, m.term, FALSE, 0,
                              firstIndexOfTerm(lg, term), term)

\* Mutant of previousMatches: the previous entry's term is not compared.
previousExists(lg, m) == m.prevIndex <= lastIndex(lg)

previousMatches(lg, m) ==
  m.prevIndex <= lastIndex(lg) /\ termAt(lg, m.prevIndex) = m.prevTerm

\* Mutant of followerCommit: an older leaderCommit takes the index back.
followerCommitLowering(commit, leaderCommit, lg) ==
  Min({leaderCommit, lastIndex(lg)})

\* The follower's commit index after a batch was appended.
followerCommit(commit, leaderCommit, lg) ==
  IF leaderCommit > commit THEN Min({leaderCommit, lastIndex(lg)}) ELSE commit

\* An acknowledgement that fits its request and the leader's log.
ValidAck(s, m) ==
  /\ m.success
  /\ m.matchIndex >= m.prevIndex /\ m.matchIndex <= lastIndex(log[s])
  /\ m.matchIndex = m.prevIndex + m.entryCount

\* A rejection of the request the leader sent last, and nothing matched since.
LatestProbe(s, m) ==
  /\ ~m.success
  /\ m.prevIndex = nextIndex[s][m.src] - 1
  /\ matchIndex[s][m.src] <= m.prevIndex

\* The constructor accepts a fresh state, or one whose commit index and terms fit.
LoadAccepted(d) ==
  \/ d = DurableState(0, None, <<>>, 0)
  \/ /\ d.term > 0
     /\ d.commitIndex <= lastIndex(d.log)
     /\ \A i \in 1..lastIndex(d.log) : d.log[i].term \in 1..d.term

-----------------------------------------------------------------------------
(* Types *)

RaftPersistentState ==
  [term : Nat, votedFor : Server \cup {None}, log : Seq(Entry), commitIndex : Nat]

VoteRequest ==
  [src : Server, dst : Server, term : Nat, lastLogIndex : Nat, lastLogTerm : Nat]

VoteResponse ==
  [src : Server, dst : Server, term : Nat, electionTerm : Nat,
   voteGranted : BOOLEAN]

AppendRequest ==
  [src : Server, dst : Server, term : Nat, prevIndex : Nat, prevTerm : Nat,
   entries : Seq(Entry), leaderCommit : Nat]

AppendResult ==
  [src : Server, dst : Server, term : Nat, success : BOOLEAN, prevIndex : Nat,
   entryCount : Nat, matchIndex : Nat, conflictIndex : Nat, conflictTerm : Nat]

\* Type invariant of the nodes' state, the persisted state and the messages.
TypeOK ==
  /\ role \in [Server -> {"Follower", "Candidate", "Leader"}]
  /\ currentTerm \in [Server -> Nat]
  /\ votedFor \in [Server -> Server \cup {None}]
  /\ leaderId \in [Server -> Server \cup {None}]
  /\ votesReceived \in [Server -> SUBSET Server]
  /\ log \in [Server -> Seq(Entry)]
  /\ commitIndex \in [Server -> Nat]
  /\ nextIndex \in [Server -> [Server -> Nat]]
  /\ matchIndex \in [Server -> [Server -> Nat]]
  /\ disk \in [Server -> RaftPersistentState]
  /\ requestVotes \subseteq VoteRequest
  /\ voteResponses \subseteq VoteResponse
  /\ appendRequests \subseteq AppendRequest
  /\ appendResponses \subseteq AppendResult
  /\ granted \subseteq Server \X Nat \X Server
  /\ leaders \subseteq Nat \X Server

-----------------------------------------------------------------------------
(* Safety *)

\* No term ever has two leaders, over the whole history of the cluster and
\* whatever restarts happen: votes are single, durable before they are sent,
\* and a stale response never counts for a later election.
ElectionSafety ==
  \A a, b \in leaders : a[1] = b[1] => a[2] = b[2]

\* A node casts at most one vote in a term, even when it restarts in between.
OneVotePerTerm ==
  \A v, w \in granted : v[1] = w[1] /\ v[2] = w[2] => v[3] = w[3]

\* What a handler answers from is what its node would load after a crash: no
\* operation leaves a term, vote, entry or commit index unpersisted.
DurableBeforeReply ==
  \A s \in Server :
    disk[s] = DurableState(currentTerm[s], votedFor[s], log[s], commitIndex[s])

\* What a node persists its constructor accepts: no step leaves a commit index
\* past the log or an entry of a later term than the node's on disk, so a node
\* that stops at any point can start again.
RestartNeverRefused ==
  \A s \in Server : LoadAccepted(disk[s])

\* Two logs that hold an entry of the same term at the same index are equal up
\* to it, so appendFrom never meets different payloads under one term.
LogMatching ==
  \A a, b \in Server :
    \A i \in 1..Min({lastIndex(log[a]), lastIndex(log[b])}) :
      log[a][i].term = log[b][i].term =>
        SubSeq(log[a], 1, i) = SubSeq(log[b], 1, i)

\* Committed prefixes of any two nodes agree: every state machine applies the
\* same commands in the same order.
StateMachineSafety ==
  \A a, b \in Server :
    \A i \in 1..Min({commitIndex[a], commitIndex[b]}) :
      /\ i <= lastIndex(log[a]) /\ i <= lastIndex(log[b])
      /\ log[a][i] = log[b][i]

\* What any node knows committed is in the log of every leader of its term or
\* of a later one.
LeaderCompleteness ==
  \A l, s \in Server :
    role[l] = "Leader" /\ currentTerm[l] >= currentTerm[s] =>
      /\ commitIndex[s] <= lastIndex(log[l])
      /\ SubSeq(log[s], 1, commitIndex[s]) = SubSeq(log[l], 1, commitIndex[s])

\* No quorum of logs can elect a node that lacks an entry some node committed:
\* a leader counts replicas only for entries of its own term, and the vote
\* compares the last term before the length.
ElectableHoldCommitted ==
  \A c \in Server :
    LET voters == {v \in Server : isCandidateLogUpToDate(
                      lastIndex(log[c]), lastTerm(log[c]), log[v])}
    IN  hasQuorum(Cardinality(voters), Cardinality(Server)) =>
          \A s \in Server :
            /\ commitIndex[s] <= lastIndex(log[c])
            /\ SubSeq(log[s], 1, commitIndex[s]) = SubSeq(log[c], 1, commitIndex[s])

\* The progress a leader counts towards a commit is real: a peer still in the
\* leader's term holds the leader's entries up to its match index, whatever
\* stale or duplicated responses arrived, and next stays within the log.
ProgressSound ==
  \A l \in Server : role[l] = "Leader" =>
    \A p \in peers(l) :
      LET match == matchIndex[l][p]
      IN  /\ nextIndex[l][p] \in 1..(lastIndex(log[l]) + 1)
          /\ currentTerm[p] = currentTerm[l] =>
               /\ match <= lastIndex(log[p])
               /\ SubSeq(log[p], 1, match) = SubSeq(log[l], 1, match)

\* In a cluster of one voter a leader commits every entry before it answers.
LoneLeaderCommitsAtOnce ==
  \A s \in Server : Server = {s} /\ role[s] = "Leader" =>
    commitIndex[s] = lastIndex(log[s])

\* The leader a node redirects clients to really won the node's current term.
LeaderHintSound ==
  \A s \in Server :
    leaderId[s] # None => <<currentTerm[s], leaderId[s]>> \in leaders

=============================================================================
