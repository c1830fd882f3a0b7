------------------------------ MODULE RaftNode ------------------------------
(***************************************************************************)
(* A cluster of RaftNode objects with a fixed voter set and no compaction.  *)
(* A RaftNode is driven by one thread, so each public operation is one      *)
(* action, and its persistOrThrow calls, commit advance and outbound RPCs   *)
(* are part of it.  The transport delivers any message in flight at any     *)
(* time and may keep it to deliver it again (its fault injection duplicates *)
(* and delays frames, and heartbeats repeat requests), or drops it (a full  *)
(* queue, a closed connection).                                             *)
(***************************************************************************)
EXTENDS RaftState

\* persistOrThrow at the end of a handler of s.
Persist(s) ==
  disk' = [disk EXCEPT ![s] =
             DurableState(currentTerm'[s], votedFor'[s], log'[s], commitIndex'[s])]

-----------------------------------------------------------------------------
(* Pieces of the handlers *)

replicateToAll(s, term, lg, next, commit) ==
  {makeAppendEntries(s, p, term, lg, next[p], commit) : p \in peers(s)}

\* Mutant of becomeFollower: an unknown leader leaves the old hint in place.
becomeFollowerKeepingHint(s, term, leader) ==
  /\ role' = [role EXCEPT ![s] = "Follower"]
  /\ currentTerm' = [currentTerm EXCEPT ![s] = term]
  /\ leaderId' = [leaderId EXCEPT ![s] = IF leader = None THEN @ ELSE leader]
  /\ votesReceived' = [votesReceived EXCEPT ![s] = {}]
  /\ nextIndex' = [nextIndex EXCEPT ![s] = NoProgress]
  /\ matchIndex' = [matchIndex EXCEPT ![s] = NoProgress]

\* Mutant of becomeFollower: the newer term is not adopted.
becomeFollowerKeepingTerm(s, term, leader) ==
  /\ role' = [role EXCEPT ![s] = "Follower"]
  /\ leaderId' = [leaderId EXCEPT ![s] = leader]
  /\ votesReceived' = [votesReceived EXCEPT ![s] = {}]
  /\ nextIndex' = [nextIndex EXCEPT ![s] = NoProgress]
  /\ matchIndex' = [matchIndex EXCEPT ![s] = NoProgress]
  /\ UNCHANGED currentTerm

\* becomeFollower, for a term that is not older than the node's; the callers
\* set votedFor, which it clears when the term grows.
becomeFollower(s, term, leader) ==
  /\ role' = [role EXCEPT ![s] = "Follower"]
  /\ currentTerm' = [currentTerm EXCEPT ![s] = term]
  /\ leaderId' = [leaderId EXCEPT ![s] = leader]
  /\ votesReceived' = [votesReceived EXCEPT ![s] = {}]
  /\ nextIndex' = [nextIndex EXCEPT ![s] = NoProgress]
  /\ matchIndex' = [matchIndex EXCEPT ![s] = NoProgress]

\* becomeLeader in the given term: progress starts at the old log end, then a
\* no-op is appended, persisted, committed if s alone is a quorum, and sent.
becomeLeader(s, term) ==
  LET lg     == Append(log[s], [term |-> term, cmd |-> NoOp])
      next   == [p \in Server |-> IF p = s THEN 0 ELSE lastIndex(log[s]) + 1]
      commit == advanceCommitIndex(s, lg, term, NoProgress, commitIndex[s])
  IN  /\ role' = [role EXCEPT ![s] = "Leader"]
      /\ leaderId' = [leaderId EXCEPT ![s] = s]
      /\ votesReceived' = [votesReceived EXCEPT ![s] = {}]
      /\ nextIndex' = [nextIndex EXCEPT ![s] = next]
      /\ matchIndex' = [matchIndex EXCEPT ![s] = NoProgress]
      /\ log' = [log EXCEPT ![s] = lg]
      /\ commitIndex' = [commitIndex EXCEPT ![s] = commit]
      /\ appendRequests' =
           appendRequests \cup replicateToAll(s, term, lg, next, commit)
      /\ leaders' = leaders \cup {<<term, s>>}

\* The transport hands over a message of one kind, which may be delivered again.
Deliver(kind, m) == kind' \in {kind, kind \ {m}}

-----------------------------------------------------------------------------
(* Operations of a node *)

\* tick of a follower or candidate whose election timeout has elapsed; a node
\* that is a quorum by itself wins on the spot.
startElection(s) ==
  LET term  == currentTerm[s] + 1
      alone == hasQuorum(1, Cardinality(Server))
  IN  /\ role[s] # "Leader"
      /\ term \in Candidacy[s]
      /\ currentTerm' = [currentTerm EXCEPT ![s] = term]
      /\ votedFor' = [votedFor EXCEPT ![s] = s]
      /\ granted' = granted \cup {<<s, term, s>>}
      /\ \/ alone /\ becomeLeader(s, term) /\ UNCHANGED requestVotes
         \/ /\ ~alone
            /\ role' = [role EXCEPT ![s] = "Candidate"]
            /\ leaderId' = [leaderId EXCEPT ![s] = None]
            /\ votesReceived' = [votesReceived EXCEPT ![s] = {s}]
            /\ requestVotes' = requestVotes \cup
                 {[src |-> s, dst |-> p, term |-> term,
                   lastLogIndex |-> lastIndex(log[s]),
                   lastLogTerm |-> lastTerm(log[s])] : p \in peers(s)}
            /\ UNCHANGED <<logVars, progressVars, appendRequests, leaders>>
      /\ Persist(s)
      /\ UNCHANGED <<voteResponses, appendResponses>>

\* tick of a leader whose heartbeat interval has elapsed; makeReadBarrier
\* sends the same requests.
heartbeat(s) ==
  /\ role[s] = "Leader"
  /\ appendRequests' = appendRequests \cup
       replicateToAll(s, currentTerm[s], log[s], nextIndex[s], commitIndex[s])
  /\ UNCHANGED <<electionVars, logVars, progressVars, disk, requestVotes,
                 voteResponses, appendResponses, historyVars>>

\* Mutant of canVote: a second vote in the term is given too.
canVoteAgain(vote, candidate) == candidate # None

canVote(vote, candidate) == vote \in {None, candidate}

\* persistent_state_changed of handleRequestVote.
VoteIsDurable(s, newer) == newer \/ votedFor'[s] # votedFor[s]

\* A vote is refused to a candidate of an older term.  (In a fixed voter set
\* every sender is a voting member.)
RefuseVote(s, m) ==
  /\ m.term < currentTerm[s]
  /\ voteResponses' = voteResponses \cup
       {[src |-> s, dst |-> m.src, term |-> currentTerm[s],
         electionTerm |-> m.term, voteGranted |-> FALSE]}
  /\ UNCHANGED <<electionVars, progressVars, disk, granted>>

\* Otherwise it is given once per term to a candidate whose log is up to date;
\* a changed term or vote is persisted.
ConsiderVote(s, m) ==
  LET newer    == m.term > currentTerm[s]
      vote     == IF newer THEN None ELSE votedFor[s]
      granting == /\ canVote(vote, m.src)
                  /\ isCandidateLogUpToDate(m.lastLogIndex, m.lastLogTerm, log[s])
  IN  /\ m.term >= currentTerm[s]
      /\ IF newer
         THEN becomeFollower(s, m.term, None)
         ELSE UNCHANGED <<role, currentTerm, leaderId, votesReceived, progressVars>>
      /\ votedFor' = [votedFor EXCEPT ![s] = IF granting THEN m.src ELSE vote]
      /\ IF VoteIsDurable(s, newer) THEN Persist(s) ELSE UNCHANGED disk
      /\ voteResponses' = voteResponses \cup
           {[src |-> s, dst |-> m.src, term |-> m.term,
             electionTerm |-> m.term, voteGranted |-> granting]}
      /\ granted' = granted \cup IF granting THEN {<<s, m.term, m.src>>} ELSE {}

handleRequestVote(s, m) ==
  /\ m.dst = s
  /\ Deliver(requestVotes, m)
  /\ UNCHANGED <<logVars, appendRequests, appendResponses, leaders>>
  /\ RefuseVote(s, m) \/ ConsiderVote(s, m)

\* A response of a higher term, to a vote or an append request, ends the role.
StepDown(s, m) ==
  /\ m.dst = s
  /\ m.term > currentTerm[s]
  /\ becomeFollower(s, m.term, None)
  /\ votedFor' = [votedFor EXCEPT ![s] = None]
  /\ UNCHANGED <<logVars, requestVotes, appendRequests, historyVars>>
  /\ Persist(s)

\* Mutant of CountsVote: the election a vote was given in is not compared.
CountsVoteOfAnyElection(s, m) == role[s] = "Candidate" /\ m.voteGranted

CountsVote(s, m) ==
  /\ role[s] = "Candidate"
  /\ m.term = currentTerm[s] /\ m.electionTerm = currentTerm[s]
  /\ m.voteGranted

\* A granted vote of the current election is counted; the quorum makes a leader.
CountVote(s, m) ==
  LET votes == votesReceived[s] \cup {m.src}
      won   == hasQuorum(Cardinality(votes), Cardinality(Server))
  IN  /\ CountsVote(s, m)
      /\ UNCHANGED <<currentTerm, votedFor, requestVotes, granted>>
      /\ \/ won /\ becomeLeader(s, currentTerm[s]) /\ Persist(s)
         \/ /\ ~won
            /\ votesReceived' = [votesReceived EXCEPT ![s] = votes]
            /\ UNCHANGED <<role, leaderId, logVars, progressVars, disk,
                           appendRequests, leaders>>

\* A response that its handler returns from without a change.
Ignore ==
  UNCHANGED <<electionVars, logVars, progressVars, disk, requestVotes,
              appendRequests, historyVars>>

handleRequestVoteResponse(s, m) ==
  /\ m.src \in peers(s)
  /\ Deliver(voteResponses, m)
  /\ UNCHANGED appendResponses
  /\ \/ StepDown(s, m)
     \/ /\ m.dst = s
        /\ m.term <= currentTerm[s]
        /\ CountVote(s, m) \/ (~CountsVote(s, m) /\ Ignore)

-----------------------------------------------------------------------------
(* Log replication *)

\* A request of an older term is refused without any change.
RefuseAppend(s, m) ==
  /\ m.term < currentTerm[s]
  /\ appendResponses' = appendResponses \cup
       {AppendResponse(s, m, currentTerm[s], FALSE, 0,
                       lastIndex(log[s]) + 1, NoTerm)}
  /\ UNCHANGED <<electionVars, logVars, progressVars, disk>>

\* A request of the current or a newer term makes s a follower of its sender;
\* a batch that fits is appended, the commit index follows the leader's up to
\* the end of the resulting log, and any durable change precedes the response.
\* (A follower of the same term has no votes and no progress to clear, so
\* becomeFollower also stands for the branch that only sets the leader.)
FollowLeader(s, m) ==
  LET newer   == m.term > currentTerm[s]
      fits    == previousMatches(log[s], m)
      success == fits /\ ~appendFromFails(log[s], m.prevIndex, m.entries)
      lg      == IF success THEN appendFrom(log[s], m.prevIndex, m.entries)
                 ELSE log[s]
      commit  == IF success
                 THEN followerCommit(commitIndex[s], m.leaderCommit, lg)
                 ELSE commitIndex[s]
      match   == m.prevIndex + Len(m.entries)
  IN  /\ m.term >= currentTerm[s]
      /\ becomeFollower(s, m.term, m.src)
      /\ votedFor' = [votedFor EXCEPT ![s] = IF newer THEN None ELSE @]
      /\ log' = [log EXCEPT ![s] = lg]
      /\ commitIndex' = [commitIndex EXCEPT ![s] = commit]
      /\ IF \/ newer
            \/ success /\ m.entries # <<>>
            \/ commit # commitIndex[s]
         THEN Persist(s) ELSE UNCHANGED disk
      /\ appendResponses' = appendResponses \cup
           {IF success
            THEN AppendResponse(s, m, m.term, TRUE, match, match + 1, NoTerm)
            ELSE IF fits
            THEN AppendResponse(s, m, m.term, FALSE, 0,
                                lastIndex(log[s]) + 1, NoTerm)
            ELSE ConflictResponse(s, m)}

handleAppendEntries(s, m) ==
  /\ m.dst = s
  /\ Deliver(appendRequests, m)
  /\ UNCHANGED <<requestVotes, voteResponses, historyVars>>
  /\ RefuseAppend(s, m) \/ FollowLeader(s, m)

\* An acknowledgement moves the peer's progress forward and the commit index
\* with it, and sends what is left.
Acknowledged(s, m) ==
  LET match  == [matchIndex[s] EXCEPT ![m.src] = Max({@, m.matchIndex})]
      next   == Max({nextIndex[s][m.src], m.matchIndex + 1})
      commit == advanceCommitIndex(
                  s, log[s], currentTerm[s], match, commitIndex[s])
  IN  /\ ValidAck(s, m)
      /\ matchIndex' = [matchIndex EXCEPT ![s] = match]
      /\ nextIndex' = [nextIndex EXCEPT ![s][m.src] = next]
      /\ commitIndex' = [commitIndex EXCEPT ![s] = commit]
      /\ IF commit # commitIndex[s] THEN Persist(s) ELSE UNCHANGED disk
      /\ appendRequests' = appendRequests \cup
           IF next <= lastIndex(log[s])
           THEN {makeAppendEntries(s, m.src, currentTerm[s], log[s], next, commit)}
           ELSE {}

\* A rejection moves next back and retries.
Rejected(s, m) ==
  LET next == nextIndexAfterConflict(log[s], m.conflictIndex, m.conflictTerm)
  IN  /\ LatestProbe(s, m)
      /\ nextIndex' = [nextIndex EXCEPT ![s][m.src] = next]
      /\ appendRequests' = appendRequests \cup
           {makeAppendEntries(s, m.src, currentTerm[s], log[s], next,
                              commitIndex[s])}
      /\ UNCHANGED <<matchIndex, commitIndex, disk>>

handleAppendEntriesResponse(s, m) ==
  LET counts == role[s] = "Leader" /\ m.term = currentTerm[s]
  IN  /\ m.src \in peers(s)
      /\ Deliver(appendResponses, m)
      /\ UNCHANGED voteResponses
      /\ \/ StepDown(s, m)
         \/ /\ m.dst = s
            /\ counts
            /\ UNCHANGED <<electionVars, log, requestVotes, historyVars>>
            /\ Acknowledged(s, m) \/ Rejected(s, m)
         \/ /\ m.dst = s
            /\ m.term <= currentTerm[s]
            /\ ~(counts /\ (ValidAck(s, m) \/ LatestProbe(s, m)))
            /\ Ignore

\* A leader appends, persists, commits alone if it is a quorum, and sends.
propose(s, cmd) ==
  LET lg     == Append(log[s], [term |-> currentTerm[s], cmd |-> cmd])
      commit == advanceCommitIndex(
                  s, lg, currentTerm[s], matchIndex[s], commitIndex[s])
  IN  /\ role[s] = "Leader"
      /\ lastIndex(log[s]) < MaxLog
      /\ log' = [log EXCEPT ![s] = lg]
      /\ commitIndex' = [commitIndex EXCEPT ![s] = commit]
      /\ appendRequests' = appendRequests \cup
           replicateToAll(s, currentTerm[s], lg, nextIndex[s], commit)
      /\ UNCHANGED <<electionVars, progressVars, requestVotes, voteResponses,
                     appendResponses, historyVars>>
      /\ Persist(s)

\* The volatile state of a RaftNode after its constructor.
Rebooted(s) ==
  /\ role' = [role EXCEPT ![s] = "Follower"]
  /\ leaderId' = [leaderId EXCEPT ![s] = None]
  /\ votesReceived' = [votesReceived EXCEPT ![s] = {}]
  /\ nextIndex' = [nextIndex EXCEPT ![s] = NoProgress]
  /\ matchIndex' = [matchIndex EXCEPT ![s] = NoProgress]

\* The process dies between two operations, or inside one before its persist,
\* and a new RaftNode is built from what the persistence loads.
restart(s) ==
  /\ s \in Crashing
  /\ LoadAccepted(disk[s])
  /\ Rebooted(s)
  /\ currentTerm' = [currentTerm EXCEPT ![s] = disk[s].term]
  /\ votedFor' = [votedFor EXCEPT ![s] = disk[s].votedFor]
  /\ log' = [log EXCEPT ![s] = disk[s].log]
  /\ commitIndex' = [commitIndex EXCEPT ![s] = disk[s].commitIndex]
  /\ UNCHANGED <<disk, messageVars, historyVars>>

\* A lone voter persists the candidacy, the no-op and the commit of startElection
\* one after the other; the process dies after the first or the second.
crashInElection(s) ==
  LET term == currentTerm[s] + 1
  IN  /\ s \in Crashing
      /\ role[s] # "Leader"
      /\ term \in Candidacy[s]
      /\ hasQuorum(1, Cardinality(Server))
      /\ Rebooted(s)
      /\ currentTerm' = [currentTerm EXCEPT ![s] = term]
      /\ votedFor' = [votedFor EXCEPT ![s] = s]
      /\ \/ UNCHANGED log
         \/ log' = [log EXCEPT ![s] = Append(@, [term |-> term, cmd |-> NoOp])]
      /\ granted' = granted \cup {<<s, term, s>>}
      /\ UNCHANGED <<commitIndex, messageVars, leaders>>
      /\ Persist(s)

\* A lone voter dies in propose, with the entry persisted and not its commit.
crashInPropose(s, cmd) ==
  /\ s \in Crashing
  /\ role[s] = "Leader"
  /\ lastIndex(log[s]) < MaxLog
  /\ hasQuorum(1, Cardinality(Server))
  /\ Rebooted(s)
  /\ log' = [log EXCEPT ![s] = Append(@, [term |-> currentTerm[s], cmd |-> cmd])]
  /\ UNCHANGED <<currentTerm, votedFor, commitIndex, messageVars, historyVars>>
  /\ Persist(s)

Drop(kind) == \E m \in kind : kind' = kind \ {m}

\* The transport drops a message: a full queue or a closed connection.
lose ==
  /\ \/ /\ Drop(requestVotes)
        /\ UNCHANGED <<voteResponses, appendRequests, appendResponses>>
     \/ /\ Drop(voteResponses)
        /\ UNCHANGED <<requestVotes, appendRequests, appendResponses>>
     \/ /\ Drop(appendRequests)
        /\ UNCHANGED <<requestVotes, voteResponses, appendResponses>>
     \/ /\ Drop(appendResponses)
        /\ UNCHANGED <<requestVotes, voteResponses, appendRequests>>
  /\ UNCHANGED <<electionVars, logVars, progressVars, disk, historyVars>>

\* Bound: the number of messages in flight.
InFlightBound ==
  Cardinality(requestVotes) + Cardinality(voteResponses)
    + Cardinality(appendRequests) + Cardinality(appendResponses) <= MaxInFlight

Next ==
  \/ lose
  \/ /\ \E s \in Server :
          \/ startElection(s)
          \/ heartbeat(s)
          \/ \E m \in requestVotes : handleRequestVote(s, m)
          \/ \E m \in voteResponses : handleRequestVoteResponse(s, m)
          \/ \E m \in appendRequests : handleAppendEntries(s, m)
          \/ \E m \in appendResponses : handleAppendEntriesResponse(s, m)
          \/ \E cmd \in Command : propose(s, cmd)
          \/ restart(s)
          \/ crashInElection(s)
          \/ \E cmd \in Command : crashInPropose(s, cmd)
     /\ InFlightBound'

Spec == Init /\ [][Next]_vars

-----------------------------------------------------------------------------
(* Delivery without duplication *)

\* s receives a message of p, which is then no longer in flight.
Received(s, p) ==
  \/ \E m \in requestVotes :
       m.src = p /\ handleRequestVote(s, m) /\ requestVotes' = requestVotes \ {m}
  \/ \E m \in voteResponses :
       m.src = p /\ handleRequestVoteResponse(s, m) /\ voteResponses' = voteResponses \ {m}
  \/ \E m \in appendRequests :
       m.src = p /\ handleAppendEntries(s, m) /\ appendRequests' = appendRequests \ {m}
  \/ \E m \in appendResponses :
       /\ m.src = p
       /\ handleAppendEntriesResponse(s, m)
       /\ appendResponses' = appendResponses \ {m}

\* A step without duplication, which only the transport's fault injection does.
DeliveredOnce ==
  \/ lose
  \/ \E s \in Server :
       \/ startElection(s) \/ heartbeat(s) \/ restart(s)
       \/ \E p \in peers(s) : Received(s, p)
       \/ \E cmd \in Command : propose(s, cmd)

-----------------------------------------------------------------------------
(* Properties *)

\* A step, a restart included, never lowers a term, takes back a vote within a
\* term, lowers a commit index or changes an entry below it.
NothingDurableIsLost ==
  [][\A s \in Server :
       /\ currentTerm'[s] >= currentTerm[s]
       /\ currentTerm'[s] = currentTerm[s] =>
            votedFor[s] \in {None, votedFor'[s]}
       /\ commitIndex'[s] >= commitIndex[s]
       /\ SubSeq(log'[s], 1, commitIndex[s]) =
            SubSeq(log[s], 1, commitIndex[s])]_vars

=============================================================================
