---------------------------- MODULE RaftSnapshot ----------------------------
(***************************************************************************)
(* Snapshots and log compaction: RaftKVService publishes the state of the   *)
(* machine and drops the log below it, a leader sends its snapshot file in  *)
(* chunks to a peer whose next entry is gone, the peer puts the file and    *)
(* the boundary in the place of its own, and a restarted node rebuilds its  *)
(* state from the file and the journal.                                     *)
(*                                                                         *)
(* An entry is its index and term.  log[n] is the whole history of n, of    *)
(* which RaftLog holds the part from first[n] on; a snapshot is the history *)
(* it stands for, so <<>> is a missing file and the boundary of an image is *)
(* its last entry.  Every change of log, term and commit index is saved to  *)
(* the journal within the step that makes it (module RaftJournal is about   *)
(* the saves); what can fall between the two files is modelled here.        *)
(*                                                                         *)
(* Elections, and AppendEntries with its answer, are one step each; both    *)
(* wait for the chunks sent before them.  Chunks and their answers travel   *)
(* in order on a connection that may break and loses what it holds.         *)
(***************************************************************************)
EXTENDS Integers, Sequences, FiniteSets, SequencesExt, FiniteSetsExt

CONSTANTS
  Node,         \* the voters
  Scenarios     \* the settings of the system and the bounds of its behaviours

\* A scenario has settings of the code
\*   threshold    snapshot_entry_threshold
\*   chunks       the size of a snapshot file in chunks
\* and bounds:
\*   leads        leads[n] is the set of terms n may become leader of
\*   log          entries a leader proposes up to
\*   link         chunks and answers under way when a heartbeat sends another
\*   breaks       connections that break
\*   crashes      processes that die
\*   crashing     nodes that may die
\*   points       where: "idle", "published" or "renamed"
\*   lagging      nodes a leader may compact the log ahead of
\*   eager        whether a heartbeat may fall into a running transfer
\*   fair         whether the run's liveness property is about it
ASSUME SnapshotAssumption ==
  /\ IsFiniteSet(Node)
  /\ \A s \in Scenarios :
       /\ s.threshold \in Nat \ {0} /\ s.chunks \in Nat \ {0}
       /\ DOMAIN s.leads = Node
       /\ s.crashing \subseteq Node /\ s.lagging \subseteq Node
       /\ s.points \subseteq {"idle", "published", "renamed"}
       /\ s.eager \in BOOLEAN /\ s.fair \in BOOLEAN

VARIABLES
  status,      \* "running", "stopped" (a fatal error), or "refused" (cannot start)
  role, currentTerm, log, commitIndex,
  first,       \* log_.firstIndex(): the boundary of the retained log
  configured,  \* configuration_applied_index_: looked through for configurations so far
  applied,     \* the history the state machine has executed
  file,        \* the published snapshot file; Len(file) is last_snapshot_index_
  receiver,    \* snapshot_receiver_: the image named and the chunks received
  nextIndex, matchIndex,
  sends,       \* snapshot_sends_ of a leader: the boundary and the offset per peer
  chunks,      \* chunks[l][m]: InstallSnapshot requests on their way from l to m
  answers,     \* answers[l][m]: the answers on their way from m to l
  breaks, crashes,
  scenario     \* the one of this behaviour; never changes

raftVars == <<role, currentTerm, log, commitIndex, first, configured, nextIndex, matchIndex>>
serviceVars == <<applied, file, receiver, sends>>
linkVars == <<chunks, answers>>
boundVars == <<breaks, crashes, scenario>>
vars == <<status, raftVars, serviceVars, linkVars, boundVars>>

NoReceiver == [image |-> <<>>, size |-> 0]
NoSend == [boundary |-> 0, term |-> 0, offset |-> 0]

Majority(S) == 2 * Cardinality(S) > Cardinality(Node)
lastTerm(lg) == IF lg = <<>> THEN 0 ELSE Last(lg).term

\* RaftLog::termAt on the retained part; 0 stands for std::nullopt, as value_or does.
termAt(n, i) ==
  IF i = 0 \/ i < first[n] \/ i > Len(log[n]) THEN 0 ELSE log[n][i].term

\* RaftLog::append.
Grown(lg, term) == Append(lg, [index |-> Len(lg) + 1, term |-> term])

\* There is an entry or a boundary at i: offsetOf.
Retained(n, i) == first[n] <= i /\ i <= Len(log[n])

\* LeaderElection::isCandidateLogUpToDate.
UpToDate(mine, yours) ==
  \/ lastTerm(mine) > lastTerm(yours)
  \/ lastTerm(mine) = lastTerm(yours) /\ Len(mine) >= Len(yours)

Init ==
  /\ status = [n \in Node |-> "running"]
  /\ role = [n \in Node |-> "follower"]
  /\ currentTerm = [n \in Node |-> 0]
  /\ log = [n \in Node |-> <<>>]
  /\ commitIndex = [n \in Node |-> 0]
  /\ first = [n \in Node |-> 0]
  /\ configured = [n \in Node |-> 0]
  /\ applied = [n \in Node |-> <<>>]
  /\ file = [n \in Node |-> <<>>]
  /\ receiver = [n \in Node |-> NoReceiver]
  /\ nextIndex = [n \in Node |-> [m \in Node |-> 0]]
  /\ matchIndex = [n \in Node |-> [m \in Node |-> 0]]
  /\ sends = [n \in Node |-> [m \in Node |-> NoSend]]
  /\ chunks = [n \in Node |-> [m \in Node |-> <<>>]]
  /\ answers = [n \in Node |-> [m \in Node |-> <<>>]]
  /\ breaks = 0 /\ crashes = 0
  /\ scenario \in Scenarios

Quiet(l, m) == chunks[l][m] = <<>> /\ answers[l][m] = <<>>

-----------------------------------------------------------------------------
(* The Raft node. *)

\* A node that follows forgets next_index_ and match_index_.
Forgotten(f, Q, n, v) ==
  [m \in Node |-> IF m = n THEN v ELSE IF m \in Q THEN [p \in Node |-> 0] ELSE f[m]]

\* n is elected by the nodes of Q, appends its no-op and starts with nothing
\* matched: startElection, the voters' handleRequestVote, becomeLeader.
elect(n, term, Q) ==
  /\ status[n] = "running" /\ role[n] # "leader"
  /\ term \in scenario.leads[n]
  /\ n \in Q /\ Majority(Q)
  /\ \A m \in Q : /\ status[m] = "running" /\ currentTerm[m] < term
                  /\ UpToDate(log[n], log[m])
  /\ role' = [m \in Node |-> IF m = n THEN "leader"
                             ELSE IF m \in Q THEN "follower" ELSE role[m]]
  /\ currentTerm' = [m \in Node |-> IF m \in Q THEN term ELSE currentTerm[m]]
  /\ log' = [log EXCEPT ![n] = Grown(@, term)]
  /\ nextIndex' = Forgotten(nextIndex, Q, n, [m \in Node |-> Len(log[n]) + 1])
  /\ matchIndex' = Forgotten(matchIndex, Q, n, [m \in Node |-> 0])
  /\ UNCHANGED <<status, commitIndex, first, configured, serviceVars, linkVars, boundVars>>

propose(n) ==
  /\ status[n] = "running" /\ role[n] = "leader" /\ Len(log[n]) < scenario.log
  /\ log' = [log EXCEPT ![n] = Grown(@, currentTerm[n])]
  /\ UNCHANGED <<status, role, currentTerm, commitIndex, first, configured, nextIndex, matchIndex,
                 serviceVars, linkVars, boundVars>>

\* RaftNode::peerNeedsSnapshot, at a leader.
peerNeedsSnapshot(l, m) ==
  \/ nextIndex[l][m] <= first[l]
  \/ first[l] > 0 /\ matchIndex[l][m] < first[l]

\* The published file is the image of the boundary of the log: the test of
\* makeInstallSnapshotRpc, without which AppendEntries goes out after all.
FileIsBoundary(l) ==
  /\ first[l] > 0 /\ Len(file[l]) = first[l]
  /\ lastTerm(file[l]) = termAt(l, first[l])

\* advanceCommitIndex: the highest entry of the current term that a majority holds.
Committed(l, match) ==
  Max({commitIndex[l]} \cup
      {i \in (commitIndex[l] + 1)..Len(log[l]) :
         /\ termAt(l, i) = currentTerm[l]
         /\ Majority({l} \cup {m \in Node : match[m] >= i})})

\* Mutant of nextIndexAfterConflict: without the floor above the boundary.
nextIndexAfterConflictUnbounded(l, index, term) ==
  LET own == {i \in first[l]..Len(log[l]) : i > 0 /\ log[l][i].term = term}
      candidate == IF term > 0 /\ own # {} THEN Max(own) + 1 ELSE index
  IN Min({Max({1, candidate}), Len(log[l]) + 1})

\* LogReplication::nextIndexAfterConflict: never at or below the boundary.
nextIndexAfterConflict(l, index, term) ==
  LET own == {i \in first[l]..Len(log[l]) : i > 0 /\ log[l][i].term = term}
      candidate == IF term > 0 /\ own # {} THEN Max(own) + 1 ELSE index
  IN Min({Max({first[l] + 1, candidate}), Len(log[l]) + 1})

\* What m answers when it does not hold the entry before the batch, and the
\* leader's next index after that answer.
ConflictNext(l, m, prev) ==
  LET theirs == termAt(m, prev)
      ofTerm == {i \in first[m]..Len(log[m]) : i > 0 /\ log[m][i].term = theirs}
      index == CASE prev > Len(log[m]) -> Len(log[m]) + 1
                 [] prev < first[m] -> first[m] + 1
                 [] OTHER -> IF ofTerm = {} THEN first[m] + 1 ELSE Min(ofTerm)
  IN nextIndexAfterConflict(l, index, IF prev > Len(log[m]) THEN 0 ELSE theirs)

\* RaftLog::appendFrom with the batch after prev.
Appended(lg, prev, batch) ==
  IF IsPrefix(batch, SubSeq(lg, prev + 1, Len(lg))) THEN lg
  ELSE SubSeq(lg, 1, prev) \o batch

\* applyCommittedConfiguration, when the commit index of n has moved: up to it, or to
\* the first entry that is no longer in the log.
Configured(n, commit) ==
  IF commit # commitIndex[n] /\ configured[n] + 1 >= first[n] THEN commit ELSE configured[n]

\* applyCommitted: the machine follows the commit index through the local log.
Applied(lg, upTo) == SubSeq(lg, 1, upTo)

\* A heartbeat of leader l to a peer m it has the entries for: makeAppendEntries,
\* handleAppendEntries at m, handleAppendEntriesResponse at l, and applyCommitted
\* at both.
replicate(l, m) ==
  LET prev == nextIndex[l][m] - 1
      batch == IF Retained(l, prev + 1) THEN SubSeq(log[l], prev + 1, Len(log[l])) ELSE <<>>
      matches == Retained(m, prev) /\ termAt(m, prev) = termAt(l, prev)
      new == IF matches THEN Appended(log[m], prev, batch) ELSE log[m]
      commit == IF matches THEN Max({commitIndex[m], Min({commitIndex[l], Len(new)})})
                           ELSE commitIndex[m]
      reached == prev + Len(batch)
      match == IF matches THEN [matchIndex[l] EXCEPT ![m] = Max({@, reached})]
                          ELSE matchIndex[l]
      next == IF matches THEN Max({nextIndex[l][m], reached + 1})
              ELSE IF matchIndex[l][m] > prev THEN nextIndex[l][m]
              ELSE ConflictNext(l, m, prev)
      leaderCommit == IF matches THEN Committed(l, match) ELSE commitIndex[l]
  IN /\ l # m /\ status[l] = "running" /\ status[m] = "running"
     /\ role[l] = "leader" /\ currentTerm[m] <= currentTerm[l]
     /\ Quiet(l, m)
     /\ ~(peerNeedsSnapshot(l, m) /\ FileIsBoundary(l))
     /\ currentTerm' = [currentTerm EXCEPT ![m] = currentTerm[l]]
     /\ role' = [role EXCEPT ![m] = "follower"]
     /\ log' = [log EXCEPT ![m] = new]
     /\ nextIndex' = [nextIndex EXCEPT ![l][m] = next, ![m] = [p \in Node |-> 0]]
     /\ matchIndex' = [matchIndex EXCEPT ![l] = match, ![m] = [p \in Node |-> 0]]
     /\ commitIndex' = [commitIndex EXCEPT ![m] = commit, ![l] = leaderCommit]
     /\ configured' = [configured EXCEPT ![m] = Configured(m, commit),
                                         ![l] = Configured(l, leaderCommit)]
     /\ applied' = [applied EXCEPT ![m] = Applied(new, commit),
                                   ![l] = Applied(log[l], leaderCommit)]
     /\ UNCHANGED <<status, first, file, receiver, sends, linkVars, boundVars>>

\* l learns of a later term: becomeFollower.
stepDown(l, m) ==
  /\ status[l] = "running" /\ role[l] = "leader" /\ currentTerm[m] > currentTerm[l]
  /\ currentTerm' = [currentTerm EXCEPT ![l] = currentTerm[m]]
  /\ role' = [role EXCEPT ![l] = "follower"]
  /\ nextIndex' = [nextIndex EXCEPT ![l] = [p \in Node |-> 0]]
  /\ matchIndex' = [matchIndex EXCEPT ![l] = [p \in Node |-> 0]]
  /\ UNCHANGED <<status, log, commitIndex, first, configured, serviceVars, linkVars, boundVars>>

-----------------------------------------------------------------------------
(* Publishing and starting. *)

DuePublication(n) ==
  /\ status[n] = "running"
  /\ Len(applied[n]) - Len(file[n]) >= scenario.threshold
  /\ role[n] = "leader" =>
       \A m \in Node \ (scenario.lagging \cup {n}) : matchIndex[n][m] >= Len(applied[n])

\* tryPublishSnapshot: the image is saved, then compactLogPrefix makes it the
\* boundary of the log and saves that.
tryPublishSnapshot(n) ==
  /\ DuePublication(n)
  /\ file' = [file EXCEPT ![n] = applied[n]]
  /\ first' = [first EXCEPT ![n] = Len(applied[n])]
  /\ UNCHANGED <<status, configured, role, currentTerm, log, commitIndex, nextIndex, matchIndex,
                 applied, receiver, sends, linkVars, boundVars>>

\* What the constructor of RaftKVService accepts: a snapshot not beyond the durable
\* commit index, whose boundary is in the durable log; without a snapshot, the
\* whole log.
Startable(n, image) ==
  /\ Len(image) <= commitIndex[n]
  /\ Retained(n, Len(image))
  /\ termAt(n, Len(image)) = lastTerm(image)

\* Mutant of Restarted: the replay starts at the boundary of the log.
RestartedFromBoundary(n, image) ==
  /\ file' = [file EXCEPT ![n] = image]
  /\ status' = [status EXCEPT ![n] = IF Startable(n, image) THEN "running" ELSE "refused"]
  /\ applied' = [applied EXCEPT ![n] =
       IF Startable(n, image) THEN image \o SubSeq(log[n], first[n] + 1, commitIndex[n])
       ELSE @]
  /\ configured' = [configured EXCEPT ![n] = commitIndex[n]]
  /\ role' = [role EXCEPT ![n] = "follower"]
  /\ nextIndex' = [nextIndex EXCEPT ![n] = [p \in Node |-> 0]]
  /\ matchIndex' = [matchIndex EXCEPT ![n] = [p \in Node |-> 0]]
  /\ sends' = [sends EXCEPT ![n] = [p \in Node |-> NoSend]]
  /\ receiver' = [receiver EXCEPT ![n] = NoReceiver]
  /\ chunks' = [l \in Node |-> [chunks[l] EXCEPT ![n] = <<>>]]
  /\ answers' = [answers EXCEPT ![n] = [m \in Node |-> <<>>]]
  /\ crashes' = crashes + 1
  /\ UNCHANGED <<currentTerm, log, commitIndex, first, breaks, scenario>>

\* The process of n dies with this snapshot file on disk and starts again: the
\* sockets it read from are gone, what it sent may still arrive.
Restarted(n, image) ==
  /\ file' = [file EXCEPT ![n] = image]
  /\ status' = [status EXCEPT ![n] = IF Startable(n, image) THEN "running" ELSE "refused"]
  /\ applied' = [applied EXCEPT ![n] =
       IF Startable(n, image) THEN image \o SubSeq(log[n], Len(image) + 1, commitIndex[n])
       ELSE @]
  /\ configured' = [configured EXCEPT ![n] = commitIndex[n]]
  /\ role' = [role EXCEPT ![n] = "follower"]
  /\ nextIndex' = [nextIndex EXCEPT ![n] = [p \in Node |-> 0]]
  /\ matchIndex' = [matchIndex EXCEPT ![n] = [p \in Node |-> 0]]
  /\ sends' = [sends EXCEPT ![n] = [p \in Node |-> NoSend]]
  /\ receiver' = [receiver EXCEPT ![n] = NoReceiver]
  /\ chunks' = [l \in Node |-> [chunks[l] EXCEPT ![n] = <<>>]]
  /\ answers' = [answers EXCEPT ![n] = [m \in Node |-> <<>>]]
  /\ crashes' = crashes + 1
  /\ UNCHANGED <<currentTerm, log, commitIndex, first, breaks, scenario>>

MayCrash(n, point) ==
  n \in scenario.crashing /\ crashes < scenario.crashes /\ point \in scenario.points

\* Between two requests, or after a fatal error.
restart(n) ==
  /\ MayCrash(n, "idle") /\ status[n] \in {"running", "stopped"}
  /\ Restarted(n, file[n])

\* After the save of tryPublishSnapshot and before the compaction.
crashInPublication(n) ==
  /\ MayCrash(n, "published") /\ DuePublication(n)
  /\ Restarted(n, applied[n])

-----------------------------------------------------------------------------
(* InstallSnapshot. *)

\* makeInstallSnapshotRpc: the chunk at the offset of the transfer, which starts
\* over when the boundary has moved since.
Resumed(l, m) ==
  IF sends[l][m].boundary = first[l] /\ sends[l][m].term = termAt(l, first[l])
  THEN sends[l][m]
  ELSE [boundary |-> first[l], term |-> termAt(l, first[l]), offset |-> 0]

Chunk(l, offset) ==
  [term |-> currentTerm[l], image |-> file[l], offset |-> offset,
   done |-> offset + 1 = scenario.chunks]

SendChunk(l, m, send) ==
  /\ sends' = [sends EXCEPT ![l][m] = [send EXCEPT !.offset = @ + 1]]
  /\ chunks' = [chunks EXCEPT ![l][m] = Append(@, Chunk(l, send.offset))]

\* Mutant of heartbeatSnapshot: a heartbeat goes on where the transfer is.
heartbeatSnapshotResuming(l, m) ==
  /\ l # m /\ status[l] = "running" /\ role[l] = "leader"
  /\ peerNeedsSnapshot(l, m) /\ FileIsBoundary(l)
  /\ scenario.eager \/ Quiet(l, m)
  /\ Len(chunks[l][m]) + Len(answers[l][m]) < scenario.link
  /\ SendChunk(l, m, Resumed(l, m))
  /\ UNCHANGED <<status, raftVars, applied, file, receiver, answers, boundVars>>

\* A heartbeat of l to a peer that needs the snapshot: completeReplication puts
\* the first chunk in the place of AppendEntries, whatever is under way.
heartbeatSnapshot(l, m) ==
  /\ l # m /\ status[l] = "running" /\ role[l] = "leader"
  /\ peerNeedsSnapshot(l, m) /\ FileIsBoundary(l)
  /\ scenario.eager \/ Quiet(l, m)
  /\ Len(chunks[l][m]) + Len(answers[l][m]) < scenario.link
  /\ SendChunk(l, m, [Resumed(l, m) EXCEPT !.offset = 0])
  /\ UNCHANGED <<status, raftVars, applied, file, receiver, answers, boundVars>>

\* acknowledgeLeader: m follows the sender in its term.
Acknowledged(l, m, term) ==
  /\ currentTerm' = [currentTerm EXCEPT ![m] = term]
  /\ role' = [role EXCEPT ![m] = "follower"]
  /\ nextIndex' = [nextIndex EXCEPT ![m] = [p \in Node |-> 0]]
  /\ matchIndex' = [matchIndex EXCEPT ![m] = [p \in Node |-> 0]]

\* The next chunk from l is taken by m, which answers.
Answer(l, m, term, success) ==
  /\ chunks' = [chunks EXCEPT ![l][m] = Tail(@)]
  /\ answers' = [answers EXCEPT ![l][m] = Append(@, [term |-> term, success |-> success])]

Arriving(l, m) == chunks[l][m] # <<>> /\ status[m] = "running"

\* An outdated leader is told the term.
refuseChunk(l, m) ==
  /\ Arriving(l, m) /\ Head(chunks[l][m]).term < currentTerm[m]
  /\ Answer(l, m, currentTerm[m], FALSE)
  /\ UNCHANGED <<status, raftVars, serviceVars, boundVars>>

\* The log of m starts beyond the image, and the machine is at least as far.
Superseded(m, c) == Len(c.image) < first[m] /\ Len(applied[m]) >= Len(c.image)

\* The file receiver takes the chunk: the first one at any time, another one only
\* where the file so far ends.
Fits(m, c) ==
  c.offset = 0 \/ receiver[m] = [image |-> c.image, size |-> c.offset]

skipChunk(l, m) ==
  LET c == Head(chunks[l][m])
  IN /\ Arriving(l, m) /\ c.term >= currentTerm[m]
     /\ Superseded(m, c)
     /\ Acknowledged(l, m, c.term)
     /\ Answer(l, m, c.term, TRUE)
     /\ UNCHANGED <<status, log, commitIndex, first, configured, serviceVars, boundVars>>

storeChunk(l, m) ==
  LET c == Head(chunks[l][m])
  IN /\ Arriving(l, m) /\ c.term >= currentTerm[m]
     /\ ~Superseded(m, c) /\ Fits(m, c) /\ ~c.done
     /\ receiver' = [receiver EXCEPT ![m] = [image |-> c.image, size |-> c.offset + 1]]
     /\ Acknowledged(l, m, c.term)
     /\ Answer(l, m, c.term, TRUE)
     /\ UNCHANGED <<status, log, commitIndex, first, configured, applied, file, sends, boundVars>>

\* The journal takes no commit index beyond the last entry, so the boundary
\* cannot replace the log of a node that has committed more.
Replaceable(m, image) == commitIndex[m] <= Len(image)

\* Mutant of installSnapshot: the commit index stays behind the boundary.
installSnapshotKeepCommit(l, m) ==
  LET c == Head(chunks[l][m])
  IN /\ Arriving(l, m) /\ c.term >= currentTerm[m]
     /\ ~Superseded(m, c) /\ Fits(m, c) /\ c.done
     /\ Replaceable(m, c.image)
     /\ file' = [file EXCEPT ![m] = c.image]
     /\ applied' = [applied EXCEPT ![m] = c.image]
     /\ log' = [log EXCEPT ![m] = c.image]
     /\ first' = [first EXCEPT ![m] = Len(c.image)]
     /\ receiver' = [receiver EXCEPT ![m] = NoReceiver]
     /\ Acknowledged(l, m, c.term)
     /\ Answer(l, m, c.term, TRUE)
     /\ UNCHANGED <<status, configured, commitIndex, sends, boundVars>>

\* The last chunk: finishAndLoad renames the received file, the machine is
\* restored from it, and the boundary replaces the whole log.
installSnapshot(l, m) ==
  LET c == Head(chunks[l][m])
  IN /\ Arriving(l, m) /\ c.term >= currentTerm[m]
     /\ ~Superseded(m, c) /\ Fits(m, c) /\ c.done
     /\ Replaceable(m, c.image)
     /\ file' = [file EXCEPT ![m] = c.image]
     /\ applied' = [applied EXCEPT ![m] = c.image]
     /\ log' = [log EXCEPT ![m] = c.image]
     /\ first' = [first EXCEPT ![m] = Len(c.image)]
     /\ commitIndex' = [commitIndex EXCEPT ![m] = Len(c.image)]
     /\ receiver' = [receiver EXCEPT ![m] = NoReceiver]
     /\ Acknowledged(l, m, c.term)
     /\ Answer(l, m, c.term, TRUE)
     /\ UNCHANGED <<status, configured, sends, boundVars>>

\* A chunk that does not fit, or a boundary the journal refuses, is an error that
\* ends the node; of the latter the received file remains.
failOnChunk(l, m) ==
  LET c == Head(chunks[l][m])
      misplaced == ~Fits(m, c)
  IN /\ Arriving(l, m) /\ c.term >= currentTerm[m]
     /\ ~Superseded(m, c)
     /\ misplaced \/ (c.done /\ ~Replaceable(m, c.image))
     /\ status' = [status EXCEPT ![m] = "stopped"]
     /\ file' = [file EXCEPT ![m] = IF misplaced THEN @ ELSE c.image]
     /\ Acknowledged(l, m, c.term)
     /\ \/ misplaced /\ Answer(l, m, c.term, FALSE)
        \/ chunks' = [chunks EXCEPT ![l][m] = Tail(@)] /\ UNCHANGED answers
     /\ UNCHANGED <<log, commitIndex, first, configured, applied, receiver, sends, boundVars>>

\* The process dies between the rename and the save of the replaced log.
crashInInstallation(l, m) ==
  LET c == Head(chunks[l][m])
  IN /\ Arriving(l, m) /\ c.term = currentTerm[m]
     /\ ~Superseded(m, c) /\ Fits(m, c) /\ c.done
     /\ MayCrash(m, "renamed")
     /\ Restarted(m, c.image)

\* handleInstallSnapshotResponse.  The answer says nothing of the chunk it is for.
Answered(l, m) ==
  /\ answers[l][m] # <<>> /\ status[l] = "running"
  /\ answers' = [answers EXCEPT ![l][m] = Tail(@)]

Current(l, m) ==
  /\ role[l] = "leader" /\ Head(answers[l][m]).term = currentTerm[l]
  /\ sends[l][m] # NoSend

dropAnswer(l, m) ==
  /\ Answered(l, m) /\ ~Current(l, m)
  /\ IF Head(answers[l][m]).term > currentTerm[l]
     THEN Acknowledged(m, l, Head(answers[l][m]).term)
     ELSE UNCHANGED <<currentTerm, role, nextIndex, matchIndex>>
  /\ UNCHANGED <<status, log, commitIndex, first, configured, serviceVars, chunks, boundVars>>

\* More to send, or to send again: makeInstallSnapshotRpc, which may find that
\* nothing needs to be sent.
continueTransfer(l, m) ==
  LET success == Head(answers[l][m]).success
      resumed == IF success THEN Resumed(l, m) ELSE [Resumed(l, m) EXCEPT !.offset = 0]
  IN /\ Answered(l, m) /\ Current(l, m)
     /\ success => sends[l][m].offset < scenario.chunks
     /\ IF peerNeedsSnapshot(l, m) /\ FileIsBoundary(l)
        THEN SendChunk(l, m, resumed)
        ELSE /\ sends' = IF success THEN sends ELSE [sends EXCEPT ![l][m].offset = 0]
             /\ UNCHANGED chunks
     /\ UNCHANGED <<status, raftVars, applied, file, receiver, boundVars>>

\* Mutant of completeTransfer: one chunk is taken for sent.
completeTransferEarly(l, m) ==
  LET installed == sends[l][m].boundary
      match == [matchIndex[l] EXCEPT ![m] = Max({@, installed})]
      commit == Committed(l, match)
  IN /\ Answered(l, m) /\ Current(l, m)
     /\ Head(answers[l][m]).success /\ sends[l][m].offset >= scenario.chunks - 1
     /\ sends' = [sends EXCEPT ![l][m] = NoSend]
     /\ matchIndex' = [matchIndex EXCEPT ![l] = match]
     /\ nextIndex' = [nextIndex EXCEPT ![l][m] = Max({@, installed + 1})]
     /\ commitIndex' = [commitIndex EXCEPT ![l] = commit]
     /\ configured' = [configured EXCEPT ![l] = Configured(l, commit)]
     /\ applied' = [applied EXCEPT ![l] = Applied(log[l], commit)]
     /\ UNCHANGED <<status, role, currentTerm, log, first, file, receiver, chunks, boundVars>>

\* Mutant of completeTransfer: the next index stays below the boundary.
completeTransferKeepNext(l, m) ==
  LET installed == sends[l][m].boundary
      match == [matchIndex[l] EXCEPT ![m] = Max({@, installed})]
      commit == Committed(l, match)
  IN /\ Answered(l, m) /\ Current(l, m)
     /\ Head(answers[l][m]).success /\ sends[l][m].offset >= scenario.chunks
     /\ sends' = [sends EXCEPT ![l][m] = NoSend]
     /\ matchIndex' = [matchIndex EXCEPT ![l] = match]
     /\ commitIndex' = [commitIndex EXCEPT ![l] = commit]
     /\ configured' = [configured EXCEPT ![l] = Configured(l, commit)]
     /\ applied' = [applied EXCEPT ![l] = Applied(log[l], commit)]
     /\ UNCHANGED <<status, nextIndex, role, currentTerm, log, first, file, receiver, chunks, boundVars>>

\* onInstallSnapshotSuccess for the boundary of the transfer.
completeTransfer(l, m) ==
  LET installed == sends[l][m].boundary
      match == [matchIndex[l] EXCEPT ![m] = Max({@, installed})]
      commit == Committed(l, match)
  IN /\ Answered(l, m) /\ Current(l, m)
     /\ Head(answers[l][m]).success /\ sends[l][m].offset >= scenario.chunks
     /\ sends' = [sends EXCEPT ![l][m] = NoSend]
     /\ matchIndex' = [matchIndex EXCEPT ![l] = match]
     /\ nextIndex' = [nextIndex EXCEPT ![l][m] = Max({@, installed + 1})]
     /\ commitIndex' = [commitIndex EXCEPT ![l] = commit]
     /\ configured' = [configured EXCEPT ![l] = Configured(l, commit)]
     /\ applied' = [applied EXCEPT ![l] = Applied(log[l], commit)]
     /\ UNCHANGED <<status, role, currentTerm, log, first, file, receiver, chunks, boundVars>>

\* A connection breaks: chunks and answers have one each.
breakConnection(l, m) ==
  /\ breaks < scenario.breaks
  /\ \/ /\ chunks[l][m] # <<>>
        /\ chunks' = [chunks EXCEPT ![l][m] = <<>>] /\ UNCHANGED answers
     \/ /\ answers[l][m] # <<>>
        /\ answers' = [answers EXCEPT ![l][m] = <<>>] /\ UNCHANGED chunks
  /\ breaks' = breaks + 1
  /\ UNCHANGED <<status, raftVars, serviceVars, crashes, scenario>>

receiveChunk(l, m) ==
  \/ refuseChunk(l, m) \/ skipChunk(l, m) \/ storeChunk(l, m)
  \/ installSnapshot(l, m) \/ failOnChunk(l, m)

receiveAnswer(l, m) ==
  dropAnswer(l, m) \/ continueTransfer(l, m) \/ completeTransfer(l, m)

heartbeat(l, m) == replicate(l, m) \/ heartbeatSnapshot(l, m)

Next ==
  \/ \E n \in Node : propose(n) \/ tryPublishSnapshot(n)
  \/ \E n \in Node : restart(n) \/ crashInPublication(n)
  \/ \E n \in Node, term \in UNION {scenario.leads[m] : m \in Node}, Q \in SUBSET Node :
       elect(n, term, Q)
  \/ \E l, m \in Node : heartbeat(l, m) \/ receiveChunk(l, m) \/ receiveAnswer(l, m)
  \/ \E l, m \in Node : stepDown(l, m) \/ crashInInstallation(l, m) \/ breakConnection(l, m)

Spec == Init /\ [][Next]_vars

\* The leader beats, messages arrive, and a due snapshot is published.
Fairness ==
  /\ \A n \in Node : WF_vars(scenario.fair /\ tryPublishSnapshot(n))
  /\ \A l, m \in Node :
       /\ WF_vars(scenario.fair /\ heartbeat(l, m))
       /\ WF_vars(scenario.fair /\ receiveChunk(l, m))
       /\ WF_vars(scenario.fair /\ receiveAnswer(l, m))

LiveSpec == Spec /\ Fairness

-----------------------------------------------------------------------------
(* Properties. *)

\* No two state machines part: whatever mix of snapshots and entries brought them
\* where they are, each has executed the entries of its node's history in order and
\* one has executed a prefix of what the other has.
StateMachinesAgree ==
  /\ \A n \in Node : IsPrefix(applied[n], log[n])
  /\ \A n, m \in Node : IsPrefix(applied[n], applied[m]) \/ IsPrefix(applied[m], applied[n])

\* Wherever else a process dies, its snapshot file and its journal fit together, so
\* that the constructor of RaftKVService accepts them; between the rename of a
\* received file and the save of the replaced log they do not.
EveryNodeCanStart ==
  "renamed" \notin scenario.points => \A n \in Node : Startable(n, file[n])

\* No chunk that the first leader sends over a connection that lasts ends the node
\* that receives it, however heartbeats fall into the transfer: handleInstallSnapshot
\* treats a chunk out of place as fatal.
NobodyStops ==
  (breaks = 0 /\ crashes = 0 /\ \A n \in Node : currentTerm[n] <= 1)
    => \A n \in Node : status[n] # "stopped"

\* What a leader counts as stored on a peer is stored there: its match index is
\* covered by the same entries in the peer's log.  An answer names no chunk, so this
\* is so only while no heartbeat falls into a running transfer.
ConfirmedIsHeld ==
  \A l, m \in Node :
    (~scenario.eager /\ role[l] = "leader" /\ l # m /\ currentTerm[m] <= currentTerm[l])
      => IsPrefix(SubSeq(log[l], 1, matchIndex[l][m]), log[m])

\* entries_[0] stands for the compacted entry with a blank command, and entriesFrom
\* hands it out like any other. No AppendEntries begins there: wherever the next
\* index is at or below the boundary the file is at hand and the snapshot goes out
\* instead, also when the node died between the file and the compaction.
BlankNeverSent ==
  \A l \in Node : \A m \in Node \ {l} :
    (status[l] = "running" /\ role[l] = "leader" /\ nextIndex[l][m] <= first[l])
      => FileIsBoundary(l)

\* The next entry a node looks at for a change of configuration is still in its log,
\* so that no committed change passes it by.
NextConfigurationInReach ==
  \A n \in Node : status[n] = "running" => configured[n] + 1 >= first[n]

\* A peer whose log ends before the boundary of the leader's log can be sent the
\* snapshot: the file the leader holds is the one of its boundary.
BehindGetsSnapshot ==
  \A l, m \in Node :
    (status[l] = "running" /\ role[l] = "leader" /\ Len(log[m]) < first[l])
      => FileIsBoundary(l)

\* A peer behind the boundary of the leader's log catches up in the end: from some
\* point on all running nodes have executed the same commands.
LaggardsCatchUp ==
  scenario.fair => <>[](\A n, m \in Node : applied[n] = applied[m])

=============================================================================
