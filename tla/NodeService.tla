----------------------------- MODULE NodeService -----------------------------
(***************************************************************************)
(* The Raft threads of a cluster of NodeService objects with the clients    *)
(* that use it: requests, their retries on other nodes, proposals and       *)
(* completions, read batches confirmed by a majority, snapshots and         *)
(* restarts.  The Raft thread of a node takes one stage of its loop per     *)
(* step.  A client thread is a sequence of calls on a TcpClient; every      *)
(* attempt of a call opens a connection of its own, and what it sent may be *)
(* processed long after the client has gone on.                             *)
(***************************************************************************)
EXTENDS StateMachine, AtomicRaft, SequencesExt, TLC

CONSTANTS
  Thread,       \* client threads
  ClientOf,     \* ClientOf[t] is the TcpClient, hence the client id, t uses
  Scenarios     \* the settings of the system and the bounds of its behaviours

\* A scenario has settings of the code
\*   threshold   snapshot_entry_threshold, 0 for none
\*   attempts    maximum_attempts of a TcpClient
\* what the clients do
\*   script      script[t] is the sequence of operations t calls
\*   endpoints   endpoints[t]: the nodes t's attempts go to
\* and bounds:
\*   leads       leads[n] is the set of terms n may become leader of
\*   up          the nodes that run
\*   restarting  the nodes that may restart
\*   survive     whether frames outlive the process they were exchanged with
\*   losing      the nodes whose answers to AppendEntries may get lost
\*   contexts    read batches a process starts
ASSUME ServiceAssumption ==
  /\ ClientOf \in [Thread -> Client]
  /\ \A s \in Scenarios :
       /\ s.threshold \in Nat /\ s.attempts \in Nat \ {0} /\ s.contexts \in Nat
       /\ DOMAIN s.script = Thread /\ s.endpoints \in [Thread -> SUBSET Node]
       /\ DOMAIN s.leads = Node
       /\ s.up \subseteq Node /\ s.restarting \subseteq s.up /\ s.losing \subseteq s.up
       /\ s.survive \in BOOLEAN

VARIABLES
  machine,         \* state_machine_ over the node's KVStore
  snapshotFile,    \* what the node's FileSnapshotStore holds
  pendingLocal,    \* pending_local_: indices of local proposals
  completedLocal,  \* completed_local_: their results, by index
  pendingWrites,   \* pending_writes_: connections by index
  deferredReads,   \* deferred_reads_
  pendingReads,    \* pending_reads_: read batches by context
  nextReadContext, \* next_read_context_
  probes, acks,    \* AppendEntries with a read context, and their answers
  requests,        \* requests accepted and not yet processed, with their node
  responses,       \* answers on their way to the clients
  thread,          \* what each client thread does
  nextRequestId,   \* next_request_id_ of each TcpClient
  acknowledged,    \* history: the highest index any client knows to be applied
  scenario         \* the one of this behaviour; never changes

serviceVars == <<machine, pendingLocal, completedLocal>>
readVars == <<deferredReads, pendingReads, nextReadContext>>
clientVars == <<thread, nextRequestId, acknowledged, scenario>>
vars == <<raftVars, serviceVars, snapshotFile, pendingWrites, readVars, probes,
          acks, requests, responses, clientVars>>

Idle == [state |-> "idle", done |-> 0, id |-> 0, attempt |-> 0, since |-> 0]

Init ==
  /\ RaftInit
  /\ machine = [n \in Node |-> EmptyMachine]
  /\ snapshotFile = [n \in Node |-> NoSnapshot]
  /\ pendingLocal = [n \in Node |-> {}]
  /\ completedLocal = [n \in Node |-> <<>>]
  /\ pendingWrites = [n \in Node |-> <<>>]
  /\ deferredReads = [n \in Node |-> {}]
  /\ pendingReads = [n \in Node |-> <<>>]
  /\ nextReadContext = [n \in Node |-> 1]
  /\ probes = {} /\ acks = {} /\ requests = {} /\ responses = {}
  /\ thread = [t \in Thread |-> Idle]
  /\ nextRequestId = [c \in Client |-> 1]
  /\ acknowledged = 0
  /\ scenario \in Scenarios

-----------------------------------------------------------------------------
(* TcpClient *)

Operation(t) == scenario.script[t][thread[t].done + 1]

\* The connection of thread t's current attempt.
Connection(t) == <<t, thread[t].id, thread[t].attempt>>

\* The history is kept only where a read could observe it.
Reads == \E t \in Thread : \E i \in DOMAIN scenario.script[t] : scenario.script[t][i].type = "get"

\* set, get, remove: a fresh request id, then the first attempt.
call(t) ==
  /\ thread[t].state = "idle" /\ thread[t].done < Len(scenario.script[t])
  /\ thread' = [thread EXCEPT ![t] =
       [@ EXCEPT !.state = "connecting", !.id = nextRequestId[ClientOf[t]],
                 !.attempt = 1,
                 !.since = IF Operation(t).type = "get" THEN acknowledged ELSE 0]]
  /\ nextRequestId' = [nextRequestId EXCEPT ![ClientOf[t]] = @ + 1]
  /\ UNCHANGED <<raftVars, serviceVars, snapshotFile, pendingWrites, readVars,
                 probes, acks, requests, responses, acknowledged, scenario>>

\* An attempt connects to n and sends the request.  The endpoint is the hint of
\* the last answer or the next of the list: any of them.
connect(t, n) ==
  /\ thread[t].state = "connecting"
  /\ thread' = [thread EXCEPT ![t].state = "waiting"]
  /\ requests' = requests \cup
       {[connection |-> Connection(t), node |-> n, id |-> thread[t].id,
         client |-> ClientOf[t], operation |-> Operation(t)]}
  /\ UNCHANGED <<raftVars, serviceVars, snapshotFile, pendingWrites, readVars,
                 probes, acks, responses, nextRequestId, acknowledged, scenario>>

Finished(t) ==
  [thread[t] EXCEPT !.state = "idle", !.done = @ + 1, !.id = 0, !.attempt = 0,
                    !.since = 0]

\* The loop of execute goes on with the next attempt, or gives up.
NextAttempt(t) ==
  IF thread[t].attempt < scenario.attempts
  THEN [thread[t] EXCEPT !.state = "connecting", !.attempt = @ + 1]
  ELSE Finished(t)

\* connectSocket, sendAll or receiveResponse fails, or the deadline passes.
attemptFails(t) ==
  /\ thread[t].state = "waiting"
  /\ thread' = [thread EXCEPT ![t] = NextAttempt(t)]
  /\ responses' = {r \in responses : r.connection # Connection(t)}
  /\ UNCHANGED <<raftVars, serviceVars, snapshotFile, pendingWrites, readVars,
                 probes, acks, requests, nextRequestId, acknowledged, scenario>>

\* receiveResponse returns an answer: NOT_LEADER is retried, all else is final.
receiveResponse(t, r) ==
  /\ thread[t].state = "waiting" /\ r \in responses
  /\ r.connection = Connection(t)
  /\ IF r.status = "notLeader"
     THEN /\ thread' = [thread EXCEPT ![t] = NextAttempt(t)]
          /\ UNCHANGED acknowledged
     ELSE /\ thread' = [thread EXCEPT ![t] = Finished(t)]
          /\ acknowledged' = IF Reads THEN Max({acknowledged, r.at}) ELSE 0
  /\ responses' = responses \ {r}
  /\ UNCHANGED <<raftVars, serviceVars, snapshotFile, pendingWrites, readVars,
                 probes, acks, requests, nextRequestId, scenario>>

-----------------------------------------------------------------------------
(* Answers.  `at` is a ghost: the log index the answer speaks for. *)

Answer(connection, status) ==
  [connection |-> connection, status |-> status, at |-> 0]

AnswerFor(connection, status, at) ==
  [connection |-> connection, status |-> status, at |-> at]

\* sendClient: an answer to a client that has left goes to a closed connection.
Send(answers) ==
  responses' = responses \cup
    {a \in answers : \E t \in Thread :
       thread[t].state = "waiting" /\ a.connection = Connection(t)}

(* RaftKVService::applyCommitted *)

ApplyOne(lg, acc) ==
  LET i == acc.machine.lastApplied + 1
      step == apply(acc.machine, lg[i])
  IN IF step.result # NoResult /\ i \in acc.pending
     THEN [machine |-> step.machine, pending |-> acc.pending \ {i},
           completed |-> (i :> step.result) @@ acc.completed]
     ELSE [acc EXCEPT !.machine = step.machine]

AppliedTo(lg, acc, commit) ==
  FoldLeft(LAMBDA a, i : ApplyOne(lg, a), acc,
           [i \in 1..(commit - acc.machine.lastApplied) |-> i])

\* Every node applies what the step has committed.
applyCommitted ==
  LET applied == [n \in Node |->
        AppliedTo(log'[n],
          [machine |-> machine[n], pending |-> pendingLocal[n],
           completed |-> completedLocal[n]], commitIndex'[n])]
  IN /\ machine' = [n \in Node |-> applied[n].machine]
     /\ pendingLocal' = [n \in Node |-> applied[n].pending]
     /\ completedLocal' = [n \in Node |-> applied[n].completed]

-----------------------------------------------------------------------------
(* Completions *)

NotLeader(connections) == {Answer(c, "notLeader") : c \in connections}

BatchConnections(batches) ==
  UNION {batches[c].requests : c \in DOMAIN batches}

\* Mutant of Abandoned: requests stay pending when leadership is lost.
AbandonedNone(n) == {}

\* What completePending of a node that does not lead drops, all of it answered
\* with NOT_LEADER.
Abandoned(n) == DOMAIN pendingWrites[n]

\* n stands for election in tick; completePending of the same iteration runs
\* before any vote can come back; then n wins.
elect(n, term, Q) ==
  /\ term \in scenario.leads[n]
  /\ Elected(n, term, Q)
  /\ pendingWrites' = [pendingWrites EXCEPT ![n] =
       [i \in DOMAIN @ \ Abandoned(n) |-> @[i]]]
  /\ pendingReads' = [pendingReads EXCEPT ![n] = <<>>]
  /\ Send(NotLeader({pendingWrites[n][i] : i \in Abandoned(n)}
                    \cup BatchConnections(pendingReads[n])))
  /\ UNCHANGED <<serviceVars, snapshotFile, deferredReads, nextReadContext,
                 probes, acks, requests, clientVars>>

replicate(n, m, answered) ==
  /\ Replicated(n, m, answered)
  /\ <<log', commitIndex', role', currentTerm', matchIndex'>> #
     <<log, commitIndex, role, currentTerm, matchIndex>>
  /\ applyCommitted
  /\ UNCHANGED <<snapshotFile, pendingWrites, readVars, probes, acks, requests,
                 responses, clientVars>>

stepDown(n, m) ==
  /\ SteppedDown(n, m)
  /\ UNCHANGED <<serviceVars, snapshotFile, pendingWrites, readVars, probes,
                 acks, requests, responses, clientVars>>

\* completePending, the writes: a leader hands out the results it has, any other
\* node answers NOT_LEADER.
completeWrites(n) ==
  LET ready == IF role[n] # "leader" THEN Abandoned(n)
               ELSE DOMAIN pendingWrites[n] \cap DOMAIN completedLocal[n]
      taken == IF role[n] = "leader" THEN ready ELSE {}
  IN /\ ready # {}
     /\ pendingWrites' = [pendingWrites EXCEPT ![n] =
          [i \in DOMAIN @ \ ready |-> @[i]]]
     /\ completedLocal' = [completedLocal EXCEPT ![n] =
          [i \in DOMAIN @ \ taken |-> @[i]]]
     /\ Send(IF role[n] # "leader"
             THEN NotLeader({pendingWrites[n][i] : i \in ready})
             ELSE {AnswerFor(pendingWrites[n][i], completedLocal[n][i].status, i) :
                     i \in ready})
     /\ UNCHANGED <<raftVars, machine, pendingLocal, snapshotFile, readVars,
                    probes, acks, requests, clientVars>>

-----------------------------------------------------------------------------
(* Requests *)

CommittedThisTerm(n) == termAt(log[n], commitIndex[n]) = currentTerm[n]

\* The checks on a GET, made when it arrives and when its batch starts.
ReadRefusal(n) ==
  IF role[n] # "leader" THEN "notLeader"
  ELSE IF ~CommittedThisTerm(n) THEN "unavailable" ELSE "none"

\* processClientRequests: SET and DELETE.
processWrite(n, q) ==
  LET index == Len(log[n]) + 1
      entry == q.operation @@ [client |-> q.client, id |-> q.id]
      pending == [pendingLocal EXCEPT ![n] = @ \cup {index}]
  IN /\ q \in requests /\ q.node = n /\ q.operation.type # "get"
     /\ requests' = requests \ {q}
     /\ IF role[n] # "leader"
        THEN /\ Send({Answer(q.connection, "notLeader")})
             /\ UNCHANGED <<raftVars, pendingLocal, pendingWrites>>
        ELSE /\ Proposed(n, entry)
             /\ pendingLocal' = pending
             /\ pendingWrites' = [pendingWrites EXCEPT ![n] =
                  (index :> q.connection) @@ @]
             /\ UNCHANGED responses
     /\ UNCHANGED <<machine, completedLocal, snapshotFile, readVars, probes, acks,
                    clientVars>>

\* processClientRequests: GET.
processRead(n, q) ==
  /\ q \in requests /\ q.node = n /\ q.operation.type = "get"
  /\ requests' = requests \ {q}
  /\ IF ReadRefusal(n) # "none"
     THEN Send({Answer(q.connection, ReadRefusal(n))}) /\ UNCHANGED deferredReads
     ELSE /\ deferredReads' = [deferredReads EXCEPT ![n] = @ \cup {q.connection}]
          /\ UNCHANGED responses
  /\ UNCHANGED <<raftVars, serviceVars, snapshotFile, pendingWrites, pendingReads,
                 nextReadContext, probes, acks, clientVars>>

-----------------------------------------------------------------------------
(* Read batches *)

\* startReadBatchIfReady: all deferred reads share one context, and the probes go
\* out (makeReadBarrier).
startReadBatch(n) ==
  /\ deferredReads[n] # {}
  /\ deferredReads' = [deferredReads EXCEPT ![n] = {}]
  /\ IF ReadRefusal(n) # "none"
     THEN /\ Send({Answer(c, ReadRefusal(n)) : c \in deferredReads[n]})
          /\ UNCHANGED <<pendingReads, nextReadContext, probes>>
     ELSE LET context == nextReadContext[n] IN
          /\ context <= scenario.contexts
          /\ nextReadContext' = [nextReadContext EXCEPT ![n] = context + 1]
          /\ pendingReads' = [pendingReads EXCEPT ![n] =
               (context :> [requests |-> deferredReads[n], term |-> currentTerm[n],
                            readIndex |-> commitIndex[n], acks |-> {n}]) @@ @]
          /\ probes' = probes \cup
               {[from |-> n, to |-> m, term |-> currentTerm[n],
                 context |-> context] : m \in Node \ {n}}
          /\ UNCHANGED responses
  /\ UNCHANGED <<raftVars, serviceVars, snapshotFile, pendingWrites, acks,
                 requests, clientVars>>

\* The probe reaches its peer: handleAppendEntries accepts the sender's term.  The
\* entries it carries are those of replicate; its answer succeeds if they match.
handleProbe(p) ==
  LET m == p.to IN
  /\ p \in probes /\ currentTerm[m] <= p.term
  /\ currentTerm' = [currentTerm EXCEPT ![m] = p.term]
  /\ role' = [role EXCEPT ![m] = "follower"]
  /\ probes' = probes \ {p}
  /\ acks' = acks \cup {[from |-> m, to |-> p.from, context |-> p.context]}
  /\ matchIndex' = [matchIndex EXCEPT ![m] = NoMatches]
  /\ UNCHANGED <<log, commitIndex, serviceVars, snapshotFile, pendingWrites, readVars,
                 requests, responses, clientVars>>

\* processPeerMessages: a successful answer counts for the pending batch of its
\* context while the batch is of the current term.
countAck(a) ==
  LET n == a.to IN
  /\ a \in acks
  /\ a.context \in DOMAIN pendingReads[n]
  /\ pendingReads[n][a.context].term = currentTerm[n]
  /\ a.from \notin pendingReads[n][a.context].acks
  /\ pendingReads' = [pendingReads EXCEPT ![n][a.context].acks = @ \cup {a.from}]
  /\ UNCHANGED <<raftVars, serviceVars, snapshotFile, pendingWrites, deferredReads,
                 nextReadContext, probes, acks, requests, responses, clientVars>>

\* Mutant of readQuorumReached: the leader's own vote is enough.
readQuorumReachedAlone(read) == read.acks # {}

readQuorumReached(read) == Majority(read.acks)

\* completePending, the batch of one context: dropped when leadership or term has
\* changed, unavailable at its deadline, answered from the table once confirmed.
completeRead(n, context) ==
  LET read == pendingReads[n][context]
      deposed == role[n] # "leader" \/ currentTerm[n] # read.term
      ready == readQuorumReached(read) /\ machine[n].lastApplied >= read.readIndex
      answers ==
        IF deposed THEN {NotLeader(read.requests)}
        ELSE {{Answer(c, "unavailable") : c \in read.requests}} \cup
             (IF ready
              THEN {{AnswerFor(c, "ok", machine[n].lastApplied) : c \in read.requests}}
              ELSE {})
  IN /\ context \in DOMAIN pendingReads[n]
     /\ \E a \in answers : Send(a)
     /\ pendingReads' = [pendingReads EXCEPT ![n] =
          [c \in DOMAIN @ \ {context} |-> @[c]]]
     /\ UNCHANGED <<raftVars, serviceVars, snapshotFile, pendingWrites,
                    deferredReads, nextReadContext, probes, acks, requests,
                    clientVars>>

-----------------------------------------------------------------------------
(* Snapshots and restarts *)

\* tryPublishSnapshot.  What it does to the log is in module RaftSnapshot.
tryPublishSnapshot(n) ==
  /\ scenario.threshold # 0
  /\ machine[n].lastApplied - snapshotFile[n].lastIncludedIndex >= scenario.threshold
  /\ snapshotFile' = [snapshotFile EXCEPT ![n] =
       snapshot(machine[n], termAt(log[n], machine[n].lastApplied))]
  /\ UNCHANGED <<raftVars, serviceVars, pendingWrites, readVars, probes, acks,
                 requests, responses, clientVars>>

\* The process dies.  The next one restores its snapshot, replays the committed
\* suffix, and knows no request, no connection and no read context.
restart(n) ==
  LET rebuilt == AppliedTo(log[n],
        [machine |-> restore(snapshotFile[n]), pending |-> {}, completed |-> <<>>],
        commitIndex[n])
  IN /\ n \in scenario.restarting
     /\ Reloaded(n)
     /\ machine' = [machine EXCEPT ![n] = rebuilt.machine]
     /\ pendingLocal' = [pendingLocal EXCEPT ![n] = {}]
     /\ completedLocal' = [completedLocal EXCEPT ![n] = <<>>]
     /\ pendingWrites' = [pendingWrites EXCEPT ![n] = <<>>]
     /\ deferredReads' = [deferredReads EXCEPT ![n] = {}]
     /\ pendingReads' = [pendingReads EXCEPT ![n] = <<>>]
     /\ nextReadContext' = [nextReadContext EXCEPT ![n] = 1]
     /\ requests' = {q \in requests : q.node # n}
     /\ probes' = {p \in probes : scenario.survive \/ n \notin {p.from, p.to}}
     /\ acks' = {a \in acks : scenario.survive \/ n \notin {a.from, a.to}}
     /\ UNCHANGED <<snapshotFile, responses, clientVars>>

-----------------------------------------------------------------------------
Next ==
  \/ \E t \in Thread :
       \/ call(t)
       \/ attemptFails(t)
       \/ \E n \in scenario.endpoints[t] : connect(t, n)
       \/ \E r \in responses : receiveResponse(t, r)
  \/ \E n \in scenario.up :
       \/ \E term \in scenario.leads[n], Q \in SUBSET scenario.up : elect(n, term, Q)
       \/ \E m \in scenario.up, answered \in BOOLEAN :
            (answered \/ m \in scenario.losing) /\ replicate(n, m, answered)
       \/ \E m \in scenario.up : stepDown(n, m)
       \/ completeWrites(n)
       \/ \E q \in requests : processWrite(n, q) \/ processRead(n, q)
       \/ startReadBatch(n)
       \/ \E c \in DOMAIN pendingReads[n] : completeRead(n, c)
       \/ tryPublishSnapshot(n)
       \/ restart(n)
  \/ \E p \in probes : p.to \in scenario.up /\ handleProbe(p)
  \/ \E a \in acks : countAck(a)

Spec == Init /\ [][Next]_vars

-----------------------------------------------------------------------------
(* Properties *)

\* The longest prefix any node knows to be committed.
Chosen ==
  LET longest == CHOOSE n \in Node : \A m \in Node : commitIndex[m] <= commitIndex[n]
  IN SubSeq(log[longest], 1, commitIndex[longest])

OperationOf(r) == scenario.script[r.connection[1]][thread[r.connection[1]].done + 1]

\* Whatever was retried, overtaken, snapshotted, restored and replayed, the table
\* and the sessions of every node are those its applied log stands for: each
\* request counts once, at its first place, and not after a later request of its
\* client (StateMachine::apply, restore, applyCommitted).
MachinesFollowTheLog ==
  \A n \in Node :
    machine[n] = Meaning(SubSeq(log[n], 1, machine[n].lastApplied))

\* A final answer to a SET or DELETE is the answer of that very request, which has
\* taken effect in the committed log; never that of another command which took the
\* index the request was pending at (pending_writes_, pending_local_,
\* completed_local_ across changes of leader).
AnswersAreOwn ==
  \A r \in responses :
    OperationOf(r).type # "get" /\ r.status \in {"ok", "notFound"} =>
      \E i \in Effective(Chosen) :
        /\ Chosen[i].client = ClientOf[r.connection[1]]
        /\ Chosen[i].id = r.connection[2]
        /\ AnswerAt(Chosen, i) = r.status

\* A request that its client still waits for is never refused as overtaken
\* (STALE_REQUEST), however often it was retried.
NoLiveRequestIsStale == \A r \in responses : r.status # "stale"

\* A GET answers from a state that holds every write acknowledged, and every state
\* read, before it was called: a deposed leader never answers from its old table
\* (read barrier of startReadBatchIfReady, processPeerMessages, completePending).
ReadsSeeAcknowledged ==
  \A r \in responses :
    OperationOf(r).type = "get" /\ r.status = "ok" =>
      r.at >= thread[r.connection[1]].since

=============================================================================
