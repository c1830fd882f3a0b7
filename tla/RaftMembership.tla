--------------------------- MODULE RaftMembership ---------------------------
(***************************************************************************)
(* Membership changes by joint consensus: the configuration state of        *)
(* RaftNode (stable and joint configuration, peers, learners, the pending   *)
(* change), the ADD_NODE and REMOVE_NODE requests of NodeService on top of   *)
(* it, elections, replication and restarts of single nodes.                 *)
(*                                                                         *)
(* A handler of RaftNode is an operator from the state of a node to its      *)
(* next state.  An election (a candidate and those who answer it) is one     *)
(* step, and so is the exchange of one AppendEntries: delayed and duplicated *)
(* messages are the subject of RaftNode.  A lost message is an exchange that *)
(* does not happen.  A configuration is the set of its members.              *)
(***************************************************************************)
EXTENDS Integers, FiniteSets, RaftLog

CONSTANTS
  Node,         \* node ids, 1 and up
  Bootstrap,    \* the configuration every node is started with
  Ops,          \* the operations clients ask for: [id, type, node]
  Candidates,   \* bound: the nodes whose election timer fires
  MaxTerm,      \* bound: terms
  MaxLog,       \* bound: length of a log to which an operation is added
  MaxRestarts   \* bound: restarts

ASSUME MembershipAssumption ==
  /\ Node \subseteq Nat \ {0} /\ Bootstrap \subseteq Node
  /\ Ops \subseteq [id : Nat \ {0}, type : {"add", "remove"}, node : Node]

VARIABLES
  node,      \* node[n]: the state of RaftNode and NodeService n
  answered,  \* history: ids of the operations answered OK
  restarts

vars == <<node, answered, restarts>>

None == 0       \* no vote, no index, no operation
NoConfig == {}  \* joint_config_ is absent
NoChange == [id |-> None]

NoIndexes == [n \in Node |-> None]

-----------------------------------------------------------------------------
(* Configuration state of one node; s is its state, an operator returns the *)
(* state after the call.                                                    *)

isMember(s, n) == n = s.id \/ n \in s.peers \/ n \in s.learners

isVotingMember(s, n) == IF n = s.id THEN ~s.learner ELSE n \in s.peers

\* A majority of the peers and the node itself or, in joint consensus, of both
\* configurations.
HasQuorum(s, granted) ==
  IF s.jointConfig = NoConfig
  THEN hasQuorum(Cardinality(granted \cap (s.peers \cup {s.id})), Cardinality(s.peers) + 1)
  ELSE /\ hasQuorum(Cardinality(granted \cap s.clusterConfig), Cardinality(s.clusterConfig))
       /\ hasQuorum(Cardinality(granted \cap s.jointConfig), Cardinality(s.jointConfig))

hasReplicationQuorum(s, index) ==
  HasQuorum(s, {s.id} \cup {n \in Node : s.matchIndex[n] >= index})

Entry(term, type, target, op) == [term |-> term, type |-> type, target |-> target, op |-> op]

appended(s, type, target, op) ==
  [s EXCEPT !.log = Append(@, Entry(s.currentTerm, type, target, op))]

\* One member more or less, else the conversion throws.
SingleStep(old, new) == Cardinality(old \ new) + Cardinality(new \ old) = 1

\* The exit entry of the joint configuration, which becomes the pending one.
appendJointExit(s) ==
  LET t == appended(s, "exit", s.jointConfig, s.activeOp)
  IN  IF SingleStep(s.clusterConfig, s.jointConfig)
      THEN [t EXCEPT !.pending = Len(t.log)]
      ELSE [s EXCEPT !.started = FALSE]

enterJoint(s, e) ==
  LET t == [s EXCEPT
              !.jointConfig = e.target,
              !.activeOp    = IF e.op # None THEN e.op ELSE @,
              !.peers       = (s.clusterConfig \cup e.target) \ {s.id},
              !.learner     = @ /\ s.id \notin e.target,
              !.pending     = None]
  IN  IF s.role = "leader" THEN appendJointExit(t) ELSE t

exitJoint(s, e) ==
  [s EXCEPT !.clusterConfig = e.target,
            !.jointConfig   = NoConfig,
            !.peers         = e.target \ {s.id},
            !.learner       = s.id \notin e.target,
            !.completedOp   = IF e.op # None THEN e.op ELSE @,
            !.activeOp      = IF e.op # None THEN None ELSE @,
            !.pending       = None]

applyConfigurationEntry(s, e) == IF e.type = "joint" THEN enterJoint(s, e) ELSE exitJoint(s, e)

\* Everything between configuration_applied_index_ and the commit index; what
\* is appended on the way is behind the commit index.
applyCommittedConfiguration(s) ==
  LET upTo[i \in s.applied..s.commitIndex] ==
        IF i = s.applied THEN s
        ELSE LET t == upTo[i - 1]
             IN  IF t.log[i].type = "noop" THEN t ELSE applyConfigurationEntry(t, t.log[i])
  IN  [upTo[s.commitIndex] EXCEPT !.applied = s.commitIndex]

advanceCommitIndex(s) ==
  LET can == {i \in s.commitIndex + 1..Len(s.log) :
                s.log[i].term = s.currentTerm /\ hasReplicationQuorum(s, i)}
  IN  IF can = {} THEN s
      ELSE applyCommittedConfiguration([s EXCEPT !.commitIndex = Max(can)])

-----------------------------------------------------------------------------
(* Elections. *)

becomeFollower(s, term) ==
  [s EXCEPT !.votedFor    = IF term > s.currentTerm THEN None ELSE @,
            !.currentTerm = Max({term, @}),
            !.role        = "follower",
            !.nextIndex   = NoIndexes,
            !.matchIndex  = NoIndexes]

startElection(s) ==
  [s EXCEPT !.role = "candidate", !.currentTerm = @ + 1, !.votedFor = s.id]

\* The exit entry a leader finds in its log, or a new one.
recoverJointExitEntry(s) ==
  LET exits == {i \in s.applied + 1..Len(s.log) :
                  s.log[i].type = "exit" /\ s.log[i].target = s.jointConfig}
  IN  IF s.jointConfig = NoConfig THEN s
      ELSE IF exits # {} THEN [s EXCEPT !.pending = Min(exits)]
      ELSE appendJointExit(s)

becomeLeader(s) ==
  LET known == s.peers \cup s.learners
      t == [s EXCEPT !.role       = "leader",
                     !.nextIndex  = [n \in Node |-> IF n \in known THEN Len(s.log) + 1 ELSE None],
                     !.matchIndex = NoIndexes]
  IN  advanceCommitIndex(recoverJointExitEntry(appended(t, "noop", NoConfig, None)))

\* Mutant of Votes: a node votes again in the same term.
VotesTwice(s, c) ==
  /\ ~s.learner /\ isVotingMember(s, c.id)
  /\ c.currentTerm >= s.currentTerm
  /\ isCandidateLogUpToDate(Len(c.log), lastTerm(c.log), s.log)

\* handleRequestVote: whether s grants its vote to candidate c ...
Votes(s, c) ==
  /\ ~s.learner /\ isVotingMember(s, c.id)
  /\ c.currentTerm >= s.currentTerm
  /\ c.currentTerm > s.currentTerm \/ s.votedFor \in {None, c.id}
  /\ isCandidateLogUpToDate(Len(c.log), lastTerm(c.log), s.log)

\* ... and its state afterwards.
handleRequestVote(s, c) ==
  LET t == IF s.learner \/ ~isVotingMember(s, c.id) \/ c.currentTerm <= s.currentTerm
           THEN s ELSE becomeFollower(s, c.currentTerm)
  IN  IF Votes(s, c) THEN [t EXCEPT !.votedFor = c.id] ELSE t

\* The answers to the candidate: a higher term ends the candidacy, a quorum
\* makes a leader of it; answers of nodes it does not know are ignored.
handleRequestVoteResponses(c, answers) ==
  LET known == {a \in answers : isVotingMember(c, a.id)}
      terms == {a.term : a \in known}
      votes == {c.id} \cup {a.id : a \in {a \in known : a.granted}}
  IN  IF \E t \in terms : t > c.currentTerm THEN becomeFollower(c, Max(terms))
      ELSE IF HasQuorum(c, votes) THEN becomeLeader(c)
      ELSE c

-----------------------------------------------------------------------------
(* Replication. *)

makeAppendEntries(l, f) ==
  LET next == IF l.nextIndex[f] = None THEN Len(l.log) + 1 ELSE l.nextIndex[f]
  IN  [term |-> l.currentTerm, leader |-> l.id, prev |-> next - 1,
       prevTerm |-> termAt(l.log, next - 1), entries |-> SubSeq(l.log, next, Len(l.log)),
       commit |-> l.commitIndex]

Refused(s, m) == ~isVotingMember(s, m.leader) \/ m.term < s.currentTerm

Followed(s, m) ==
  IF m.term > s.currentTerm \/ s.role # "follower" THEN becomeFollower(s, m.term) ELSE s

Matches(s, m) == m.prev <= Len(s.log) /\ termAt(s.log, m.prev) = m.prevTerm

Command(e) == <<e.type, e.target, e.op>>

\* Mutant of storeEntries: what is in the log stays, whatever its term.
storeEntriesKeep(s, m) ==
  [s EXCEPT !.log = @ \o SubSeq(m.entries, Len(s.log) - m.prev + 1, Len(m.entries))]

\* The entries are stored, and a pending change that is thereby overwritten is
\* given up; what it was is looked up before.
storeEntries(s, m) ==
  LET lg == appendFrom(s.log, m.prev, m.entries)
      t  == [s EXCEPT !.log = lg]
      p  == s.pending
      lost == /\ p > s.commitIndex /\ p <= Len(s.log) /\ s.log[p].type # "noop"
              /\ p > Len(lg) \/ Command(lg[p]) # Command(s.log[p])
  IN  IF ~lost THEN t
      ELSE IF s.log[p].type = "joint"
      THEN [t EXCEPT !.pending = None, !.jointConfig = NoConfig, !.activeOp = None,
                     !.peers = s.clusterConfig \ {s.id}]
      ELSE [t EXCEPT !.pending = None]

\* Joint entries take effect when they are stored, not when they are committed.
adoptJoint(s, m) ==
  LET upTo[k \in 0..Len(m.entries)] ==
        IF k = 0 THEN s
        ELSE IF m.entries[k].type = "joint" /\ m.prev + k > s.commitIndex
        THEN [enterJoint(upTo[k - 1], m.entries[k]) EXCEPT !.pending = m.prev + k]
        ELSE upTo[k - 1]
  IN  upTo[Len(m.entries)]

handleAppendEntries(s, m) ==
  LET t == Followed(s, m)
      u == adoptJoint(storeEntries(t, m), m)
      commit == Max({u.commitIndex, Min({m.commit, Len(u.log)})})
  IN  IF Refused(s, m) THEN s ELSE IF ~Matches(t, m) THEN t
      ELSE applyCommittedConfiguration([u EXCEPT !.commitIndex = commit])

\* The follower's answer, and what it makes of the leader: l before, f before
\* and g after the follower handled m.
handleAppendEntriesResponse(l, f, g, m) ==
  LET t         == Followed(f, m)
      success   == ~Refused(f, m) /\ Matches(t, m)
      match     == m.prev + Len(m.entries)
      known     == ~Refused(f, m) /\ m.prev <= Len(f.log)
      conflict  == IF known THEN termAt(f.log, m.prev) ELSE NoTerm
      hint      == IF known THEN firstIndexOfTerm(f.log, conflict) ELSE Len(f.log) + 1
  IN  IF ~isMember(l, f.id) THEN l
      ELSE IF g.currentTerm > l.currentTerm THEN becomeFollower(l, g.currentTerm)
      ELSE IF g.currentTerm # l.currentTerm \/ l.nextIndex[f.id] = None THEN l
      ELSE IF success
      THEN advanceCommitIndex(
             [l EXCEPT !.matchIndex[f.id] = Max({@, match}),
                       !.nextIndex[f.id]  = Max({@, match + 1})])
      ELSE IF l.matchIndex[f.id] > m.prev THEN l
      ELSE [l EXCEPT !.nextIndex[f.id] = nextIndexAfterConflict(l.log, hint, conflict)]

-----------------------------------------------------------------------------
(* Proposals and the service's requests. *)

addLearner(s, n) ==
  [s EXCEPT !.learners = @ \cup {n}, !.nextIndex[n] = 1, !.matchIndex[n] = None]

learnerCaughtUp(s, n) ==
  n \in s.learners /\ s.nextIndex[n] # None /\ s.matchIndex[n] >= s.commitIndex

Target(s, op) ==
  IF op.type = "add" THEN s.clusterConfig \cup {op.node} ELSE s.clusterConfig \ {op.node}

\* The early returns of proposeConfChange.
mayPropose(s, op) ==
  /\ s.role = "leader" /\ s.pending = None /\ s.jointConfig = NoConfig /\ s.activeOp = None
  /\ IF op.type = "add" THEN op.node \notin s.clusterConfig /\ learnerCaughtUp(s, op.node)
     ELSE op.node \in s.clusterConfig /\ op.node # s.id /\ Cardinality(s.clusterConfig) > 1
  /\ s.id \in Target(s, op)

proposeConfChange(s, op) ==
  LET target == Target(s, op)
      t == [s EXCEPT !.jointConfig = target, !.activeOp = op.id,
                     !.peers    = (s.clusterConfig \cup target) \ {s.id},
                     !.learners = @ \ {op.node}]
      u == appended(t, "joint", target, op.id)
  IN  advanceCommitIndex([u EXCEPT !.pending = Len(u.log)])

\* pending_membership_change_: the operation, and whether it has a log index.
Change(op, proposed) ==
  [id |-> op.id, type |-> op.type, node |-> op.node, proposed |-> proposed]

-----------------------------------------------------------------------------

NewNode(n) ==
  [id |-> n, started |-> TRUE,
   currentTerm |-> 0, votedFor |-> None, log |-> <<>>, commitIndex |-> 0,
   clusterConfig |-> Bootstrap, jointConfig |-> NoConfig,
   activeOp |-> None, completedOp |-> None,
   role |-> "follower", peers |-> Bootstrap \ {n}, learners |-> {},
   learner |-> n \notin Bootstrap, pending |-> None, applied |-> 0,
   nextIndex |-> NoIndexes, matchIndex |-> NoIndexes,
   change |-> NoChange, learnerPeers |-> {}]

Init ==
  /\ node = [n \in Node |-> NewNode(n)]
  /\ answered = {} /\ restarts = 0

\* A step that throws ends the process before the state is saved.
Stepped(n, s) == IF s.started THEN s ELSE [node[n] EXCEPT !.started = FALSE]

\* The election timer of c fires and the nodes in voters answer in time.
elect(c, voters) ==
  LET s == startElection(node[c])
      after == [n \in voters |-> handleRequestVote(node[n], s)]
      answers == {[id |-> n, term |-> after[n].currentTerm, granted |-> Votes(node[n], s)] :
                    n \in voters}
      t == handleRequestVoteResponses(s, answers)
  IN  /\ node[c].started /\ ~node[c].learner /\ node[c].role # "leader"
      /\ node[c].currentTerm < MaxTerm
      /\ voters \subseteq node[c].peers
      /\ \A n \in voters : node[n].started
      /\ node' = [n \in Node |-> IF n = c THEN Stepped(c, t)
                                 ELSE IF n \in voters THEN after[n] ELSE node[n]]
      /\ UNCHANGED <<answered, restarts>>

\* One exchange of AppendEntries: leader and follower after it.
Exchanged(l, f) ==
  LET m == makeAppendEntries(node[l], f)
      g == handleAppendEntries(node[f], m)
      t == handleAppendEntriesResponse(node[l], node[f], g, m)
  IN  [node EXCEPT ![l] = Stepped(l, t), ![f] = Stepped(f, g)]

\* The peers and learners the transport of l is connected to.
Connected(l) == node[l].peers \cup (node[l].learners \cap node[l].learnerPeers)

replicate(l, f) ==
  /\ node[l].started /\ node[f].started /\ node[l].role = "leader"
  /\ f \in Connected(l)
  /\ node' = Exchanged(l, f)
  /\ UNCHANGED <<answered, restarts>>

\* A request is attached to the change it repeats, started, or refused, which
\* changes nothing.
request(l, op) ==
  LET s == node[l]
  IN  /\ s.started /\ s.role = "leader" /\ s.completedOp # op.id
      /\ Len(s.log) < MaxLog
      /\ \/ /\ s.activeOp = op.id
            /\ node' = [node EXCEPT ![l].change = Change(op, TRUE)]
         \/ /\ s.activeOp = None /\ s.change = NoChange /\ s.jointConfig = NoConfig
            /\ op.type = "add" /\ ~isMember(s, op.node)
            /\ node' = [node EXCEPT ![l] =
                 [addLearner(s, op.node) EXCEPT !.learnerPeers = @ \cup {op.node},
                                                !.change = Change(op, FALSE)]]
         \/ /\ s.activeOp = None /\ s.change = NoChange /\ s.jointConfig = NoConfig
            /\ op.type = "remove" /\ mayPropose(s, op)
            /\ node' = [node EXCEPT ![l] = Stepped(l,
                 [proposeConfChange(s, op) EXCEPT !.change = Change(op, TRUE)])]
      /\ UNCHANGED <<answered, restarts>>

\* The answer to a completed operation that is asked for again.
replay(l, op) ==
  /\ node[l].started /\ node[l].role = "leader" /\ node[l].completedOp = op.id
  /\ op.id \notin answered
  /\ answered' = answered \cup {op.id}
  /\ UNCHANGED <<node, restarts>>

\* Mutant of finishedChange: the joint configuration is enough for an answer.
finishedChangeEarly(s) ==
  LET latest == IF s.jointConfig = NoConfig THEN s.clusterConfig ELSE s.jointConfig
  IN  s.change.proposed /\ (s.change.node \in latest) = (s.change.type = "add")

\* The change is in the stable configuration and joint consensus is over.
finishedChange(s) ==
  /\ s.change.proposed /\ s.jointConfig = NoConfig
  /\ (s.change.node \in s.clusterConfig) = (s.change.type = "add")

\* processMembershipChange, once per turn of the Raft thread.
processMembershipChange(n) ==
  LET s == node[n]
      op == [id |-> s.change.id, type |-> s.change.type, node |-> s.change.node]
      done == [s EXCEPT !.change = NoChange, !.learnerPeers = @ \ {s.change.node}]
  IN  /\ s.started /\ s.change # NoChange
      /\ \/ /\ s.role # "leader"
            /\ node' = [node EXCEPT ![n] = done]
            /\ UNCHANGED answered
         \/ /\ s.role = "leader" /\ ~s.change.proposed /\ learnerCaughtUp(s, op.node)
            /\ IF mayPropose(s, op)
               THEN node' = [node EXCEPT ![n] = Stepped(n,
                      [proposeConfChange(s, op) EXCEPT !.change = Change(op, TRUE)])]
               ELSE node' = [node EXCEPT ![n].change = NoChange]
            /\ UNCHANGED answered
         \/ /\ s.role = "leader" /\ finishedChange(s)
            /\ node' = [node EXCEPT ![n] = done]
            /\ answered' = answered \cup {op.id}
      /\ UNCHANGED restarts

\* The constructor on what the node has saved.
restarted(s) ==
  LET peers == (s.clusterConfig \cup s.jointConfig) \ {s.id}
      found == {i \in s.commitIndex + 1..Len(s.log) :
                  s.log[i].type # "noop" /\ s.log[i].target = s.jointConfig}
      p == IF s.jointConfig = NoConfig \/ found = {} THEN None ELSE Min(found)
  IN  [NewNode(s.id) EXCEPT
         !.started       = /\ s.votedFor \in peers \cup {s.id, None}
                           /\ s.activeOp # None => s.jointConfig # NoConfig,
         !.currentTerm   = s.currentTerm,
         !.votedFor      = s.votedFor,
         !.log           = s.log,
         !.commitIndex   = s.commitIndex,
         !.clusterConfig = s.clusterConfig,
         !.jointConfig   = s.jointConfig,
         !.activeOp      = IF s.activeOp = None /\ p # None THEN s.log[p].op ELSE s.activeOp,
         !.completedOp   = s.completedOp,
         !.peers         = peers,
         !.learner       = s.id \notin s.clusterConfig,
         !.pending       = p,
         !.applied       = s.commitIndex]

restart(n) ==
  /\ node[n].started /\ restarts < MaxRestarts
  /\ node' = [node EXCEPT ![n] = restarted(node[n])]
  /\ restarts' = restarts + 1
  /\ UNCHANGED answered

Next ==
  \/ \E c \in Candidates : \E voters \in SUBSET (Node \ {c}) : elect(c, voters)
  \/ \E l \in Node : \E f \in Node \ {l} : replicate(l, f)
  \/ \E l \in Node, op \in Ops : request(l, op) \/ replay(l, op)
  \/ \E n \in Node : processMembershipChange(n) \/ restart(n)

Spec == Init /\ [][Next]_vars

-----------------------------------------------------------------------------
(* Properties. *)

Leaders == {n \in Node : node[n].started /\ node[n].role = "leader"}

\* However configurations overlap, no term has two leaders.
OneLeaderPerTerm ==
  \A a, b \in Leaders : node[a].currentTerm = node[b].currentTerm => a = b

\* The committed parts of any two logs agree, across all the configurations
\* under which they were committed.
CommittedAgree ==
  \A a, b \in Node :
    \A i \in 1..Min({node[a].commitIndex, node[b].commitIndex}) :
      node[a].log[i] = node[b].log[i]

\* An operation is answered OK only when its final configuration is committed.
AnsweredIsCommitted ==
  \A id \in answered : \E n \in Node : \E i \in 1..node[n].commitIndex :
    node[n].log[i].type = "exit" /\ node[n].log[i].op = id

\* Every node that joint consensus counts as a voter votes.
JointVotersVote ==
  \A n \in Node : node[n].started /\ n \in node[n].jointConfig => ~node[n].learner

\* A joint configuration that was overwritten is rolled back: what is in force
\* is in the log.
JointIsInLog ==
  \A n \in Node :
    node[n].jointConfig # NoConfig =>
      \E i \in DOMAIN node[n].log :
        node[n].log[i].type = "joint" /\ node[n].log[i].target = node[n].jointConfig

\* A learner whose joint entry was overwritten is a learner again.
VotersAreMembers ==
  \A n \in Node :
    node[n].started /\ ~node[n].learner => n \in node[n].clusterConfig \cup node[n].jointConfig

\* A joint entry takes part in quorums from the moment it is in the log.
AppendedIsInForce ==
  \A n \in Node : \A i \in DOMAIN node[n].log :
    (node[n].started /\ i > node[n].commitIndex /\ node[n].log[i].type = "joint") =>
      node[n].jointConfig # NoConfig

\* Every node can be restarted.
EveryNodeStarts == \A n \in Node : node[n].started

\* An addition that came to nothing can be asked for again.
AddCanBeRepeated ==
  \A l \in Leaders, op \in Ops :
    LET s == node[l]
    IN  (op.type = "add" /\ s.change = NoChange /\ s.jointConfig = NoConfig) =>
          op.node \notin s.learners

\* A follower that lags behind a change can be brought up to date by any leader: it
\* takes entries from it, and so learns of the configuration that made it one.
LaggingFollowersListen ==
  \A l \in Leaders : \A f \in node[l].peers :
    (node[f].started /\ node[f].currentTerm <= node[l].currentTerm)
      => isVotingMember(node[f], l)

=============================================================================
