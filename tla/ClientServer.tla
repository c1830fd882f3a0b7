---------------------------- MODULE ClientServer ----------------------------
(***************************************************************************)
(* The client side of a node: the epoll server (network/server.cpp), its   *)
(* connections (network/connection.cpp), the two bounded queues that join  *)
(* it to the Raft thread (common/bounded_queue.h), and the three threads   *)
(* of NodeService with their shutdown (server/node_service.cpp).           *)
(*                                                                         *)
(* A socket is one TCP connection a client makes.  The server knows it by  *)
(* a file descriptor, which the kernel hands out again after a close, and  *)
(* by a connection id, which is never reused.  Requests and responses are  *)
(* numbers: the response to request r is r.  The event loop takes a step   *)
(* per frame and per event, so that the Raft thread, the peer thread and   *)
(* the main thread interleave with it wherever they can in the program.    *)
(***************************************************************************)
EXTENDS Naturals, Sequences, FiniteSets, Functions, TLC

CONSTANTS
  Socket,             \* the connections clients make
  Fd,                 \* descriptors the kernel can hand out to accept4
  MaxRequests,        \* requests clients send, numbered in that order
  QueueCapacity,      \* queue_capacity of both bounded queues
  MaximumConnections, \* maximum_connections of the server
  MaxBuffered,        \* kMaximumBufferedBytes, in frames
  Room,               \* frames a socket's send buffer holds
  MaxFaults,          \* failures of accept4, of the peer thread or of Raft
  Budgets             \* bound: what of all these a behaviour may use; records of
                      \* sockets, requests and faults

ASSUME ClientServerAssumption ==
  /\ IsFiniteSet(Socket) /\ IsFiniteSet(Fd)
  /\ Fd \subseteq Nat /\ Fd \cap 0..2 = {}
  /\ {MaxRequests, QueueCapacity, MaximumConnections, MaxBuffered, Room,
      MaxFaults} \subseteq Nat
  /\ QueueCapacity > 0 /\ MaximumConnections > 0
  /\ Budgets \subseteq [sockets : SUBSET Socket, requests : 0..MaxRequests,
                         faults : 0..MaxFaults]

Request == 1..MaxRequests
None == 0
listen_fd_ == 1
wake_fd_ == 2
Thread == {"client", "raft", "peer", "main"}

VARIABLES
  sock,            \* the client's end and the kernel's buffers of each socket
  backlog,         \* sockets waiting for accept4, in order
  connections_,    \* descriptor -> the server's connection, for open ones
  connection_fds_, \* connection id -> descriptor
  next_connection_id_,
  request_queue_, response_queue_,
  closed,          \* the queues that have been closed
  wake,            \* is the eventfd counter positive?
  stop_requested_, \* NodeService's flag and the server's own
  events,          \* what epoll_wait returned and is not handled yet
  current,         \* descriptor whose input is being processed
  pending,         \* requests the Raft thread has taken and not answered
  reply,           \* the response the Raft thread is posting, if any
  pc,              \* where each thread is
  faults,
  nextRequest,     \* the next request a client sends
  dropped          \* responses refused by a full or closed response queue

serverVars == <<connections_, connection_fds_, next_connection_id_, events, current>>
queueVars  == <<request_queue_, response_queue_, closed>>
raftVars   == <<pending, reply, dropped>>
clientVars == <<sock, backlog, nextRequest>>
vars == <<serverVars, queueVars, raftVars, clientVars, wake, stop_requested_,
          pc, faults>>

\* A socket outside the budget counts as closed, and a request or a fault outside
\* it as made.
Init ==
  /\ \E b \in Budgets :
       /\ sock = [s \in Socket |->
                    [state |-> IF s \in b.sockets THEN "unused" ELSE "closed",
                     in |-> <<>>, asked |-> {}, wire |-> <<>>, got |-> <<>>]]
       /\ nextRequest = MaxRequests - b.requests + 1
       /\ faults = MaxFaults - b.faults
  /\ backlog = <<>>
  /\ connections_ = <<>>
  /\ connection_fds_ = <<>>
  /\ next_connection_id_ = 1
  /\ request_queue_ = <<>> /\ response_queue_ = <<>> /\ closed = {}
  /\ wake = FALSE
  /\ stop_requested_ = [service |-> FALSE, server |-> FALSE]
  /\ events = <<>> /\ current = None
  /\ pending = {} /\ reply = <<>> /\ dropped = {}
  /\ pc = [t \in Thread |-> IF t = "main" THEN "poll" ELSE "test"]

Goto(t, label) == pc' = [pc EXCEPT ![t] = label]

-----------------------------------------------------------------------------
(* Clients and the kernel *)

\* A client connects; the kernel completes the handshake before accept4.
Connect(s) ==
  /\ sock[s].state = "unused"
  /\ sock' = [sock EXCEPT ![s].state = "open"]
  /\ backlog' = Append(backlog, s)
  /\ UNCHANGED <<nextRequest, serverVars, queueVars, raftVars, wake,
                 stop_requested_, pc, faults>>

\* A client may pipeline: it does not wait for the previous answer.
Send(s) ==
  /\ sock[s].state = "open"
  /\ nextRequest \in Request
  /\ sock' = [sock EXCEPT ![s].in = Append(@, nextRequest),
                          ![s].asked = @ \cup {nextRequest}]
  /\ nextRequest' = nextRequest + 1
  /\ UNCHANGED <<backlog, serverVars, queueVars, raftVars, wake,
                 stop_requested_, pc, faults>>

Receive(s) ==
  /\ sock[s].state = "open"
  /\ sock[s].wire # <<>>
  /\ sock' = [sock EXCEPT ![s].wire = Tail(@), ![s].got = Append(@, Head(sock[s].wire))]
  /\ UNCHANGED <<backlog, nextRequest, serverVars, queueVars, raftVars, wake,
                 stop_requested_, pc, faults>>

\* A client gives up on a connection: the server will read end of file.
HangUp(s) ==
  /\ sock[s].state = "open"
  /\ sock' = [sock EXCEPT ![s].state = "hungup"]
  /\ UNCHANGED <<backlog, nextRequest, serverVars, queueVars, raftVars, wake,
                 stop_requested_, pc, faults>>

-----------------------------------------------------------------------------
(* Bounded queues *)

\* May a value enter the queue?  The push itself is an Append by the caller.
tryPush(name, queue) == name \notin closed /\ Len(queue) < QueueCapacity

-----------------------------------------------------------------------------
(* Connections, as functions on the server's tables *)

\* Mutant of forget: the id of a closed connection still leads to its descriptor.
forgetNot(fds, id) == fds

\* closeConnection's erasure of the id that led to the descriptor.
forget(fds, id) == Restrict(fds, DOMAIN fds \ {id})

\* closeConnection(fd), as new values of the server's tables and the socket.
closeConnection(fd, sockets) ==
  /\ connections_' = Restrict(connections_, DOMAIN connections_ \ {fd})
  /\ connection_fds_' = forget(connection_fds_, connections_[fd].id)
  /\ sock' = [sockets EXCEPT ![connections_[fd].socket].state = "closed"]

\* flushOutput: send until the socket's buffer is full.
Sent(connection, s) ==
  LET room == Room - Len(s.wire)
  IN  IF Len(connection.output) <= room THEN Len(connection.output) ELSE room

\* handleConnection asks for EPOLLOUT while the connection wants to write.
Interest(output) == output # <<>>

\* What epoll reports about a descriptor, given the connection's interest.
Ready(fd) ==
  LET c == connections_[fd]
      s == sock[c.socket]
  IN  [in  |-> s.in # <<>> \/ s.state = "hungup",
       out |-> c.out /\ Len(s.wire) < Room,
       hup |-> s.state = "hungup"]

ReadyFds == {fd \in DOMAIN connections_ : \E e \in DOMAIN Ready(fd) : Ready(fd)[e]}

-----------------------------------------------------------------------------
(* The event loop, Server::run *)

\* while (!stop_requested_)
Test ==
  /\ pc["client"] = "test"
  /\ Goto("client", IF stop_requested_.server THEN "done" ELSE "drain")
  /\ UNCHANGED <<serverVars, queueVars, raftVars, clientVars, wake,
                 stop_requested_, faults>>

\* drainResponses: one response of the queue, or on to epoll_wait.  A response
\* for a connection that is gone is discarded; one that does not fit in the
\* output buffer closes its connection.
drainResponses ==
  /\ pc["client"] = "drain"
  /\ \/ /\ response_queue_ = <<>>
        /\ Goto("client", "wait")
        /\ UNCHANGED <<connections_, connection_fds_, sock, response_queue_>>
     \/ /\ response_queue_ # <<>>
        /\ response_queue_' = Tail(response_queue_)
        /\ UNCHANGED pc
        /\ LET event == Head(response_queue_)
           IN  IF \/ event.connection_id \notin DOMAIN connection_fds_
                  \/ connection_fds_[event.connection_id] \notin DOMAIN connections_
               THEN UNCHANGED <<connections_, connection_fds_, sock>>
               ELSE LET fd == connection_fds_[event.connection_id]
                    IN  IF Len(connections_[fd].output) >= MaxBuffered
                        THEN closeConnection(fd, sock)
                        ELSE /\ connections_' =
                                  [connections_ EXCEPT
                                     ![fd].output = Append(@, event.response),
                                     ![fd].out = TRUE]
                             /\ UNCHANGED <<connection_fds_, sock>>
  /\ UNCHANGED <<next_connection_id_, events, current, request_queue_, closed,
                 raftVars, backlog, nextRequest, wake, stop_requested_, faults>>

\* epoll_wait with no timeout: it returns when something is ready.
epollWait ==
  /\ pc["client"] = "wait"
  /\ LET ready == ReadyFds \cup (IF wake THEN {wake_fd_} ELSE {})
                           \cup (IF backlog # <<>> THEN {listen_fd_} ELSE {})
     IN  /\ ready # {}
         /\ events' = [e \in ready |-> IF e \in Fd THEN Ready(e) ELSE {}]
  /\ Goto("client", "handle")
  /\ UNCHANGED <<connections_, connection_fds_, next_connection_id_, current,
                 queueVars, raftVars, clientVars, wake, stop_requested_, faults>>

Handled(e) == events' = Restrict(events, DOMAIN events \ {e})

\* Mutant of endOfBatch: back to epoll_wait without draining the responses.
endOfBatchNoDrain ==
  /\ pc["client"] = "handle"
  /\ events = <<>>
  /\ Goto("client", IF stop_requested_.server THEN "done" ELSE "wait")
  /\ UNCHANGED <<serverVars, queueVars, raftVars, clientVars, wake,
                 stop_requested_, faults>>

\* The whole batch is handled: around the loop.
endOfBatch ==
  /\ pc["client"] = "handle"
  /\ events = <<>>
  /\ Goto("client", "test")
  /\ UNCHANGED <<serverVars, queueVars, raftVars, clientVars, wake,
                 stop_requested_, faults>>

readWakeup ==
  /\ pc["client"] = "handle"
  /\ wake_fd_ \in DOMAIN events
  /\ wake' = FALSE
  /\ Handled(wake_fd_)
  /\ UNCHANGED <<connections_, connection_fds_, next_connection_id_, current,
                 queueVars, raftVars, clientVars, stop_requested_, pc, faults>>

\* acceptConnections, one socket of the backlog: over the limit it is closed
\* at once, otherwise it gets the lowest free descriptor and a fresh id.
acceptConnection ==
  /\ pc["client"] = "handle"
  /\ listen_fd_ \in DOMAIN events
  /\ backlog # <<>>
  /\ backlog' = Tail(backlog)
  /\ LET s == Head(backlog)
         fd == CHOOSE f \in Fd \ DOMAIN connections_ :
                 \A g \in Fd \ DOMAIN connections_ : f <= g
     IN  IF Cardinality(DOMAIN connections_) >= MaximumConnections
         THEN /\ sock' = [sock EXCEPT ![s].state = "closed"]
              /\ UNCHANGED <<connections_, connection_fds_, next_connection_id_>>
         ELSE /\ connections_' =
                   (fd :> [id |-> next_connection_id_, socket |-> s, input |-> <<>>,
                           output |-> <<>>, out |-> FALSE]) @@ connections_
              /\ connection_fds_' = (next_connection_id_ :> fd) @@ connection_fds_
              /\ next_connection_id_' = next_connection_id_ + 1
              /\ UNCHANGED sock
  /\ UNCHANGED <<events, current, queueVars, raftVars, nextRequest, wake,
                 stop_requested_, pc, faults>>

\* accept4 reports EAGAIN: every waiting socket has been taken.
acceptDone ==
  /\ pc["client"] = "handle"
  /\ listen_fd_ \in DOMAIN events
  /\ backlog = <<>>
  /\ Handled(listen_fd_)
  /\ UNCHANGED <<connections_, connection_fds_, next_connection_id_, current,
                 queueVars, raftVars, clientVars, wake, stop_requested_, pc, faults>>

\* accept4 fails otherwise: run returns false and the thread calls setFatal.
acceptFails ==
  /\ pc["client"] = "handle"
  /\ listen_fd_ \in DOMAIN events
  /\ faults < MaxFaults
  /\ faults' = faults + 1
  /\ Goto("client", IF stop_requested_.service THEN "done" ELSE "flag")
  /\ UNCHANGED <<serverVars, queueVars, raftVars, clientVars, wake, stop_requested_>>

\* handleConnection up to processInput: readAvailable reads everything the
\* socket holds; end of file, or more than the buffer takes, closes the
\* connection with whatever was read.
readAvailable(fd) ==
  /\ pc["client"] = "handle"
  /\ fd \in DOMAIN events
  /\ events[fd].in
  /\ LET c == connections_[fd]
         s == sock[c.socket]
     IN  IF s.state = "hungup" \/ Len(c.input) + Len(s.in) > MaxBuffered
         THEN /\ closeConnection(fd, [sock EXCEPT ![c.socket].in = <<>>])
              /\ Handled(fd)
              /\ UNCHANGED <<current, pc>>
         ELSE /\ sock' = [sock EXCEPT ![c.socket].in = <<>>]
              /\ connections_' = [connections_ EXCEPT ![fd].input = @ \o s.in]
              /\ current' = fd
              /\ Goto("client", "input")
              /\ UNCHANGED <<connection_fds_, events>>
  /\ UNCHANGED <<next_connection_id_, queueVars, raftVars, backlog, nextRequest,
                 wake, stop_requested_, faults>>

\* Mutant of Refused: a request the queue refuses is dropped without an answer.
RefusedSilently(output, request) == output

\* What a refused request adds to the output: SERVER_BUSY under its request id.
Refused(output, request) == Append(output, request)

\* processInput, one frame: hand it to the Raft thread with the connection's
\* id, or answer SERVER_BUSY when the queue is full.
processInput ==
  /\ pc["client"] = "input"
  /\ connections_[current].input # <<>>
  /\ LET c == connections_[current]
         request == Head(c.input)
     IN  \/ /\ tryPush("requests", request_queue_)
            /\ request_queue_' =
                 Append(request_queue_, [connection_id |-> c.id, request |-> request])
            /\ connections_' = [connections_ EXCEPT ![current].input = Tail(@)]
            /\ UNCHANGED <<connection_fds_, sock, events, current, pc>>
         \/ /\ ~tryPush("requests", request_queue_)
            /\ Len(c.output) < MaxBuffered
            /\ connections_' = [connections_ EXCEPT ![current].input = Tail(@),
                                                    ![current].output = Refused(@, request)]
            /\ UNCHANGED <<request_queue_, connection_fds_, sock, events, current, pc>>
         \/ /\ ~tryPush("requests", request_queue_)
            /\ Len(c.output) >= MaxBuffered
            /\ closeConnection(current, sock)
            /\ Handled(current)
            /\ current' = None
            /\ Goto("client", "handle")
            /\ UNCHANGED request_queue_
  /\ UNCHANGED <<next_connection_id_, response_queue_, closed, raftVars, backlog,
                 nextRequest, wake, stop_requested_, faults>>

\* The rest of handleConnection: flush, give up on a hung-up peer, and set the
\* descriptor's interest for the next epoll_wait.
finishConnection(fd) ==
  /\ \/ pc["client"] = "input" /\ current = fd /\ connections_[fd].input = <<>>
     \/ pc["client"] = "handle" /\ fd \in DOMAIN events /\ ~events[fd].in
  /\ LET c == connections_[fd]
         s == sock[c.socket]
         n == Sent(c, s)
     IN  IF s.state = "hungup" /\ (c.output # <<>> \/ events[fd].hup)
         THEN closeConnection(fd, sock)
         ELSE LET left == SubSeq(c.output, n + 1, Len(c.output))
              IN  /\ connections_' = [connections_ EXCEPT ![fd].output = left,
                                                          ![fd].out = Interest(left)]
                  /\ sock' = [sock EXCEPT ![c.socket].wire = @ \o SubSeq(c.output, 1, n)]
                  /\ UNCHANGED connection_fds_
  /\ Handled(fd)
  /\ current' = None
  /\ Goto("client", "handle")
  /\ UNCHANGED <<next_connection_id_, queueVars, raftVars, backlog, nextRequest,
                 wake, stop_requested_, faults>>

-----------------------------------------------------------------------------
(* The Raft thread, NodeService::runRaft, seen from the client queues *)

raftTest ==
  /\ pc["raft"] = "test"
  /\ Goto("raft", IF stop_requested_.service THEN "done" ELSE "requests")
  /\ UNCHANGED <<serverVars, queueVars, raftVars, clientVars, wake,
                 stop_requested_, faults>>

\* processClientRequests: every queued request becomes pending or is answered
\* on the spot (NOT_LEADER, a membership answer), one at a time.
processClientRequests ==
  /\ pc["raft"] = "requests"
  /\ \/ /\ request_queue_ = <<>>
        /\ Goto("raft", "pending")
        /\ UNCHANGED <<request_queue_, pending, reply>>
     \/ /\ request_queue_ # <<>>
        /\ request_queue_' = Tail(request_queue_)
        /\ \/ pending' = pending \cup {Head(request_queue_)} /\ UNCHANGED <<reply, pc>>
           \/ /\ reply' = <<[event |-> Head(request_queue_), next |-> "requests"]>>
              /\ Goto("raft", "post")
              /\ UNCHANGED pending
  /\ UNCHANGED <<serverVars, response_queue_, closed, dropped, clientVars, wake,
                 stop_requested_, faults>>

\* completePending: any of the pending requests may be complete by now.
completePending ==
  /\ pc["raft"] = "pending"
  /\ \/ /\ Goto("raft", "test")
        /\ UNCHANGED <<pending, reply>>
     \/ \E event \in pending :
          /\ pending' = pending \ {event}
          /\ reply' = <<[event |-> event, next |-> "pending"]>>
          /\ Goto("raft", "post")
  /\ UNCHANGED <<serverVars, queueVars, dropped, clientVars, wake,
                 stop_requested_, faults>>

\* sendClient: queue the response; when the queue refuses it, it is gone.
sendClient ==
  /\ pc["raft"] = "post"
  /\ \/ /\ tryPush("responses", response_queue_)
        /\ response_queue_' =
             Append(response_queue_, [connection_id |-> Head(reply).event.connection_id,
                                      response |-> Head(reply).event.request])
        /\ Goto("raft", "notify")
        /\ UNCHANGED <<reply, dropped>>
     \/ /\ ~tryPush("responses", response_queue_)
        /\ dropped' = dropped \cup {Head(reply).event.request}
        /\ reply' = <<>>
        /\ Goto("raft", Head(reply).next)
        /\ UNCHANGED response_queue_
  /\ UNCHANGED <<serverVars, request_queue_, closed, pending, clientVars, wake,
                 stop_requested_, faults>>

\* notifyResponses: write the eventfd; notifications merge in its counter.
notifyResponses ==
  /\ pc["raft"] = "notify"
  /\ wake' = TRUE
  /\ reply' = <<>>
  /\ Goto("raft", Head(reply).next)
  /\ UNCHANGED <<serverVars, queueVars, pending, dropped, clientVars,
                 stop_requested_, faults>>

\* An exception in the Raft thread, or a fatal error of the peer thread.
threadFails(t) ==
  /\ faults < MaxFaults
  /\ t \in {"raft", "peer"}
  /\ pc[t] \in {"test", "requests", "pending"}
  /\ t = "peer" => ~stop_requested_.service
  /\ faults' = faults + 1
  /\ Goto(t, "flag")
  /\ UNCHANGED <<serverVars, queueVars, raftVars, clientVars, wake, stop_requested_>>

\* PeerTransport::run polls the flag every poll_timeout_ms.
peerTest ==
  /\ pc["peer"] = "test"
  /\ stop_requested_.service
  /\ Goto("peer", "done")
  /\ UNCHANGED <<serverVars, queueVars, raftVars, clientVars, wake,
                 stop_requested_, faults>>

-----------------------------------------------------------------------------
(* Shutdown: NodeService::setFatal on the failing thread, stop on main *)

\* main polls for a signal or for stopped().
poll ==
  /\ pc["main"] = "poll"
  /\ Goto("main", "flag")
  /\ UNCHANGED <<serverVars, queueVars, raftVars, clientVars, wake,
                 stop_requested_, faults>>

stopFlag(t) ==
  /\ pc[t] = "flag"
  /\ stop_requested_' = [stop_requested_ EXCEPT !.service = TRUE]
  /\ Goto(t, "server")
  /\ UNCHANGED <<serverVars, queueVars, raftVars, clientVars, wake, faults>>

\* Server::stop, first half.
serverStop(t) ==
  /\ pc[t] = "server"
  /\ stop_requested_' = [stop_requested_ EXCEPT !.server = TRUE]
  /\ Goto(t, "wake")
  /\ UNCHANGED <<serverVars, queueVars, raftVars, clientVars, wake, faults>>

\* Mutant of serverWake: stopping does not write the eventfd.
serverWakeNot(t) ==
  /\ pc[t] = "wake"
  /\ Goto(t, "queues")
  /\ UNCHANGED <<serverVars, queueVars, raftVars, clientVars, stop_requested_,
                 wake, faults>>

\* Server::stop, second half.
serverWake(t) ==
  /\ pc[t] = "wake"
  /\ wake' = TRUE
  /\ Goto(t, "queues")
  /\ UNCHANGED <<serverVars, queueVars, raftVars, clientVars, stop_requested_, faults>>

closeQueues(t) ==
  /\ pc[t] = "queues"
  /\ closed' = closed \cup {"requests", "peer_inbound"}
  /\ Goto(t, IF t = "main" THEN "join" ELSE "done")
  /\ UNCHANGED <<serverVars, request_queue_, response_queue_, raftVars, clientVars,
                 wake, stop_requested_, faults>>

\* stop joins the three threads, closes what is left, and the destructors
\* close every descriptor.
join ==
  /\ pc["main"] = "join"
  /\ \A t \in Thread \ {"main"} : pc[t] = "done"
  /\ closed' = closed \cup {"peer_outbound", "responses"}
  /\ Goto("main", "done")
  /\ connections_' = <<>> /\ connection_fds_' = <<>>
  /\ sock' = [s \in Socket |->
                [sock[s] EXCEPT !.state = IF @ = "unused" THEN @ ELSE "closed"]]
  /\ backlog' = <<>>
  /\ UNCHANGED <<next_connection_id_, events, current, request_queue_,
                 response_queue_, raftVars, nextRequest, wake, stop_requested_, faults>>

-----------------------------------------------------------------------------

ClientStep == \E s \in Socket : Connect(s) \/ Send(s) \/ Receive(s) \/ HangUp(s)

LoopStep ==
  \/ Test \/ drainResponses \/ epollWait \/ endOfBatch \/ readWakeup
  \/ acceptConnection \/ acceptDone \/ processInput
  \/ \E fd \in Fd : readAvailable(fd) \/ finishConnection(fd)

RaftStep ==
  raftTest \/ processClientRequests \/ completePending \/ sendClient \/ notifyResponses

StopStep(t) == stopFlag(t) \/ serverStop(t) \/ serverWake(t) \/ closeQueues(t)

Next ==
  \/ ClientStep \/ LoopStep \/ acceptFails \/ RaftStep
  \/ \E t \in Thread : threadFails(t) \/ StopStep(t)
  \/ peerTest \/ poll \/ join

Spec == Init /\ [][Next]_vars

\* Every thread keeps running, main sees stopped() at one of its polls (a
\* signal may never come), and a client reads what has arrived.
Fairness ==
  /\ WF_vars(LoopStep) /\ WF_vars(RaftStep) /\ WF_vars(peerTest)
  /\ WF_vars(poll /\ stop_requested_.service) /\ WF_vars(join)
  /\ \A t \in Thread : WF_vars(StopStep(t))
  /\ \A s \in Socket : WF_vars(Receive(s))

LiveSpec == Spec /\ Fairness

-----------------------------------------------------------------------------
(* Properties *)

Event == [connection_id : Nat, request : Request]

\* A client only ever sees, in the server's buffer, in the socket or in what it
\* has read, answers to requests of that same connection.  Descriptors are
\* reused as soon as a connection closes, while its requests may still be with
\* the Raft thread (server.cpp:249-251, 336-343, 415-423).
AnswersReachTheirConnection ==
  /\ \A fd \in DOMAIN connections_ :
       Range(connections_[fd].output) \subseteq sock[connections_[fd].socket].asked
  /\ \A s \in Socket : Range(sock[s].wire \o sock[s].got) \subseteq sock[s].asked

Asleep == pc["client"] = "wait" /\ ~wake

\* What socket s carries: unread requests, the server's buffers, answers.
Stream(s) ==
  LET fds == {fd \in DOMAIN connections_ : connections_[fd].socket = s}
      buffers == IF fds = {} THEN <<>>
                 ELSE LET c == connections_[CHOOSE fd \in fds : TRUE] IN c.input \o c.output
  IN  sock[s].in \o buffers \o sock[s].wire \o sock[s].got

\* All the places where request r, or the answer to it, is.
Locations(r) ==
  LET at(name, q) == {<<name, i>> : i \in {j \in DOMAIN q : q[j] = r}}
      requests    == [i \in DOMAIN request_queue_ |-> request_queue_[i].request]
      responses   == [i \in DOMAIN response_queue_ |-> response_queue_[i].response]
      posting     == IF pc["raft"] = "post" THEN <<Head(reply).event.request>> ELSE <<>>
  IN  at("requests", requests) \cup at("responses", responses) \cup at("posting", posting)
        \cup {<<"pending", e.connection_id>> : e \in {e \in pending : e.request = r}}
        \cup UNION {at(s, Stream(s)) : s \in Socket}

\* A request is answered at most once, and while its connection stays open it is
\* never mislaid: it is still with the server or the Raft thread, or its answer
\* is on the way or read, or the response queue refused the answer
\* (server.cpp:286-359, node_service.cpp:338-528, 812-819).
NothingIsMislaid ==
  \A s \in Socket : \A r \in sock[s].asked :
    /\ Cardinality(Locations(r)) <= 1
    /\ r \in dropped => Locations(r) = {}
    /\ sock[s].state = "open" => Locations(r) # {} \/ r \in dropped

\* Whatever fails first, and whichever thread asks, a stop request ends the three
\* threads, lets main join them and closes every descriptor
\* (node_service.cpp:191-226, 841-852; server.cpp:205-208).
StopEndsEveryThread ==
  stop_requested_.service ~> \A t \in Thread : pc[t] = "done"

\* An answer that is posted is read by its client, unless the connection closes
\* or the node stops: no interleaving of the Raft thread, the wakeups and the
\* write interest of the descriptor leaves it behind (server.cpp:255-284, 330-359).
PostedIsDelivered ==
  \A s \in Socket, r \in Request :
    (r \in sock[s].asked /\ \E i \in DOMAIN response_queue_ : response_queue_[i].response = r)
      ~> \/ r \in Range(sock[s].got)
         \/ sock[s].state \in {"hungup", "closed"}
         \/ stop_requested_.server

\* A full queue is never silent: architecture.md says that it pauses reading or
\* is answered with an overload error (node_service.cpp:812-819 does neither).
FullQueueIsReported ==
  ~stop_requested_.service => dropped = {}

\* architecture.md orders a shutdown "stop accepting, drain the tasks, persist,
\* close the descriptors": once the node is down no request that reached the
\* Raft thread's queue is left without an answer.
StopDrainsRequests ==
  pc["main"] = "done" => request_queue_ = <<>> /\ pending = {} /\ response_queue_ = <<>>
=============================================================================
