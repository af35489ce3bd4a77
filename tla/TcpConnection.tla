---------------------------- MODULE TcpConnection -----------------------------
(***************************************************************************)
(* The life of connections, from accept4() to close(): Acceptor,           *)
(* TcpServer, Channel and TcpConnection on the loop thread (src/net/*.cpp),*)
(* the kernel's sockets and epoll set below them, the clients beyond, and  *)
(* above them the request path of gateway.cpp: a request of the API port   *)
(* becomes a task of the thread pool whose response comes back through     *)
(* runInLoop(); a command of the management port is answered at once.      *)
(*                                                                         *)
(* The pool and runInLoop() appear as the FIFO queues that ThreadPool.tla  *)
(* and EventLoop.tla are shown to implement.  A request is a number, the   *)
(* response to request r of client c is <<c, r>>; both stand for any       *)
(* number of bytes.  There is one TcpConnection object per client, and it  *)
(* is named by its client.                                                 *)
(***************************************************************************)
EXTENDS Naturals, Sequences, FiniteSets, Functions

CONSTANTS Clients,       \* each connects at most once
          Mgmt,          \* the clients of the management port
          NumFds,        \* bound: descriptors left for connections
          MaxReq,        \* bound: requests sent by one client
          NumWorkers,    \* threads of the pool
          None

Fds == 1..NumFds
Ports == {"api", "mgmt"}
Port(c) == IF c \in Mgmt THEN "mgmt" ELSE "api"
Req == 1..MaxReq
Response == Clients \X Req

ASSUME ConnAssumption == /\ Mgmt \subseteq Clients
                         /\ NumFds \in Nat /\ MaxReq \in Nat
                         /\ NumWorkers \in Nat \ {0}
                         /\ None \notin Clients \cup Fds

VARIABLES
  (* the clients *)
  peer,            \* what the client has done to its connection
  asked,           \* requests it has sent
  delivered,       \* responses it was sent, in order
  (* the kernel *)
  backlog,         \* connected, not accepted
  rcv,             \* received and not read, by client
  full,            \* the send buffer towards the client is full
  fdClient,        \* descriptor -> client at the other end
  epoll,           \* descriptor -> channel registered for it
  (* the loop thread *)
  phase,           \* "poll", "dispatch" or "run"
  acceptEvents,    \* listening channels in the batch, not handled
  revents,         \* channel -> its events in the batch, not handled
  current,         \* channel whose handleEvent() is under way
  functors,        \* swapped out by doPendingFunctors()
  pendingFunctors, \* sends posted by workers
  (* TcpConnection and its Channel *)
  sockfd,          \* sockfd_, None for -1 and before accept
  removed,         \* channel_.removed_
  wantsOut,        \* channel_.events_ & EPOLLOUT
  outBuf,          \* outputBuffer_
  queued,          \* history: responses sendInLoop() has taken
  connections,     \* TcpServer::connections_
  (* the pool *)
  poolQueue,       \* requests enqueued and not started
  running,         \* requests in a worker's hands
  thrown           \* history: requests whose handler threw

clientVars == <<peer, asked>>
kernelVars == <<backlog, rcv, full, fdClient, epoll, delivered>>
batchVars  == <<phase, acceptEvents, revents, current, functors>>
connVars   == <<sockfd, removed, wantsOut, outBuf, queued, connections>>
poolVars   == <<poolQueue, running, thrown>>
vars == <<clientVars, kernelVars, batchVars, pendingFunctors, connVars,
          poolVars>>

Init ==
  /\ peer = [c \in Clients |-> "away"]
  /\ asked = [c \in Clients |-> 0]
  /\ delivered = [c \in Clients |-> <<>>]
  /\ backlog = {}
  /\ rcv = [c \in Clients |-> <<>>]
  /\ full = [c \in Clients |-> FALSE]
  /\ fdClient = [f \in Fds |-> None]
  /\ epoll = [f \in Fds |-> None]
  /\ phase = "poll"
  /\ acceptEvents = {}
  /\ revents = [c \in Clients |-> {}]
  /\ current = None
  /\ functors = <<>>
  /\ pendingFunctors = <<>>
  /\ sockfd = [c \in Clients |-> None]
  /\ removed = [c \in Clients |-> FALSE]
  /\ wantsOut = [c \in Clients |-> FALSE]
  /\ outBuf = [c \in Clients |-> <<>>]
  /\ queued = [c \in Clients |-> <<>>]
  /\ connections = {}
  /\ poolQueue = <<>>
  /\ running = {}
  /\ thrown = {}

-------------------------------------------------------------------------------
(* The clients.                                                            *)

Connect(c) ==
  /\ peer[c] = "away"
  /\ peer' = [peer EXCEPT ![c] = "open"]
  /\ backlog' = backlog \cup {c}
  /\ UNCHANGED <<asked, rcv, full, fdClient, epoll, delivered, batchVars,
                 pendingFunctors, connVars, poolVars>>

ClientSend(c) ==
  /\ peer[c] = "open"
  /\ asked[c] < MaxReq
  /\ asked' = [asked EXCEPT ![c] = @ + 1]
  /\ rcv' = [rcv EXCEPT ![c] = Append(@, asked[c] + 1)]
  /\ UNCHANGED <<peer, backlog, full, fdClient, epoll, delivered, batchVars,
                 pendingFunctors, connVars, poolVars>>

\* The client closes its sending side: shutdown(SHUT_WR), or close().
ClientFin(c) ==
  /\ peer[c] = "open"
  /\ peer' = [peer EXCEPT ![c] = "fin"]
  /\ UNCHANGED <<asked, kernelVars, batchVars, pendingFunctors, connVars,
                 poolVars>>

\* A RST arrives.
ClientReset(c) ==
  /\ peer[c] \in {"open", "fin"}
  /\ peer' = [peer EXCEPT ![c] = "rst"]
  /\ UNCHANGED <<asked, kernelVars, batchVars, pendingFunctors, connVars,
                 poolVars>>

\* The client reads, which makes room in the send buffer.
ClientDrain(c) ==
  /\ full[c]
  /\ full' = [full EXCEPT ![c] = FALSE]
  /\ UNCHANGED <<clientVars, backlog, rcv, fdClient, epoll, delivered,
                 batchVars, pendingFunctors, connVars, poolVars>>

-------------------------------------------------------------------------------
(* epoll_wait.                                                             *)

\* The events the kernel reports for channel c.  Both a FIN and a RST make a
\* socket readable; EPOLLHUP comes with EPOLLIN and is not told from it here.
Ready(c) ==
  LET f == sockfd[c]
      p == fdClient[f]
  IN  IF f = None \/ epoll[f] # c THEN {}
      ELSE {e \in {"err", "in", "out"} :
              \/ e = "err" /\ peer[p] = "rst"
              \/ e = "in"  /\ (rcv[p] # <<>> \/ peer[p] # "open")
              \/ e = "out" /\ wantsOut[c]
                           /\ (~full[p] \/ peer[p] = "rst")}

\* epoll_wait returns all that is ready, the listening sockets included; a
\* pending functor has made the eventfd readable (NoLostWakeup of EventLoop.tla).
\* It blocks while nothing is ready: its timeout finds nothing to do.
EpollWait ==
  /\ phase = "poll"
  /\ \/ backlog # {}
     \/ pendingFunctors # <<>>
     \/ \E c \in Clients : Ready(c) # {}
  /\ phase' = "dispatch"
  /\ acceptEvents' = {Port(c) : c \in backlog}
  /\ revents' = [c \in Clients |-> Ready(c)]
  /\ UNCHANGED <<clientVars, kernelVars, current, functors, pendingFunctors,
                 connVars, poolVars>>

-------------------------------------------------------------------------------
(* The pieces the handlers are made of.                                    *)

\* The rest of channel c's events when its callback for event e has returned.
Handled(c, e) ==
  LET left == revents[c] \ {e}
  IN  /\ revents' = [revents EXCEPT ![c] = left]
      /\ current' = IF left = {} THEN None ELSE c

\* Channels of a batch are handled one after the other; the order of the
\* callbacks inside one is that of Channel::handleEvent().
CanHandle(c, e) ==
  /\ phase = "dispatch"
  /\ current \in {None, c}
  /\ e \in revents[c]
  /\ e = "in" => "err" \notin revents[c]
  /\ e = "out" => revents[c] = {"out"}

\* EPOLL_CTL_MOD of the channel's descriptor; it fails on one not registered.
UpdateChannel(c) ==
  IF epoll[sockfd[c]] = None THEN epoll ELSE [epoll EXCEPT ![sockfd[c]] = c]

-------------------------------------------------------------------------------
(* Wrong variants of the operators that follow, substituted for them one   *)
(* at a time to see that the properties notice.                            *)

\* Takes output for a connection whatever its state.
Mut_SendInLoop(c, response) ==
  /\ outBuf' = [outBuf EXCEPT ![c] = Append(@, response)]
  /\ queued' = [queued EXCEPT ![c] = Append(@, response)]
  /\ wantsOut' = [wantsOut EXCEPT ![c] = TRUE]
  /\ epoll' = IF sockfd[c] = None THEN epoll ELSE UpdateChannel(c)

\* Buffers the response and does not ask for EPOLLOUT.
Mut_SendInLoop_Silent(c, response) ==
  /\ outBuf' = IF sockfd[c] = None THEN outBuf
               ELSE [outBuf EXCEPT ![c] = Append(@, response)]
  /\ queued' = IF sockfd[c] = None THEN queued
               ELSE [queued EXCEPT ![c] = Append(@, response)]
  /\ UNCHANGED <<wantsOut, epoll>>

\* Closes the descriptor and leaves sockfd_ and the channel as they were.
Mut_CloseConnection(c) ==
  /\ epoll' = [epoll EXCEPT ![sockfd[c]] = None]
  /\ connections' = connections \ {c}
  /\ fdClient' = [fdClient EXCEPT ![sockfd[c]] = None]
  /\ revents' = [revents EXCEPT ![c] = {}]
  /\ current' = None
  /\ UNCHANGED <<removed, sockfd, backlog, rcv, full, delivered, wantsOut, outBuf,
                 queued>>

\* Goes on to the other events of the channel it has closed.
Mut_CloseConnection_GoesOn(c) ==
  /\ removed' = [removed EXCEPT ![c] = TRUE]
  /\ epoll' = [epoll EXCEPT ![sockfd[c]] = None]
  /\ connections' = connections \ {c}
  /\ fdClient' = [fdClient EXCEPT ![sockfd[c]] = None]
  /\ sockfd' = [sockfd EXCEPT ![c] = None]
  /\ revents' = [revents EXCEPT ![c] = @ \ {"err"}]
  /\ current' = IF revents[c] \subseteq {"err"} THEN None ELSE c
  /\ UNCHANGED <<backlog, rcv, full, delivered, wantsOut, outBuf, queued>>

\* Leaves what it has handled in inputBuffer_, to be handled again.
Mut_EventReadData(c) ==
  LET p == fdClient[sockfd[c]]
  IN  /\ CanHandle(c, "in")
      /\ rcv[p] # <<>>
      /\ Handled(c, "in")
      /\ poolQueue' = Append(poolQueue, <<c, Head(rcv[p])>>)
      /\ UNCHANGED <<clientVars, kernelVars, connVars, phase, acceptEvents,
                     functors, pendingFunctors, running, thrown>>

\* Takes read() = 0 for nothing to do.
Mut_EventReadEnd(c) ==
  /\ CanHandle(c, "in")
  /\ rcv[fdClient[sockfd[c]]] = <<>>
  /\ Handled(c, "in")
  /\ UNCHANGED <<clientVars, kernelVars, connVars, phase, acceptEvents, functors,
                 pendingFunctors, poolVars>>

\* Empties outputBuffer_ after a partial write().
Mut_EventWrite(c) ==
  LET p == fdClient[sockfd[c]]
  IN  /\ CanHandle(c, "out")
      /\ peer[p] # "rst"
      /\ \E k \in 1..Len(outBuf[c]) :
           delivered' = [delivered EXCEPT ![p] = @ \o SubSeq(outBuf[c], 1, k)]
      /\ outBuf' = [outBuf EXCEPT ![c] = <<>>]
      /\ wantsOut' = [wantsOut EXCEPT ![c] = FALSE]
      /\ Handled(c, "out")
      /\ UNCHANGED <<clientVars, backlog, rcv, full, fdClient, epoll, phase,
                     acceptEvents, functors, pendingFunctors, sockfd, removed,
                     queued, connections, poolVars>>

-------------------------------------------------------------------------------
(* Output and closing.                                                     *)

\* A response for a connection that has been closed is dropped.
SendInLoop(c, response) ==
  \/ /\ sockfd[c] = None \/ removed[c]
     /\ UNCHANGED <<outBuf, queued, wantsOut, epoll>>
  \/ /\ sockfd[c] # None /\ ~removed[c]
     /\ outBuf' = [outBuf EXCEPT ![c] = Append(@, response)]
     /\ queued' = [queued EXCEPT ![c] = Append(@, response)]
     /\ wantsOut' = [wantsOut EXCEPT ![c] = TRUE]
     /\ epoll' = UpdateChannel(c)

\* handleClose(): EPOLL_CTL_DEL and removed_, removeConnection() (whose
\* connectDestroyed() finds index_ = -1 and does nothing), close().  What is left
\* of the channel's events meets removed_ and sockfd_ and does nothing.
CloseConnection(c) ==
  /\ removed' = [removed EXCEPT ![c] = TRUE]
  /\ epoll' = [epoll EXCEPT ![sockfd[c]] = None]
  /\ connections' = connections \ {c}
  /\ fdClient' = [fdClient EXCEPT ![sockfd[c]] = None]
  /\ sockfd' = [sockfd EXCEPT ![c] = None]
  /\ revents' = [revents EXCEPT ![c] = {}]
  /\ current' = None
  /\ UNCHANGED <<backlog, rcv, full, delivered, wantsOut, outBuf, queued>>

-------------------------------------------------------------------------------
(* The loop thread handles a batch of events, then the pending functors.   *)

\* Acceptor::handleRead() takes one client of its port's backlog, on the lowest
\* free descriptor, up to connectEstablished().
Accept(port) ==
  /\ phase = "dispatch" /\ current = None
  /\ port \in acceptEvents
  /\ acceptEvents' = acceptEvents \ {port}
  /\ \E c \in backlog, f \in Fds :
       /\ Port(c) = port
       /\ fdClient[f] = None
       /\ \A g \in 1..(f - 1) : fdClient[g] # None
       /\ backlog' = backlog \ {c}
       /\ fdClient' = [fdClient EXCEPT ![f] = c]
       /\ epoll' = [epoll EXCEPT ![f] = c]
       /\ sockfd' = [sockfd EXCEPT ![c] = f]
       /\ connections' = connections \cup {c}
  /\ UNCHANGED <<clientVars, rcv, full, delivered, phase, revents, current,
                 functors, pendingFunctors, removed, wantsOut, outBuf, queued,
                 poolVars>>

\* accept4() fails: the process, or the system, is out of descriptors.  The client
\* stays in the backlog.
AcceptFails(port) ==
  /\ phase = "dispatch" /\ current = None
  /\ port \in acceptEvents
  /\ acceptEvents' = acceptEvents \ {port}
  /\ UNCHANGED <<clientVars, kernelVars, phase, revents, current, functors,
                 pendingFunctors, connVars, poolVars>>

\* EPOLLERR: the close callback.
EventClose(c) ==
  /\ CanHandle(c, "err")
  /\ CloseConnection(c)
  /\ UNCHANGED <<clientVars, phase, acceptEvents, functors, pendingFunctors,
                 poolVars>>

\* handleRead() with bytes to read.  One read() may return several requests:
\* the callback handles the first, and inputBuffer_.clear() forgets the others.
EventReadData(c) ==
  LET p == fdClient[sockfd[c]]
  IN  /\ CanHandle(c, "in")
      /\ \E k \in 1..Len(rcv[p]) :
           rcv' = [rcv EXCEPT ![p] = SubSeq(@, k + 1, Len(@))]
      /\ Handled(c, "in")
      /\ \/ /\ c \in Mgmt             \* onMgmtRequest()
            /\ SendInLoop(c, <<c, Head(rcv[p])>>)
            /\ UNCHANGED poolQueue
         \/ /\ c \notin Mgmt          \* onApiRequest()
            /\ poolQueue' = Append(poolQueue, <<c, Head(rcv[p])>>)
            /\ UNCHANGED <<outBuf, queued, wantsOut, epoll>>
      /\ UNCHANGED <<clientVars, backlog, full, fdClient, delivered, phase,
                     acceptEvents, functors, pendingFunctors, sockfd, removed,
                     connections, running, thrown>>

\* handleRead() with nothing to read: read() returns 0 after a FIN, fails after a
\* RST.  Both close.
EventReadEnd(c) ==
  /\ CanHandle(c, "in")
  /\ rcv[fdClient[sockfd[c]]] = <<>>
  /\ CloseConnection(c)
  /\ UNCHANGED <<clientVars, phase, acceptEvents, functors, pendingFunctors,
                 poolVars>>

\* handleWrite(): the kernel takes some of outputBuffer_, or all of it.
EventWrite(c) ==
  LET p == fdClient[sockfd[c]]
  IN  /\ CanHandle(c, "out")
      /\ peer[p] # "rst"
      /\ \E k \in 1..Len(outBuf[c]) :
           /\ delivered' = [delivered EXCEPT ![p] = @ \o SubSeq(outBuf[c], 1, k)]
           /\ outBuf' = [outBuf EXCEPT ![c] = SubSeq(@, k + 1, Len(@))]
           /\ wantsOut' = [wantsOut EXCEPT ![c] = k < Len(outBuf[c])]
           /\ \E b \in BOOLEAN : /\ k < Len(outBuf[c]) => b
                                 /\ full' = [full EXCEPT ![p] = b]
      /\ epoll' = UpdateChannel(c)
      /\ Handled(c, "out")
      /\ UNCHANGED <<clientVars, backlog, rcv, fdClient, phase, acceptEvents,
                     functors, pendingFunctors, sockfd, removed, queued,
                     connections, poolVars>>

\* handleWrite() when write() fails, or returns 0 for want of bytes to write.
EventWriteFails(c) ==
  /\ CanHandle(c, "out")
  /\ peer[fdClient[sockfd[c]]] = "rst" \/ outBuf[c] = <<>>
  /\ CloseConnection(c)
  /\ UNCHANGED <<clientVars, phase, acceptEvents, functors, pendingFunctors,
                 poolVars>>

\* The batch is done; doPendingFunctors() swaps the queue out.
EndBatch ==
  /\ phase = "dispatch"
  /\ acceptEvents = {}
  /\ \A c \in Clients : revents[c] = {}
  /\ phase' = "run"
  /\ functors' = pendingFunctors
  /\ pendingFunctors' = <<>>
  /\ UNCHANGED <<clientVars, kernelVars, acceptEvents, revents, current, connVars,
                 poolVars>>

\* A functor posted by TcpConnection::send().
RunFunctor ==
  /\ phase = "run"
  /\ functors # <<>>
  /\ SendInLoop(Head(functors)[1], Head(functors))
  /\ functors' = Tail(functors)
  /\ UNCHANGED <<clientVars, backlog, rcv, full, fdClient, delivered, phase,
                 acceptEvents, revents, current, pendingFunctors, sockfd,
                 removed, connections, poolVars>>

RunDone ==
  /\ phase = "run"
  /\ functors = <<>>
  /\ phase' = "poll"
  /\ UNCHANGED <<clientVars, kernelVars, acceptEvents, revents, current, functors,
                 pendingFunctors, connVars, poolVars>>

LoopThread ==
  \/ EpollWait
  \/ \E port \in Ports : Accept(port) \/ AcceptFails(port)
  \/ \E c \in Clients : \/ EventClose(c)
                        \/ EventReadData(c) \/ EventReadEnd(c)
                        \/ EventWrite(c) \/ EventWriteFails(c)
  \/ EndBatch \/ RunFunctor \/ RunDone

-------------------------------------------------------------------------------
(* The pool's workers: processApiRequest().                                *)

TaskStart ==
  /\ poolQueue # <<>>
  /\ Cardinality(running) < NumWorkers
  /\ running' = running \cup {Head(poolQueue)}
  /\ poolQueue' = Tail(poolQueue)
  /\ UNCHANGED <<clientVars, kernelVars, batchVars, pendingFunctors, connVars,
                 thrown>>

\* Every path that ends normally calls sendResponse() once, and send() on a
\* worker's thread posts sendInLoop().
TaskSends(t) ==
  /\ t \in running
  /\ running' = running \ {t}
  /\ pendingFunctors' = Append(pendingFunctors, t)
  /\ UNCHANGED <<clientVars, kernelVars, batchVars, connVars, poolQueue, thrown>>

\* An exception (std::stoi of a Content-Length that is no number) ends in the
\* packaged_task of the pool, and there is no response.
TaskThrows(t) ==
  /\ t \in running
  /\ running' = running \ {t}
  /\ thrown' = thrown \cup {t}
  /\ UNCHANGED <<clientVars, kernelVars, batchVars, pendingFunctors, connVars,
                 poolQueue>>

Worker == TaskStart \/ \E t \in running : TaskSends(t) \/ TaskThrows(t)

Client(c) == \/ Connect(c) \/ ClientSend(c) \/ ClientFin(c) \/ ClientReset(c)
             \/ ClientDrain(c)

Next == LoopThread \/ Worker \/ \E c \in Clients : Client(c)

Spec == Init /\ [][Next]_vars

\* The loop thread runs whenever it is not blocked in epoll_wait, an idle worker
\* takes a task that waits, and a task ends.  Nothing is assumed of clients.
FairSpec ==
  /\ Spec
  /\ WF_vars(LoopThread)
  /\ WF_vars(TaskStart)
  /\ \A t \in Response : WF_vars(TaskSends(t) \/ TaskThrows(t))

-------------------------------------------------------------------------------
(* Properties.                                                             *)

Open(c)   == sockfd[c] # None
Closed(c) == removed[c]

\* Type invariant.
TypeOK ==
  /\ peer \in [Clients -> {"away", "open", "fin", "rst"}]
  /\ asked \in [Clients -> 0..MaxReq]
  /\ delivered \in [Clients -> Seq(Response)]
  /\ backlog \in SUBSET Clients
  /\ rcv \in [Clients -> Seq(Req)]
  /\ full \in [Clients -> BOOLEAN]
  /\ fdClient \in [Fds -> Clients \cup {None}]
  /\ epoll \in [Fds -> Clients \cup {None}]
  /\ phase \in {"poll", "dispatch", "run"}
  /\ acceptEvents \in SUBSET Ports
  /\ revents \in [Clients -> SUBSET {"err", "in", "out"}]
  /\ current \in Clients \cup {None}
  /\ functors \in Seq(Response)
  /\ pendingFunctors \in Seq(Response)
  /\ sockfd \in [Clients -> Fds \cup {None}]
  /\ removed \in [Clients -> BOOLEAN]
  /\ wantsOut \in [Clients -> BOOLEAN]
  /\ outBuf \in [Clients -> Seq(Response)]
  /\ queued \in [Clients -> Seq(Response)]
  /\ connections \in SUBSET Clients
  /\ poolQueue \in Seq(Response)
  /\ running \in SUBSET Response
  /\ thrown \in SUBSET Response

\* The four places that know of a connection agree: it owns an open descriptor,
\* epoll reports that descriptor to its channel and to no other, TcpServer holds
\* it, and its channel is not marked removed.
FdOwnership ==
  /\ \A c \in Clients : Open(c) <=> c \in connections
  /\ \A c \in connections : ~removed[c] /\ fdClient[sockfd[c]] = c
  /\ \A f \in Fds : epoll[f] = fdClient[f]
  /\ \A f \in Fds : fdClient[f] # None => sockfd[fdClient[f]] = f

\* The events of a batch belong to connections that are still open: no handler
\* closes a connection whose own event comes later in the batch.
BatchIsLive == \A c \in Clients : revents[c] # {} => c \in connections

\* A client that is not accepted yet has no descriptor and has not been closed.
NotAcceptedYet ==
  \A c \in Clients :
    /\ c \in backlog => peer[c] # "away"
    /\ c \in backlog \/ peer[c] = "away" => sockfd[c] = None /\ ~removed[c]

\* The inductive invariant of descriptors and events.
ConnInv == TypeOK /\ FdOwnership /\ BatchIsLive /\ NotAcceptedYet

\* What is queued for a client is its own.
OwnQueued ==
  \A c \in Clients : \A i \in DOMAIN queued[c] : queued[c][i][1] = c

\* Whatever the kernel takes of the buffer at each write(), a client is sent what
\* was queued for it, in that order; closing loses only the end.
OutputFifo == \A c \in Clients : delivered[c] \o outBuf[c] = queued[c]

\* An open connection asks for EPOLLOUT exactly while it has output: otherwise it
\* would never send its output, or spin on a socket that is always writable and
\* take the write() of no bytes for the end of the connection.  It is so from
\* before the connection is accepted.
Interest == \A c \in Clients : ~removed[c] => (wantsOut[c] <=> outBuf[c] # <<>>)

\* The inductive invariant of the output.
OutputInv == OwnQueued /\ OutputFifo /\ Interest

\* No client is sent another client's response, although descriptors are reused
\* while responses for the connection that had them before are on their way.
NoCrossTalk ==
  \A c \in Clients : \A i \in DOMAIN delivered[c] : delivered[c][i][1] = c

\* Where a request can be, from its sending to its end.
Place == [unread   |-> {t \in Response : t[2] \in Range(rcv[t[1]])},
          waiting  |-> Range(poolQueue),
          running  |-> running,
          posted   |-> Range(pendingFunctors),
          swapped  |-> Range(functors),
          answered |-> {t \in Response : t \in Range(queued[t[1]])},
          thrown   |-> thrown]

\* A request is in one place at most, and once: not read yet, waiting in the pool,
\* in a worker, posted to the loop, swapped out by it, or answered; so it is
\* answered at most once.
AnsweredOnce ==
  LET place == Place
  IN  /\ \A s \in {poolQueue, pendingFunctors, functors} : IsInjective(s)
      /\ \A c \in Clients : IsInjective(rcv[c]) /\ IsInjective(queued[c])
      /\ \A p, q \in DOMAIN place : p # q => place[p] \cap place[q] = {}

\* No request is found anywhere before its client has sent it.
Numbered == \A p \in DOMAIN Place : \A t \in Place[p] : t[2] <= asked[t[1]]

\* The inductive invariant of requests.
AnswerInv == AnsweredOnce /\ Numbered

\* A closed connection stays closed, and takes and sends nothing any more.
ClosedIsFinal ==
  [][\A c \in Clients : Closed(c) =>
       /\ removed'[c] /\ sockfd'[c] = None
       /\ delivered'[c] = delivered[c] /\ queued'[c] = queued[c]]_vars

\* A request given to the pool is answered, unless its handler throws or its
\* connection ends first; provided the client goes on reading.
RequestIsAnswered ==
  \A t \in Response :
    []<>~full[t[1]] =>
      ((t \in Range(poolQueue)) ~>
         (t \in Range(delivered[t[1]]) \cup thrown \/ Closed(t[1])))

\* When its client has hung up, an accepted connection is closed and its
\* descriptor released, whatever output it still has and whoever else is served.
HangupIsClosed ==
  \A c \in Clients : (Open(c) /\ peer[c] \in {"fin", "rst"}) ~> Closed(c)

\* The management commands as benchmark.sh shows them, echo 'STATS' | nc -N: a
\* client that sends a command and ends its sending side gets the answer.
HalfCloseIsAnswered ==
  \A c \in Mgmt : Closed(c) /\ peer[c] = "fin" => outBuf[c] = <<>>
===============================================================================
