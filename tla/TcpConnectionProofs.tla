------------------------- MODULE TcpConnectionProofs --------------------------
(***************************************************************************)
(* Theorems about TcpConnection.tla, for any set of clients, of either     *)
(* port, any number of descriptors, of requests and of workers.  The       *)
(* argument starts from the ownership of descriptors: a handler only runs  *)
(* for an open connection, whose descriptor leads to its own client.       *)
(***************************************************************************)
EXTENDS TcpConnection, QueueLemmas, TLAPS

\* What every handler of a channel starts from.
LEMMA HandlerContext ==
  ASSUME ConnInv, NEW c \in Clients, NEW e, CanHandle(c, e)
  PROVE  /\ c \in connections
         /\ sockfd[c] \in Fds
         /\ fdClient[sockfd[c]] = c
         /\ epoll[sockfd[c]] = c
         /\ UpdateChannel(c) = epoll
<1>1. c \in connections
  BY DEF CanHandle, ConnInv, BatchIsLive
<1>2. /\ sockfd[c] # None /\ fdClient[sockfd[c]] = c
      /\ sockfd \in [Clients -> Fds \cup {None}]
      /\ epoll \in [Fds -> Clients \cup {None}]
      /\ \A f \in Fds : epoll[f] = fdClient[f]
  BY <1>1 DEF ConnInv, FdOwnership, Open, TypeOK
<1>3. sockfd[c] \in Fds
  BY <1>2
<1>4. epoll[sockfd[c]] = c
  BY <1>2, <1>3
<1>5. UpdateChannel(c) = epoll
  BY <1>2, <1>3, <1>4 DEF UpdateChannel
<1> QED BY <1>1, <1>2, <1>3, <1>4, <1>5

\* sendInLoop() changes what an open connection has to send, and nothing of a
\* closed one; the registration of the channel stays as it is.
LEMMA SendInLoopEffect ==
  ASSUME ConnInv, NEW c \in Clients, NEW r \in Response, SendInLoop(c, r)
  PROVE  /\ epoll' = epoll
         /\ \/ UNCHANGED <<outBuf, queued, wantsOut>>
            \/ /\ c \in connections
               /\ outBuf' = [outBuf EXCEPT ![c] = Append(@, r)]
               /\ queued' = [queued EXCEPT ![c] = Append(@, r)]
               /\ wantsOut' = [wantsOut EXCEPT ![c] = TRUE]
<1>1. CASE UNCHANGED <<outBuf, queued, wantsOut, epoll>>
  BY <1>1
<1>2. CASE /\ sockfd[c] # None
           /\ outBuf' = [outBuf EXCEPT ![c] = Append(@, r)]
           /\ queued' = [queued EXCEPT ![c] = Append(@, r)]
           /\ wantsOut' = [wantsOut EXCEPT ![c] = TRUE]
           /\ epoll' = UpdateChannel(c)
  <2>1. c \in connections
    BY <1>2 DEF ConnInv, FdOwnership, Open
  <2>2. sockfd[c] \in Fds
    BY <1>2 DEF ConnInv, TypeOK
  <2>3. /\ epoll[sockfd[c]] = c
        /\ epoll \in [Fds -> Clients \cup {None}]
    BY <2>1, <2>2 DEF ConnInv, FdOwnership, TypeOK
  <2>4. UpdateChannel(c) = epoll
    BY <2>2, <2>3 DEF UpdateChannel
  <2> QED BY <1>2, <2>1, <2>4
<1> QED BY <1>1, <1>2 DEF SendInLoop

-------------------------------------------------------------------------------
(* Type correctness.                                                       *)

LEMMA TypeInit == Init => TypeOK
<1> SUFFICES ASSUME Init PROVE TypeOK
  OBVIOUS
<1>1. <<>> \in Seq(Response) /\ <<>> \in Seq(Req)
  BY EmptySeq
<1>2. 0 \in 0..MaxReq
  BY ConnAssumption
<1> QED BY <1>1, <1>2 DEF Init, TypeOK

LEMMA TypeOfClients ==
  ASSUME TypeOK, NEW c \in Clients, Client(c)
  PROVE  TypeOK'
<1> USE DEF TypeOK
<1>1. CASE Connect(c)
  <2>1. /\ peer' = [peer EXCEPT ![c] = "open"]
        /\ backlog' = backlog \cup {c}
    BY <1>1 DEF Connect
  <2>2. /\ peer' \in [Clients -> {"away", "open", "fin", "rst"}]
        /\ backlog' \in SUBSET Clients
    BY <2>1
  <2>3. UNCHANGED <<asked, rcv, full, fdClient, epoll, delivered, batchVars,
                    pendingFunctors, connVars, poolVars>>
    BY <1>1 DEF Connect
  <2> QED BY <2>2, <2>3 DEF batchVars, connVars, poolVars
<1>2. CASE ClientSend(c)
  <2>1. asked[c] + 1 \in Req
    <3> HIDE DEF TypeOK
    <3>1. asked[c] \in 0..MaxReq /\ MaxReq \in Nat
      BY ConnAssumption DEF TypeOK
    <3>2. asked[c] < MaxReq
      BY <1>2 DEF ClientSend
    <3> QED BY <3>1, <3>2 DEF Req
  <2>2. asked' \in [Clients -> 0..MaxReq]
    <3>1. asked' = [asked EXCEPT ![c] = asked[c] + 1]
      BY <1>2 DEF ClientSend
    <3>2. asked[c] + 1 \in 0..MaxReq
      BY <2>1, ConnAssumption DEF Req
    <3> QED BY <3>1, <3>2
  <2>3. rcv' \in [Clients -> Seq(Req)]
    BY <1>2, <2>1, AppendProperties DEF ClientSend
  <2> QED BY <1>2, <2>2, <2>3 DEF ClientSend, batchVars, connVars, poolVars
<1>3. CASE ClientFin(c)
  BY <1>3 DEF ClientFin, kernelVars, batchVars, connVars, poolVars
<1>4. CASE ClientReset(c)
  BY <1>4 DEF ClientReset, kernelVars, batchVars, connVars, poolVars
<1>5. CASE ClientDrain(c)
  BY <1>5 DEF ClientDrain, clientVars, batchVars, connVars, poolVars
<1> QED BY <1>1, <1>2, <1>3, <1>4, <1>5 DEF Client

LEMMA TypeOfWorkers ==
  ASSUME TypeOK, Worker
  PROVE  TypeOK'
<1> USE DEF TypeOK
<1>1. CASE TaskStart
  BY <1>1, HeadTailProperties DEF TaskStart, clientVars, kernelVars, batchVars,
       connVars
<1>2. ASSUME NEW t \in running, TaskSends(t)
      PROVE  TypeOK'
  BY <1>2, AppendProperties DEF TaskSends, clientVars, kernelVars, batchVars,
       connVars
<1>3. ASSUME NEW t \in running, TaskThrows(t)
      PROVE  TypeOK'
  BY <1>3 DEF TaskThrows, clientVars, kernelVars, batchVars, connVars
<1> QED BY <1>1, <1>2, <1>3 DEF Worker

-------------------------------------------------------------------------------
(* Descriptors.  Accept and CloseConnection are the only steps that change *)
(* who owns what; of the others it is enough to know what they leave alone.*)

Ownership == <<fdClient, epoll, sockfd, removed, connections, backlog, peer>>

LEMMA FrameStep ==
  ASSUME ConnInv, TypeOK', UNCHANGED Ownership,
         \A c \in Clients : revents'[c] # {} => revents[c] # {} \/ c \in connections
  PROVE  ConnInv'
<1>1. FdOwnership'
  BY DEF ConnInv, FdOwnership, Ownership, Open
<1>2. BatchIsLive'
  BY DEF ConnInv, BatchIsLive, Ownership
<1>3. NotAcceptedYet'
  BY DEF ConnInv, NotAcceptedYet, Ownership
<1> QED BY <1>1, <1>2, <1>3 DEF ConnInv

LEMMA AcceptStep ==
  ASSUME ConnInv, NEW port \in Ports, Accept(port)
  PROVE  ConnInv'
<1>1. PICK c \in backlog, f \in Fds :
        /\ fdClient[f] = None
        /\ backlog' = backlog \ {c}
        /\ fdClient' = [fdClient EXCEPT ![f] = c]
        /\ epoll' = [epoll EXCEPT ![f] = c]
        /\ sockfd' = [sockfd EXCEPT ![c] = f]
        /\ connections' = connections \cup {c}
  BY DEF Accept
<1>2. /\ c \in Clients /\ c # None /\ f # None
      /\ sockfd[c] = None /\ ~removed[c] /\ c \notin connections
      /\ peer[c] # "away"
      /\ sockfd \in [Clients -> Fds \cup {None}]
      /\ fdClient \in [Fds -> Clients \cup {None}]
      /\ epoll \in [Fds -> Clients \cup {None}]
  BY <1>1, ConnAssumption DEF ConnInv, TypeOK, NotAcceptedYet, FdOwnership, Open
<1>3. /\ removed' = removed /\ revents' = revents /\ peer' = peer
  BY DEF Accept, clientVars
<1>4. TypeOK'
  BY <1>1, <1>2 DEF ConnInv, TypeOK, Accept, clientVars, poolVars
<1>5. FdOwnership'
  <2>1. \A d \in Clients : sockfd'[d] = IF d = c THEN f ELSE sockfd[d]
    BY <1>1, <1>2
  <2>2. \A g \in Fds : /\ fdClient'[g] = IF g = f THEN c ELSE fdClient[g]
                      /\ epoll'[g] = IF g = f THEN c ELSE epoll[g]
    BY <1>1, <1>2
  <2>3. \A d \in Clients : (sockfd'[d] # None) <=> d \in connections'
    BY <1>1, <1>2, <2>1 DEF ConnInv, FdOwnership, Open
  <2>4. \A d \in connections' : ~removed'[d] /\ fdClient'[sockfd'[d]] = d
    <3> TAKE d \in connections'
    <3>1. CASE d = c
      BY <1>2, <1>3, <2>1, <2>2, <3>1
    <3>2. CASE d # c
      <4>1. /\ d \in connections /\ d \in Clients
        BY <1>1, <3>2 DEF ConnInv, TypeOK
      <4>2. /\ ~removed[d] /\ fdClient[sockfd[d]] = d /\ sockfd[d] \in Fds
            /\ d # None
        BY <4>1, <1>2, ConnAssumption DEF ConnInv, FdOwnership, Open
      <4>3. sockfd[d] # f
        BY <1>1, <4>2
      <4> QED BY <1>3, <2>1, <2>2, <3>2, <4>1, <4>2, <4>3
    <3> QED BY <3>1, <3>2
  <2>5. \A g \in Fds : epoll'[g] = fdClient'[g]
    BY <2>2 DEF ConnInv, FdOwnership
  <2>6. \A g \in Fds : fdClient'[g] # None => sockfd'[fdClient'[g]] = g
    <3> TAKE g \in Fds
    <3>1. CASE g = f
      BY <1>2, <2>1, <2>2, <3>1
    <3>2. CASE g # f /\ fdClient[g] # None
      <4>1. fdClient[g] \in Clients /\ sockfd[fdClient[g]] = g
        BY <1>2, <3>2 DEF ConnInv, FdOwnership
      <4>2. fdClient[g] # c /\ g # None
        BY <1>2, <4>1, ConnAssumption
      <4> QED BY <2>1, <2>2, <3>2, <4>1, <4>2
    <3> QED BY <2>2, <3>1, <3>2
  <2> QED BY <2>3, <2>4, <2>5, <2>6 DEF FdOwnership, Open
<1>6. BatchIsLive'
  BY <1>1, <1>3 DEF ConnInv, BatchIsLive
<1>7. NotAcceptedYet'
  BY <1>1, <1>2, <1>3 DEF ConnInv, NotAcceptedYet
<1> QED BY <1>4, <1>5, <1>6, <1>7 DEF ConnInv

\* The handlers that end in handleClose().
Closes(c) ==
  /\ c \in connections
  /\ CloseConnection(c)
  /\ UNCHANGED <<clientVars, phase, acceptEvents, functors, pendingFunctors,
                 poolVars>>

LEMMA CloseStep ==
  ASSUME ConnInv, NEW c \in Clients, Closes(c)
  PROVE  ConnInv'
<1>1. /\ sockfd[c] \in Fds /\ fdClient[sockfd[c]] = c /\ c # None
      /\ sockfd[c] # None
      /\ sockfd \in [Clients -> Fds \cup {None}]
      /\ fdClient \in [Fds -> Clients \cup {None}]
      /\ epoll \in [Fds -> Clients \cup {None}]
      /\ removed \in [Clients -> BOOLEAN]
      /\ revents \in [Clients -> SUBSET {"err", "in", "out"}]
      /\ connections \subseteq Clients
  BY ConnAssumption DEF Closes, ConnInv, TypeOK, FdOwnership, Open
<1>2. /\ removed' = [removed EXCEPT ![c] = TRUE]
      /\ epoll' = [epoll EXCEPT ![sockfd[c]] = None]
      /\ connections' = connections \ {c}
      /\ fdClient' = [fdClient EXCEPT ![sockfd[c]] = None]
      /\ sockfd' = [sockfd EXCEPT ![c] = None]
      /\ revents' = [revents EXCEPT ![c] = {}]
      /\ backlog' = backlog /\ peer' = peer
  BY DEF Closes, CloseConnection, clientVars
<1>3. TypeOK'
  BY <1>1, <1>2 DEF Closes, CloseConnection, ConnInv, TypeOK, clientVars,
     poolVars
<1>4. FdOwnership'
  <2>1. \A d \in Clients : sockfd'[d] = IF d = c THEN None ELSE sockfd[d]
    BY <1>1, <1>2
  <2>2. \A g \in Fds :
          /\ fdClient'[g] = IF g = sockfd[c] THEN None ELSE fdClient[g]
          /\ epoll'[g] = IF g = sockfd[c] THEN None ELSE epoll[g]
    BY <1>1, <1>2
  <2>3. \A d \in Clients : (sockfd'[d] # None) <=> d \in connections'
    BY <1>2, <2>1 DEF ConnInv, FdOwnership, Open
  <2>4. \A d \in connections' : ~removed'[d] /\ fdClient'[sockfd'[d]] = d
    <3> TAKE d \in connections'
    <3>1. d \in connections /\ d \in Clients /\ d # c
      BY <1>1, <1>2
    <3>2. /\ ~removed[d] /\ fdClient[sockfd[d]] = d /\ sockfd[d] \in Fds
      BY <1>1, <3>1 DEF ConnInv, FdOwnership, Open
    <3>3. sockfd[d] # sockfd[c]
      BY <1>1, <3>1, <3>2
    <3> QED BY <1>1, <1>2, <2>1, <2>2, <3>1, <3>2, <3>3
  <2>5. \A g \in Fds : epoll'[g] = fdClient'[g]
    BY <2>2 DEF ConnInv, FdOwnership
  <2>6. \A g \in Fds : fdClient'[g] # None => sockfd'[fdClient'[g]] = g
    <3> SUFFICES ASSUME NEW g \in Fds, fdClient'[g] # None
                 PROVE  sockfd'[fdClient'[g]] = g
      OBVIOUS
    <3>1. g # sockfd[c] /\ fdClient'[g] = fdClient[g] /\ fdClient[g] # None
      BY <2>2
    <3>2. sockfd[fdClient[g]] = g /\ fdClient[g] \in Clients
      BY <1>1, <3>1 DEF ConnInv, FdOwnership
    <3>3. fdClient[g] # c
      BY <3>1, <3>2
    <3> QED BY <2>1, <3>1, <3>2, <3>3
  <2> QED BY <2>3, <2>4, <2>5, <2>6 DEF FdOwnership, Open
<1>5. BatchIsLive'
  BY <1>1, <1>2 DEF ConnInv, BatchIsLive
<1>6. NotAcceptedYet'
  BY <1>1, <1>2 DEF ConnInv, NotAcceptedYet
<1> QED BY <1>3, <1>4, <1>5, <1>6 DEF ConnInv

-------------------------------------------------------------------------------
(* The other steps of the loop thread.                                     *)

LEMMA HandledType ==
  ASSUME TypeOK, NEW c \in Clients, NEW e, Handled(c, e)
  PROVE  /\ revents' \in [Clients -> SUBSET {"err", "in", "out"}]
         /\ current' \in Clients \cup {None}
         /\ \A d \in Clients : revents'[d] # {} => revents[d] # {}
BY DEF TypeOK, Handled

LEMMA SendInLoopType ==
  ASSUME ConnInv, NEW c \in Clients, NEW r \in Response, SendInLoop(c, r)
  PROVE  /\ outBuf' \in [Clients -> Seq(Response)]
         /\ queued' \in [Clients -> Seq(Response)]
         /\ wantsOut' \in [Clients -> BOOLEAN]
         /\ epoll' = epoll
<1>1. /\ outBuf \in [Clients -> Seq(Response)]
      /\ queued \in [Clients -> Seq(Response)]
      /\ wantsOut \in [Clients -> BOOLEAN]
  BY DEF ConnInv, TypeOK
<1>2. /\ Append(outBuf[c], r) \in Seq(Response)
      /\ Append(queued[c], r) \in Seq(Response)
  BY <1>1, AppendProperties
<1>3. CASE UNCHANGED <<outBuf, queued, wantsOut>>
  BY <1>1, <1>3, SendInLoopEffect
<1>4. CASE /\ outBuf' = [outBuf EXCEPT ![c] = Append(@, r)]
           /\ queued' = [queued EXCEPT ![c] = Append(@, r)]
           /\ wantsOut' = [wantsOut EXCEPT ![c] = TRUE]
  <2>1. epoll' = epoll
    BY SendInLoopEffect
  <2> QED BY <1>1, <1>2, <1>4, <2>1
<1> QED BY <1>3, <1>4, SendInLoopEffect

LEMMA SuffixOfSeq ==
  ASSUME NEW S, NEW s \in Seq(S), NEW k \in 1..Len(s)
  PROVE  /\ SubSeq(s, 1, k) \in Seq(S)
         /\ SubSeq(s, k + 1, Len(s)) \in Seq(S)
         /\ SubSeq(s, 1, k) \o SubSeq(s, k + 1, Len(s)) = s
         /\ SubSeq(s, k + 1, Len(s)) = <<>> <=> k = Len(s)
<1>1. /\ Len(s) \in Nat /\ \A i \in 1..Len(s) : s[i] \in S
      /\ SubSeq(s, 1, Len(s)) = s
  BY LenProperties, ElementOfSeq, SubSeqFull
<1>2. /\ SubSeq(s, 1, k) \in Seq(S)
      /\ SubSeq(s, k + 1, Len(s)) \in Seq(S)
      /\ Len(SubSeq(s, k + 1, Len(s))) =
           IF k + 1 <= Len(s) THEN Len(s) - (k + 1) + 1 ELSE 0
  BY <1>1, SubSeqProperties
<1>3. SubSeq(s, 1, k) \o SubSeq(s, k + 1, Len(s)) = s
  <2>1. /\ 1 \in 1..(Len(s) + 1) /\ k \in 0..Len(s)
        /\ Len(s) \in k..Len(s)
    BY <1>1
  <2>2. SubSeq(s, 1, k) \o SubSeq(s, k + 1, Len(s)) = SubSeq(s, 1, Len(s))
    BY <2>1, ConcatAdjacentSubSeq
  <2>3. SubSeq(s, 1, Len(s)) = s
    BY <1>1
  <2> QED BY <2>2, <2>3
<1>4. SubSeq(s, k + 1, Len(s)) = <<>> <=> Len(SubSeq(s, k + 1, Len(s))) = 0
  BY <1>2, EmptySeq
<1>5. Len(SubSeq(s, k + 1, Len(s))) = 0 <=> k = Len(s)
  <2> DEFINE m == Len(s)
             n == Len(SubSeq(s, k + 1, Len(s)))
  <2>1. /\ m \in Nat /\ k \in 1..m
        /\ n = IF k + 1 <= m THEN m - (k + 1) + 1 ELSE 0
    BY <1>1, <1>2
  <2> HIDE DEF m, n
  <2>2. n = 0 <=> k = m
    BY <2>1
  <2> QED BY <2>2 DEF m, n
<1>6. SubSeq(s, k + 1, Len(s)) = <<>> <=> k = Len(s)
  BY <1>4, <1>5
<1>7. SubSeq(s, 1, k) \in Seq(S) /\ SubSeq(s, k + 1, Len(s)) \in Seq(S)
  BY <1>2
<1> QED BY <1>3, <1>6, <1>7

LEMMA EpollWaitStep == ConnInv /\ EpollWait => ConnInv'
<1> SUFFICES ASSUME ConnInv, EpollWait PROVE ConnInv'
  OBVIOUS
<1>1. ASSUME NEW c \in Clients
      PROVE  /\ Ready(c) \subseteq {"err", "in", "out"}
             /\ Ready(c) # {} => c \in connections
  BY DEF Ready, ConnInv, FdOwnership, Open
<1>2. TypeOK'
  <2>1. revents' \in [Clients -> SUBSET {"err", "in", "out"}]
    BY <1>1 DEF EpollWait
  <2>2. acceptEvents' \in SUBSET Ports
    BY DEF EpollWait, Port, Ports
  <2> QED BY <2>1, <2>2 DEF EpollWait, ConnInv, TypeOK, clientVars, kernelVars,
               connVars, poolVars
<1>3. \A c \in Clients : revents'[c] # {} => c \in connections
  BY <1>1 DEF EpollWait
<1> QED BY <1>2, <1>3, FrameStep
        DEF EpollWait, Ownership, clientVars, kernelVars, connVars

LEMMA ReadStep ==
  ASSUME ConnInv, NEW c \in Clients, EventReadData(c)
  PROVE  ConnInv'
<1>1. /\ c \in connections /\ fdClient[sockfd[c]] = c
  BY HandlerContext DEF EventReadData
<1>2. PICK k \in 1..Len(rcv[c]) : rcv' = [rcv EXCEPT ![c] = SubSeq(@, k + 1, Len(@))]
  BY <1>1 DEF EventReadData
<1>3. rcv \in [Clients -> Seq(Req)] /\ rcv[c] \in Seq(Req) /\ rcv[c] # <<>>
  BY <1>2, EmptySeq DEF ConnInv, TypeOK
<1>4. /\ rcv' \in [Clients -> Seq(Req)]
      /\ <<c, Head(rcv[c])>> \in Response
  BY <1>2, <1>3, SuffixOfSeq, HeadTailProperties DEF Response
<1>5. /\ outBuf' \in [Clients -> Seq(Response)]
      /\ queued' \in [Clients -> Seq(Response)]
      /\ wantsOut' \in [Clients -> BOOLEAN]
      /\ epoll' = epoll
      /\ poolQueue' \in Seq(Response)
  <2>1. CASE SendInLoop(c, <<c, Head(rcv[c])>>) /\ UNCHANGED poolQueue
    BY <1>4, <2>1, SendInLoopType DEF ConnInv, TypeOK
  <2>2. CASE /\ poolQueue' = Append(poolQueue, <<c, Head(rcv[c])>>)
             /\ UNCHANGED <<outBuf, queued, wantsOut, epoll>>
    BY <1>4, <2>2, AppendProperties DEF ConnInv, TypeOK
  <2> QED BY <1>1, <2>1, <2>2 DEF EventReadData
<1>6. /\ revents' \in [Clients -> SUBSET {"err", "in", "out"}]
      /\ current' \in Clients \cup {None}
      /\ \A d \in Clients : revents'[d] # {} => revents[d] # {}
  BY HandledType DEF EventReadData, ConnInv
<1>7. TypeOK'
  BY <1>4, <1>5, <1>6 DEF EventReadData, ConnInv, TypeOK, clientVars
<1> QED BY <1>5, <1>6, <1>7, FrameStep DEF EventReadData, Ownership, clientVars

\* What a write does, once the descriptor is known to be the client's own.
LEMMA WriteEffect ==
  ASSUME ConnInv, NEW c \in Clients, EventWrite(c)
  PROVE  \E k \in 1..Len(outBuf[c]) :
           /\ delivered' = [delivered EXCEPT ![c] = @ \o SubSeq(outBuf[c], 1, k)]
           /\ outBuf' = [outBuf EXCEPT ![c] = SubSeq(@, k + 1, Len(@))]
           /\ wantsOut' = [wantsOut EXCEPT ![c] = k < Len(outBuf[c])]
           /\ \E b \in BOOLEAN : full' = [full EXCEPT ![c] = b]
           /\ c \in connections /\ epoll' = epoll
BY HandlerContext DEF EventWrite

LEMMA WriteStep ==
  ASSUME ConnInv, NEW c \in Clients, EventWrite(c)
  PROVE  ConnInv'
<1>1. PICK k \in 1..Len(outBuf[c]) :
        /\ delivered' = [delivered EXCEPT ![c] = @ \o SubSeq(outBuf[c], 1, k)]
        /\ outBuf' = [outBuf EXCEPT ![c] = SubSeq(@, k + 1, Len(@))]
        /\ wantsOut' = [wantsOut EXCEPT ![c] = k < Len(outBuf[c])]
        /\ \E b \in BOOLEAN : full' = [full EXCEPT ![c] = b]
        /\ epoll' = epoll
  BY WriteEffect
<1>2. /\ outBuf \in [Clients -> Seq(Response)]
      /\ delivered \in [Clients -> Seq(Response)]
      /\ outBuf[c] \in Seq(Response) /\ delivered[c] \in Seq(Response)
  BY DEF ConnInv, TypeOK
<1>3. /\ SubSeq(outBuf[c], k + 1, Len(outBuf[c])) \in Seq(Response)
      /\ delivered[c] \o SubSeq(outBuf[c], 1, k) \in Seq(Response)
  BY <1>2, SuffixOfSeq, ConcatProperties
<1>4. /\ outBuf' \in [Clients -> Seq(Response)]
      /\ delivered' \in [Clients -> Seq(Response)]
  BY <1>1, <1>2, <1>3
<1>5. /\ wantsOut' \in [Clients -> BOOLEAN]
      /\ full' \in [Clients -> BOOLEAN]
  <2>1. /\ wantsOut \in [Clients -> BOOLEAN]
        /\ full \in [Clients -> BOOLEAN]
        /\ (k < Len(outBuf[c])) \in BOOLEAN
    BY DEF ConnInv, TypeOK
  <2> QED BY <1>1, <2>1, Zenon
<1>6. /\ revents' \in [Clients -> SUBSET {"err", "in", "out"}]
      /\ current' \in Clients \cup {None}
      /\ \A d \in Clients : revents'[d] # {} => revents[d] # {}
  BY HandledType DEF EventWrite, ConnInv
<1>7. TypeOK'
  <2>1. UNCHANGED <<peer, asked, backlog, rcv, fdClient, phase, acceptEvents,
                    functors, pendingFunctors, sockfd, removed, queued,
                    connections, poolQueue, running, thrown>>
    BY DEF EventWrite, clientVars, poolVars
  <2>2. epoll' = epoll
    BY <1>1
  <2> QED BY <1>4, <1>5, <1>6, <2>1, <2>2 DEF ConnInv, TypeOK
<1> QED BY <1>1, <1>6, <1>7, FrameStep DEF EventWrite, Ownership, clientVars

LEMMA RunFunctorStep == ConnInv /\ RunFunctor => ConnInv'
<1> SUFFICES ASSUME ConnInv, RunFunctor PROVE ConnInv'
  OBVIOUS
<1>1. /\ functors \in Seq(Response) /\ functors # <<>>
      /\ Head(functors) \in Response /\ Tail(functors) \in Seq(Response)
  BY HeadTailProperties DEF RunFunctor, ConnInv, TypeOK
<1>2. Head(functors)[1] \in Clients
  BY <1>1 DEF Response
<1>3. /\ outBuf' \in [Clients -> Seq(Response)]
      /\ queued' \in [Clients -> Seq(Response)]
      /\ wantsOut' \in [Clients -> BOOLEAN]
      /\ epoll' = epoll
  BY <1>1, <1>2, SendInLoopType DEF RunFunctor
<1>4. TypeOK'
  BY <1>1, <1>3 DEF RunFunctor, ConnInv, TypeOK, clientVars, poolVars
<1> QED BY <1>3, <1>4, FrameStep DEF RunFunctor, Ownership, clientVars

-------------------------------------------------------------------------------
(* The invariant of the descriptors.                                       *)

LEMMA ConnInvInit == Init => ConnInv
<1> SUFFICES ASSUME Init PROVE ConnInv
  OBVIOUS
<1>1. TypeOK
  BY TypeInit
<1>2. FdOwnership /\ BatchIsLive /\ NotAcceptedYet
  BY DEF Init, FdOwnership, BatchIsLive, NotAcceptedYet, Open
<1> QED BY <1>1, <1>2 DEF ConnInv

LEMMA ClientStep ==
  ASSUME ConnInv, NEW c \in Clients, Client(c)
  PROVE  ConnInv'
<1>1. TypeOK'
  BY TypeOfClients DEF ConnInv
<1>2. /\ UNCHANGED <<fdClient, epoll, sockfd, removed, connections, revents>>
      /\ \A d \in Clients : /\ d \in backlog' => peer'[d] # "away"
                            /\ d \in backlog' \/ peer'[d] = "away" =>
                                 d \in backlog \/ peer[d] = "away"
  <2>1. /\ peer \in [Clients -> {"away", "open", "fin", "rst"}]
        /\ \A d \in Clients : d \in backlog => peer[d] # "away"
    BY DEF ConnInv, NotAcceptedYet, TypeOK
  <2> QED BY <2>1 DEF Client, Connect, ClientSend, ClientFin, ClientReset,
               ClientDrain, kernelVars, batchVars, connVars, clientVars
<1>3. FdOwnership'
  BY <1>2 DEF ConnInv, FdOwnership, Open
<1>4. BatchIsLive'
  BY <1>2 DEF ConnInv, BatchIsLive
<1>5. NotAcceptedYet'
  BY <1>2 DEF ConnInv, NotAcceptedYet
<1> QED BY <1>1, <1>3, <1>4, <1>5 DEF ConnInv

LEMMA ConnInvStep == ConnInv /\ [Next]_vars => ConnInv'
<1> SUFFICES ASSUME ConnInv, [Next]_vars PROVE ConnInv'
  OBVIOUS
<1>1. ASSUME NEW port \in Ports, Accept(port) PROVE ConnInv'
  BY <1>1, AcceptStep
<1>2. ASSUME NEW port \in Ports, AcceptFails(port) PROVE ConnInv'
  <2>1. TypeOK'
    BY <1>2 DEF AcceptFails, ConnInv, TypeOK, clientVars, kernelVars, connVars,
         poolVars
  <2> QED BY <1>2, <2>1, FrameStep
          DEF AcceptFails, Ownership, clientVars, kernelVars, connVars
<1>3. ASSUME NEW c \in Clients,
             EventClose(c) \/ EventReadEnd(c) \/ EventWriteFails(c)
      PROVE  ConnInv'
  <2>1. Closes(c)
    BY <1>3, HandlerContext DEF EventClose, EventReadEnd, EventWriteFails, Closes
  <2> QED BY <2>1, CloseStep
<1>4. ASSUME NEW c \in Clients, EventReadData(c) PROVE ConnInv'
  BY <1>4, ReadStep
<1>5. ASSUME NEW c \in Clients, EventWrite(c) PROVE ConnInv'
  BY <1>5, WriteStep
<1>6. CASE EpollWait
  BY <1>6, EpollWaitStep
<1>7. CASE EndBatch
  <2>1. TypeOK'
    BY <1>7, EmptySeq DEF EndBatch, ConnInv, TypeOK, clientVars, kernelVars,
         connVars, poolVars
  <2> QED BY <1>7, <2>1, FrameStep
          DEF EndBatch, Ownership, clientVars, kernelVars, connVars
<1>8. CASE RunFunctor
  BY <1>8, RunFunctorStep
<1>9. CASE RunDone
  <2>1. TypeOK'
    BY <1>9 DEF RunDone, ConnInv, TypeOK, clientVars, kernelVars, connVars,
         poolVars
  <2> QED BY <1>9, <2>1, FrameStep
          DEF RunDone, Ownership, clientVars, kernelVars, connVars
<1>10. CASE Worker
  <2>1. TypeOK'
    BY <1>10, TypeOfWorkers DEF ConnInv
  <2> QED BY <1>10, <2>1, FrameStep
          DEF Worker, TaskStart, TaskSends, TaskThrows, Ownership, clientVars,
              kernelVars, batchVars, connVars
<1>11. ASSUME NEW c \in Clients, Client(c) PROVE ConnInv'
  BY <1>11, ClientStep
<1>12. CASE UNCHANGED vars
  <2>1. TypeOK'
    BY <1>12 DEF vars, ConnInv, TypeOK, clientVars, kernelVars, batchVars,
         connVars, poolVars
  <2> QED BY <1>12, <2>1, FrameStep
          DEF vars, Ownership, clientVars, kernelVars, batchVars, connVars
<1> QED
  BY <1>1, <1>2, <1>3, <1>4, <1>5, <1>6, <1>7, <1>8, <1>9, <1>10, <1>11, <1>12
     DEF Next, LoopThread

\* For any clients, descriptors, requests and workers: the kernel, epoll, TcpServer
\* and the channels agree on who owns which descriptor, and no event waits in a
\* batch for a connection that has been closed.
THEOREM ConnInvariant == Spec => []ConnInv
BY ConnInvInit, ConnInvStep, PTL DEF Spec

\* TypeOK holds throughout.
THEOREM TypeCorrect == Spec => []TypeOK
<1>1. ConnInv => TypeOK
  BY DEF ConnInv
<1> QED BY <1>1, ConnInvariant, PTL

\* The descriptor, the epoll set, TcpServer's map and the channel agree on which
\* connections are open and whose descriptor is whose.
THEOREM DescriptorsAreOwned == Spec => []FdOwnership
<1>1. ConnInv => FdOwnership
  BY DEF ConnInv
<1> QED BY <1>1, ConnInvariant, PTL

\* No event waits in a batch for a connection that has been closed.
THEOREM NoStaleEvent == Spec => []BatchIsLive
<1>1. ConnInv => BatchIsLive
  BY DEF ConnInv
<1> QED BY <1>1, ConnInvariant, PTL

-------------------------------------------------------------------------------
(* Output.  What a step may do to it is said once, in OutputSteps.         *)

OutputUnchanged == UNCHANGED <<delivered, outBuf, queued, wantsOut>>

Queues(c, r) ==
  /\ c \in connections /\ r[1] = c
  /\ outBuf' = [outBuf EXCEPT ![c] = Append(@, r)]
  /\ queued' = [queued EXCEPT ![c] = Append(@, r)]
  /\ wantsOut' = [wantsOut EXCEPT ![c] = TRUE]
  /\ UNCHANGED delivered

Writes(c, k) ==
  /\ c \in connections
  /\ delivered' = [delivered EXCEPT ![c] = @ \o SubSeq(outBuf[c], 1, k)]
  /\ outBuf' = [outBuf EXCEPT ![c] = SubSeq(@, k + 1, Len(@))]
  /\ wantsOut' = [wantsOut EXCEPT ![c] = k < Len(outBuf[c])]
  /\ UNCHANGED queued

LEMMA OutputSteps ==
  ASSUME ConnInv, [Next]_vars
  PROVE  \/ OutputUnchanged
         \/ \E c \in Clients, r \in Response : Queues(c, r)
         \/ \E c \in Clients : \E k \in 1..Len(outBuf[c]) : Writes(c, k)
<1>1. ASSUME NEW c \in Clients, EventReadData(c)
      PROVE  OutputUnchanged \/ \E r \in Response : Queues(c, r)
  <2>1. fdClient[sockfd[c]] = c
    BY <1>1, HandlerContext DEF EventReadData
  <2>2. PICK k \in 1..Len(rcv[c]) : TRUE
    BY <1>1, <2>1 DEF EventReadData
  <2>3. rcv[c] \in Seq(Req) /\ rcv[c] # <<>>
    BY <2>2, EmptySeq DEF ConnInv, TypeOK
  <2>4. <<c, Head(rcv[c])>> \in Response
    BY <2>3, HeadTailProperties DEF Response
  <2>5. delivered' = delivered
    BY <1>1 DEF EventReadData
  <2>6. CASE SendInLoop(c, <<c, Head(rcv[c])>>)
    BY <2>4, <2>5, <2>6, SendInLoopEffect DEF OutputUnchanged, Queues
  <2>7. CASE UNCHANGED <<outBuf, queued, wantsOut, epoll>>
    BY <2>5, <2>7 DEF OutputUnchanged
  <2> QED BY <1>1, <2>1, <2>6, <2>7 DEF EventReadData
<1>2. ASSUME RunFunctor
      PROVE  OutputUnchanged \/ \E c \in Clients, r \in Response : Queues(c, r)
  <2>1. Head(functors) \in Response
    BY <1>2, HeadTailProperties DEF RunFunctor, ConnInv, TypeOK
  <2>2. Head(functors)[1] \in Clients
    BY <2>1 DEF Response
  <2> QED BY <1>2, <2>1, <2>2, SendInLoopEffect
          DEF RunFunctor, OutputUnchanged, Queues
<1>3. ASSUME NEW c \in Clients, EventWrite(c)
      PROVE  \E k \in 1..Len(outBuf[c]) : Writes(c, k)
  <2>1. queued' = queued
    BY <1>3 DEF EventWrite
  <2> QED BY <1>3, <2>1, WriteEffect DEF Writes
<1>4. ASSUME NEW c \in Clients,
             EventClose(c) \/ EventReadEnd(c) \/ EventWriteFails(c)
      PROVE  OutputUnchanged
  BY <1>4 DEF EventClose, EventReadEnd, EventWriteFails, CloseConnection,
       OutputUnchanged
<1>5. ASSUME NEW port \in Ports, Accept(port) \/ AcceptFails(port)
      PROVE  OutputUnchanged
  BY <1>5 DEF Accept, AcceptFails, OutputUnchanged, kernelVars, connVars
<1>6. ASSUME EpollWait \/ EndBatch \/ RunDone \/ Worker \/ UNCHANGED vars
      PROVE  OutputUnchanged
  BY <1>6 DEF EpollWait, EndBatch, RunDone, Worker, TaskStart, TaskSends,
       TaskThrows, vars, kernelVars, connVars, OutputUnchanged
<1>7. ASSUME NEW c \in Clients, Client(c)
      PROVE  OutputUnchanged
  BY <1>7 DEF Client, Connect, ClientSend, ClientFin, ClientReset, ClientDrain,
       kernelVars, connVars, OutputUnchanged
<1> QED BY <1>1, <1>2, <1>3, <1>4, <1>5, <1>6, <1>7 DEF Next, LoopThread

\* A closed connection stays closed, and gets no descriptor again.
LEMMA RemovedStep ==
  ASSUME ConnInv, [Next]_vars, NEW c \in Clients, removed[c]
  PROVE  removed'[c] /\ sockfd[c] = None /\ sockfd'[c] = None /\ c \notin connections
<1>1. /\ sockfd[c] = None /\ c \notin connections /\ c \notin backlog
      /\ sockfd \in [Clients -> Fds \cup {None}]
      /\ removed \in [Clients -> BOOLEAN]
  BY DEF ConnInv, FdOwnership, NotAcceptedYet, Open, TypeOK
<1>2. ASSUME NEW port \in Ports, Accept(port)
      PROVE  removed'[c] /\ sockfd'[c] = None
  BY <1>1, <1>2 DEF Accept
<1>3. ASSUME NEW d \in Clients,
             EventClose(d) \/ EventReadEnd(d) \/ EventWriteFails(d)
      PROVE  removed'[c] /\ sockfd'[c] = None
  <2>1. CloseConnection(d)
    BY <1>3 DEF EventClose, EventReadEnd, EventWriteFails
  <2> QED BY <1>1, <2>1 DEF CloseConnection
<1>4. CASE UNCHANGED <<sockfd, removed>>
  BY <1>1, <1>4
<1>5. \/ \E port \in Ports : Accept(port)
      \/ \E d \in Clients : EventClose(d) \/ EventReadEnd(d) \/ EventWriteFails(d)
      \/ UNCHANGED <<sockfd, removed>>
  <2>1. CASE LoopThread
    BY <2>1 DEF LoopThread, AcceptFails, EpollWait, EventReadData, EventWrite, EndBatch,
         RunFunctor, RunDone, connVars
  <2>2. CASE Worker
    BY <2>2 DEF Worker, TaskStart, TaskSends, TaskThrows, connVars
  <2>3. ASSUME NEW d \in Clients, Client(d)
        PROVE  UNCHANGED <<sockfd, removed>>
    BY <2>3 DEF Client, Connect, ClientSend, ClientFin, ClientReset, ClientDrain, connVars
  <2>4. CASE UNCHANGED vars
    BY <2>4 DEF vars, connVars
  <2> QED BY <2>1, <2>2, <2>3, <2>4 DEF Next
<1> QED BY <1>1, <1>2, <1>3, <1>4, <1>5

\* After handleClose() nothing is taken for the connection or sent to it, and it
\* is not opened again.
THEOREM ClosingIsFinal == Spec => ClosedIsFinal
<1>1. ASSUME ConnInv, [Next]_vars, NEW c \in Clients, Closed(c)
      PROVE  /\ removed'[c] /\ sockfd'[c] = None
             /\ delivered'[c] = delivered[c] /\ queued'[c] = queued[c]
  <2>1. /\ removed'[c] /\ sockfd'[c] = None /\ c \notin connections
    BY <1>1, RemovedStep DEF Closed
  <2>2. /\ delivered \in [Clients -> Seq(Response)]
        /\ queued \in [Clients -> Seq(Response)]
    BY <1>1 DEF ConnInv, TypeOK
  <2>3. delivered'[c] = delivered[c] /\ queued'[c] = queued[c]
    BY <1>1, <2>1, <2>2, OutputSteps DEF OutputUnchanged, Queues, Writes
  <2> QED BY <2>1, <2>3
<1>2. ConnInv /\ [Next]_vars =>
        [\A c \in Clients : Closed(c) =>
           /\ removed'[c] /\ sockfd'[c] = None
           /\ delivered'[c] = delivered[c] /\ queued'[c] = queued[c]]_vars
  BY <1>1
<1> QED BY <1>2, ConnInvariant, PTL DEF Spec, ClosedIsFinal

LEMMA OutputTypes ==
  ASSUME ConnInv, NEW c \in Clients
  PROVE  /\ outBuf \in [Clients -> Seq(Response)]
         /\ delivered \in [Clients -> Seq(Response)]
         /\ queued \in [Clients -> Seq(Response)]
         /\ wantsOut \in [Clients -> BOOLEAN]
         /\ outBuf[c] \in Seq(Response) /\ delivered[c] \in Seq(Response)
         /\ queued[c] \in Seq(Response)
BY DEF ConnInv, TypeOK

LEMMA QueuesStep ==
  ASSUME ConnInv, OutputInv, [Next]_vars,
         NEW c \in Clients, NEW r \in Response, Queues(c, r)
  PROVE  OutputInv'
<1>0. /\ outBuf[c] \in Seq(Response) /\ delivered[c] \in Seq(Response)
      /\ queued[c] \in Seq(Response)
  BY OutputTypes
<1>1. /\ \A d \in Clients : outBuf'[d] = IF d = c THEN Append(outBuf[c], r)
                                         ELSE outBuf[d]
      /\ \A d \in Clients : queued'[d] = IF d = c THEN Append(queued[c], r)
                                         ELSE queued[d]
      /\ \A d \in Clients : wantsOut'[d] = IF d = c THEN TRUE ELSE wantsOut[d]
      /\ delivered' = delivered /\ r[1] = c
  BY OutputTypes DEF Queues
<1>2. OwnQueued'
  <2> SUFFICES ASSUME NEW d \in Clients, NEW i \in DOMAIN queued'[d]
               PROVE  queued'[d][i][1] = d
    BY DEF OwnQueued
  <2>1. CASE d = c
    <3>1. i \in DOMAIN Append(queued[c], r) /\ queued'[d][i] = Append(queued[c], r)[i]
      BY <1>1, <2>1
    <3>2. \/ i \in DOMAIN queued[c] /\ queued'[d][i] = queued[c][i]
          \/ queued'[d][i] = r
      BY <1>0, <3>1, ElementOfAppend
    <3> QED BY <1>1, <2>1, <3>2 DEF OutputInv, OwnQueued
  <2>2. CASE d # c
    BY <1>1, <2>2 DEF OutputInv, OwnQueued
  <2> QED BY <2>1, <2>2
<1>3. OutputFifo'
  <2> SUFFICES ASSUME NEW d \in Clients
               PROVE  delivered'[d] \o outBuf'[d] = queued'[d]
    BY DEF OutputFifo
  <2>1. delivered[d] \o outBuf[d] = queued[d]
    BY DEF OutputInv, OutputFifo
  <2>2. CASE d = c
    <3>1. delivered[c] \o Append(outBuf[c], r) = Append(delivered[c] \o outBuf[c], r)
      <4>1. \A h, q \in Seq(Response) : h \o Append(q, r) = Append(h \o q, r)
        BY EnqueueMoves
      <4> QED BY <1>0, <4>1, Zenon
    <3> QED BY <1>1, <2>1, <2>2, <3>1
  <2>3. CASE d # c
    BY <1>1, <2>1, <2>3
  <2> QED BY <2>2, <2>3
<1>4. Interest'
  <2> SUFFICES ASSUME NEW d \in Clients, ~removed'[d]
               PROVE  wantsOut'[d] <=> outBuf'[d] # <<>>
    BY DEF Interest
  <2>1. ~removed[d]
    BY RemovedStep
  <2>2. Append(outBuf[c], r) # <<>>
    BY <1>0, AppendProperties
  <2> QED BY <1>1, <2>1, <2>2 DEF OutputInv, Interest
<1> QED BY <1>2, <1>3, <1>4 DEF OutputInv

LEMMA WritesStep ==
  ASSUME ConnInv, OutputInv, [Next]_vars,
         NEW c \in Clients, NEW k \in 1..Len(outBuf[c]), Writes(c, k)
  PROVE  OutputInv'
<1> DEFINE sent == SubSeq(outBuf[c], 1, k)
           left == SubSeq(outBuf[c], k + 1, Len(outBuf[c]))
<1>0. outBuf[c] \in Seq(Response) /\ delivered[c] \in Seq(Response)
  BY OutputTypes
<1>1. /\ sent \in Seq(Response) /\ left \in Seq(Response)
      /\ sent \o left = outBuf[c]
      /\ left = <<>> <=> k = Len(outBuf[c])
      /\ Len(outBuf[c]) \in Nat
  BY <1>0, SuffixOfSeq, LenProperties
<1>2. /\ \A d \in Clients : outBuf'[d] = IF d = c THEN left ELSE outBuf[d]
      /\ \A d \in Clients : delivered'[d] = IF d = c THEN delivered[c] \o sent
                                            ELSE delivered[d]
      /\ \A d \in Clients : d # c => wantsOut'[d] = wantsOut[d]
      /\ wantsOut'[c] = (k < Len(outBuf[c]))
      /\ queued' = queued
  BY OutputTypes DEF Writes
<1> HIDE DEF sent, left
<1>3. OwnQueued'
  BY <1>2 DEF OutputInv, OwnQueued
<1>4. OutputFifo'
  <2> SUFFICES ASSUME NEW d \in Clients
               PROVE  delivered'[d] \o outBuf'[d] = queued'[d]
    BY DEF OutputFifo
  <2>1. delivered[d] \o outBuf[d] = queued[d]
    BY DEF OutputInv, OutputFifo
  <2>2. CASE d = c
    <3>1. (delivered[c] \o sent) \o left = delivered[c] \o (sent \o left)
      <4>1. \A q, r, t \in Seq(Response) : (q \o r) \o t = q \o (r \o t)
        BY ConcatAssociative
      <4> QED BY <1>0, <1>1, <4>1, Zenon
    <3> QED BY <1>1, <1>2, <2>1, <2>2, <3>1
  <2>3. CASE d # c
    BY <1>2, <2>1, <2>3
  <2> QED BY <2>2, <2>3
<1>5. Interest'
  <2> SUFFICES ASSUME NEW d \in Clients, ~removed'[d]
               PROVE  wantsOut'[d] <=> outBuf'[d] # <<>>
    BY DEF Interest
  <2>1. ~removed[d]
    BY RemovedStep
  <2>2. k < Len(outBuf[c]) <=> left # <<>>
    BY <1>1
  <2> QED BY <1>2, <2>1, <2>2 DEF OutputInv, Interest
<1> QED BY <1>3, <1>4, <1>5 DEF OutputInv

\* Together with ConnInv: what is queued for a client is its own, is sent to it in
\* that order, and EPOLLOUT is asked for exactly while some of it is left.
THEOREM OutputInvariant == Spec => [](ConnInv /\ OutputInv)
<1>1. Init => OutputInv
  <2>1. <<>> \o <<>> = <<>>
    BY EmptySeq, ConcatEmptySeq
  <2> QED BY <2>1 DEF Init, OutputInv, OwnQueued, OutputFifo, Interest
<1>2. ASSUME ConnInv, OutputInv, [Next]_vars, OutputUnchanged
      PROVE  OutputInv'
  <2>1. OwnQueued' /\ OutputFifo'
    BY <1>2 DEF OutputInv, OwnQueued, OutputFifo, OutputUnchanged
  <2>2. Interest'
    <3> SUFFICES ASSUME NEW d \in Clients, ~removed'[d]
                 PROVE  wantsOut'[d] <=> outBuf'[d] # <<>>
      BY DEF Interest
    <3>1. ~removed[d]
      BY <1>2, RemovedStep
    <3> QED BY <1>2, <3>1 DEF OutputInv, Interest, OutputUnchanged
  <2> QED BY <2>1, <2>2 DEF OutputInv
<1>3. ConnInv /\ OutputInv /\ [Next]_vars => OutputInv'
  BY <1>2, QueuesStep, WritesStep, OutputSteps
<1> QED BY <1>1, <1>3, ConnInvariant, PTL DEF Spec

\* A client is sent what was queued for it, in that order; closing loses only the
\* end.
THEOREM OutputIsFifo == Spec => []OutputFifo
<1>1. OutputInv => OutputFifo
  BY DEF OutputInv
<1> QED BY <1>1, OutputInvariant, PTL

\* Reused descriptors notwithstanding, a client is only sent its own responses:
\* they are its own when they are queued, and the queue is all it is sent.
THEOREM NoResponseStrays == Spec => []NoCrossTalk
<1>1. ASSUME ConnInv, OutputInv,
             NEW c \in Clients, NEW i \in DOMAIN delivered[c]
      PROVE  delivered[c][i][1] = c
  <2>1. /\ delivered[c] \o outBuf[c] = queued[c]
        /\ delivered[c] \in Seq(Response) /\ outBuf[c] \in Seq(Response)
    BY <1>1, OutputTypes DEF OutputInv, OutputFifo
  <2>2. i \in DOMAIN (delivered[c] \o outBuf[c])
        /\ (delivered[c] \o outBuf[c])[i] = delivered[c][i]
    BY <2>1, ElementOfPrefix
  <2> QED BY <1>1, <2>1, <2>2 DEF OutputInv, OwnQueued
<1>2. ConnInv /\ OutputInv => NoCrossTalk
  BY <1>1 DEF NoCrossTalk
<1> QED BY <1>2, OutputInvariant, PTL

-------------------------------------------------------------------------------
(* Requests.  Every step that changes where requests are takes one request *)
(* from where it was to at most one other place, except EndBatch, which    *)
(* moves all that are posted.                                              *)

Places == {"unread", "waiting", "running", "posted", "swapped", "answered",
           "thrown"}

\* The queues a request passes are without repetitions.
NoRepeats ==
  /\ IsInjective(poolQueue) /\ IsInjective(pendingFunctors)
  /\ IsInjective(functors)
  /\ \A c \in Clients : IsInjective(rcv[c]) /\ IsInjective(queued[c])

Apart == \A p, q \in Places : p # q => Place[p] \cap Place[q] = {}

LEMMA AnswerInvParts ==
  /\ DOMAIN Place = Places
  /\ AnswerInv <=> /\ NoRepeats /\ Apart
                   /\ \A p \in Places : \A t \in Place[p] : t[2] <= asked[t[1]]
<1>1. DOMAIN Place = Places
  BY DEF Place, Places
<1>2. AnsweredOnce <=> NoRepeats /\ Apart
  BY <1>1 DEF AnsweredOnce, NoRepeats, Apart
<1> QED BY <1>1, <1>2 DEF AnswerInv, Numbered

\* Request t goes to place y, or nowhere; no other request appears anywhere.
Moves(t, y) ==
  /\ \A p \in Places : Place'[p] \subseteq Place[p] \cup {t}
  /\ \A p \in Places \ {y} : t \notin Place'[p]

\* Moving a request of which the number is known to have been given.
LEMMA MoveStep ==
  ASSUME AnswerInv, NEW t \in Response, NEW y \in Places, Moves(t, y),
         NoRepeats', t[2] <= asked'[t[1]],
         \A c \in Clients : asked[c] <= asked'[c],
         asked \in [Clients -> Nat], asked' \in [Clients -> Nat],
         \A p \in Places : Place[p] \subseteq Response
  PROVE  AnswerInv'
<1>1. Apart'
  <2> SUFFICES ASSUME NEW p \in Places, NEW q \in Places, p # q
               PROVE  Place'[p] \cap Place'[q] = {}
    BY DEF Apart
  <2>1. Place[p] \cap Place[q] = {}
    BY AnswerInvParts DEF Apart
  <2>2. t \notin Place'[p] \/ t \notin Place'[q]
    BY DEF Moves
  <2> QED BY <2>1, <2>2 DEF Moves
<1>2. ASSUME NEW p \in Places, NEW u \in Place'[p]
      PROVE  u[2] <= asked'[u[1]]
  <2>1. CASE u = t
    BY <2>1
  <2>2. CASE u # t
    <3>1. u \in Place[p] /\ u \in Response
      BY <2>2 DEF Moves
    <3>2. u[1] \in Clients /\ u[2] \in Nat /\ u[2] <= asked[u[1]]
      BY <3>1, AnswerInvParts DEF Response, Req
    <3> QED BY <3>2
  <2> QED BY <2>1, <2>2
<1>3. DOMAIN Place' = Places
  BY DEF Place, Places
<1>4. AnsweredOnce' /\ Numbered'
  BY <1>1, <1>2, <1>3 DEF AnsweredOnce, Numbered, NoRepeats, Apart
<1> QED BY <1>4 DEF AnswerInv

\* The places of a state, one by one.
LEMMA PlaceIs ==
  /\ Place["unread"] = {t \in Response : t[2] \in Range(rcv[t[1]])}
  /\ Place["waiting"] = Range(poolQueue)
  /\ Place["running"] = running
  /\ Place["posted"] = Range(pendingFunctors)
  /\ Place["swapped"] = Range(functors)
  /\ Place["answered"] = {t \in Response : t \in Range(queued[t[1]])}
  /\ Place["thrown"] = thrown
BY DEF Place

LEMMA PlaceBecomes ==
  /\ Place'["unread"] = {t \in Response : t[2] \in Range(rcv'[t[1]])}
  /\ Place'["waiting"] = Range(poolQueue')
  /\ Place'["running"] = running'
  /\ Place'["posted"] = Range(pendingFunctors')
  /\ Place'["swapped"] = Range(functors')
  /\ Place'["answered"] = {t \in Response : t \in Range(queued'[t[1]])}
  /\ Place'["thrown"] = thrown'
BY DEF Place

\* Types of what the places are made of.
LEMMA PlaceTypes ==
  ASSUME ConnInv
  PROVE  /\ poolQueue \in Seq(Response) /\ pendingFunctors \in Seq(Response)
         /\ functors \in Seq(Response)
         /\ rcv \in [Clients -> Seq(Req)] /\ queued \in [Clients -> Seq(Response)]
         /\ asked \in [Clients -> Nat]
         /\ \A p \in Places : Place[p] \subseteq Response
<1>1. /\ poolQueue \in Seq(Response) /\ pendingFunctors \in Seq(Response)
      /\ functors \in Seq(Response)
      /\ rcv \in [Clients -> Seq(Req)] /\ queued \in [Clients -> Seq(Response)]
      /\ asked \in [Clients -> Nat]
      /\ running \subseteq Response /\ thrown \subseteq Response
  BY DEF ConnInv, TypeOK
<1>2. \A s \in Seq(Response) : Range(s) \subseteq Response
  BY DEF Range
<1>3. \A p \in Places : Place[p] \subseteq Response
  BY <1>1, <1>2, PlaceIs DEF Places
<1> QED BY <1>1, <1>3

\* A request that leaves place x for place y.
LEMMA Relocation ==
  ASSUME ConnInv, AnswerInv, asked' = asked, NoRepeats',
         NEW x \in Places, NEW y \in Places, x # y, NEW t \in Place[x],
         Place'[x] \subseteq Place[x] \ {t},
         Place'[y] \subseteq Place[y] \cup {t},
         \A p \in Places \ {x, y} : Place'[p] \subseteq Place[p]
  PROVE  AnswerInv'
<1>1. /\ asked \in [Clients -> Nat] /\ asked' \in [Clients -> Nat]
      /\ \A p \in Places : Place[p] \subseteq Response
      /\ t \in Response
  BY PlaceTypes
<1>2. \A p \in Places \ {x} : t \notin Place[p]
  BY AnswerInvParts DEF Apart
<1>3. Moves(t, y)
  BY <1>2 DEF Moves
<1>4. t[2] <= asked'[t[1]]
  BY AnswerInvParts
<1>5. \A c \in Clients : asked[c] <= asked'[c]
  BY <1>1
<1> QED BY <1>1, <1>3, <1>4, <1>5, MoveStep

\* The client sends a request with a number it has not used.
LEMMA SendPlaces ==
  ASSUME ConnInv, AnswerInv, NEW c \in Clients, ClientSend(c)
  PROVE  AnswerInv'
<1> DEFINE n == asked[c] + 1
           t == <<c, n>>
<1>1. /\ asked \in [Clients -> Nat] /\ asked[c] < MaxReq /\ MaxReq \in Nat
      /\ asked' = [asked EXCEPT ![c] = n]
      /\ rcv \in [Clients -> Seq(Req)] /\ rcv' = [rcv EXCEPT ![c] = Append(@, n)]
      /\ rcv[c] \in Seq(Req)
      /\ \A p \in Places : Place[p] \subseteq Response
  BY PlaceTypes, ConnAssumption DEF ClientSend
<1>2. UNCHANGED <<poolQueue, running, pendingFunctors, functors, queued, thrown>>
  BY DEF ClientSend, batchVars, connVars, poolVars
<1>3. n \in Req /\ t \in Response /\ t[1] = c /\ t[2] = n
  BY <1>1 DEF Req, Response
<1>4. \A p \in Places : t \notin Place[p]
  <2> SUFFICES ASSUME NEW p \in Places, t \in Place[p] PROVE FALSE
    OBVIOUS
  <2>1. t[2] <= asked[t[1]]
    BY AnswerInvParts
  <2> QED BY <1>1, <1>3, <2>1
<1>5. n \notin Range(rcv[c])
  <2>1. t \notin Place["unread"]
    BY <1>4 DEF Places
  <2> QED BY <1>3, <2>1, PlaceIs
<1>6. /\ Range(rcv'[c]) = Range(rcv[c]) \cup {n}
      /\ IsInjective(rcv'[c])
      /\ \A d \in Clients : d # c => rcv'[d] = rcv[d]
  <2>1. IsInjective(rcv[c])
    BY AnswerInvParts DEF NoRepeats
  <2>2. /\ Range(Append(rcv[c], n)) = Range(rcv[c]) \cup {n}
        /\ IsInjective(Append(rcv[c], n))
    BY <1>1, <1>3, <1>5, <2>1, RangeOfAppend, InjectiveAppend
  <2> QED BY <1>1, <2>2
<1>7. NoRepeats'
  BY <1>2, <1>6, AnswerInvParts DEF NoRepeats
<1>8. Moves(t, "unread")
  <2>1. Place'["unread"] \subseteq Place["unread"] \cup {t}
    <3> SUFFICES ASSUME NEW u \in Response, u[2] \in Range(rcv'[u[1]])
                 PROVE  u \in Place["unread"] \cup {t}
      BY PlaceBecomes
    <3>1. CASE u[1] = c /\ u[2] = n
      BY <1>3, <3>1 DEF Response
    <3>2. CASE ~(u[1] = c /\ u[2] = n)
      <4>1. u[1] \in Clients
        BY DEF Response
      <4>2. u[2] \in Range(rcv[u[1]])
        BY <1>6, <3>2, <4>1
      <4> QED BY <4>2, PlaceIs
    <3> QED BY <3>1, <3>2
  <2>2. \A p \in Places \ {"unread"} : Place'[p] = Place[p]
    BY <1>2, PlaceIs, PlaceBecomes DEF Places
  <2> QED BY <1>4, <2>1, <2>2 DEF Moves
<1>9. /\ \A d \in Clients : asked[d] <= asked'[d]
      /\ asked' \in [Clients -> Nat] /\ t[2] <= asked'[t[1]]
  BY <1>1, <1>3
<1> HIDE DEF t
<1> QED BY <1>1, <1>3, <1>7, <1>8, <1>9, MoveStep DEF Places

\* A worker takes the request at the head of the pool's queue.
LEMMA StartPlaces ==
  ASSUME ConnInv, AnswerInv, TaskStart
  PROVE  AnswerInv'
<1> DEFINE t == Head(poolQueue)
<1>1. /\ poolQueue \in Seq(Response) /\ poolQueue # <<>>
      /\ poolQueue' = Tail(poolQueue) /\ running' = running \cup {t}
      /\ IsInjective(poolQueue)
  BY PlaceTypes, AnswerInvParts DEF TaskStart, NoRepeats
<1>2. UNCHANGED <<asked, rcv, pendingFunctors, functors, queued, thrown>>
  BY DEF TaskStart, clientVars, kernelVars, batchVars, connVars
<1>3. /\ IsInjective(poolQueue') /\ t \in Place["waiting"]
      /\ Place'["waiting"] \subseteq Place["waiting"] \ {t}
  BY <1>1, TailOfInjective, PlaceIs, PlaceBecomes
<1>4. NoRepeats'
  BY <1>2, <1>3, AnswerInvParts DEF NoRepeats
<1>5. /\ Place'["running"] \subseteq Place["running"] \cup {t}
      /\ \A p \in Places \ {"waiting", "running"} : Place'[p] = Place[p]
  BY <1>1, <1>2, PlaceIs, PlaceBecomes DEF Places
<1> HIDE DEF t
<1> QED BY <1>2, <1>3, <1>4, <1>5, Relocation DEF Places

\* A worker posts the response, or its handler throws.
LEMMA EndPlaces ==
  ASSUME ConnInv, AnswerInv, NEW t \in running, TaskSends(t) \/ TaskThrows(t)
  PROVE  AnswerInv'
<1>1. /\ t \in Place["running"] /\ t \in Response
      /\ pendingFunctors \in Seq(Response) /\ IsInjective(pendingFunctors)
      /\ t \notin Range(pendingFunctors)
  <2>1. t \in Place["running"] /\ t \notin Place["posted"]
    BY PlaceIs, AnswerInvParts DEF Apart, Places
  <2> QED BY <2>1, PlaceIs, PlaceTypes, AnswerInvParts DEF NoRepeats, Places
<1>2. Place'["running"] \subseteq Place["running"] \ {t}
  BY PlaceIs, PlaceBecomes DEF TaskSends, TaskThrows
<1>3. CASE TaskSends(t)
  <2>1. UNCHANGED <<asked, rcv, poolQueue, functors, queued, thrown>>
    BY <1>3 DEF TaskSends, clientVars, kernelVars, batchVars, connVars
  <2>2. /\ IsInjective(pendingFunctors')
        /\ Range(pendingFunctors') = Range(pendingFunctors) \cup {t}
    BY <1>1, <1>3, InjectiveAppend, RangeOfAppend DEF TaskSends
  <2>3. NoRepeats'
    BY <2>1, <2>2, AnswerInvParts DEF NoRepeats
  <2>4. /\ Place'["posted"] \subseteq Place["posted"] \cup {t}
        /\ \A p \in Places \ {"running", "posted"} : Place'[p] = Place[p]
    BY <2>1, <2>2, PlaceIs, PlaceBecomes DEF Places
  <2> QED BY <1>1, <1>2, <2>1, <2>3, <2>4, Relocation DEF Places
<1>4. CASE TaskThrows(t)
  <2>1. UNCHANGED <<asked, rcv, poolQueue, pendingFunctors, functors, queued>>
    BY <1>4 DEF TaskThrows, clientVars, kernelVars, batchVars, connVars
  <2>2. NoRepeats'
    BY <2>1, AnswerInvParts DEF NoRepeats
  <2>3. /\ Place'["thrown"] \subseteq Place["thrown"] \cup {t}
        /\ \A p \in Places \ {"running", "thrown"} : Place'[p] = Place[p]
    BY <1>4, <2>1, PlaceIs, PlaceBecomes DEF Places, TaskThrows
  <2> QED BY <1>1, <1>2, <2>1, <2>2, <2>3, Relocation DEF Places
<1> QED BY <1>3, <1>4

\* sendInLoop() answers the request, or drops the response.
LEMMA SendPlacesAnswer ==
  ASSUME ConnInv, AnswerInv, NEW t \in Response, SendInLoop(t[1], t),
         t \notin Place["answered"]
  PROVE  /\ Place'["answered"] \subseteq Place["answered"] \cup {t}
         /\ \A d \in Clients : IsInjective(queued'[d])
<1>1. /\ t[1] \in Clients
      /\ queued \in [Clients -> Seq(Response)]
      /\ \A d \in Clients : queued[d] \in Seq(Response) /\ IsInjective(queued[d])
  BY PlaceTypes, AnswerInvParts DEF NoRepeats, Response
<1>2. CASE UNCHANGED queued
  BY <1>1, <1>2, PlaceIs, PlaceBecomes
<1>3. CASE queued' = [queued EXCEPT ![t[1]] = Append(@, t)]
  <2>1. t \notin Range(queued[t[1]])
    BY PlaceIs
  <2>2. /\ Range(queued'[t[1]]) = Range(queued[t[1]]) \cup {t}
        /\ IsInjective(queued'[t[1]])
        /\ \A d \in Clients : d # t[1] => queued'[d] = queued[d]
    BY <1>1, <1>3, <2>1, RangeOfAppend, InjectiveAppend
  <2>3. ASSUME NEW u \in Response, u \in Range(queued'[u[1]]), u # t
        PROVE  u \in Range(queued[u[1]])
    <3>1. u[1] \in Clients
      BY DEF Response
    <3> QED BY <2>2, <2>3, <3>1
  <2>4. Place'["answered"] \subseteq Place["answered"] \cup {t}
    BY <2>3, PlaceIs, PlaceBecomes
  <2> QED BY <1>1, <2>2, <2>4
<1> QED BY <1>1, <1>2, <1>3, SendInLoopEffect

\* The loop thread runs the functor at the head of those it has swapped out.
LEMMA FunctorPlaces ==
  ASSUME ConnInv, AnswerInv, RunFunctor
  PROVE  AnswerInv'
<1> DEFINE t == Head(functors)
<1>1. /\ functors \in Seq(Response) /\ functors # <<>> /\ t \in Response
      /\ functors' = Tail(functors) /\ SendInLoop(t[1], t)
      /\ IsInjective(functors)
  BY PlaceTypes, AnswerInvParts, HeadTailProperties DEF RunFunctor, NoRepeats
<1>2. UNCHANGED <<asked, rcv, poolQueue, running, pendingFunctors, thrown>>
  BY DEF RunFunctor, clientVars, poolVars
<1>3. /\ IsInjective(functors') /\ t \in Place["swapped"]
      /\ Place'["swapped"] \subseteq Place["swapped"] \ {t}
  BY <1>1, TailOfInjective, PlaceIs, PlaceBecomes
<1> HIDE DEF t
<1>4. t \notin Place["answered"]
  BY <1>3, AnswerInvParts DEF Apart, Places
<1>5. /\ Place'["answered"] \subseteq Place["answered"] \cup {t}
      /\ \A d \in Clients : IsInjective(queued'[d])
  BY <1>1, <1>4, SendPlacesAnswer
<1>6. NoRepeats'
  BY <1>2, <1>3, <1>5, AnswerInvParts DEF NoRepeats
<1>7. \A p \in Places \ {"swapped", "answered"} : Place'[p] = Place[p]
  BY <1>2, PlaceIs, PlaceBecomes DEF Places
<1> QED BY <1>2, <1>3, <1>5, <1>6, <1>7, Relocation DEF Places

\* The loop thread reads: the first request goes to the pool, or is answered, and
\* what else the read() returned is nowhere any more.
LEMMA ReadPlaces ==
  ASSUME ConnInv, AnswerInv, NEW c \in Clients, EventReadData(c)
  PROVE  AnswerInv'
<1> DEFINE t == <<c, Head(rcv[c])>>
<1>1. fdClient[sockfd[c]] = c
  BY HandlerContext DEF EventReadData
<1>2. /\ rcv \in [Clients -> Seq(Req)] /\ rcv[c] \in Seq(Req)
      /\ poolQueue \in Seq(Response) /\ IsInjective(poolQueue)
      /\ IsInjective(rcv[c])
  BY PlaceTypes, AnswerInvParts DEF NoRepeats
<1>3. PICK k \in 1..Len(rcv[c]) :
        rcv' = [rcv EXCEPT ![c] = SubSeq(@, k + 1, Len(@))]
  BY <1>1 DEF EventReadData
<1>4. /\ \/ SendInLoop(c, t) /\ UNCHANGED poolQueue
         \/ poolQueue' = Append(poolQueue, t) /\ UNCHANGED queued
      /\ UNCHANGED <<asked, running, pendingFunctors, functors, thrown>>
  BY <1>1 DEF EventReadData, clientVars
<1>5. /\ IsInjective(rcv'[c]) /\ Head(rcv[c]) \in Range(rcv[c])
      /\ Range(rcv'[c]) \subseteq Range(rcv[c]) \ {Head(rcv[c])}
      /\ \A d \in Clients : d # c => rcv'[d] = rcv[d]
  <2>1. rcv'[c] = SubSeq(rcv[c], k + 1, Len(rcv[c]))
    BY <1>2, <1>3
  <2>2. /\ IsInjective(SubSeq(rcv[c], k + 1, Len(rcv[c])))
        /\ Head(rcv[c]) \in Range(rcv[c])
        /\ Range(SubSeq(rcv[c], k + 1, Len(rcv[c])))
             \subseteq Range(rcv[c]) \ {Head(rcv[c])}
    BY <1>2, SuffixOfInjective
  <2> QED BY <1>2, <1>3, <2>1, <2>2
<1>6. t \in Response /\ t[1] = c /\ t[2] = Head(rcv[c])
  <2>1. rcv[c] # <<>>
    BY <1>2, <1>3, EmptySeq
  <2> QED BY <1>2, <2>1, HeadTailProperties DEF Response
<1>7. t \in Place["unread"] /\ Place'["unread"] \subseteq Place["unread"] \ {t}
  <2>1. t \in Place["unread"]
    BY <1>5, <1>6, PlaceIs
  <2>2. ASSUME NEW u \in Response, u[2] \in Range(rcv'[u[1]])
        PROVE  u[2] \in Range(rcv[u[1]]) /\ u # t
    <3>1. u[1] \in Clients
      BY DEF Response
    <3> QED BY <1>5, <1>6, <2>2, <3>1
  <2> QED BY <2>1, <2>2, PlaceIs, PlaceBecomes
<1> HIDE DEF t
<1>8. t \notin Place["waiting"] /\ t \notin Place["answered"]
  BY <1>7, AnswerInvParts DEF Apart, Places
<1>9. \A d \in Clients : IsInjective(rcv'[d])
  BY <1>5, AnswerInvParts DEF NoRepeats
<1>10. CASE SendInLoop(c, t) /\ UNCHANGED poolQueue
  <2>1. /\ Place'["answered"] \subseteq Place["answered"] \cup {t}
        /\ \A d \in Clients : IsInjective(queued'[d])
    BY <1>6, <1>8, <1>10, SendPlacesAnswer
  <2>2. NoRepeats'
    BY <1>4, <1>9, <1>10, <2>1, AnswerInvParts DEF NoRepeats
  <2>3. \A p \in Places \ {"unread", "answered"} : Place'[p] = Place[p]
    BY <1>4, <1>10, PlaceIs, PlaceBecomes DEF Places
  <2> QED BY <1>4, <1>7, <2>1, <2>2, <2>3, Relocation DEF Places
<1>11. CASE poolQueue' = Append(poolQueue, t) /\ UNCHANGED queued
  <2>1. t \notin Range(poolQueue)
    BY <1>8, PlaceIs
  <2>2. /\ IsInjective(poolQueue') /\ Range(poolQueue') = Range(poolQueue) \cup {t}
    BY <1>2, <1>6, <1>11, <2>1, InjectiveAppend, RangeOfAppend
  <2>3. NoRepeats'
    BY <1>4, <1>9, <1>11, <2>2, AnswerInvParts DEF NoRepeats
  <2>4. /\ Place'["waiting"] \subseteq Place["waiting"] \cup {t}
        /\ \A p \in Places \ {"unread", "waiting"} : Place'[p] = Place[p]
    BY <1>4, <1>11, <2>2, PlaceIs, PlaceBecomes DEF Places
  <2> QED BY <1>4, <1>7, <2>3, <2>4, Relocation DEF Places
<1> QED BY <1>4, <1>10, <1>11

\* doPendingFunctors() takes all that is posted at once.
LEMMA SwapPlaces ==
  ASSUME ConnInv, AnswerInv, EndBatch
  PROVE  AnswerInv'
<1>1. /\ functors' = pendingFunctors /\ pendingFunctors' = <<>>
      /\ UNCHANGED <<asked, rcv, poolQueue, running, queued, thrown>>
  BY DEF EndBatch, clientVars, kernelVars, connVars, poolVars
<1>2. Range(<<>>) = {} /\ IsInjective(<<>>)
  BY DEF Range, IsInjective
<1>3. /\ Place'["posted"] = {} /\ Place'["swapped"] = Place["posted"]
      /\ \A p \in Places \ {"posted", "swapped"} : Place'[p] = Place[p]
  BY <1>1, <1>2, PlaceIs, PlaceBecomes DEF Places
<1>4. NoRepeats'
  BY <1>1, <1>2, AnswerInvParts DEF NoRepeats
<1>5. Apart'
  BY <1>3, AnswerInvParts DEF Apart, Places
<1>6. \A p \in Places : \A t \in Place'[p] : t[2] <= asked'[t[1]]
  BY <1>1, <1>3, AnswerInvParts DEF Places
<1>7. DOMAIN Place' = Places
  BY DEF Place, Places
<1>8. AnsweredOnce' /\ Numbered'
  BY <1>4, <1>5, <1>6, <1>7 DEF AnsweredOnce, Numbered, NoRepeats, Apart
<1> QED BY <1>8 DEF AnswerInv

LEMMA AnswerInvInit == Init => AnswerInv
<1> SUFFICES ASSUME Init PROVE AnswerInv
  OBVIOUS
<1>1. Range(<<>>) = {} /\ IsInjective(<<>>)
  BY DEF Range, IsInjective
<1>2. \A t \in Response : t[1] \in Clients
  BY DEF Response
<1>3. \A p \in Places : Place[p] = {}
  BY <1>1, <1>2, PlaceIs DEF Init, Places
<1>4. NoRepeats
  BY <1>1 DEF Init, NoRepeats
<1>5. Apart
  BY <1>3 DEF Apart
<1> QED BY <1>3, <1>4, <1>5, AnswerInvParts

LEMMA AnswerInvStep == ConnInv /\ AnswerInv /\ [Next]_vars => AnswerInv'
<1> SUFFICES ASSUME ConnInv, AnswerInv, [Next]_vars PROVE AnswerInv'
  OBVIOUS
<1>1. CASE UNCHANGED <<asked, rcv, poolQueue, running, pendingFunctors, functors,
                       queued, thrown>>
  <2>1. \A p \in Places : Place'[p] = Place[p]
    BY <1>1, PlaceIs, PlaceBecomes DEF Places
  <2>2. DOMAIN Place' = Places /\ NoRepeats' /\ Apart'
    BY <1>1, <2>1, AnswerInvParts DEF NoRepeats, Apart, Place, Places
  <2>3. \A p \in Places : \A t \in Place'[p] : t[2] <= asked'[t[1]]
    BY <1>1, <2>1, AnswerInvParts
  <2>4. AnsweredOnce' /\ Numbered'
    BY <2>2, <2>3 DEF AnsweredOnce, Numbered, NoRepeats, Apart
  <2> QED BY <2>4 DEF AnswerInv
<1>2. ASSUME NEW c \in Clients, ClientSend(c) PROVE AnswerInv'
  BY <1>2, SendPlaces
<1>3. ASSUME NEW c \in Clients, EventReadData(c) PROVE AnswerInv'
  BY <1>3, ReadPlaces
<1>4. CASE TaskStart
  BY <1>4, StartPlaces
<1>5. ASSUME NEW t \in running, TaskSends(t) \/ TaskThrows(t) PROVE AnswerInv'
  BY <1>5, EndPlaces
<1>6. CASE EndBatch
  BY <1>6, SwapPlaces
<1>7. CASE RunFunctor
  BY <1>7, FunctorPlaces
<1>8. \/ UNCHANGED <<asked, rcv, poolQueue, running, pendingFunctors, functors,
                     queued, thrown>>
      \/ \E c \in Clients : ClientSend(c) \/ EventReadData(c)
      \/ TaskStart \/ \E t \in running : TaskSends(t) \/ TaskThrows(t)
      \/ EndBatch \/ RunFunctor
  BY DEF Next, LoopThread, Worker, Client, EpollWait, Accept, AcceptFails,
         EventClose, EventReadEnd, EventWriteFails, CloseConnection, EventWrite,
         RunDone, Connect, ClientFin, ClientReset, ClientDrain, vars, clientVars,
         kernelVars, batchVars, connVars, poolVars
<1> QED BY <1>1, <1>2, <1>3, <1>4, <1>5, <1>6, <1>7, <1>8

\* No request is repeated in the queues it passes, or found in two places, or
\* anywhere before its client has sent it.
THEOREM AnswerInvariant == Spec => []AnswerInv
BY AnswerInvInit, AnswerInvStep, ConnInvariant, PTL DEF Spec

\* A request that is answered is answered once, and nothing of it is left on the
\* way: it was in one place at a time from its sending to its answer.
THEOREM RequestsAreAnsweredOnce == Spec => []AnsweredOnce
<1>1. AnswerInv => AnsweredOnce
  BY DEF AnswerInv
<1> QED BY <1>1, AnswerInvariant, PTL
===============================================================================
