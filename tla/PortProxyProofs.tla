-------------------------- MODULE PortProxyProofs --------------------------
(***************************************************************************)
(* Proofs about PortProxy, for any number of clients, datagrams and        *)
(* attempts.                                                               *)
(***************************************************************************)
EXTENDS PortProxy, TLAPS

-----------------------------------------------------------------------------
(***************************************************************************)
(* The datagrams of a client, on the way to the engine and back.           *)
(***************************************************************************)
\* The numbers in a sequence of datagrams grow.
Growing(q) == \A i, j \in DOMAIN q : i < j => q[i][2] < q[j][2]

\* All of q are from u and have been sent.
From(q, u) == \A i \in DOMAIN q : q[i][1] = u /\ q[i][2] <= sent[u]

\* What waits for the engine comes after what it has received.
Flow(u) ==
  /\ Growing(queue[u]) /\ Growing(arrived[u])
  /\ \A i \in DOMAIN arrived[u], j \in DOMAIN queue[u] : arrived[u][i][2] < queue[u][j][2]
  /\ From(queue[u], u) /\ From(arrived[u], u) /\ From(replies[u], u) /\ From(answered[u], u)

\* The attempts a connection has left.
Attempts(c) ==
  /\ conn[c] = "none" => tries[c] = 0
  /\ conn[c] = "connecting" => tries[c] < MaxConnectAttempts
  /\ conn[c] = "unserved" => tries[c] = MaxConnectAttempts

\* A sequence of datagrams has datagrams for elements.
LEMMA Elements == ASSUME NEW q \in Seq(Datagrams) PROVE ToSet(q) \subseteq Datagrams
BY DEF ToSet

\* One more datagram.
LEMMA AppendElements ==
  ASSUME NEW q \in Seq(Datagrams), NEW d \in Datagrams
  PROVE  /\ Append(q, d) \in Seq(Datagrams)
         /\ DOMAIN Append(q, d) = DOMAIN q \cup {Len(q) + 1}
         /\ Append(q, d)[Len(q) + 1] = d
         /\ \A i \in DOMAIN q : i < Len(q) + 1 /\ Append(q, d)[i] = q[i]
OBVIOUS

\* One fewer.
LEMMA TailElements ==
  ASSUME NEW q \in Seq(Datagrams), q # <<>>
  PROVE  /\ Tail(q) \in Seq(Datagrams) /\ Head(q) \in Datagrams
         /\ 1 \in DOMAIN q /\ Head(q) = q[1]
         /\ \A i \in DOMAIN Tail(q) : i + 1 \in DOMAIN q /\ i + 1 > 1 /\ Tail(q)[i] = q[i + 1]
OBVIOUS

\* Put changes one queue.
LEMMA PutElements ==
  ASSUME NEW q \in [UdpClients -> Seq(Datagrams)], NEW u \in UdpClients, NEW d \in Datagrams
  PROVE  /\ Put(q, u, d) \in [UdpClients -> Seq(Datagrams)]
         /\ Put(q, u, d)[u] = Append(q[u], d)
         /\ \A v \in UdpClients \ {u} : Put(q, u, d)[v] = q[v]
BY DEF Put

-----------------------------------------------------------------------------
(***************************************************************************)
(* The types of the queues follow from those of the functions.             *)
(***************************************************************************)
\* TypeOK without the part about queues.
Simple ==
  /\ engine \in {"starting", "listening", "dead"}
  /\ proxy \in {"up", "dropped"}
  /\ conn \in [TcpClients -> {"none", "connecting", "sleeping", "relaying", "unserved", "closed"}]
  /\ tries \in [TcpClients -> 0 .. MaxConnectAttempts]
  /\ sent \in [UdpClients -> 0 .. MaxSent]
  /\ sink \in [UdpClients -> {"none", "connecting", "ready", "ended"}]
  /\ socket \in [UdpClients -> UdpClients]
  /\ refused \in [UdpClients -> {"no", "pending", "seen"}]

Queues ==
  /\ queue \in [UdpClients -> Seq(Datagrams)] /\ arrived \in [UdpClients -> Seq(Datagrams)]
  /\ replies \in [UdpClients -> Seq(Datagrams)] /\ answered \in [UdpClients -> Seq(Datagrams)]

LEMMA QueueTypes == Simple /\ Queues => TypeOK
<1> SUFFICES ASSUME Simple, Queues PROVE TypeOK
  OBVIOUS
<1>1. ASSUME NEW c \in UdpClients, NEW s \in {queue[c], arrived[c], replies[c], answered[c]}
      PROVE  ToSet(s) \subseteq Datagrams
  <2>1. s \in Seq(Datagrams)
    BY <1>1 DEF Queues
  <2> QED
    BY <2>1, Elements
<1> QED
  BY <1>1 DEF Simple, TypeOK

-----------------------------------------------------------------------------
(***************************************************************************)
(* The steps.                                                              *)
(***************************************************************************)
\* The invariant, with the types in a form that is easier to keep.
FlowInv ==
  /\ Simple /\ Queues
  /\ \A c \in TcpClients : Attempts(c)
  /\ \A u \in UdpClients : socket[u] = u /\ Flow(u)

\* What the engine, the handle and the TCP tasks do leaves the datagrams alone.
LEMMA TcpFlow ==
  ASSUME FlowInv, UNCHANGED <<sent, socket, queue, refused, arrived, replies, answered>>,
         \/ Listen \/ EngineDies \/ DropHandle
         \/ \E c \in TcpClients : Accept(c) \/ Tcp(c) \/ RelayEnds(c)
  PROVE  FlowInv'
<1>1. Simple' /\ \A c \in TcpClients : Attempts(c)'
  BY ProxyAssumption DEF FlowInv, Simple, Attempts, Listen, EngineDies, DropHandle, Accept, Tcp, Connect, Wake,
     RelayEnds, Becomes, tcp, udp
<1> QED
  BY <1>1 DEF FlowInv, Queues, Flow, From, Growing

\* A datagram of c goes behind those that wait; none that is there has a number as high.
LEMMA ReceiveFlow == ASSUME FlowInv, NEW c \in UdpClients, Receive(c) PROVE FlowInv'
<1>1. /\ sent' \in [UdpClients -> 0 .. MaxSent] /\ sent'[c] = sent[c] + 1
      /\ \A u \in UdpClients \ {c} : sent'[u] = sent[u]
      /\ sent[c] + 1 \in 1 .. MaxSent
  BY ProxyAssumption DEF FlowInv, Simple, Receive
<1>2. Simple' /\ \A u \in UdpClients : socket'[u] = u
  BY <1>1 DEF FlowInv, Simple, Receive, SinkOf, tcp
<1>3. \A t \in TcpClients : Attempts(t)'
  BY DEF FlowInv, Attempts, Receive, tcp
<1>4. UNCHANGED <<arrived, replies, answered>>
  BY DEF Receive
<1>5. CASE sink[c] = "ended"
  <2>1. UNCHANGED queue
    BY <1>5 DEF Receive, SinkOf
  <2>2. \A u \in UdpClients : sent[u] <= sent'[u] /\ sent[u] \in Nat /\ sent'[u] \in Nat
    BY <1>1 DEF FlowInv, Simple
  <2>3. ASSUME NEW u \in UdpClients, NEW q \in Seq(Datagrams), From(q, u)
        PROVE  \A i \in DOMAIN q : q[i][1] = u /\ q[i][2] <= sent'[u]
    BY <2>2, <2>3 DEF From, Datagrams
  <2>4. \A u \in UdpClients : Flow(u)'
    BY <1>4, <2>1, <2>3 DEF FlowInv, Queues, Flow, From, Growing
  <2> QED
    BY <1>2, <1>3, <1>4, <2>1, <2>4 DEF FlowInv, Queues
<1>6. CASE sink[c] # "ended"
  <2> DEFINE d == <<c, sent[c] + 1>>
  <2>1. d \in Datagrams
    BY <1>1 DEF Datagrams
  <2>2. queue' = Put(queue, c, d)
    BY <1>6 DEF Receive, SinkOf
  <2>3. /\ queue' \in [UdpClients -> Seq(Datagrams)] /\ queue'[c] = Append(queue[c], d)
        /\ \A u \in UdpClients \ {c} : queue'[u] = queue[u]
    <3>1. queue \in [UdpClients -> Seq(Datagrams)]
      BY DEF FlowInv, Queues
    <3> HIDE DEF d
    <3> QED
      BY <2>1, <2>2, <3>1, PutElements
  <2>4. \A u \in UdpClients : sent[u] <= sent'[u] /\ sent[u] \in Nat /\ sent'[u] \in Nat
    BY <1>1 DEF FlowInv, Simple
  <2>5. ASSUME NEW u \in UdpClients, NEW q \in Seq(Datagrams), From(q, u)
        PROVE  \A i \in DOMAIN q : q[i][1] = u /\ q[i][2] <= sent'[u]
    BY <2>4, <2>5 DEF From, Datagrams
  <2>6. ASSUME NEW u \in UdpClients \ {c} PROVE Flow(u)'
    BY <1>4, <2>3, <2>5 DEF FlowInv, Queues, Flow, From, Growing
  <2>7. Flow(c)'
    <3> DEFINE q == queue[c]
    <3>1. q \in Seq(Datagrams) /\ arrived[c] \in Seq(Datagrams) /\ Len(q) \in Nat /\ DOMAIN q = 1 .. Len(q)
      BY DEF FlowInv, Queues
    <3>2. /\ DOMAIN queue'[c] = DOMAIN q \cup {Len(q) + 1}
          /\ queue'[c][Len(q) + 1] = d
          /\ \A i \in DOMAIN q : i < Len(q) + 1 /\ queue'[c][i] = q[i]
      BY <2>1, <2>3, <3>1, AppendElements
    <3>3. d[1] = c /\ d[2] = sent[c] + 1 /\ d[2] <= sent'[c]
      BY <1>1, <2>4
    <3>4. \A i \in DOMAIN q : q[i][2] < d[2] /\ q[i][2] \in Nat
      BY <2>4, <3>1, <3>3 DEF FlowInv, Flow, From, Datagrams
    <3>5. \A i \in DOMAIN arrived[c] : arrived[c][i][2] < d[2]
      BY <2>4, <3>1, <3>3 DEF FlowInv, Flow, From, Datagrams
    <3>6. Growing(queue'[c])
      BY <3>1, <3>2, <3>4 DEF FlowInv, Flow, Growing
    <3>7. From(queue[c], c)
      BY DEF FlowInv, Flow
    <3>8. \A i \in DOMAIN queue'[c] : queue'[c][i][1] = c /\ queue'[c][i][2] <= sent'[c]
      BY <2>5, <3>1, <3>2, <3>3, <3>7
    <3>9. \A i \in DOMAIN arrived[c], j \in DOMAIN queue'[c] : arrived[c][i][2] < queue'[c][j][2]
      BY <3>2, <3>5 DEF FlowInv, Flow
    <3> QED
      BY <1>4, <2>5, <3>1, <3>6, <3>8, <3>9 DEF FlowInv, Queues, Flow, From, Growing
  <2> QED
    BY <1>2, <1>3, <1>4, <2>3, <2>6, <2>7 DEF FlowInv, Queues
<1> QED
  BY <1>5, <1>6

\* More of the sequences: From and Growing under Append and Tail.
LEMMA FromAppend ==
  ASSUME NEW q \in Seq(Datagrams), NEW d \in Datagrams, NEW u,
         From(q, u), d[1] = u, d[2] <= sent[u]
  PROVE  From(Append(q, d), u)
BY AppendElements DEF From

LEMMA FromTail ==
  ASSUME NEW q \in Seq(Datagrams), q # <<>>, NEW u, From(q, u)
  PROVE  From(Tail(q), u) /\ Head(q)[1] = u /\ Head(q)[2] <= sent[u]
BY TailElements DEF From

LEMMA GrowingTail ==
  ASSUME NEW q \in Seq(Datagrams), q # <<>>, Growing(q)
  PROVE  Growing(Tail(q)) /\ \A i \in DOMAIN Tail(q) : Head(q)[2] < Tail(q)[i][2]
<1>1. DOMAIN Tail(q) \subseteq Nat /\ DOMAIN q \subseteq Nat
  OBVIOUS
<1> QED
  BY <1>1, TailElements DEF Growing

LEMMA GrowingAppend ==
  ASSUME NEW q \in Seq(Datagrams), NEW d \in Datagrams, Growing(q),
         \A i \in DOMAIN q : q[i][2] < d[2]
  PROVE  Growing(Append(q, d))
<1>1. DOMAIN q = 1 .. Len(q) /\ Len(q) \in Nat
  OBVIOUS
<1> QED
  BY <1>1, AppendElements DEF Growing

\* A step of one sink keeps the invariant if it keeps the flow of its client.
LEMMA SinkFlow ==
  ASSUME FlowInv, NEW u \in UdpClients,
         UNCHANGED <<engine, proxy, tcp, sent, socket>>,
         sink' \in [UdpClients -> {"none", "connecting", "ready", "ended"}],
         refused' \in [UdpClients -> {"no", "pending", "seen"}],
         Queues', Flow(u)',
         \A v \in UdpClients \ {u} : /\ queue'[v] = queue[v] /\ arrived'[v] = arrived[v]
                                     /\ replies'[v] = replies[v] /\ answered'[v] = answered[v]
  PROVE  FlowInv'
<1>1. Simple' /\ (\A c \in TcpClients : Attempts(c)') /\ \A v \in UdpClients : socket'[v] = v
  BY DEF FlowInv, Simple, Attempts, tcp
<1>2. \A v \in UdpClients \ {u} : Flow(v)'
  BY DEF FlowInv, Flow, From, Growing
<1> QED
  BY <1>1, <1>2 DEF FlowInv

\* A sink that comes up, or ends and forgets its channel.
LEMMA EndsFlow ==
  ASSUME FlowInv, NEW u \in UdpClients, ConnectSink(u) \/ ConnectSinkFails(u) \/ RecvError(u)
  PROVE  FlowInv'
<1>1. UNCHANGED <<engine, proxy, tcp, sent, socket, arrived, replies, answered>>
  BY DEF ConnectSink, ConnectSinkFails, RecvError
<1>2. /\ sink' \in [UdpClients -> {"none", "connecting", "ready", "ended"}]
      /\ refused' \in [UdpClients -> {"no", "pending", "seen"}]
  <2>1. /\ sink \in [UdpClients -> {"none", "connecting", "ready", "ended"}]
        /\ refused \in [UdpClients -> {"no", "pending", "seen"}]
    BY DEF FlowInv, Simple
  <2>2. /\ sink' \in {[sink EXCEPT ![u] = "ready"], [sink EXCEPT ![u] = "ended"]}
        /\ refused' \in {refused, [refused EXCEPT ![u] = "seen"]}
    BY DEF ConnectSink, ConnectSinkFails, RecvError
  <2> QED
    BY <2>1, <2>2
<1>3. /\ queue' \in [UdpClients -> Seq(Datagrams)] /\ queue'[u] \in {queue[u], <<>>}
      /\ \A v \in UdpClients \ {u} : queue'[v] = queue[v]
  <2>1. queue \in [UdpClients -> Seq(Datagrams)] /\ <<>> \in Seq(Datagrams)
    BY DEF FlowInv, Queues
  <2>2. queue' = queue \/ queue' = [queue EXCEPT ![u] = <<>>]
    BY DEF ConnectSink, ConnectSinkFails, RecvError
  <2> QED
    BY <2>1, <2>2
<1>4. CASE queue'[u] = queue[u]
  <2>1. Flow(u)'
    BY <1>1, <1>4 DEF FlowInv, Flow, From, Growing
  <2> QED
    BY <1>1, <1>2, <1>3, <2>1, SinkFlow DEF FlowInv, Queues
<1>5. CASE queue'[u] = <<>>
  <2>1. DOMAIN queue'[u] = {}
    BY <1>5
  <2>2. Flow(u)'
    BY <1>1, <2>1 DEF FlowInv, Flow, From, Growing
  <2> QED
    BY <1>1, <1>2, <1>3, <2>2, SinkFlow DEF FlowInv, Queues
<1> QED
  BY <1>3, <1>4, <1>5

\* The head of the channel is lost, or goes behind all that has arrived.
LEMMA ForwardFlow == ASSUME FlowInv, NEW u \in UdpClients, Forward(u) PROVE FlowInv'
<1> DEFINE q == queue[u]  a == arrived[u]
<1>1. /\ UNCHANGED <<engine, proxy, tcp, sent, socket, sink, replies, answered>>
      /\ refused' \in [UdpClients -> {"no", "pending", "seen"}]
      /\ q # <<>> /\ queue' = [queue EXCEPT ![u] = Tail(@)]
      /\ arrived' = arrived \/ arrived' = Put(arrived, u, Head(q))
  BY DEF FlowInv, Simple, Forward
<1>2. q \in Seq(Datagrams) /\ a \in Seq(Datagrams) /\ arrived \in [UdpClients -> Seq(Datagrams)]
  BY DEF FlowInv, Queues
<1>3. Growing(q) /\ Growing(a) /\ From(q, u) /\ From(a, u)
      /\ \A i \in DOMAIN a, j \in DOMAIN q : a[i][2] < q[j][2]
  BY DEF FlowInv, Flow
<1> HIDE DEF q, a
<1>4. /\ Tail(q) \in Seq(Datagrams) /\ Head(q) \in Datagrams
      /\ Growing(Tail(q)) /\ \A i \in DOMAIN Tail(q) : Head(q)[2] < Tail(q)[i][2]
  BY <1>1, <1>2, <1>3, TailElements, GrowingTail
<1>5. From(Tail(q), u) /\ Head(q)[1] = u /\ Head(q)[2] <= sent[u]
  BY <1>1, <1>2, <1>3, FromTail
<1>6. /\ queue' \in [UdpClients -> Seq(Datagrams)] /\ queue'[u] = Tail(q)
      /\ \A v \in UdpClients \ {u} : queue'[v] = queue[v]
  BY <1>1, <1>4 DEF FlowInv, Queues, q
<1>7. CASE arrived' = arrived
  <2>1. \A i \in DOMAIN a, j \in DOMAIN Tail(q) : a[i][2] < Tail(q)[j][2]
    BY <1>1, <1>2, <1>3, TailElements
  <2>2. Flow(u)'
    BY <1>1, <1>3, <1>4, <1>5, <1>6, <1>7, <2>1 DEF FlowInv, Flow, From, Growing, a
  <2> QED
    BY <1>1, <1>6, <1>7, <2>2, SinkFlow DEF FlowInv, Simple, Queues
<1>8. CASE arrived' = Put(arrived, u, Head(q))
  <2>1. /\ arrived' \in [UdpClients -> Seq(Datagrams)] /\ arrived'[u] = Append(a, Head(q))
        /\ \A v \in UdpClients \ {u} : arrived'[v] = arrived[v]
    BY <1>2, <1>4, <1>8, PutElements DEF a
  <2>2. \A i \in DOMAIN a : a[i][2] < Head(q)[2]
    BY <1>1, <1>2, <1>3, TailElements
  <2>3. Growing(Append(a, Head(q))) /\ From(Append(a, Head(q)), u)
    BY <1>2, <1>3, <1>4, <1>5, <2>2, GrowingAppend, FromAppend
  <2>4. \A i \in DOMAIN Append(a, Head(q)), j \in DOMAIN Tail(q) : Append(a, Head(q))[i][2] < Tail(q)[j][2]
    BY <1>1, <1>2, <1>3, <1>4, AppendElements, TailElements
  <2>5. From(replies[u], u) /\ From(answered[u], u)
    BY DEF FlowInv, Flow
  <2>6. Flow(u)'
    BY <1>1, <1>4, <1>5, <1>6, <2>1, <2>3, <2>4, <2>5 DEF Flow, From, Growing
  <2> QED
    BY <1>1, <1>6, <2>1, <2>6, SinkFlow DEF FlowInv, Simple, Queues
<1> QED
  BY <1>1, <1>7, <1>8

\* What the engine answers has arrived from this client.
LEMMA AnswerFlow == ASSUME FlowInv, NEW u \in UdpClients, NEW d \in Datagrams, Answer(u, d) PROVE FlowInv'
<1>1. UNCHANGED <<engine, proxy, tcp, sent, sink, socket, queue, refused, arrived, answered>>
      /\ replies' = Put(replies, u, d) /\ d \in ToSet(arrived[u])
  BY DEF Answer
<1>2. replies \in [UdpClients -> Seq(Datagrams)] /\ replies[u] \in Seq(Datagrams)
      /\ From(arrived[u], u) /\ From(replies[u], u)
  BY DEF FlowInv, Queues, Flow
<1>3. d[1] = u /\ d[2] <= sent[u]
  BY <1>1, <1>2 DEF From, ToSet
<1>4. /\ replies' \in [UdpClients -> Seq(Datagrams)] /\ replies'[u] = Append(replies[u], d)
      /\ \A v \in UdpClients \ {u} : replies'[v] = replies[v]
  BY <1>1, <1>2, PutElements
<1>5. From(replies'[u], u)
  BY <1>2, <1>3, <1>4, FromAppend
<1>6. Flow(u)'
  BY <1>1, <1>5 DEF FlowInv, Flow, From, Growing
<1> QED
  BY <1>1, <1>4, <1>6, SinkFlow DEF FlowInv, Simple, Queues

\* A reply is taken off the socket and given to the client the socket is for.
LEMMA RecvFlow == ASSUME FlowInv, NEW u \in UdpClients, Recv(u) PROVE FlowInv'
<1> DEFINE r == replies[u]
<1>1. /\ UNCHANGED <<engine, proxy, tcp, sent, sink, socket, queue, refused, arrived>>
      /\ r # <<>> /\ replies' = [replies EXCEPT ![u] = Tail(@)]
      /\ answered' = Put(answered, u, Head(r))
  BY DEF FlowInv, Recv
<1>2. r \in Seq(Datagrams) /\ answered \in [UdpClients -> Seq(Datagrams)] /\ answered[u] \in Seq(Datagrams)
      /\ From(r, u) /\ From(answered[u], u)
  BY DEF FlowInv, Queues, Flow
<1> HIDE DEF r
<1>3. /\ Tail(r) \in Seq(Datagrams) /\ Head(r) \in Datagrams
      /\ From(Tail(r), u) /\ Head(r)[1] = u /\ Head(r)[2] <= sent[u]
  BY <1>1, <1>2, TailElements, FromTail
<1>4. /\ replies' \in [UdpClients -> Seq(Datagrams)] /\ replies'[u] = Tail(r)
      /\ \A v \in UdpClients \ {u} : replies'[v] = replies[v]
  BY <1>1, <1>3 DEF FlowInv, Queues, r
<1>5. /\ answered' \in [UdpClients -> Seq(Datagrams)] /\ answered'[u] = Append(answered[u], Head(r))
      /\ \A v \in UdpClients \ {u} : answered'[v] = answered[v]
  BY <1>1, <1>2, <1>3, PutElements
<1>6. From(answered'[u], u) /\ From(replies'[u], u)
  BY <1>2, <1>3, <1>4, <1>5, FromAppend
<1>7. Flow(u)'
  BY <1>1, <1>6 DEF FlowInv, Flow, From, Growing
<1> QED
  BY <1>1, <1>4, <1>5, <1>7, SinkFlow DEF FlowInv, Simple, Queues

-----------------------------------------------------------------------------
\* At first there are no connections and no datagrams.
LEMMA InitFlow == Init => FlowInv
<1> SUFFICES ASSUME Init PROVE FlowInv
  OBVIOUS
<1>1. Simple /\ Queues
  BY ProxyAssumption DEF Init, Simple, Queues
<1>2. ASSUME NEW u \in UdpClients PROVE socket[u] = u /\ Flow(u)
  <2>1. socket[u] = u /\ queue[u] = <<>> /\ arrived[u] = <<>> /\ replies[u] = <<>> /\ answered[u] = <<>>
    BY DEF Init
  <2>2. DOMAIN <<>> = {}
    OBVIOUS
  <2> QED
    BY <2>1, <2>2 DEF Flow, From, Growing
<1>3. \A c \in TcpClients : Attempts(c)
  BY DEF Init, Attempts
<1> QED
  BY <1>1, <1>2, <1>3 DEF FlowInv

LEMMA StepFlow == FlowInv /\ [Next]_vars => FlowInv'
<1> SUFFICES ASSUME FlowInv, [Next]_vars PROVE FlowInv'
  OBVIOUS
<1>1. CASE Listen \/ EngineDies
  BY <1>1, TcpFlow DEF Listen, EngineDies, udp
<1>2. CASE DropHandle
  BY <1>2, TcpFlow DEF DropHandle
<1>3. ASSUME NEW c \in TcpClients, Accept(c) \/ Tcp(c) \/ RelayEnds(c) PROVE FlowInv'
  BY <1>3, TcpFlow DEF Accept, Tcp, Connect, Wake, RelayEnds, udp
<1>4. ASSUME NEW u \in UdpClients, Sink(u) PROVE FlowInv'
  BY <1>4, EndsFlow, ForwardFlow, RecvFlow DEF Sink
<1>5. CASE UNCHANGED vars
  BY <1>5 DEF FlowInv, Simple, Queues, Attempts, Flow, From, Growing, vars, tcp, udp
<1> QED
  BY <1>1, <1>2, <1>3, <1>4, <1>5, ReceiveFlow, AnswerFlow DEF Next

LEMMA FlowInvariant == Spec => []FlowInv
BY InitFlow, StepFlow, PTL DEF Spec

\* A connection is given up after all its attempts, the datagrams of a client reach the
\* engine in order and once, and it gets answers to what it has asked only, however sinks
\* come and go (connect_with_retries, the channels and the map of sinks of proxy_udp).
THEOREM AttemptsAndOrder == Spec => []ProxyInv
<1>1. FlowInv => TypeOK
  BY QueueTypes DEF FlowInv
<1>2. FlowInv => AllAttemptsMade
  BY DEF FlowInv, Attempts, AllAttemptsMade
<1>3. FlowInv => InOrder
  BY DEF FlowInv, Flow, Growing, InOrder
<1>4. FlowInv => AnswersReachTheAsker
  BY DEF FlowInv, Flow, From, AnswersReachTheAsker, ToSet
<1> QED
  BY <1>1, <1>2, <1>3, <1>4, FlowInvariant, PTL DEF ProxyInv

-----------------------------------------------------------------------------
(***************************************************************************)
(* The refinement of DatagramRelay.  The line of a client is the channel   *)
(* of its sink and the socket behind it.                                   *)
(***************************************************************************)
\* A step of the relay, or none.
Relays == [R!Next]_(R!vars)

\* The engine, the handle and the TCP tasks move no datagram.
LEMMA StillRelays ==
  ASSUME UNCHANGED <<sent, queue, arrived, replies, answered>>
  PROVE  Relays
BY DEF Relays, R!vars

\* A datagram for a task that has ended is lost at once.
LEMMA ReceiveRelays == ASSUME NEW c \in UdpClients, Receive(c) PROVE Relays
<1>1. R!Send(c)
  BY DEF Receive, SinkOf, Put, R!Send
<1> QED
  BY <1>1 DEF Relays, R!Next

\* A task that ends loses what is in its channel, which may be nothing.
LEMMA EndsRelay ==
  ASSUME FlowInv, NEW u \in UdpClients, ConnectSinkFails(u) \/ RecvError(u)
  PROVE  Relays
<1>1. /\ queue' = [queue EXCEPT ![u] = <<>>]
      /\ UNCHANGED <<sent, arrived, replies, answered>>
  BY DEF ConnectSinkFails, RecvError
<1>2. CASE queue[u] = <<>>
  <2>1. UNCHANGED queue
    BY <1>1, <1>2 DEF FlowInv, Queues
  <2> QED
    BY <1>1, <2>1, StillRelays
<1>3. CASE queue[u] # <<>>
  <2>1. R!Lose(u)
    BY <1>1, <1>3 DEF R!Lose
  <2> QED
    BY <2>1 DEF Relays, R!Next
<1> QED
  BY <1>2, <1>3

\* upstream.send sends the head of the channel, or loses it to an error.
LEMMA ForwardRelays == ASSUME NEW u \in UdpClients, Forward(u) PROVE Relays
<1>1. /\ queue[u] # <<>> /\ queue' = [queue EXCEPT ![u] = Tail(@)]
      /\ UNCHANGED <<sent, replies, answered>>
      /\ UNCHANGED arrived \/ arrived' = Put(arrived, u, Head(queue[u]))
  BY DEF Forward
<1>2. R!Lose(u) \/ R!Arrive(u)
  BY <1>1 DEF Put, R!Lose, R!Arrive
<1> QED
  BY <1>2 DEF Relays, R!Next

\* The engine answers what has arrived and has been answered to nobody.
LEMMA AnswerRelays == ASSUME NEW u \in UdpClients, NEW d \in Datagrams, Answer(u, d) PROVE Relays
<1>1. /\ replies' = [replies EXCEPT ![u] = Append(@, d)]
      /\ UNCHANGED <<sent, queue, arrived, answered>>
      /\ d \in ToSet(arrived[u]) /\ d \notin ToSet(replies[u])
      /\ d \notin UNION {ToSet(answered[c]) : c \in UdpClients}
  BY DEF Answer, Put
<1>2. d \notin ToSet(answered[u])
  BY <1>1
<1>3. R!Reply(u)
  BY <1>1, <1>2 DEF R!Reply, R!ToSet, ToSet
<1> QED
  BY <1>3 DEF Relays, R!Next

\* The client a sink was made for is the client whose sink it is.
LEMMA RecvRelays == ASSUME FlowInv, NEW u \in UdpClients, Recv(u) PROVE Relays
<1>1. socket[u] = u
  BY DEF FlowInv
<1>2. R!Return(u)
  BY <1>1 DEF Recv, Put, R!Return
<1> QED
  BY <1>2 DEF Relays, R!Next

LEMMA StepRelays == FlowInv /\ [Next]_vars => Relays
<1> SUFFICES ASSUME FlowInv, [Next]_vars PROVE Relays
  OBVIOUS
<1>1. CASE Listen \/ EngineDies \/ DropHandle
  BY <1>1, StillRelays DEF Listen, EngineDies, DropHandle, udp
<1>2. ASSUME NEW c \in TcpClients, Accept(c) \/ Tcp(c) \/ RelayEnds(c) PROVE Relays
  BY <1>2, StillRelays DEF Accept, Tcp, Connect, Wake, RelayEnds, udp
<1>3. ASSUME NEW u \in UdpClients, Sink(u) PROVE Relays
  BY <1>3, StillRelays, EndsRelay, ForwardRelays, RecvRelays DEF Sink, ConnectSink
<1>4. CASE UNCHANGED vars
  BY <1>4, StillRelays DEF vars, udp
<1> QED
  BY <1>1, <1>2, <1>3, <1>4, ReceiveRelays, AnswerRelays DEF Next

\* With its sinks, tasks and sockets that fail, proxy_udp implements the lines of
\* DatagramRelay: each step is a step of the relay or moves no datagram.
THEOREM ImplementsTheRelay == Spec => ImplementsRelay
<1>1. Init => R!Init
  BY DEF Init, R!Init
<1>2. FlowInv /\ [Next]_vars => [R!Next]_(R!vars)
  BY StepRelays DEF Relays
<1> QED
  BY <1>1, <1>2, FlowInvariant, PTL DEF Spec, ImplementsRelay, R!Spec
=============================================================================
