----------------------------- MODULE PortProxy -----------------------------
(***************************************************************************)
(* The proxies of a container's host ports, for TCP and for UDP, in front  *)
(* of an engine that takes its time to listen.                             *)
(*                                                                         *)
(* TCP: each connection has a task that connects to the engine, with       *)
(* retries, and then copies.  UDP: each client has a sink, a channel whose *)
(* task has a socket of its own, connected to the engine.                  *)
(***************************************************************************)
EXTENDS Naturals, Sequences, SequencesExt

CONSTANTS
  TcpClients, UdpClients,
  MaxConnectAttempts,  \* MAX_CONNECT_ATTEMPTS
  MaxSent              \* bound on the datagrams of a client

ASSUME ProxyAssumption == MaxConnectAttempts \in Nat \ {0} /\ MaxSent \in Nat

VARIABLES
  engine,    \* whether the engine listens
  proxy,     \* whether the proxies run
  conn,      \* the connection of each TCP client
  tries,     \* its attempts to reach the engine
  sent,      \* number of datagrams each UDP client has sent
  sink,      \* the task of its sink
  socket,    \* the client on whose behalf the socket of the sink was made
  queue,     \* the channel of the sink
  refused,   \* the error of the sink's socket: none yet, to be reported, reported
  arrived,   \* datagrams the engine has received from each sink's socket
  replies,   \* its replies, not yet taken from the socket
  answered   \* replies each client has received

tcp == <<conn, tries>>
udp == <<sent, sink, socket, queue, refused, arrived, replies, answered>>
vars == <<engine, proxy, tcp, udp>>

Datagrams == UdpClients \X (1 .. MaxSent)

TypeOK ==
  /\ engine \in {"starting", "listening", "dead"}
  /\ proxy \in {"up", "dropped"}
  /\ conn \in [TcpClients -> {"none", "connecting", "sleeping", "relaying", "unserved", "closed"}]
  /\ tries \in [TcpClients -> 0 .. MaxConnectAttempts]
  /\ sent \in [UdpClients -> 0 .. MaxSent]
  /\ sink \in [UdpClients -> {"none", "connecting", "ready", "ended"}]
  /\ socket \in [UdpClients -> UdpClients]
  /\ refused \in [UdpClients -> {"no", "pending", "seen"}]
  /\ \A c \in UdpClients : \A s \in {queue[c], arrived[c], replies[c], answered[c]} : ToSet(s) \subseteq Datagrams

Init ==
  /\ engine = "starting"
  /\ proxy = "up"
  /\ conn = [c \in TcpClients |-> "none"]
  /\ tries = [c \in TcpClients |-> 0]
  /\ sent = [c \in UdpClients |-> 0]
  /\ sink = [c \in UdpClients |-> "none"]
  /\ socket = [c \in UdpClients |-> c]
  /\ queue = [c \in UdpClients |-> <<>>]
  /\ refused = [c \in UdpClients |-> "no"]
  /\ arrived = [c \in UdpClients |-> <<>>]
  /\ replies = [c \in UdpClients |-> <<>>]
  /\ answered = [c \in UdpClients |-> <<>>]

Listen ==
  /\ engine = "starting"
  /\ engine' = "listening"
  /\ UNCHANGED <<proxy, tcp, udp>>

EngineDies ==
  /\ engine # "dead"
  /\ engine' = "dead"
  /\ UNCHANGED <<proxy, tcp, udp>>

\* ProxyHandle::drop aborts the accept loop and shuts the runtime down, all tasks
\* with it.
DropHandle ==
  /\ proxy = "up"
  /\ proxy' = "dropped"
  /\ conn' = [c \in TcpClients |-> IF conn[c] = "none" THEN "none" ELSE "closed"]
  /\ sink' = [c \in UdpClients |-> IF sink[c] = "none" THEN "none" ELSE "ended"]
  /\ UNCHANGED <<engine, tries, sent, socket, queue, refused, arrived, replies, answered>>

-----------------------------------------------------------------------------
(***************************************************************************)
(* proxy_tcp and connect_with_retries.                                     *)
(***************************************************************************)
Becomes(c, state) == conn' = [conn EXCEPT ![c] = state]

Accept(c) ==
  /\ proxy = "up" /\ conn[c] = "none"
  /\ Becomes(c, "connecting")
  /\ UNCHANGED <<engine, proxy, tries, udp>>

Connect(c) ==
  /\ conn[c] = "connecting"
  /\ tries' = [tries EXCEPT ![c] = @ + 1]
  /\ Becomes(c, IF engine = "listening" THEN "relaying" ELSE "sleeping")
  /\ UNCHANGED <<engine, proxy, udp>>

\* Mutant: the connection is forgotten with its first error.
WakeForNothing(c) ==
  /\ conn[c] = "sleeping"
  /\ Becomes(c, "closed")
  /\ UNCHANGED <<engine, proxy, tries, udp>>

\* retry_delay, after the last attempt too; then the connection is dropped.
Wake(c) ==
  /\ conn[c] = "sleeping"
  /\ Becomes(c, IF tries[c] < MaxConnectAttempts THEN "connecting" ELSE "unserved")
  /\ UNCHANGED <<engine, proxy, tries, udp>>

\* copy_bidirectional ends with either side.
RelayEnds(c) ==
  /\ conn[c] = "relaying"
  /\ Becomes(c, "closed")
  /\ UNCHANGED <<engine, proxy, tries, udp>>

Tcp(c) == Connect(c) \/ Wake(c)

-----------------------------------------------------------------------------
(***************************************************************************)
(* proxy_udp.                                                              *)
(***************************************************************************)
Put(q, c, d) == [q EXCEPT ![c] = Append(@, d)]

\* Mutant: one sink for all.
FirstSink(c) == IF \E u \in UdpClients : sink[u] # "none"
                  THEN CHOOSE u \in UdpClients : sink[u] # "none" ELSE c

\* sinks.entry(client_addr)
SinkOf(c) == c

\* A datagram of c: its sink is made if there is none.  The sink of a task that has
\* ended takes it and loses it.
Receive(c) ==
  LET u == SinkOf(c) IN
  /\ proxy = "up" /\ sent[c] < MaxSent
  /\ sent' = [sent EXCEPT ![c] = @ + 1]
  /\ sink' = IF sink[u] = "none" THEN [sink EXCEPT ![u] = "connecting"] ELSE sink
  /\ socket' = IF sink[u] = "none" THEN [socket EXCEPT ![u] = c] ELSE socket
  /\ queue' = IF sink[u] = "ended" THEN queue ELSE Put(queue, u, <<c, sent[c] + 1>>)
  /\ UNCHANGED <<engine, proxy, tcp, refused, arrived, replies, answered>>

ConnectSink(u) ==
  /\ sink[u] = "connecting"
  /\ sink' = [sink EXCEPT ![u] = "ready"]
  /\ UNCHANGED <<engine, proxy, tcp, sent, socket, queue, refused, arrived, replies, answered>>

\* The socket cannot be had.
ConnectSinkFails(u) ==
  /\ sink[u] = "connecting"
  /\ refused' = [refused EXCEPT ![u] = "seen"]
  /\ sink' = [sink EXCEPT ![u] = "ended"]
  /\ queue' = [queue EXCEPT ![u] = <<>>]
  /\ UNCHANGED <<engine, proxy, tcp, sent, socket, arrived, replies, answered>>

\* Mutant: a datagram that could not be sent is kept, behind the others.
Requeue(u) ==
  /\ sink[u] = "ready" /\ queue[u] # <<>>
  /\ IF engine = "listening" /\ refused[u] # "pending"
       THEN /\ arrived' = Put(arrived, u, Head(queue[u]))
            /\ queue' = [queue EXCEPT ![u] = Tail(@)]
            /\ UNCHANGED refused
       ELSE /\ refused' = [refused EXCEPT ![u] = IF @ = "pending" THEN "seen" ELSE "pending"]
            /\ queue' = [queue EXCEPT ![u] = Append(Tail(@), Head(@))]
            /\ UNCHANGED arrived
  /\ UNCHANGED <<engine, proxy, tcp, sent, sink, socket, replies, answered>>

\* upstream.send.  A port nobody listens on is an error of the socket, which the next
\* call reports in place of what it was to do.
Forward(u) ==
  /\ sink[u] = "ready" /\ queue[u] # <<>>
  /\ queue' = [queue EXCEPT ![u] = Tail(@)]
  /\ CASE refused[u] = "pending" -> refused' = [refused EXCEPT ![u] = "seen"] /\ UNCHANGED arrived
       [] refused[u] # "pending" /\ engine = "listening" ->
            arrived' = Put(arrived, u, Head(queue[u])) /\ UNCHANGED refused
       [] OTHER -> refused' = [refused EXCEPT ![u] = "pending"] /\ UNCHANGED arrived
  /\ UNCHANGED <<engine, proxy, tcp, sent, sink, socket, replies, answered>>

\* The engine answers a datagram, to the socket it came from.
Answer(u, d) ==
  /\ engine = "listening"
  /\ d \in ToSet(arrived[u]) \ (ToSet(replies[u]) \cup UNION {ToSet(answered[c]) : c \in UdpClients})
  /\ replies' = Put(replies, u, d)
  /\ UNCHANGED <<engine, proxy, tcp, sent, sink, socket, queue, refused, arrived, answered>>

\* upstream.recv: the error ends the task.
RecvError(u) ==
  /\ sink[u] = "ready" /\ refused[u] = "pending"
  /\ refused' = [refused EXCEPT ![u] = "seen"]
  /\ sink' = [sink EXCEPT ![u] = "ended"]
  /\ queue' = [queue EXCEPT ![u] = <<>>]
  /\ UNCHANGED <<engine, proxy, tcp, sent, socket, arrived, replies, answered>>

\* A reply goes to the client for whom the sink was made.
Recv(u) ==
  /\ sink[u] = "ready" /\ refused[u] # "pending" /\ replies[u] # <<>>
  /\ answered' = Put(answered, socket[u], Head(replies[u]))
  /\ replies' = [replies EXCEPT ![u] = Tail(@)]
  /\ UNCHANGED <<engine, proxy, tcp, sent, sink, socket, queue, refused, arrived>>

Sink(u) == ConnectSink(u) \/ ConnectSinkFails(u) \/ Forward(u) \/ RecvError(u) \/ Recv(u)

Next ==
  \/ Listen \/ EngineDies \/ DropHandle
  \/ \E c \in TcpClients : Accept(c) \/ Tcp(c) \/ RelayEnds(c)
  \/ \E c \in UdpClients : Receive(c) \/ Sink(c) \/ \E d \in Datagrams : Answer(c, d)

Spec == Init /\ [][Next]_vars
FairSpec ==
  /\ Spec
  /\ \A c \in TcpClients : WF_vars(Tcp(c))
  /\ \A u \in UdpClients : WF_vars(Sink(u))

-----------------------------------------------------------------------------
\* A connection is dropped unserved only after all its attempts have been made.
AllAttemptsMade == \A c \in TcpClients : conn[c] = "unserved" => tries[c] = MaxConnectAttempts

\* The engine sees the datagrams of a client in the order they were sent and none
\* twice, though some may be missing.
InOrder ==
  \A u \in UdpClients : \A i, j \in DOMAIN arrived[u] : i < j => arrived[u][i][2] < arrived[u][j][2]

\* However many clients there are, each gets the answers to what it asked and to
\* nothing else.
AnswersReachTheAsker == \A c \in UdpClients : \A d \in ToSet(answered[c]) : d[1] = c

\* A client of an engine that is starting is served once it listens, if an attempt
\* is left.
LateEngineServes ==
  \A c \in TcpClients :
    conn[c] = "sleeping" /\ tries[c] < MaxConnectAttempts /\ engine = "listening" ~>
      conn[c] = "relaying" \/ engine = "dead" \/ proxy = "dropped"

\* What a client sends to an engine that listens arrives, unless the client's
\* socket has had an error before: after that the proxy may lose all it sends.
UnlessRefusedArrives ==
  \A c \in UdpClients : \A n \in 1 .. MaxSent :
    sent[c] = n /\ refused[c] = "no" /\ engine = "listening" ~>
      \/ <<c, n>> \in ToSet(arrived[c])
      \/ refused[c] # "no" \/ engine = "dead" \/ proxy = "dropped"

\* The types, what the two loops do with their attempts and their queue (connect in
\* proxy_tcp, the channel of proxy_udp), and who is answered.
ProxyInv == TypeOK /\ AllAttemptsMade /\ InOrder /\ AnswersReachTheAsker

\* Whether by connection or datagram, a client gets through to an engine that listens.
Reaches == LateEngineServes /\ UnlessRefusedArrives

-----------------------------------------------------------------------------
R == INSTANCE DatagramRelay WITH Clients <- UdpClients, under <- queue, back <- replies

\* With its sinks, tasks and sockets that fail, and whatever the engine and the handle do,
\* proxy_udp is to each client a line of its own: datagrams and answers may be lost, but
\* keep their order, come once, and end nowhere else.
ImplementsRelay == R!Spec
=============================================================================
