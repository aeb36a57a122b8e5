-------------------------- MODULE KeyExchangeProofs --------------------------
(***************************************************************************)
(* Theorems about KeyExchange: the server never uses a key that the client  *)
(* has not acknowledged, the two ends agree between negotiations, and       *)
(* together they implement the abstract handover of keys, for every number *)
(* of connections, rounds and faults and all capacities.                   *)
(***************************************************************************)
EXTENDS KeyExchange, ConnectionManagerProofs

-----------------------------------------------------------------------------
(* The inductive invariant.                                                *)

\* The server accepts connections the client has made, and the client's protocol
\* runs on one of them.
ConnectedInv ==
  /\ next_connection_id <= connects
  /\ client \in {"read", "fetch", "ack", "install"} => connection \in ConnectionId

\* Where a task may be once it has sent the request of its present round and not
\* yet read the acknowledgement.
Awaiting == {"ack", "exit", "ended", "reaped"}

\* On every connection a request or an acknowledgement on the way is the only
\* one and belongs to the present round of the task, which has not read the
\* acknowledgement yet.
WireInv ==
  \A c \in ConnectionId :
    /\ rekey_reqs[c] # <<>> => /\ rekey_reqs[c] = <<round[c]>>
                               /\ task[c] \in Awaiting
                               /\ Key(c, round[c]) \notin acknowledged
    /\ rekey_acks[c] > 0 => /\ rekey_acks[c] = 1
                            /\ task[c] \in Awaiting
                            /\ Key(c, round[c]) \in acknowledged

\* A task asks for a new key, and goes on with one that was acknowledged.
RoundInv ==
  \A c \in ConnectionId :
    /\ task[c] = "write" => round[c] > 0 /\ Key(c, round[c]) \notin acknowledged
    /\ task[c] \in {"notify", "sleep"} => Key(c, round[c]) \in acknowledged

\* The client works on the request of the present round of its connection, which
\* is then in its hands only.
ClientInv ==
  /\ client \in {"fetch", "ack"} =>
       /\ request = round[connection]
       /\ request > 0
       /\ rekey_reqs[connection] = <<>>
       /\ task[connection] \in Awaiting
       /\ Key(connection, request) \notin acknowledged
  /\ client = "install" => Key(connection, request) \in acknowledged

\* Acknowledged keys are of connections the client has made, and of rounds their
\* tasks have begun.
AckedInv ==
  \A k \in acknowledged :
    /\ k = Key(k.connection_id, k.round)
    /\ k.connection_id < connects
    /\ k.round <= round[k.connection_id]

\* The client has the newest key it acknowledged in its hands or in use; on a new
\* connection it has acknowledged none.
InstallInv ==
  /\ installed \in acknowledged \cup {NoEvent}
  /\ client = "install" =>
       LET k == Key(connection, request) IN
       /\ \A j \in acknowledged : j = k \/ Newer(k, j)
       /\ Newer(k, installed)
  /\ client = "read" =>
       \A j \in acknowledged :
         j.connection_id = connection => j = installed \/ Newer(installed, j)

\* A pruned connection stays away.
PrunedInv == \A c \in pruned : c < next_connection_id /\ c \notin Registered

\* The key of a task that sleeps has gone to the worker or is on its way there,
\* unless its connection was superseded or pruned.
DeliveryInv ==
  manager # "failed" =>
    \A c \in ConnectionId :
      task[c] = "sleep" =>
        \/ Queued(Key(c, round[c]))
        \/ Key(c, round[c]) \in {forwarding, forwarded}
        \/ c < promoted
        \/ c \in pruned

XInv == /\ IInv
        /\ ExchangeTypeOK
        /\ ConnectedInv
        /\ WireInv
        /\ RoundInv
        /\ ClientInv
        /\ AckedInv
        /\ ServerNeverAhead
        /\ InstallInv
        /\ PrunedInv
        /\ DeliveryInv

-----------------------------------------------------------------------------
(* Keys and steps.                                                         *)

\* A key is told by its connection and its round.
LEMMA KeyParts ==
  ASSUME NEW c, NEW r
  PROVE  /\ Key(c, r).type = "Osk"
         /\ Key(c, r).connection_id = c
         /\ Key(c, r).round = r
         /\ Key(c, r) # NoEvent
BY DEF Key, OskEvent, NoEvent

\* The keys of the rounds are events.
LEMMA KeyType ==
  ASSUME NEW c \in ConnectionId, NEW r \in 0 .. MaxRounds
  PROVE  Key(c, r) \in Event
BY EventType DEF Key

\* The steps of the client and of the network.
ClientSide == \/ ClientStep
              \/ ClientFault
              \/ ClientPanic
              \/ ClientWorkerPanic
              \/ \E c \in 0 .. (connects - 1) : PathDies(c)

\* The steps of the server that do not touch the connections.
ServerSide == \/ ServerAccept
              \/ ServerManager
              \/ ServerWorker
              \/ ServerFatal
              \/ \E c \in ConnectionId : \/ ServerLocal(c)
                                         \/ ServerError(c)
                                         \/ ServerFault(c)

\* Steps of the client and of the network leave the server alone.
LEMMA ClientSideOnly == ClientSide => UNCHANGED vars
BY DEF ClientSide, ClientStep, ClientConnect, ClientRead, ClientFetched, ClientAck,
       ClientInstall, ClientError, ClientRetry, ClientLosesConnection, ClientFault,
       ClientPanic, ClientWorkerPanic, PathDies, serverVars

\* Every step of the composition is one of the server's or leaves it alone.
LEMMA ServerStep == [ExchangeNext]_exchangeVars => [Next]_vars
<1> SUFFICES ASSUME [ExchangeNext]_exchangeVars PROVE [Next]_vars
  OBVIOUS
<1>1. CASE ClientSide
  BY <1>1, ClientSideOnly
<1>2. CASE ServerAccept \/ ServerManager \/ ServerWorker \/ ServerFatal
  BY <1>2 DEF ServerAccept, ServerManager, ServerWorker, ServerFatal, Next
<1>3. ASSUME NEW c \in ConnectionId,
             \/ ServerWrite(c) \/ ServerAcked(c) \/ ServerLocal(c)
             \/ ServerError(c) \/ ServerFault(c)
      PROVE  Next
  BY <1>3 DEF ServerWrite, ServerAcked, ServerLocal, ServerError, ServerFault, Next,
              TaskStep
<1>4. CASE UNCHANGED exchangeVars
  BY <1>4 DEF exchangeVars, serverVars
<1> QED
  BY <1>1, <1>2, <1>3, <1>4 DEF ExchangeNext, ClientSide

\* Where one step of the server that does not touch the connections takes a task.
Moves(c) ==
  \/ task'[c] = task[c] /\ round'[c] = round[c]
  \/ task[c] = "fetch" /\ task'[c] = "write" /\ round'[c] = round[c] + 1
  \/ /\ round'[c] = round[c]
     /\ \/ task[c] = "notify" /\ task'[c] = "sleep"
        \/ task[c] \in {"none", "sleep"} /\ task'[c] = "fetch"
        \/ Running(c) /\ task'[c] \in {"exit", "ended", "reaped"}
        \/ task[c] = "fetch" /\ task'[c] = "panicked"

LEMMA ServerMoves ==
  ASSUME TypeOK, TaskInv, ServerSide
  PROVE  /\ UNCHANGED <<wireVars, clientVars>>
         /\ \A c \in ConnectionId : Moves(c)
<1>1. UNCHANGED <<wireVars, clientVars>>
  BY DEF ServerSide, ServerAccept, ServerManager, ServerWorker, ServerFatal,
         ServerLocal, ServerError, ServerFault
<1>2. ASSUME NEW c \in ConnectionId PROVE Moves(c)
  <2>1. CASE OnAccept
    BY <2>1 DEF OnAccept, Moves, TaskInv, TypeOK, ConnectionId
  <2>2. ASSUME NEW d \in ConnectionId,
               \/ TaskFetched(d) \/ TaskNotify(d) \/ TaskWake(d) \/ TaskExit(d)
               \/ TaskReaped(d) \/ TaskError(d) \/ TaskPanic(d)
        PROVE  Moves(c)
    BY <2>2 DEF TaskFetched, TaskNotify, TaskWake, TaskExit, TaskReaped, TaskError,
                TaskPanic, Goto, Running, Moves, TypeOK
  <2>3. CASE UNCHANGED taskVars
    BY <2>3 DEF Moves, taskVars
  <2> QED
    BY <2>1, <2>2, <2>3
    DEF ServerSide, ServerAccept, ServerManager, ServerWorker, ServerFatal,
        ServerLocal, ServerError, ServerFault, ManagerStep, AcceptError, ManagerFails,
        OnExit, OnOskFromStale, OnOskFromActive, OnOskFromUnknown, OnOskFromBudding,
        ForwardDone, ForwardError, WorkerRecv, WorkerPanic
<1> QED
  BY <1>1, <1>2

-----------------------------------------------------------------------------
(* Type correctness.                                                       *)

\* Every step keeps the server's invariant.
LEMMA ServerInvPreserved == IInv /\ [ExchangeNext]_exchangeVars => IInv'
BY ServerStep, InvPreserved

\* Every step keeps the client on a connection it has made.
LEMMA ConnectedPreserved ==
  ASSUME ExchangeTypeOK, ConnectedInv, [ExchangeNext]_exchangeVars
  PROVE  ConnectedInv'
<1> USE ManagerAssumption DEF ExchangeTypeOK, TypeOK, ConnectedInv, ConnectionId
<1>1. CASE ClientSide
  <2>1. UNCHANGED next_connection_id
    BY <1>1, ClientSideOnly DEF vars, managerVars
  <2>2. CASE ClientConnect
    <3>1. /\ connects' = connects + 1
          /\ connection' = connects
          /\ connects < MaxConnections
      BY <2>2 DEF ClientConnect
    <3>2. connects \in Nat /\ next_connection_id \in Nat
      OBVIOUS
    <3> HIDE DEF ExchangeTypeOK, TypeOK
    <3> QED
      BY <2>1, <3>1, <3>2
  <2>3. CASE ClientRead \/ ClientFetched \/ ClientAck \/ ClientInstall \/ ClientWorkerPanic
    BY <2>1, <2>3 DEF ClientRead, ClientFetched, ClientAck, ClientInstall, ClientWorkerPanic
  <2>4. CASE ClientError \/ ClientRetry \/ ClientFault \/ ClientPanic
    BY <2>1, <2>4 DEF ClientError, ClientRetry, ClientLosesConnection, ClientFault,
                      ClientPanic
  <2>5. ASSUME NEW c \in 0 .. (connects - 1), PathDies(c) PROVE ConnectedInv'
    BY <2>1, <2>5 DEF PathDies, clientVars
  <2> QED
    BY <1>1, <2>2, <2>3, <2>4, <2>5 DEF ClientSide, ClientStep
<1>2. CASE ServerAccept
  BY <1>2 DEF ServerAccept, OnAccept, clientVars
<1>3. CASE ServerManager \/ ServerWorker \/ ServerFatal
  BY <1>3 DEF ServerManager, ServerWorker, ServerFatal, ManagerStep, AcceptError,
              ManagerFails, OnExit, OnOskFromStale, OnOskFromActive, OnOskFromUnknown,
              OnOskFromBudding, ForwardDone, ForwardError, WorkerRecv, WorkerPanic,
              managerVars, clientVars
<1>4. ASSUME NEW c \in ConnectionId,
             \/ ServerWrite(c) \/ ServerAcked(c) \/ ServerLocal(c)
             \/ ServerError(c) \/ ServerFault(c)
      PROVE  ConnectedInv'
  BY <1>4 DEF ServerWrite, ServerAcked, ServerLocal, ServerError, ServerFault,
              TaskWritten, TaskAcked, TaskFetched, TaskNotify, TaskWake, TaskExit,
              TaskReaped, TaskError, TaskPanic, managerVars, clientVars
<1>5. CASE UNCHANGED exchangeVars
  BY <1>5 DEF exchangeVars, serverVars, vars, managerVars, clientVars
<1> QED
  BY <1>1, <1>2, <1>3, <1>4, <1>5 DEF ExchangeNext, ClientSide

\* The part of the type invariant about the client and the wire.
ClientTypeOK ==
  /\ client \in {"connect", "read", "fetch", "ack", "install", "sleep", "panicked"}
  /\ connects \in 0 .. MaxConnections
  /\ connection \in IF client \in {"connect", "sleep", "panicked"} THEN {None}
                    ELSE {connects - 1}
  /\ request \in 0 .. MaxRounds
  /\ rekey_reqs \in [ConnectionId -> Seq(1 .. MaxRounds)]
  /\ rekey_acks \in [ConnectionId -> Nat]
  /\ hung_up \subseteq 0 .. (connects - 1)
  /\ client_worker \in {"running", "gone"}
  /\ silent \subseteq 0 .. (connects - 1)
  /\ unanswered \subseteq {"client", "server"} \X silent
  /\ acknowledged \subseteq Event
  /\ installed \in Event \cup {NoEvent}
  /\ faults \in 0 .. MaxFaults

\* The parts of a queue.
LEMMA QueueParts ==
  ASSUME NEW S, NEW q \in Seq(S), q # <<>>
  PROVE  Head(q) \in S /\ Tail(q) \in Seq(S)
OBVIOUS

\* Every step keeps the types of the client and of the wire.
LEMMA ClientTypePreserved ==
  ASSUME TypeOK, TaskInv, ClientTypeOK, ConnectedInv, RoundInv, [ExchangeNext]_exchangeVars
  PROVE  ClientTypeOK'
<1> USE ManagerAssumption, ExchangeAssumption DEF ClientTypeOK, ConnectedInv
<1>1. CASE ClientConnect
  BY <1>1 DEF ClientConnect, wireVars, ConnectionId
<1>2. CASE ClientRead
  <2>0. rekey_reqs[connection] \in Seq(1 .. MaxRounds) /\ rekey_reqs[connection] # <<>>
    BY <1>2 DEF ClientRead
  <2>1. /\ Head(rekey_reqs[connection]) \in 1 .. MaxRounds
        /\ Tail(rekey_reqs[connection]) \in Seq(1 .. MaxRounds)
    BY <2>0, QueueParts
  <2>2. rekey_reqs' \in [ConnectionId -> Seq(1 .. MaxRounds)]
    BY <1>2, <2>1 DEF ClientRead
  <2>3. request' \in 0 .. MaxRounds
    BY <1>2, <2>1 DEF ClientRead
  <2> QED
    BY <1>2, <2>2, <2>3 DEF ClientRead
<1>3. CASE ClientFetched \/ ClientRetry \/ ClientWorkerPanic
  BY <1>3 DEF ClientFetched, ClientRetry, ClientWorkerPanic, wireVars
<1>4. CASE ClientAck
  <2>1. Key(connection, request) \in Event /\ connection \in ConnectionId
    BY <1>4, KeyType DEF ClientAck
  <2>2. unanswered' \subseteq {"client", "server"} \X silent
    BY <1>4 DEF ClientAck, Sends
  <2> QED
    BY <1>4, <2>1, <2>2 DEF ClientAck
<1>5. CASE ClientInstall
  <2>1. Key(connection, request) \in Event
    BY <1>5, KeyType DEF ClientInstall
  <2> QED
    BY <1>5, <2>1 DEF ClientInstall, wireVars
<1>6. CASE ClientError \/ ClientFault \/ ClientPanic
  <2>1. hung_up' \subseteq hung_up \cup ({connection} \ {None})
    <3>1. client = "fetch" => connection # None
      BY DEF ConnectionId
    <3> QED
      BY <1>6, <3>1 DEF ClientError, ClientFault, ClientPanic, ClientLosesConnection
  <2>2. connection # None => connection \in 0 .. (connects - 1)
    BY DEF ConnectionId
  <2>3. hung_up' \subseteq 0 .. (connects - 1)
    BY <2>1, <2>2
  <2>4. client' \in {"sleep", "panicked"} /\ connection' = None /\ request' = 0
    BY <1>6 DEF ClientError, ClientFault, ClientPanic, ClientLosesConnection
  <2>5. faults' \in 0 .. MaxFaults
    BY <1>6 DEF ClientError, ClientFault, ClientPanic, Fault
  <2>6. UNCHANGED <<wireVars, connects, client_worker, acknowledged, installed>>
    BY <1>6 DEF ClientError, ClientFault, ClientPanic, ClientLosesConnection
  <2> QED
    BY <2>3, <2>4, <2>5, <2>6 DEF wireVars
<1>7. ASSUME NEW c \in 0 .. (connects - 1), PathDies(c) PROVE ClientTypeOK'
  <2>1. c \in ConnectionId
    BY <1>7 DEF ConnectionId
  <2>2. PICK reqs \in {<<>>, rekey_reqs[c]}, acks \in {0, rekey_acks[c]} :
          /\ rekey_reqs' = [rekey_reqs EXCEPT ![c] = reqs]
          /\ rekey_acks' = [rekey_acks EXCEPT ![c] = acks]
          /\ unanswered' = unanswered
               \cup (IF reqs = rekey_reqs[c] THEN {} ELSE {<<"server", c>>})
               \cup (IF acks = rekey_acks[c] THEN {} ELSE {<<"client", c>>})
    BY <1>7 DEF PathDies
  <2>3. reqs \in Seq(1 .. MaxRounds) /\ acks \in Nat
    <3>1. rekey_reqs[c] \in Seq(1 .. MaxRounds) /\ <<>> \in Seq(1 .. MaxRounds)
      BY <2>1
    <3>2. rekey_acks[c] \in Nat
      BY <2>1
    <3>3. (reqs = <<>> \/ reqs = rekey_reqs[c]) /\ (acks = 0 \/ acks = rekey_acks[c])
      BY <2>2
    <3>4. 0 \in Nat
      OBVIOUS
    <3> HIDE DEF ClientTypeOK
    <3> QED
      BY <3>1, <3>2, <3>3, <3>4, Zenon
  <2>4. silent' = silent \cup {c}
    BY <1>7 DEF PathDies
  <2>5. unanswered' \subseteq {"client", "server"} \X silent'
    BY <2>2, <2>4
  <2> QED
    BY <1>7, <2>1, <2>2, <2>3, <2>4, <2>5 DEF PathDies, Fault, clientVars
<1>8. CASE ServerSide
  <2>1. UNCHANGED <<wireVars, clientVars>>
    BY <1>8, ServerMoves
  <2>2. faults' \in 0 .. MaxFaults
    BY <1>8 DEF ServerSide, ServerAccept, ServerManager, ServerWorker, ServerFatal,
                ServerLocal, ServerError, ServerFault, Fault
  <2> QED
    BY <2>1, <2>2 DEF wireVars, clientVars
<1>9. ASSUME NEW c \in ConnectionId, ServerWrite(c) PROVE ClientTypeOK'
  <2>1. round[c] \in 1 .. MaxRounds
    BY <1>9 DEF ServerWrite, TaskWritten, Goto, RoundInv, TypeOK
  <2>2. Append(rekey_reqs[c], round[c]) \in Seq(1 .. MaxRounds)
    BY <2>1
  <2>3. unanswered' \subseteq {"client", "server"} \X silent
    BY <1>9 DEF ServerWrite, Sends
  <2> QED
    BY <1>9, <2>2, <2>3 DEF ServerWrite, clientVars
<1>10. ASSUME NEW c \in ConnectionId, ServerAcked(c) PROVE ClientTypeOK'
  BY <1>10 DEF ServerAcked, clientVars
<1>11. CASE UNCHANGED exchangeVars
  BY <1>11 DEF exchangeVars, wireVars, clientVars
<1> QED
  BY <1>1, <1>2, <1>3, <1>4, <1>5, <1>6, <1>7, <1>8, <1>9, <1>10, <1>11
  DEF ExchangeNext, ClientStep, ServerSide

-----------------------------------------------------------------------------
(* The negotiation on one connection.                                      *)

Negotiation == WireInv /\ RoundInv /\ ClientInv /\ AckedInv

\* An acknowledged key is an event of a connection, of a round its task has begun.
LEMMA AckedKey ==
  ASSUME TypeOK, ClientTypeOK, AckedInv, NEW c \in ConnectionId, NEW r \in Nat,
         Key(c, r) \in acknowledged
  PROVE  /\ c < connects
         /\ r <= round[c]
BY KeyParts DEF AckedInv

\* Steps of the server between its connections and within its tasks: a task never
\* leaves a round with its request or its acknowledgement on the way, and begins a
\* round nobody has acknowledged.
LEMMA NegotiationServerSide ==
  ASSUME TypeOK, TaskInv, ClientTypeOK, ConnectedInv, Negotiation, ServerSide
  PROVE  Negotiation'
<1>1. /\ UNCHANGED <<rekey_reqs, rekey_acks, client, connection, connects, request,
                     acknowledged>>
      /\ \A c \in ConnectionId : Moves(c)
  BY ServerMoves DEF wireVars, clientVars
<1>2. \A c \in ConnectionId :
        /\ round[c] \in Nat
        /\ round'[c] = round[c] \/ round'[c] = round[c] + 1
        /\ task[c] \in Awaiting => task'[c] \in Awaiting /\ round'[c] = round[c]
  <2>1. \A c \in ConnectionId : round[c] \in Nat
    BY ManagerAssumption DEF TypeOK
  <2> QED
    BY <1>1, <2>1 DEF Moves, Awaiting, Running
<1>3. WireInv'
  BY <1>1, <1>2 DEF Negotiation, WireInv
<1>4. RoundInv'
  <2> SUFFICES ASSUME NEW c \in ConnectionId
               PROVE  /\ task'[c] = "write"
                           => round'[c] > 0 /\ Key(c, round'[c]) \notin acknowledged'
                      /\ task'[c] \in {"notify", "sleep"}
                           => Key(c, round'[c]) \in acknowledged'
    BY DEF RoundInv
  <2>1. Moves(c) /\ round[c] \in Nat
    BY <1>1, <1>2
  <2>2. CASE task'[c] = task[c] /\ round'[c] = round[c]
    BY <1>1, <2>2 DEF Negotiation, RoundInv
  <2>3. CASE task'[c] = "write" /\ round'[c] = round[c] + 1
    BY <1>1, <2>1, <2>3, AckedKey DEF Negotiation
  <2>4. CASE round'[c] = round[c] /\ task[c] = "notify" /\ task'[c] = "sleep"
    BY <1>1, <2>4 DEF Negotiation, RoundInv
  <2>5. CASE task'[c] \notin {"write", "notify", "sleep"}
    BY <2>5
  <2> QED
    BY <2>1, <2>2, <2>3, <2>4, <2>5 DEF Moves
<1>5. ClientInv'
  BY <1>1, <1>2 DEF Negotiation, ClientInv, ConnectedInv
<1>6. AckedInv'
  <2>1. \A k \in acknowledged : k.connection_id \in ConnectionId /\ k.round \in Nat
    BY ManagerAssumption DEF ClientTypeOK, Event
  <2> QED
    BY <1>1, <1>2, <2>1 DEF Negotiation, AckedInv
<1> QED
  BY <1>3, <1>4, <1>5, <1>6 DEF Negotiation

\* Writing a request, reading an acknowledgement.
LEMMA NegotiationServerWire ==
  ASSUME TypeOK, ClientTypeOK, ConnectedInv, Negotiation, NEW c \in ConnectionId,
         ServerWrite(c) \/ ServerAcked(c)
  PROVE  Negotiation'
<1> USE DEF Negotiation
<1>1. /\ UNCHANGED <<client, connection, connects, request, acknowledged, round>>
      /\ \A d \in ConnectionId \ {c} :
           /\ task'[d] = task[d]
           /\ rekey_reqs'[d] = rekey_reqs[d]
           /\ rekey_acks'[d] = rekey_acks[d]
  BY DEF ServerWrite, ServerAcked, TaskWritten, TaskAcked, Goto, clientVars, TypeOK,
         ClientTypeOK
<1>2. AckedInv'
  BY <1>1 DEF AckedInv
<1>3. CASE ServerWrite(c)
  <2>1. /\ task[c] = "write" /\ task'[c] = "ack"
        /\ rekey_acks'[c] = rekey_acks[c]
        /\ rekey_reqs'[c] = rekey_reqs[c] \/ rekey_reqs'[c] = Append(rekey_reqs[c], round[c])
    BY <1>3 DEF ServerWrite, TaskWritten, Goto, TypeOK, ClientTypeOK
  <2>2. task[c] \notin Awaiting /\ task'[c] \in Awaiting
    BY <2>1 DEF Awaiting
  <2>3. rekey_reqs[c] = <<>> /\ ~(rekey_acks[c] > 0)
    BY <2>2 DEF WireInv
  <2>4. Append(rekey_reqs[c], round[c]) = <<round[c]>>
    BY <2>3
  <2>5. Key(c, round[c]) \notin acknowledged
    BY <2>1 DEF RoundInv
  <2>6. WireInv'
    BY <1>1, <2>1, <2>2, <2>3, <2>4, <2>5 DEF WireInv
  <2>7. RoundInv'
    BY <1>1, <2>1 DEF RoundInv
  <2>8. ClientInv'
    BY <1>1, <2>2, <2>1 DEF ClientInv, ConnectedInv
  <2> QED
    BY <1>2, <2>6, <2>7, <2>8
<1>4. CASE ServerAcked(c)
  <2>1. /\ task[c] = "ack" /\ task'[c] = "notify"
        /\ rekey_acks[c] > 0
        /\ rekey_acks'[c] = rekey_acks[c] - 1
        /\ rekey_reqs'[c] = rekey_reqs[c]
    BY <1>4 DEF ServerAcked, TaskAcked, Goto, TypeOK, ClientTypeOK
  <2>2. rekey_acks[c] = 1 /\ Key(c, round[c]) \in acknowledged
    BY <2>1 DEF WireInv
  <2>3. rekey_reqs[c] = <<>>
    BY <2>2 DEF WireInv
  <2>4. rekey_acks'[c] = 0
    BY <2>1, <2>2
  <2>5. WireInv'
    BY <1>1, <2>1, <2>3, <2>4 DEF WireInv
  <2>6. RoundInv'
    BY <1>1, <2>1, <2>2 DEF RoundInv
  <2>7. ClientInv'
    BY <1>1, <2>1, <2>2 DEF ClientInv, ConnectedInv
  <2> QED
    BY <1>2, <2>5, <2>6, <2>7
<1> QED
  BY <1>3, <1>4

\* Steps of the client and of the network.
LEMMA NegotiationClientSide ==
  ASSUME TypeOK, TaskInv, ClientTypeOK, ConnectedInv, Negotiation, ClientSide
  PROVE  Negotiation'
<1> USE DEF Negotiation
<1>1. UNCHANGED <<task, round, next_connection_id>>
  BY ClientSideOnly DEF vars, taskVars, managerVars
<1>2. ASSUME UNCHANGED <<connects, acknowledged>> PROVE RoundInv' /\ AckedInv'
  BY <1>1, <1>2 DEF RoundInv, AckedInv
<1>3. ASSUME UNCHANGED <<rekey_reqs, rekey_acks, acknowledged>> PROVE WireInv'
  BY <1>1, <1>3 DEF WireInv
<1>4. CASE ClientConnect
  <2>1. UNCHANGED <<rekey_reqs, rekey_acks, acknowledged>>
    BY <1>4 DEF ClientConnect, wireVars
  <2>2. client' = "read" /\ connects' = connects + 1
    BY <1>4 DEF ClientConnect
  <2>3. RoundInv' /\ ClientInv'
    BY <1>1, <2>1, <2>2 DEF RoundInv, ClientInv
  <2>4. \A k \in acknowledged : k.connection_id \in Int
    BY DEF ClientTypeOK, Event, ConnectionId
  <2>5. connects \in Int
    BY ManagerAssumption DEF ClientTypeOK
  <2>6. AckedInv'
    BY <1>1, <2>1, <2>2, <2>4, <2>5 DEF AckedInv
  <2> QED
    BY <1>3, <2>1, <2>3, <2>6
<1>5. CASE ClientRead
  <2>1. /\ connection \in ConnectionId
        /\ rekey_reqs[connection] # <<>>
        /\ rekey_reqs' = [rekey_reqs EXCEPT ![connection] = Tail(@)]
        /\ request' = Head(rekey_reqs[connection])
        /\ client' = "fetch"
        /\ UNCHANGED <<rekey_acks, connection, connects, acknowledged>>
    BY <1>5 DEF ClientRead, ConnectedInv
  <2>2. /\ rekey_reqs[connection] = <<round[connection]>>
        /\ task[connection] \in Awaiting
        /\ Key(connection, round[connection]) \notin acknowledged
    BY <2>1 DEF WireInv
  <2>3. rekey_reqs[connection] \in Seq(1 .. MaxRounds)
    BY <2>1 DEF ClientTypeOK
  <2>4. request' \in 1 .. MaxRounds
    BY <2>1, <2>3, QueueParts
  <2>5. request' = round[connection] /\ Tail(rekey_reqs[connection]) = <<>>
    BY <2>1, <2>2
  <2>6. /\ rekey_reqs'[connection] = <<>>
        /\ \A c \in ConnectionId \ {connection} : rekey_reqs'[c] = rekey_reqs[c]
    BY <2>1, <2>5 DEF ClientTypeOK
  <2>7. WireInv'
    BY <1>1, <2>1, <2>6 DEF WireInv
  <2>8. ClientInv'
    BY <1>1, <2>1, <2>2, <2>4, <2>5, <2>6 DEF ClientInv
  <2> QED
    BY <1>2, <2>1, <2>7, <2>8
<1>6. CASE ClientFetched
  BY <1>1, <1>2, <1>3, <1>6 DEF ClientFetched, wireVars, ClientInv
<1>7. CASE ClientAck
  <2> DEFINE k == Key(connection, request)
  <2>1. /\ client = "ack" /\ client' = "install"
        /\ connection \in ConnectionId
        /\ rekey_acks' = [rekey_acks EXCEPT ![connection] =
                            IF connection \in silent THEN @ ELSE @ + 1]
        /\ acknowledged' = acknowledged \cup {k}
        /\ UNCHANGED <<rekey_reqs, connection, connects, request>>
    BY <1>7 DEF ClientAck, ConnectedInv
  <2>2. /\ request = round[connection]
        /\ request > 0
        /\ rekey_reqs[connection] = <<>>
        /\ task[connection] \in Awaiting
        /\ k \notin acknowledged
    BY <2>1 DEF ClientInv
  <2>3. ~(rekey_acks[connection] > 0) /\ rekey_acks[connection] \in Nat
    BY <2>1, <2>2 DEF WireInv, ClientTypeOK
  <2>4. /\ rekey_acks'[connection] \in {0, 1}
        /\ \A c \in ConnectionId \ {connection} : rekey_acks'[c] = rekey_acks[c]
    BY <2>1, <2>3 DEF ClientTypeOK
  <2>5. /\ k.connection_id = connection /\ k.round = request
        /\ \A c \in ConnectionId \ {connection} : Key(c, round[c]) # k
    BY KeyParts
  <2> HIDE DEF k
  <2>6. WireInv'
    BY <1>1, <2>1, <2>2, <2>4, <2>5 DEF WireInv, k
  <2>7. RoundInv'
    BY <1>1, <2>1, <2>2, <2>5 DEF RoundInv, Awaiting
  <2>8. ClientInv'
    BY <2>1 DEF ClientInv, k
  <2>9. connection < connects
    BY <2>1, ManagerAssumption DEF ClientTypeOK
  <2>10. request <= round[connection]
    BY <2>1, <2>2, ManagerAssumption DEF TypeOK
  <2>11. AckedInv'
    BY <1>1, <2>1, <2>5, <2>9, <2>10 DEF AckedInv, k
  <2> QED
    BY <2>6, <2>7, <2>8, <2>11
<1>8. CASE ClientInstall \/ ClientWorkerPanic
  BY <1>1, <1>2, <1>3, <1>8 DEF ClientInstall, ClientWorkerPanic, wireVars, ClientInv
<1>9. CASE ClientError \/ ClientRetry \/ ClientFault \/ ClientPanic
  <2>1. /\ UNCHANGED <<connects, acknowledged, rekey_reqs, rekey_acks>>
        /\ client' \notin {"fetch", "ack", "install"}
    BY <1>9 DEF ClientError, ClientRetry, ClientLosesConnection, ClientFault,
                ClientPanic, wireVars
  <2> QED
    BY <1>2, <1>3, <2>1 DEF ClientInv
<1>10. ASSUME NEW c \in 0 .. (connects - 1), PathDies(c) PROVE Negotiation'
  <2>1. c \in ConnectionId
    BY ManagerAssumption DEF ClientTypeOK, ConnectionId
  <2>2. UNCHANGED <<client, connection, connects, request, acknowledged>>
    BY <1>10 DEF PathDies, clientVars
  <2>3. /\ rekey_reqs'[c] = <<>> \/ rekey_reqs'[c] = rekey_reqs[c]
        /\ rekey_acks'[c] = 0 \/ rekey_acks'[c] = rekey_acks[c]
        /\ \A d \in ConnectionId \ {c} : /\ rekey_reqs'[d] = rekey_reqs[d]
                                         /\ rekey_acks'[d] = rekey_acks[d]
    BY <1>10, <2>1 DEF PathDies, ClientTypeOK
  <2>4. WireInv'
    BY <1>1, <2>2, <2>3 DEF WireInv
  <2>5. ClientInv'
    BY <1>1, <2>2, <2>3 DEF ClientInv, ConnectedInv
  <2> QED
    BY <1>2, <2>2, <2>4, <2>5
<1> QED
  BY <1>4, <1>5, <1>6, <1>7, <1>8, <1>9, <1>10 DEF ClientSide, ClientStep

\* Every step keeps what is known of the negotiations.
LEMMA NegotiationPreserved ==
  ASSUME TypeOK, TaskInv, ClientTypeOK, ConnectedInv, Negotiation,
         [ExchangeNext]_exchangeVars
  PROVE  Negotiation'
<1>1. CASE UNCHANGED exchangeVars
  BY <1>1 DEF exchangeVars, serverVars, vars, taskVars, wireVars, clientVars,
              Negotiation, WireInv, RoundInv, ClientInv, AckedInv
<1> QED
  BY <1>1, NegotiationServerSide, NegotiationServerWire, NegotiationClientSide
  DEF ExchangeNext, ServerSide, ClientSide

-----------------------------------------------------------------------------
(* The server does not run ahead of the client.                            *)

\* The client does not take back an acknowledgement.
LEMMA AckedGrows == [ExchangeNext]_exchangeVars => acknowledged \subseteq acknowledged'
<1>1. ServerSide \/ ClientSide \/ UNCHANGED exchangeVars
        \/ (\E c \in ConnectionId : ServerWrite(c) \/ ServerAcked(c))
        => acknowledged \subseteq acknowledged'
  BY DEF ServerSide, ServerAccept, ServerManager, ServerWorker, ServerFatal,
         ServerLocal, ServerError, ServerFault, ServerWrite, ServerAcked, ClientSide,
         ClientStep, ClientConnect, ClientRead, ClientFetched, ClientAck,
         ClientInstall, ClientError, ClientRetry, ClientLosesConnection, ClientFault,
         ClientPanic, ClientWorkerPanic, PathDies, clientVars, exchangeVars
<1> QED
  BY <1>1 DEF ExchangeNext, ServerSide, ClientSide

\* Where the key being forwarded and the key last forwarded come from.
LEMMA ForwardSteps ==
  ASSUME [Next]_vars
  PROVE  /\ forwarded' = forwarded \/ ForwardDone
         /\ \/ forwarding' = forwarding
            \/ forwarding' = NoEvent
            \/ /\ notifications # <<>>
               /\ forwarding' = Head(notifications)
               /\ Head(notifications).type = "Osk"
BY DEF Next, ManagerStep, TaskStep, OnAccept, AcceptError, ManagerFails, OnExit,
       OnOskFromStale, OnOskFromActive, OnOskFromUnknown, OnOskFromBudding, Receive,
       Forward, ForwardDone, ForwardError, TaskFetched, TaskWritten, TaskAcked,
       TaskError, TaskPanic, TaskNotify, TaskWake, TaskExit, TaskReaped, WorkerRecv,
       WorkerPanic, vars, managerVars, historyVars

\* Every step keeps the server behind the client's acknowledgements.
LEMMA NeverAheadPreserved ==
  ASSUME TypeOK, RoundInv, ServerNeverAhead, [ExchangeNext]_exchangeVars
  PROVE  ServerNeverAhead'
<1>1. [Next]_vars /\ acknowledged \subseteq acknowledged'
  BY ServerStep, AckedGrows
<1>2. {forwarded', forwarding'} \subseteq acknowledged' \cup {NoEvent}
  <2>1. forwarded' \in {forwarded, forwarding}
    BY <1>1, ForwardSteps DEF ForwardDone
  <2>2. CASE forwarding' \in {forwarding, NoEvent}
    BY <1>1, <2>1, <2>2 DEF ServerNeverAhead
  <2>3. CASE /\ notifications # <<>>
             /\ forwarding' = Head(notifications)
             /\ Head(notifications).type = "Osk"
    <3>1. Head(notifications) = notifications[1] /\ 1 \in DOMAIN notifications
      BY <2>3, ReceivedEvent DEF TypeOK
    <3> QED
      BY <1>1, <2>1, <2>3, <3>1 DEF ServerNeverAhead
  <2> QED
    BY <1>1, <2>2, <2>3, ForwardSteps
<1>3. ASSUME NEW i \in DOMAIN notifications', notifications'[i].type = "Osk"
      PROVE  notifications'[i] \in acknowledged'
  <2>1. CASE \E j \in DOMAIN notifications : notifications'[i] = notifications[j]
    BY <1>1, <1>3, <2>1 DEF ServerNeverAhead
  <2>2. CASE UNCHANGED notifications
    BY <2>1, <2>2
  <2>3. CASE notifications' = <<>>
    BY <2>3
  <2>4. CASE notifications # <<>> /\ notifications' = Tail(notifications)
    BY <2>1, <2>4, ReceivedEvent
  <2>5. ASSUME NEW e \in Event, notifications' = Append(notifications, e),
               e.type = "Osk" => e \in acknowledged
        PROVE  notifications'[i] \in acknowledged'
    <3>1. i \in DOMAIN notifications \/ i = Len(notifications) + 1
      BY <2>5, SentEvent
    <3> QED
      BY <1>1, <1>3, <2>1, <2>5, <3>1, SentEvent
  <2>6. ASSUME NEW c \in ConnectionId, TaskNotify(c)
        PROVE  notifications'[i] \in acknowledged'
    <3>1. Key(c, round[c]) \in acknowledged
      BY <2>6 DEF TaskNotify, Goto, RoundInv
    <3>2. Key(c, round[c]) \in Event
      BY KeyType DEF TypeOK
    <3> QED
      BY <2>5, <2>6, <3>1, <3>2 DEF TaskNotify, Key
  <2>7. ASSUME NEW c \in ConnectionId, notifications' = Append(notifications, ExitEvent(c))
        PROVE  notifications'[i] \in acknowledged'
    <3>1. ExitEvent(c) \in Event /\ ExitEvent(c).type = "Exit"
      BY EventType, ManagerAssumption DEF ExitEvent
    <3> QED
      BY <2>5, <2>7, <3>1
  <2> QED
    BY <1>1, <2>2, <2>3, <2>4, <2>6, <2>7, ChannelSteps
<1> QED
  BY <1>2, <1>3 DEF ServerNeverAhead

-----------------------------------------------------------------------------
(* What the client has put in use.                                         *)

\* Every key of a connection has a connection id and a round; the absent one is
\* older than all.
LEMMA AckedParts ==
  ASSUME ClientTypeOK, NEW k \in acknowledged
  PROVE  k.connection_id \in ConnectionId /\ k.connection_id \in Int /\ k.round \in Int
BY ManagerAssumption DEF ClientTypeOK, Event, ConnectionId

\* The key the client is about to acknowledge is newer than all before it.
LEMMA NextIsNewest ==
  ASSUME TypeOK, ClientTypeOK, ConnectedInv, ClientInv, AckedInv, client = "ack",
         NEW j \in acknowledged
  PROVE  Newer(Key(connection, request), j)
<1>1. /\ connection \in ConnectionId
      /\ connection = connects - 1
      /\ connects \in Int
      /\ request = round[connection]
      /\ request \in Int
      /\ Key(connection, request) \notin acknowledged
  BY ManagerAssumption DEF ClientTypeOK, ConnectedInv, ClientInv
<1>2. /\ j = Key(j.connection_id, j.round)
      /\ j.connection_id < connects
      /\ j.round <= round[j.connection_id]
      /\ j.connection_id \in Int
      /\ j.round \in Int
  BY AckedParts DEF AckedInv
<1>3. CASE j.connection_id = connection
  <2>1. j.round # request
    BY <1>1, <1>2, <1>3
  <2> QED
    BY <1>1, <1>2, <1>3, <2>1, KeyParts DEF Newer
<1>4. CASE j.connection_id # connection
  BY <1>1, <1>2, <1>4, KeyParts DEF Newer
<1> QED
  BY <1>3, <1>4

\* Every step keeps the newest acknowledged key in the client's hands or in use.
LEMMA InstallPreserved ==
  ASSUME TypeOK, TaskInv, ClientTypeOK, ConnectedInv, ClientInv, AckedInv, InstallInv,
         [ExchangeNext]_exchangeVars
  PROVE  InstallInv'
<1>1. CASE UNCHANGED clientVars
  BY <1>1 DEF clientVars, InstallInv
<1>2. CASE ClientConnect
  <2>1. /\ client' = "read" /\ connection' = connects
        /\ UNCHANGED <<acknowledged, installed>>
    BY <1>2 DEF ClientConnect
  <2>2. \A j \in acknowledged : j.connection_id # connects
    BY AckedParts, ManagerAssumption DEF AckedInv, ClientTypeOK
  <2> QED
    BY <2>1, <2>2 DEF InstallInv
<1>3. CASE ClientRead \/ ClientFetched \/ ClientRetry
  BY <1>3 DEF ClientRead, ClientFetched, ClientRetry, InstallInv
<1>4. CASE ClientAck
  <2> DEFINE k == Key(connection, request)
  <2>1. /\ client = "ack" /\ client' = "install"
        /\ acknowledged' = acknowledged \cup {k}
        /\ UNCHANGED <<connection, request, installed>>
    BY <1>4 DEF ClientAck
  <2>2. \A j \in acknowledged : Newer(k, j)
    BY <2>1, NextIsNewest
  <2>3. connection \in Nat
    BY <2>1 DEF ConnectedInv, ConnectionId
  <2>4. Newer(k, NoEvent)
    BY <2>3, KeyParts DEF Newer, NoEvent
  <2>5. installed \in acknowledged \cup {NoEvent}
    BY DEF InstallInv
  <2> HIDE DEF k
  <2> QED
    BY <2>1, <2>2, <2>4, <2>5 DEF InstallInv, k
<1>5. CASE ClientInstall
  <2>1. /\ client = "install" /\ client' = "read"
        /\ installed' = Key(connection, request)
        /\ UNCHANGED <<acknowledged, connection>>
    BY <1>5 DEF ClientInstall
  <2>2. Key(connection, request) \in acknowledged
    BY <2>1 DEF ClientInv
  <2> QED
    BY <2>1, <2>2 DEF InstallInv
<1>6. CASE ClientError \/ ClientFault \/ ClientPanic
  <2>1. client' \in {"sleep", "panicked"} /\ UNCHANGED <<acknowledged, installed>>
    BY <1>6 DEF ClientError, ClientFault, ClientPanic, ClientLosesConnection
  <2> QED
    BY <2>1 DEF InstallInv
<1>7. CASE ClientWorkerPanic
  BY <1>7 DEF ClientWorkerPanic, InstallInv
<1>8. CASE \/ ServerSide
           \/ \E c \in ConnectionId : ServerWrite(c) \/ ServerAcked(c)
           \/ \E c \in 0 .. (connects - 1) : PathDies(c)
           \/ UNCHANGED exchangeVars
  BY <1>1, <1>8, ServerMoves DEF ServerWrite, ServerAcked, PathDies, exchangeVars
<1> QED
  BY <1>2, <1>3, <1>4, <1>5, <1>6, <1>7, <1>8
  DEF ExchangeNext, ClientStep, ServerSide

-----------------------------------------------------------------------------
(* What reaches the server's worker.                                       *)

\* Every step of the server keeps pruned connections away from the registry.
LEMMA PrunedPreserved ==
  ASSUME TypeOK, RegistryInv, PrunedInv, [Next]_vars
  PROVE  PrunedInv'
<1> USE ManagerAssumption
<1>1. CASE OnAccept
  <2>1. /\ next_connection_id' = next_connection_id + 1
        /\ budding_connections' = (budding_connections \ ToPrune) \cup {next_connection_id}
        /\ pruned' = pruned \cup ToPrune
        /\ removed = {} /\ removed' = {}
        /\ UNCHANGED active_connection
    BY <1>1 DEF OnAccept, RegistryInv
  <2>2. ToPrune \subseteq budding_connections
    BY PruneOne
  <2>3. \A b \in budding_connections : /\ b \in Int
                                       /\ b < next_connection_id
                                       /\ b # active_connection
    BY DEF RegistryInv, TypeOK, ConnectionId
  <2>4. \A c \in pruned : c \in Int
    BY DEF TypeOK, ConnectionId
  <2>5. next_connection_id \in Int
    BY DEF TypeOK
  <2> QED
    BY <2>1, <2>2, <2>3, <2>4, <2>5 DEF PrunedInv, Registered
<1>2. CASE /\ UNCHANGED <<pruned, next_connection_id>>
           /\ Registered' \subseteq Registered
  BY <1>2 DEF PrunedInv
<1>3. CASE OnExit
  BY <1>2, <1>3 DEF OnExit, Registered, historyVars
<1>4. CASE OnOskFromBudding
  BY <1>2, <1>4 DEF OnOskFromBudding, SplitOff, Registered
<1>5. CASE AcceptError \/ ForwardError \/ ForwardDone \/ OnOskFromActive
  BY <1>2, <1>5 DEF AcceptError, ForwardError, ManagerFails, ForwardDone,
                    OnOskFromActive, Registered, historyVars
<1>6. CASE UNCHANGED <<managerVars, historyVars>>
  BY <1>2, <1>6 DEF Registered, managerVars, historyVars
<1> QED
  BY <1>1, <1>3, <1>4, <1>5, <1>6, OtherSteps
  DEF Next, ManagerStep, OnOskFromStale, OnOskFromUnknown

\* A task that sleeps after a step slept before it or has just sent its key.
LEMMA SleepSteps ==
  ASSUME TypeOK, [Next]_vars, NEW c \in ConnectionId, task'[c] = "sleep"
  PROVE  TaskNotify(c) \/ (task[c] = "sleep" /\ round'[c] = round[c])
<1>1. CASE OnAccept
  BY <1>1 DEF OnAccept, TypeOK
<1>2. ASSUME NEW d \in ConnectionId, TaskStep(d)
      PROVE  TaskNotify(c) \/ (task[c] = "sleep" /\ round'[c] = round[c])
  BY <1>2 DEF TaskStep, TaskFetched, TaskWritten, TaskAcked, TaskError, TaskPanic,
              TaskNotify, TaskWake, TaskExit, TaskReaped, Goto, TypeOK
<1>3. CASE UNCHANGED taskVars
  BY <1>3 DEF taskVars
<1> QED
  BY <1>1, <1>2, <1>3
  DEF Next, ManagerStep, AcceptError, ManagerFails, OnExit, OnOskFromStale,
      OnOskFromActive, OnOskFromUnknown, OnOskFromBudding, ForwardDone,
      ForwardError, WorkerRecv, WorkerPanic, vars

\* The manager does not come back once it has failed; supersession and pruning are
\* for good.
LEMMA HistoryGrows ==
  ASSUME TypeOK, RegistryInv, [Next]_vars
  PROVE  /\ manager = "failed" => manager' = "failed"
         /\ promoted \in Int /\ promoted' \in Int /\ promoted <= promoted'
         /\ pruned \subseteq pruned'
<1>1. promoted \in Int /\ promoted' \in Int
  BY TypePreserved DEF TypeOK
<1>2. CASE OnOskFromBudding
  BY <1>1, <1>2 DEF OnOskFromBudding, Receive, RegistryInv
<1> QED
  BY <1>1, <1>2
  DEF Next, ManagerStep, TaskStep, OnAccept, AcceptError, ManagerFails, OnExit,
      OnOskFromStale, OnOskFromActive, OnOskFromUnknown, Receive,
      Forward, ForwardDone, ForwardError, TaskFetched, TaskWritten, TaskAcked,
      TaskError, TaskPanic, TaskNotify, TaskWake, TaskExit, TaskReaped, WorkerRecv,
      WorkerPanic, vars, managerVars, historyVars

\* What a step of a server that goes on does to the notification channel.
LEMMA ChannelFate ==
  ASSUME [Next]_vars, manager' # "failed"
  PROVE  \/ UNCHANGED notifications
         \/ notifications # <<>> /\ notifications' = Tail(notifications)
         \/ \E c \in ConnectionId :
              \/ notifications' = Append(notifications, OskEvent(c, round[c]))
              \/ notifications' = Append(notifications, ExitEvent(c))
BY DEF Next, ManagerStep, TaskStep, OnAccept, AcceptError, ManagerFails, OnExit,
       OnOskFromStale, OnOskFromActive, OnOskFromUnknown, OnOskFromBudding,
       Receive, ForwardDone, ForwardError, TaskFetched, TaskWritten, TaskAcked,
       TaskError, TaskPanic, TaskNotify, TaskWake, TaskExit, TaskReaped, WorkerRecv,
       WorkerPanic, vars

\* A key the manager takes from the channel goes to the worker, unless its
\* connection was superseded or pruned.
LEMMA ReceivedKey ==
  ASSUME IInv, [Next]_vars, NEW c \in ConnectionId, NEW r, manager' # "failed",
         notifications # <<>>, Head(notifications) = Key(c, r),
         notifications' = Tail(notifications)
  PROVE  forwarding' = Key(c, r) \/ c < promoted \/ c \in pruned
<1>0. TypeOK /\ RegistryInv /\ SourceInv
  BY DEF IInv
<1>1. /\ Head(notifications).type = "Osk"
      /\ Head(notifications).connection_id = c
      /\ 1 \in DOMAIN notifications
      /\ Head(notifications) = notifications[1]
  BY <1>0, KeyParts, ReceivedEvent DEF TypeOK
<1>2. c \in Known
  BY <1>0, <1>1 DEF SourceInv
<1>3. CASE OnOskFromStale
  BY <1>0, <1>1, <1>3 DEF OnOskFromStale, FromStale, RegistryInv
<1>4. CASE OnOskFromActive \/ OnOskFromBudding
  BY <1>4 DEF OnOskFromActive, OnOskFromBudding, Forward
<1>5. CASE OnOskFromUnknown
  <2>1. c \notin budding_connections /\ FromBudding(c) /\ removed = {}
    BY <1>0, <1>1, <1>5 DEF OnOskFromUnknown, Receive, RegistryInv
  <2>2. c # active_connection
    BY <2>1, ManagerAssumption DEF FromBudding, ConnectionId
  <2> QED
    BY <1>2, <2>1, <2>2 DEF Known, Registered
<1>6. ~OnExit
  BY <1>1 DEF OnExit, Receive
<1>7. /\ notifications' # notifications
      /\ \A e \in Event : notifications' # Append(notifications, e)
  <2>1. /\ notifications \in Seq(Event)
        /\ Len(notifications') = Len(notifications) - 1
        /\ Len(notifications) \in Nat
    BY <1>0, ReceivedEvent DEF TypeOK
  <2>2. \A e \in Event : Len(Append(notifications, e)) = Len(notifications) + 1
    BY <2>1
  <2>3. \A n \in Nat : n - 1 # n /\ n - 1 # n + 1
    OBVIOUS
  <2>4. Len(notifications') # Len(notifications)
    BY <2>1, <2>3, Zenon
  <2>5. \A e \in Event : Len(notifications') # Len(Append(notifications, e))
    BY <2>1, <2>2, <2>3, Zenon
  <2> QED
    BY <2>4, <2>5, Zenon
<1>8. ~(AcceptError \/ ForwardError)
  BY DEF AcceptError, ForwardError, ManagerFails
<1>9. ASSUME NEW d \in ConnectionId, TaskStep(d) PROVE FALSE
  <2>1. /\ OskEvent(d, round[d]) \in Event
        /\ ExitEvent(d) \in Event
    BY <1>0, EventType DEF TypeOK
  <2>2. \/ notifications' = notifications
        \/ notifications' = Append(notifications, OskEvent(d, round[d]))
        \/ notifications' = Append(notifications, ExitEvent(d))
    BY <1>9 DEF TaskStep, TaskFetched, TaskWritten, TaskAcked, TaskError, TaskPanic,
                TaskNotify, TaskWake, TaskExit, TaskReaped
  <2> QED
    BY <1>7, <2>1, <2>2
<1>10. ~(OnAccept \/ ForwardDone \/ WorkerRecv \/ WorkerPanic \/ UNCHANGED vars)
  BY <1>7 DEF OnAccept, ForwardDone, WorkerRecv, WorkerPanic, vars
<1> QED
  BY <1>3, <1>4, <1>5, <1>6, <1>8, <1>9, <1>10 DEF Next, ManagerStep

\* Every step of the server keeps the keys of sleeping tasks with the worker or on
\* their way there.
LEMMA DeliveryPreserved ==
  ASSUME IInv, DeliveryInv, [Next]_vars
  PROVE  DeliveryInv'
<1> SUFFICES ASSUME manager' # "failed", NEW c \in ConnectionId, task'[c] = "sleep"
             PROVE  \/ Queued(Key(c, round[c]))'
                    \/ Key(c, round'[c]) \in {forwarding', forwarded'}
                    \/ c < promoted'
                    \/ c \in pruned'
  BY DEF DeliveryInv
<1> USE DEF IInv
<1>1. /\ manager # "failed"
      /\ c < promoted => c < promoted'
      /\ c \in pruned => c \in pruned'
  BY HistoryGrows DEF ConnectionId
<1>2. CASE TaskNotify(c)
  <2>1. /\ Key(c, round[c]) \in Event
        /\ notifications' = Append(notifications, Key(c, round[c]))
        /\ round'[c] = round[c]
    BY <1>2, KeyType DEF TaskNotify, Key, TypeOK
  <2> QED
    BY <2>1, SentEvent DEF Queued
<1>3. CASE task[c] = "sleep" /\ round'[c] = round[c]
  <2>0. PICK k : k = Key(c, round[c])
    OBVIOUS
  <2>10. Queued(k)' => Queued(Key(c, round[c]))'
    BY <1>3, <2>0 DEF Queued
  <2>1. Queued(k) \/ k \in {forwarding, forwarded} \/ c < promoted \/ c \in pruned
    BY <1>1, <1>3, <2>0 DEF DeliveryInv
  <2>2. CASE Queued(k)
    <3>1. CASE notifications # <<>> /\ notifications' = Tail(notifications)
      <4>1. CASE Head(notifications) = k
        BY <1>1, <1>3, <2>0, <3>1, <4>1, ReceivedKey
      <4>2. CASE Head(notifications) # k
        BY <2>10, <2>2, <3>1, <4>2, StillQueued
      <4> QED
        BY <4>1, <4>2
    <3>2. ASSUME NEW d \in ConnectionId,
                 \/ notifications' = Append(notifications, OskEvent(d, round[d]))
                 \/ notifications' = Append(notifications, ExitEvent(d))
          PROVE  Queued(k)'
      <4>1. OskEvent(d, round[d]) \in Event /\ ExitEvent(d) \in Event
        BY EventType DEF TypeOK
      <4> QED
        BY <2>2, <3>2, <4>1, StillQueued
    <3>3. ASSUME UNCHANGED notifications PROVE Queued(k)'
      BY <2>2, <3>3 DEF Queued
    <3> QED
      BY <2>10, <3>1, <3>2, <3>3, ChannelFate
  <2>3. CASE k = forwarding
    <3>1. k # NoEvent
      BY <2>0, KeyParts
    <3>2. manager = "forwarding"
      BY <2>3, <3>1 DEF TypeOK
    <3>3. forwarded' = k \/ forwarding' = k
      BY <1>1, <2>3, <3>2
      DEF Next, ManagerStep, TaskStep, OnAccept, AcceptError, ManagerFails, OnExit,
          OnOskFromStale, OnOskFromActive, OnOskFromUnknown, OnOskFromBudding, Receive,
          Forward, ForwardDone, ForwardError, TaskFetched, TaskWritten, TaskAcked,
          TaskError, TaskPanic, TaskNotify, TaskWake, TaskExit, TaskReaped, WorkerRecv,
          WorkerPanic, vars, managerVars, historyVars
    <3> QED
      BY <1>3, <2>0, <3>3
  <2>4. CASE k = forwarded /\ ~ForwardDone
    BY <1>3, <2>0, <2>4, ForwardSteps
  <2>5. CASE k = forwarded /\ ForwardDone
    <3>1. /\ forwarding.connection_id = promoted
          /\ Newer(forwarding, forwarded)
          /\ promoted' = promoted
      BY <2>5 DEF ForwardDone, ForwardOrder
    <3>2. forwarded.connection_id = c /\ forwarded.round = round[c]
      <4>1. Key(c, round[c]).connection_id = c /\ Key(c, round[c]).round = round[c]
        BY KeyParts
      <4> QED
        BY <2>0, <2>5, <4>1, Zenon
    <3>3. promoted = c => forwarding.round <= round[c]
      BY <1>3, <3>1 DEF ForwardOrder, Spent
    <3>4. /\ promoted \in Int /\ c \in Int /\ round[c] \in Int
          /\ forwarding.round \in Int
      BY ManagerAssumption DEF TypeOK, ConnectionId, Event, NoEvent
    <3>5. c < promoted
      BY <3>1, <3>2, <3>3, <3>4 DEF Newer
    <3> QED
      BY <3>1, <3>5
  <2> QED
    BY <1>1, <2>1, <2>2, <2>3, <2>4, <2>5
<1> QED
  BY <1>2, <1>3, SleepSteps DEF IInv

-----------------------------------------------------------------------------
(* The results.                                                            *)

\* The type invariant is the server's and the client's.
LEMMA TypeParts == ExchangeTypeOK <=> TypeOK /\ ClientTypeOK
BY DEF ExchangeTypeOK, ClientTypeOK

\* The inductive invariant holds initially.
LEMMA ExchangeInvInitially == ExchangeInit => XInv
<1> SUFFICES ASSUME ExchangeInit PROVE XInv
  OBVIOUS
<1>1. IInv
  BY InvInitially DEF ExchangeInit
<1>2. TypeOK
  BY <1>1 DEF IInv
<1>3. ClientTypeOK
  BY ManagerAssumption, ExchangeAssumption DEF ExchangeInit, ClientTypeOK
<1>4. ConnectedInv
  BY DEF ExchangeInit, Init, ConnectedInv
<1>5. WireInv /\ ClientInv /\ AckedInv /\ InstallInv
  BY DEF ExchangeInit, WireInv, ClientInv, AckedInv, InstallInv
<1>6. RoundInv /\ DeliveryInv
  BY DEF ExchangeInit, Init, RoundInv, DeliveryInv
<1>7. ServerNeverAhead /\ PrunedInv
  BY DEF ExchangeInit, Init, ServerNeverAhead, PrunedInv
<1> QED
  BY <1>1, <1>2, <1>3, <1>4, <1>5, <1>6, <1>7, TypeParts DEF XInv

\* Every step keeps the inductive invariant.
LEMMA ExchangeInvPreserved == XInv /\ [ExchangeNext]_exchangeVars => XInv'
<1> SUFFICES ASSUME XInv, [ExchangeNext]_exchangeVars PROVE XInv'
  OBVIOUS
<1>1. /\ IInv /\ TypeOK /\ RegistryInv /\ TaskInv /\ ExchangeTypeOK /\ ClientTypeOK
      /\ ConnectedInv /\ Negotiation /\ WireInv /\ RoundInv /\ ClientInv /\ AckedInv
      /\ ServerNeverAhead /\ InstallInv /\ PrunedInv /\ DeliveryInv
  BY TypeParts DEF XInv, IInv, Negotiation
<1>2. [Next]_vars
  BY ServerStep
<1>3. IInv' /\ TypeOK'
  BY <1>1, ServerInvPreserved DEF IInv
<1>4. ExchangeTypeOK'
  <2>1. ClientTypeOK'
    BY <1>1, ClientTypePreserved
  <2> QED
    BY <1>3, <2>1 DEF ExchangeTypeOK, ClientTypeOK
<1>5. ConnectedInv'
  BY <1>1, ConnectedPreserved
<1>6. WireInv' /\ RoundInv' /\ ClientInv' /\ AckedInv'
  BY <1>1, NegotiationPreserved DEF Negotiation
<1>7. ServerNeverAhead'
  BY <1>1, NeverAheadPreserved
<1>8. InstallInv'
  BY <1>1, InstallPreserved
<1>9. PrunedInv' /\ DeliveryInv'
  BY <1>1, <1>2, PrunedPreserved, DeliveryPreserved
<1> QED
  BY <1>3, <1>4, <1>5, <1>6, <1>7, <1>8, <1>9 DEF XInv

\* The inductive invariant holds in every reachable state.
LEMMA ExchangeInvariance == ExchangeSpec => []XInv
BY ExchangeInvInitially, ExchangeInvPreserved, PTL DEF ExchangeSpec

\* Type correctness of the two daemons and the wire between them; the client holds
\* a connection exactly while its protocol runs (tcp_client.rs:44-72).
THEOREM ExchangeTypeCorrect == ExchangeSpec => []ExchangeTypeOK
<1>1. XInv => ExchangeTypeOK
  BY DEF XInv
<1> QED
  BY <1>1, ExchangeInvariance, PTL

\* The server never puts a key in use, nor sends one on its way to the worker,
\* that the client has not acknowledged (crypto/server.rs:67-75,
\* crypto/client.rs:63-70).
THEOREM ServerStaysBehind == ExchangeSpec => []ServerNeverAhead
<1>1. XInv => ServerNeverAhead
  BY DEF XInv
<1> QED
  BY <1>1, ExchangeInvariance, PTL

\* The key of the round that both ends have finished is the one both use.
LEMMA SettledKey == XInv => SettledAgree
<1> SUFFICES ASSUME XInv, Settled PROVE installed = forwarded
  BY DEF SettledAgree
<1> DEFINE a == active_connection
           k == Key(a, round[a])
<1>0. /\ TypeOK /\ RegistryInv /\ ClientTypeOK /\ RoundInv /\ AckedInv /\ InstallInv
      /\ PrunedInv /\ DeliveryInv
  BY TypeParts DEF XInv, IInv
<1>1. /\ manager = "select" /\ notifications = <<>> /\ a # None
      /\ connection = a /\ client = "read" /\ task[a] = "sleep"
  BY DEF Settled
<1>2. a \in ConnectionId /\ a \in Int /\ a = promoted
  BY <1>0, <1>1 DEF TypeOK, RegistryInv, ConnectionId
<1>3. a \in Registered
  BY <1>1 DEF Registered
<1>4. a \notin pruned
  BY <1>0, <1>3 DEF PrunedInv
<1>5. ~Queued(k) /\ k # forwarding
  BY <1>0, <1>1, KeyParts DEF Queued, TypeOK
<1>6. ~(a < promoted)
  BY <1>2
<1>7. k = forwarded
  BY <1>0, <1>1, <1>2, <1>4, <1>5, <1>6 DEF DeliveryInv
<1>8. k \in acknowledged /\ k.connection_id = a /\ k.round = round[a]
  BY <1>0, <1>1, <1>2, KeyParts DEF RoundInv
<1> HIDE DEF a, k
<1>9. k = installed \/ Newer(installed, k)
  BY <1>0, <1>1, <1>8 DEF InstallInv
<1>10. ASSUME Newer(installed, k) PROVE FALSE
  <2>1. round[a] \in Int /\ connects \in Int /\ a = connects - 1
    BY <1>0, <1>1, <1>2, ManagerAssumption DEF TypeOK, ClientTypeOK
  <2>2. installed # NoEvent
    BY <1>2, <1>8, <1>10 DEF Newer, NoEvent, ConnectionId
  <2>3. installed \in acknowledged
    BY <1>0, <2>2 DEF InstallInv
  <2>4. /\ installed.connection_id \in Int /\ installed.round \in Int
        /\ installed.connection_id < connects
        /\ installed.round <= round[installed.connection_id]
    BY <1>0, <2>3, AckedParts DEF AckedInv
  <2> QED
    BY <1>2, <1>8, <1>10, <2>1, <2>4 DEF Newer
<1> QED
  BY <1>7, <1>9, <1>10

\* Between two negotiations both ends use the same key, whatever connections came
\* and went before, how often, and how they failed (connection_manager.rs:140-206,
\* crypto/client.rs:42-71).
THEOREM SettledEndsAgree == ExchangeSpec => []SettledAgree
BY SettledKey, ExchangeInvariance, PTL

\* Every step of the two daemons is a step of the abstract handover or leaves it
\* alone.
LEMMA HandoverStep ==
  XInv /\ XInv' /\ [ExchangeNext]_exchangeVars => [Handover!Next]_(Handover!vars)
<1> SUFFICES ASSUME XInv, XInv', [ExchangeNext]_exchangeVars
             PROVE  [Handover!Next]_(Handover!vars)
  OBVIOUS
<1>0. /\ TypeOK /\ RegistryInv /\ ForwardOrder /\ ClientTypeOK /\ ConnectedInv
      /\ ClientInv /\ AckedInv /\ InstallInv /\ ServerNeverAhead
  BY TypeParts DEF XInv, IInv
<1>1. CASE ClientAck
  <2>1. /\ client = "ack"
        /\ acknowledged' = acknowledged \cup {Key(connection, request)}
        /\ UNCHANGED <<installed, forwarded>>
    BY <1>1 DEF ClientAck, serverVars, vars, historyVars
  <2>2. Key(connection, request) \in Event
    BY <1>0, <2>1, KeyType DEF ConnectedInv, ClientTypeOK
  <2>3. \A j \in acknowledged : Newer(Key(connection, request), j)
    BY <1>0, <2>1, NextIsNewest
  <2>4. Handover!Commit(Key(connection, request))
    BY <2>1, <2>3 DEF Handover!Commit
  <2> QED
    BY <2>2, <2>4 DEF Handover!Next
<1>2. CASE ClientInstall
  <2>1. /\ client = "install"
        /\ installed' = Key(connection, request)
        /\ UNCHANGED <<acknowledged, forwarded>>
    BY <1>2 DEF ClientInstall, serverVars, vars, historyVars
  <2>2. /\ Key(connection, request) \in Event
        /\ Key(connection, request) \in acknowledged
        /\ Newer(Key(connection, request), installed)
    BY <1>0, <2>1 DEF ClientInv, InstallInv, ClientTypeOK
  <2>3. Handover!ClientUses(Key(connection, request))
    BY <2>1, <2>2 DEF Handover!ClientUses
  <2> QED
    BY <2>2, <2>3 DEF Handover!Next
<1>3. CASE forwarded' # forwarded
  <2>1. ForwardDone /\ UNCHANGED <<acknowledged, installed>>
    <3>1. ForwardDone
      BY <1>3, ServerStep, ForwardSteps
    <3>2. ~ClientSide /\ ~UNCHANGED exchangeVars
      BY <1>3, ClientSideOnly DEF vars, historyVars, exchangeVars, serverVars
    <3>3. UNCHANGED clientVars
      BY <3>2 DEF ExchangeNext, ClientSide, ServerAccept, ServerManager, ServerWorker,
                  ServerFatal, ServerWrite, ServerAcked, ServerLocal, ServerError,
                  ServerFault
    <3> QED
      BY <3>1, <3>3 DEF clientVars
  <2>2. /\ forwarding \in Event
        /\ forwarding # NoEvent
        /\ Newer(forwarding, forwarded)
        /\ forwarded' = forwarding
    BY <1>0, <2>1, ManagerAssumption
    DEF ForwardDone, TypeOK, ForwardOrder, NoEvent, Event, ConnectionId
  <2>3. forwarding \in acknowledged
    BY <1>0, <2>2 DEF ServerNeverAhead
  <2>4. Handover!ServerUses(forwarding)
    BY <2>1, <2>2, <2>3 DEF Handover!ServerUses
  <2> QED
    BY <2>2, <2>4 DEF Handover!Next
<1>4. CASE UNCHANGED <<acknowledged, installed, forwarded>>
  BY <1>4 DEF Handover!vars
<1>5. CASE ClientSide /\ ~ClientAck /\ ~ClientInstall
  <2>1. UNCHANGED forwarded
    BY <1>5, ClientSideOnly DEF vars, historyVars
  <2>2. UNCHANGED <<acknowledged, installed>>
    BY <1>5 DEF ClientSide, ClientStep, ClientConnect, ClientRead, ClientFetched,
                ClientError, ClientRetry, ClientLosesConnection, ClientFault,
                ClientPanic, ClientWorkerPanic, PathDies, clientVars
  <2> QED
    BY <1>4, <2>1, <2>2
<1>6. CASE ~ClientSide /\ UNCHANGED forwarded
  <2>1. UNCHANGED clientVars
    BY <1>6 DEF ExchangeNext, ClientSide, ServerAccept, ServerManager, ServerWorker,
                ServerFatal, ServerWrite, ServerAcked, ServerLocal, ServerError,
                ServerFault, exchangeVars
  <2> QED
    BY <1>4, <1>6, <2>1 DEF clientVars
<1> QED
  BY <1>1, <1>2, <1>3, <1>5, <1>6

\* The two daemons implement the abstract handover: the client commits to keys in
\* order, and each end goes from committed key to newer committed key
\* (connection_manager.rs:140-206, crypto/client.rs:42-71).
THEOREM ExchangeImplementsHandover == ExchangeSpec => ImplementsHandover
<1>1. ExchangeInit => Handover!Init
  BY DEF ExchangeInit, Init, Handover!Init
<1> QED
  BY <1>1, HandoverStep, ExchangeInvariance, PTL
  DEF ExchangeSpec, ImplementsHandover, Handover!Spec

\* The server of the composition is the server of ConnectionManager in one of its
\* environments: what is proved there of every behaviour holds here
\* (tcp_server/mod.rs, crypto/server.rs).
THEOREM ExchangeImplementsServer == ExchangeSpec => Spec
<1>1. ExchangeInit => Init
  BY DEF ExchangeInit
<1> QED
  BY <1>1, ServerStep, PTL DEF ExchangeSpec, Spec

=============================================================================
