----------------------------- MODULE KeyExchange -----------------------------
(***************************************************************************)
(* The daisyway protocol between one server and one client: the server of  *)
(* module ConnectionManager, whose tasks run DaisywayServerProtocol        *)
(* (crypto/server.rs), a DaisywayTcpClient (net/tcp_client.rs) that runs   *)
(* DaisywayClientProtocol (crypto/client.rs), and the TCP connections      *)
(* between them.                                                           *)
(*                                                                         *)
(* TCP delivers in order what it delivers.  The client makes one connection *)
(* after the other and the listener accepts them in that order, so that    *)
(* the n-th connection of the client is the server's connection #n.        *)
(* A fault is an error nobody's peer is the cause of: a connection reset,   *)
(* a QKD device that does not answer, a panic, a connection that dies      *)
(* silently; a peer that has closed its end is no fault.                   *)
(*                                                                         *)
(* A silently dead connection delivers nothing any more, not even that the *)
(* other end has closed it.  TCP reports an error to an end that has sent   *)
(* something and gets no reply from the other machine; an end that only    *)
(* reads learns nothing.                                                   *)
(***************************************************************************)
EXTENDS ConnectionManager

CONSTANTS MaxFaults,       \* bound: faults in a run
          FatalFaults      \* TRUE: output-key workers and the client may
                           \* panic and the listener may fail, which nothing
                           \* recovers from

ASSUME ExchangeAssumption == /\ MaxFaults \in Nat
                             /\ FatalFaults \in BOOLEAN

VARIABLES client,        \* where the client's event loops are
          connection,    \* the connection it is on, None without one
          connects,      \* connections it has made
          request,       \* round of the RekeyReq it is working on
          rekey_reqs,    \* per connection: RekeyReqs on the way, by round
          rekey_acks,    \* per connection: RekeyAcks on the way
          hung_up,       \* connections the client has dropped
          client_worker, \* the client's output-key worker: "running" | "gone"
          silent,        \* connections that have died silently
          unanswered,    \* pairs of end and dead connection: what that end has
                         \* sent did not arrive
          acknowledged,  \* history: the keys the client acknowledged
          installed,     \* history: the last key the client gave its worker
          faults         \* faults so far

serverVars == vars
wireVars == <<rekey_reqs, rekey_acks, silent, unanswered>>
clientVars == <<client, connection, connects, request, hung_up, client_worker,
                acknowledged, installed>>
exchangeVars == <<serverVars, wireVars, clientVars, faults>>

\* The key that round r on connection c negotiates.
Key(c, r) == OskEvent(c, r)

\* The server's end of c is closed: its task is past its event loop or dead, or
\* the server has ended.
ServerHungUp(c) == \/ task[c] \in {"exit", "ended", "reaped", "panicked"}
                   \/ manager = "failed"

\* TCP tells the client, or the server, that connection c has failed.
ClientTold(c) == \/ ServerHungUp(c) /\ c \notin silent
                 \/ <<"client", c>> \in unanswered
ServerTold(c) == \/ c \in hung_up \ silent
                 \/ <<"server", c>> \in unanswered

\* One end sends on connection c: what goes into a dead connection stays
\* unanswered.
Sends(end, c) == unanswered' = IF c \in silent THEN unanswered \cup {<<end, c>>}
                              ELSE unanswered

Fault == faults < MaxFaults /\ faults' = faults + 1

-----------------------------------------------------------------------------
ExchangeInit ==
  /\ Init
  /\ client = "connect"
  /\ connection = None
  /\ connects = 0
  /\ request = 0
  /\ rekey_reqs = [c \in ConnectionId |-> <<>>]
  /\ rekey_acks = [c \in ConnectionId |-> 0]
  /\ silent = {}
  /\ unanswered = {}
  /\ hung_up = {}
  /\ client_worker = "running"
  /\ acknowledged = {}
  /\ installed = NoEvent
  /\ faults = 0

-----------------------------------------------------------------------------
(* The client.                                                             *)

\* TcpStream::connect succeeds once the server's listener has the connection,
\* accepted or not.
ClientConnect ==
  /\ client = "connect"
  /\ manager # "failed"
  /\ connects < MaxConnections
  /\ client' = "read"
  /\ connection' = connects
  /\ connects' = connects + 1
  /\ UNCHANGED <<serverVars, wireVars, request, hung_up, client_worker,
                 acknowledged, installed, faults>>

\* The whole RekeyReq is read.
ClientRead ==
  /\ client = "read"
  /\ rekey_reqs[connection] # <<>>
  /\ request' = Head(rekey_reqs[connection])
  /\ rekey_reqs' = [rekey_reqs EXCEPT ![connection] = Tail(@)]
  /\ client' = "fetch"
  /\ UNCHANGED <<serverVars, rekey_acks, silent, unanswered, connection, connects,
                 hung_up, client_worker, acknowledged, installed, faults>>

\* fetch_specific_key returns the key named in the request.
ClientFetched ==
  /\ client = "fetch"
  /\ client' = "ack"
  /\ UNCHANGED <<serverVars, wireVars, connection, connects, request, hung_up,
                 client_worker, acknowledged, installed, faults>>

\* Faulty variant: the client goes on without giving the key to its worker.
ClientAckSkipsInstall ==
  /\ client = "ack"
  /\ rekey_acks' = [rekey_acks EXCEPT ![connection] = IF connection \in silent THEN @ ELSE @ + 1]
  /\ Sends("client", connection)
  /\ acknowledged' = acknowledged \cup {Key(connection, request)}
  /\ client' = "read"
  /\ UNCHANGED <<serverVars, rekey_reqs, silent, connection, connects, request,
                 hung_up, client_worker, installed, faults>>

\* The RekeyAck is written and the key derived; a write may succeed although the
\* server has closed its end or the connection is dead.
ClientAck ==
  /\ client = "ack"
  /\ rekey_acks' = [rekey_acks EXCEPT ![connection] = IF connection \in silent THEN @ ELSE @ + 1]
  /\ Sends("client", connection)
  /\ acknowledged' = acknowledged \cup {Key(connection, request)}
  /\ client' = "install"
  /\ UNCHANGED <<serverVars, rekey_reqs, silent, connection, connects, request,
                 hung_up, client_worker, installed, faults>>

\* set_fresh_osk returns: the client's worker has the key in its channel.
ClientInstall ==
  /\ client = "install"
  /\ client_worker = "running"
  /\ installed' = Key(connection, request)
  /\ client' = "read"
  /\ request' = 0
  /\ UNCHANGED <<serverVars, wireVars, connection, connects, hung_up,
                 client_worker, acknowledged, faults>>

\* Faulty variant: the client holds on to the broken stream.
ClientKeepsStream ==
  /\ client' = "sleep"
  /\ request' = 0
  /\ UNCHANGED <<serverVars, wireVars, connection, connects, hung_up, client_worker,
                 acknowledged, installed>>

\* An error ends both event loops: the stream is dropped, and after two seconds
\* a new connection is tried.
ClientLosesConnection ==
  /\ client' = "sleep"
  /\ hung_up' = hung_up \cup ({connection} \ {None})
  /\ connection' = None
  /\ request' = 0
  /\ UNCHANGED <<serverVars, wireVars, connects, client_worker, acknowledged,
                 installed>>

\* Nobody listens, the server closed its end (end of file, or a reset that takes
\* unread requests with it), TCP gave up on an acknowledgement, or the client's
\* own worker is gone.
ClientError ==
  /\ \/ client = "connect" /\ manager = "failed"
     \/ client \in {"read", "ack"} /\ ClientTold(connection)
     \/ client = "install" /\ client_worker = "gone"
  /\ ClientLosesConnection
  /\ UNCHANGED faults

\* The connection cannot be made or breaks, or the QKD device fails.
ClientFault ==
  /\ client \in {"connect", "read", "fetch", "ack"}
  /\ Fault
  /\ ClientLosesConnection

\* Faulty variant: the first error ends the client.
ClientGivesUp == /\ client = "sleep"
                 /\ UNCHANGED exchangeVars

\* The two seconds are over.
ClientRetry ==
  /\ client = "sleep"
  /\ client' = "connect"
  /\ UNCHANGED <<serverVars, wireVars, connection, connects, request, hung_up,
                 client_worker, acknowledged, installed, faults>>

\* Decoding the QKD device's answer panics (etsi014.rs), which ends the process.
ClientPanic ==
  /\ FatalFaults
  /\ client = "fetch"
  /\ client' = "panicked"
  /\ hung_up' = hung_up \cup {connection}
  /\ connection' = None
  /\ request' = 0
  /\ UNCHANGED <<serverVars, wireVars, connects, client_worker, acknowledged,
                 installed, faults>>

\* The client's worker thread panics.
ClientWorkerPanic ==
  /\ FatalFaults
  /\ client_worker = "running"
  /\ client_worker' = "gone"
  /\ UNCHANGED <<serverVars, wireVars, client, connection, connects, request,
                 hung_up, acknowledged, installed, faults>>

ClientStep == \/ ClientConnect
              \/ ClientRead
              \/ ClientFetched
              \/ ClientAck
              \/ ClientInstall
              \/ ClientError
              \/ ClientRetry

-----------------------------------------------------------------------------
(* The server's actions, with what they do to the wire.                    *)

ServerAccept == /\ next_connection_id < connects
                /\ OnAccept
                /\ UNCHANGED <<wireVars, clientVars, faults>>

ServerManager == /\ ManagerStep
                 /\ UNCHANGED <<wireVars, clientVars, faults>>

ServerWrite(c) ==
  /\ TaskWritten(c)
  /\ rekey_reqs' = [rekey_reqs EXCEPT ![c] = IF c \in silent THEN @
                                             ELSE Append(@, round[c])]
  /\ Sends("server", c)
  /\ UNCHANGED <<rekey_acks, silent, clientVars, faults>>

\* Faulty variant: the server does not wait for the acknowledgement.
ServerAckedUnread(c) ==
  /\ TaskAcked(c)
  /\ UNCHANGED <<wireVars, clientVars, faults>>

ServerAcked(c) ==
  /\ rekey_acks[c] > 0
  /\ TaskAcked(c)
  /\ rekey_acks' = [rekey_acks EXCEPT ![c] = @ - 1]
  /\ UNCHANGED <<rekey_reqs, silent, unanswered, clientVars, faults>>

\* Steps of a task that do not touch the connection.
ServerLocal(c) ==
  /\ \/ TaskFetched(c)
     \/ TaskNotify(c)
     \/ TaskWake(c)
     \/ TaskExit(c)
     \/ TaskReaped(c)
  /\ UNCHANGED <<wireVars, clientVars, faults>>

\* A write or read fails because the client has dropped the connection or TCP gave
\* up on a request, or the manager is gone.
ServerError(c) ==
  /\ \/ task[c] \in {"write", "ack"} /\ ServerTold(c)
     \/ task[c] = "notify"
  /\ TaskError(c)
  /\ UNCHANGED <<wireVars, clientVars, faults>>

ServerFault(c) == /\ task[c] \in {"fetch", "write", "ack"}
                  /\ Fault
                  /\ TaskError(c) \/ TaskPanic(c)
                  /\ UNCHANGED <<wireVars, clientVars>>

ServerWorker == /\ WorkerRecv
                /\ UNCHANGED <<wireVars, clientVars, faults>>

ServerFatal == /\ FatalFaults
               /\ WorkerPanic \/ AcceptError
               /\ UNCHANGED <<wireVars, clientVars, faults>>

-----------------------------------------------------------------------------
(* The network.                                                            *)

\* A connection dies without a word to either end: a machine, a NAT entry or a
\* cable is gone.  What was on the way has arrived already or is lost.
PathDies(c) ==
  /\ c \notin silent
  /\ Fault
  /\ silent' = silent \cup {c}
  /\ \E reqs \in {<<>>, rekey_reqs[c]}, acks \in {0, rekey_acks[c]} :
       /\ rekey_reqs' = [rekey_reqs EXCEPT ![c] = reqs]
       /\ rekey_acks' = [rekey_acks EXCEPT ![c] = acks]
       /\ unanswered' = unanswered
            \cup (IF reqs = rekey_reqs[c] THEN {} ELSE {<<"server", c>>})
            \cup (IF acks = rekey_acks[c] THEN {} ELSE {<<"client", c>>})
  /\ UNCHANGED <<serverVars, clientVars>>

-----------------------------------------------------------------------------
ExchangeNext ==
  \/ ClientStep
  \/ ClientFault
  \/ ClientPanic
  \/ ClientWorkerPanic
  \/ ServerAccept
  \/ ServerManager
  \/ ServerWorker
  \/ ServerFatal
  \/ \E c \in ConnectionId : \/ ServerWrite(c)
                             \/ ServerAcked(c)
                             \/ ServerLocal(c)
                             \/ ServerError(c)
                             \/ ServerFault(c)
  \/ \E c \in 0 .. (connects - 1) : PathDies(c)

ExchangeSpec == ExchangeInit /\ [][ExchangeNext]_exchangeVars

\* Both daemons are scheduled, TCP delivers what is on a live connection and gives
\* up on what it cannot deliver, the QKD device answers, sleeps end; only faults
\* need not happen.
ExchangeFairSpec ==
  /\ ExchangeSpec
  /\ WF_exchangeVars(ClientStep)
  /\ WF_exchangeVars(ServerAccept)
  /\ WF_exchangeVars(ServerManager)
  /\ WF_exchangeVars(ServerWorker)
  /\ \A c \in ConnectionId : /\ WF_exchangeVars(ServerWrite(c))
                             /\ WF_exchangeVars(ServerAcked(c))
                             /\ SF_exchangeVars(ServerLocal(c))
                             /\ WF_exchangeVars(ServerError(c))

-----------------------------------------------------------------------------
(* Properties.                                                             *)

\* Every variable has its type; the client holds a connection exactly while its
\* protocol runs (tcp_client.rs:44-72).
ExchangeTypeOK ==
  /\ TypeOK
  /\ client \in {"connect", "read", "fetch", "ack", "install", "sleep",
                "panicked"}
  /\ connects \in 0 .. MaxConnections
  /\ connection \in IF client \in {"connect", "sleep", "panicked"} THEN {None}
                    ELSE {connects - 1}
  /\ request \in 0 .. MaxRounds
  /\ rekey_reqs \in [ConnectionId -> Seq(1 .. MaxRounds)]
  /\ rekey_acks \in [ConnectionId -> Nat]
  /\ hung_up \subseteq 0 .. (connects - 1)
  /\ client_worker \in {"running", "gone"}
  /\ silent \subseteq 0 .. (connects - 1)
  /\ unanswered \subseteq {"client", "server"} \X silent
  /\ acknowledged \subseteq Event
  /\ installed \in Event \cup {NoEvent}
  /\ faults \in 0 .. MaxFaults

\* The server never puts a key in use that the client has not acknowledged: every
\* key that is on its way to the server's worker, or has reached it, is one the
\* client has written an acknowledgement for, on whatever connection
\* (crypto/server.rs:67-75, crypto/client.rs:63-70).
ServerNeverAhead ==
  /\ {forwarded, forwarding} \subseteq acknowledged \cup {NoEvent}
  /\ \A i \in DOMAIN notifications :
       notifications[i].type = "Osk" => notifications[i] \in acknowledged

\* Between two negotiations: nothing is under way on the active connection, and
\* the client is on it.
Settled == /\ manager = "select"
           /\ notifications = <<>>
           /\ active_connection # None
           /\ connection = active_connection
           /\ client = "read"
           /\ task[active_connection] = "sleep"

\* Between two negotiations both ends have last put the same key in use, whatever
\* connections came and went before (connection_manager.rs:140-206).
SettledAgree == Settled => installed = forwarded

\* The two daemons, across broken connections, panics and failures of either end,
\* implement the abstract handover of keys: the client commits to keys in order,
\* and each end goes from committed key to newer committed key
\* (connection_manager.rs:140-206, crypto/client.rs:42-71).
Handover == INSTANCE KeyHandover
              WITH Keys <- Event, NoKey <- NoEvent,
                   Newer <- Newer, committed <- acknowledged,
                   client_key <- installed, server_key <- forwarded
ImplementsHandover == Handover!Spec

\* The client waits for a request on a connection that is dead, and has sent
\* nothing there that TCP could give up on: wait_for_key_negotiation reads without
\* a time-out (crypto/client.rs:51-54).
ClientStranded == /\ client = "read"
                  /\ connection \in silent
                  /\ <<"client", connection>> \notin unanswered

\* Whatever the faults, as long as they are finitely many and none is fatal, both
\* ends put the same key in use again and again, and at last if the rekeying comes
\* to an end: a key that only one end got is replaced on the next connection, and
\* a task that hangs on a dead connection is superseded.  The one way to miss this is a client that waits for
\* ever on a connection that died silently (tcp_client.rs:44-59,
\* crypto/server.rs:44-50, crypto/client.rs:42-54).
Agreement == installed = forwarded /\ installed # NoEvent
Convergence == []<>(Agreement \/ ClientStranded)

=============================================================================
