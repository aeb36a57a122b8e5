-------------------------- MODULE ConnectionManager --------------------------
(***************************************************************************)
(* The server side of the daemon, net/tcp_server: the ConnectionManager    *)
(* event loop, the connection tasks it spawns (FanoutConnectionHandler     *)
(* around DaisywayServerProtocol), the bounded notification channel from   *)
(* the tasks to the manager, and the bounded channel from the manager to   *)
(* the output-key worker.                                                  *)
(*                                                                         *)
(* A connection task runs until it fails, panics or is aborted.  Dropping  *)
(* an AbortOnDropHandle only asks the runtime to cancel the task: it may   *)
(* finish the poll it is in, so a cancelled task may still take steps      *)
(* until it is reaped.                                                     *)
(*                                                                         *)
(* What the peer, the network and the QKD device do is left open here: each *)
(* await of the task may succeed or fail.  The key a task negotiates is    *)
(* identified by the connection and the round of its event loop.           *)
(***************************************************************************)
EXTENDS Integers, Sequences, FiniteSets, FiniteSetsExt

CONSTANTS None,                  \* Option::None
          MaxBudding,            \* MAX_BUDDING_CONNECTIONS
          NotificationCapacity,  \* mpsc::channel(16)
          RequestCapacity,       \* mpsc::channel(8) of the output-key worker
          MaxConnections,        \* bound: connections accepted in a run
          MaxRounds              \* bound: negotiations per connection

ASSUME ManagerAssumption ==
  /\ None \notin Nat
  /\ MaxBudding \in Nat \ {0}
  /\ NotificationCapacity \in Nat \ {0}
  /\ RequestCapacity \in Nat \ {0}
  /\ MaxConnections \in Nat
  /\ MaxRounds \in Nat

ConnectionId == 0 .. (MaxConnections - 1)

VARIABLES next_connection_id,
          active_connection,     \* None or the id of the active connection
          budding_connections,   \* ids of the budding connections
          manager,               \* "select" | "forwarding" | "failed"
          forwarding,            \* the OskEvent whose set_osk is awaited
          removed,               \* local of on_osk_from_budding: handles
                                 \* dropped when the function returns
          notifications,         \* manager_notification channel
          task,                  \* where each connection task is
          round,                 \* negotiations each task has begun
          cancelled,             \* running tasks that have been aborted
          requests,              \* the output-key worker's channel
          worker,                \* "running" | "gone"
          pruned,                \* history: connections dropped for room
          promoted,              \* history: the last connection promoted
          forwarded              \* history: the last key sent to the worker

managerVars == <<next_connection_id, active_connection, budding_connections,
                 manager, forwarding, removed>>
taskVars == <<task, round>>
workerVars == <<requests, worker>>
historyVars == <<pruned, promoted, forwarded>>
vars == <<managerVars, notifications, taskVars, cancelled, workerVars,
          historyVars>>

-----------------------------------------------------------------------------
(* Events and keys.                                                        *)

\* ExitEvent and OskEvent; a key is named by the connection and the round
\* that negotiated it (round 0: no key).
ExitEvent(c) == [type |-> "Exit", connection_id |-> c, round |-> 0]
OskEvent(c, r) == [type |-> "Osk", connection_id |-> c, round |-> r]
NoEvent == [type |-> "Exit", connection_id |-> -1, round |-> 0]

Event == [type : {"Exit", "Osk"}, connection_id : ConnectionId,
          round : 0 .. MaxRounds]

\* A key negotiated later on the same connection, or on a newer connection.
Newer(e, f) == \/ e.connection_id > f.connection_id
               \/ e.connection_id = f.connection_id /\ e.round > f.round

\* The connections whose abort handles the manager holds.
Registered == budding_connections \cup removed \cup
                (IF active_connection = None THEN {} ELSE {active_connection})

Running(c) == task[c] \in {"fetch", "write", "ack", "notify", "sleep", "exit"}

\* AbortOnDropHandle::drop for every handle in S; aborting a task that has
\* ended does nothing.
Abort(S) == cancelled \cup {c \in S : Running(c)}

-----------------------------------------------------------------------------
Init == /\ next_connection_id = 0
        /\ active_connection = None
        /\ budding_connections = {}
        /\ manager = "select"
        /\ forwarding = NoEvent
        /\ removed = {}
        /\ notifications = <<>>
        /\ task = [c \in ConnectionId |-> "none"]
        /\ round = [c \in ConnectionId |-> 0]
        /\ cancelled = {}
        /\ requests = <<>>
        /\ worker = "running"
        /\ pruned = {}
        /\ promoted = -1
        /\ forwarded = NoEvent

-----------------------------------------------------------------------------
(* The manager's event loop.                                               *)

\* Faulty variant: room is made one connection too late.
ToPruneLate == IF Cardinality(budding_connections) > MaxBudding
               THEN {Min(budding_connections)}
               ELSE {}

\* The oldest budding connection makes room for a new one.
ToPrune == IF Cardinality(budding_connections) >= MaxBudding
          THEN {Min(budding_connections)}
          ELSE {}

\* Faulty variant: dropping the handle of the pruned connection does not abort
\* its task.
OnAcceptNoAbort ==
  /\ manager = "select"
  /\ next_connection_id < MaxConnections
  /\ next_connection_id' = next_connection_id + 1
  /\ budding_connections' = (budding_connections \ ToPrune)
                              \cup {next_connection_id}
  /\ pruned' = pruned \cup ToPrune
  /\ task' = [task EXCEPT ![next_connection_id] = "fetch"]
  /\ UNCHANGED <<active_connection, manager, forwarding, removed, cancelled,
                 notifications, round, workerVars, promoted, forwarded>>

OnAccept ==
  /\ manager = "select"
  /\ next_connection_id < MaxConnections
  /\ next_connection_id' = next_connection_id + 1
  /\ budding_connections' = (budding_connections \ ToPrune)
                              \cup {next_connection_id}
  /\ cancelled' = Abort(ToPrune)
  /\ pruned' = pruned \cup ToPrune
  /\ task' = [task EXCEPT ![next_connection_id] = "fetch"]
  /\ UNCHANGED <<active_connection, manager, forwarding, removed,
                 notifications, round, workerVars, promoted, forwarded>>

\* The event loop returns an error: the manager is dropped with its handles
\* and the receiver of the notification channel.
ManagerFails ==
  /\ manager' = "failed"
  /\ active_connection' = None
  /\ budding_connections' = {}
  /\ removed' = {}
  /\ forwarding' = NoEvent
  /\ cancelled' = Abort(Registered)
  /\ notifications' = <<>>
  /\ UNCHANGED <<next_connection_id, taskVars, workerVars, historyVars>>

\* listener.accept() fails.
AcceptError == /\ manager = "select"
               /\ ManagerFails

\* manager_notification_rx.recv() yields an event of this type.
Receive(type) == /\ manager = "select"
                 /\ notifications # <<>>
                 /\ Head(notifications).type = type
                 /\ notifications' = Tail(notifications)

OnExit ==
  LET c == Head(notifications).connection_id IN
  /\ Receive("Exit")
  /\ \/ /\ c = active_connection
        /\ active_connection' = None
        /\ UNCHANGED budding_connections
     \/ /\ c # active_connection
        /\ budding_connections' = budding_connections \ {c}
        /\ UNCHANGED active_connection
  /\ UNCHANGED <<next_connection_id, manager, forwarding, removed, taskVars,
                 cancelled, workerVars, historyVars>>

\* An OSK event counts as older than the active connection, from it, or newer;
\* without an active connection every event counts as newer.
FromStale(c) == active_connection # None /\ c < active_connection
FromActive(c) == active_connection # None /\ c = active_connection
FromBudding(c) == active_connection # None => c > active_connection

OnOskFromStale ==
  /\ Receive("Osk")
  /\ FromStale(Head(notifications).connection_id)
  /\ UNCHANGED <<managerVars, taskVars, cancelled, workerVars, historyVars>>

\* Call set_osk on the worker's handle; the loop does not go on before it
\* returns.
Forward(ev) == /\ manager' = "forwarding"
               /\ forwarding' = ev

\* Faulty variant: only the first key of a connection is forwarded.
OnOskFromActiveDiscards ==
  /\ Receive("Osk")
  /\ FromActive(Head(notifications).connection_id)
  /\ UNCHANGED <<managerVars, taskVars, cancelled, workerVars, historyVars>>

OnOskFromActive ==
  /\ Receive("Osk")
  /\ FromActive(Head(notifications).connection_id)
  /\ Forward(Head(notifications))
  /\ UNCHANGED <<next_connection_id, active_connection, budding_connections,
                 removed, taskVars, cancelled, workerVars, historyVars>>

\* An event from a connection that is not registered is ignored.
OnOskFromUnknown ==
  LET c == Head(notifications).connection_id IN
  /\ Receive("Osk")
  /\ FromBudding(c)
  /\ c \notin budding_connections
  /\ UNCHANGED <<managerVars, taskVars, cancelled, workerVars, historyVars>>

\* Faulty variant: split_off without the swap keeps the older connections.
SplitOffOlder(c) == {b \in budding_connections : b < c}

\* What is left of the budding connections when c becomes active.
SplitOff(c) == {b \in budding_connections : b > c}

\* Promotion: the old active handle is dropped at once, those of the skipped
\* budding connections when the function returns.
OnOskFromBudding ==
  LET c == Head(notifications).connection_id IN
  /\ Receive("Osk")
  /\ FromBudding(c)
  /\ c \in budding_connections
  /\ budding_connections' = SplitOff(c)
  /\ removed' = budding_connections \ (SplitOff(c) \cup {c})
  /\ active_connection' = c
  /\ cancelled' = IF active_connection = None THEN cancelled
                  ELSE Abort({active_connection})
  /\ promoted' = c
  /\ Forward(Head(notifications))
  /\ UNCHANGED <<next_connection_id, taskVars, workerVars, pruned, forwarded>>

\* set_osk returns: the request is in the worker's channel.
ForwardDone ==
  /\ manager = "forwarding"
  /\ worker = "running"
  /\ Len(requests) < RequestCapacity
  /\ requests' = Append(requests, forwarding)
  /\ forwarded' = forwarding
  /\ manager' = "select"
  /\ forwarding' = NoEvent
  /\ cancelled' = Abort(removed)
  /\ removed' = {}
  /\ UNCHANGED <<next_connection_id, active_connection, budding_connections,
                 notifications, taskVars, worker, pruned, promoted>>

\* Faulty variant: the manager tries again for ever when the worker is gone.
ForwardRetriesForever == /\ manager = "forwarding"
                         /\ worker = "gone"
                         /\ UNCHANGED vars

\* The worker is gone: send() fails, and with it the event loop.
ForwardError == /\ manager = "forwarding"
                /\ worker = "gone"
                /\ ManagerFails

-----------------------------------------------------------------------------
(* The connection tasks: DaisywayServerProtocol::event_loop in             *)
(* FanoutConnectionHandler::init_task.                                     *)

Goto(c, from, to) == /\ task[c] = from
                     /\ task' = [task EXCEPT ![c] = to]

\* A task that ends is no longer subject to cancellation.
Ended(c) == cancelled' = cancelled \ {c}

\* fetch_any_key returns a key; a new round begins.
TaskFetched(c) ==
  /\ Goto(c, "fetch", "write")
  /\ round[c] < MaxRounds
  /\ round' = [round EXCEPT ![c] = @ + 1]
  /\ UNCHANGED <<managerVars, notifications, cancelled, workerVars,
                 historyVars>>

\* The rekey request is written.
TaskWritten(c) ==
  /\ Goto(c, "write", "ack")
  /\ UNCHANGED <<managerVars, notifications, round, cancelled, workerVars,
                 historyVars>>

\* A valid acknowledgement is read and the key is derived.
TaskAcked(c) ==
  /\ Goto(c, "ack", "notify")
  /\ UNCHANGED <<managerVars, notifications, round, cancelled, workerVars,
                 historyVars>>

\* One of the awaits of negotiate_key fails, or set_osk does because the
\* manager is gone: `?` leaves the event loop.
TaskError(c) ==
  /\ \/ task[c] \in {"fetch", "write", "ack"}
     \/ task[c] = "notify" /\ manager = "failed"
  /\ task' = [task EXCEPT ![c] = "exit"]
  /\ UNCHANGED <<managerVars, notifications, round, cancelled, workerVars,
                 historyVars>>

\* Decoding the QKD device's answer panics (etsi014.rs): the task is gone
\* without a word to the manager.
TaskPanic(c) ==
  /\ Goto(c, "fetch", "panicked")
  /\ Ended(c)
  /\ UNCHANGED <<managerVars, notifications, round, workerVars, historyVars>>

\* Faulty variant: an unbounded notification channel.
TaskNotifyUnbounded(c) ==
  /\ manager # "failed"
  /\ Goto(c, "notify", "sleep")
  /\ notifications' = Append(notifications, OskEvent(c, round[c]))
  /\ UNCHANGED <<managerVars, round, cancelled, workerVars, historyVars>>

\* FanoutOskHandler::set_osk; send().await waits while the channel is full.
TaskNotify(c) ==
  /\ manager # "failed"
  /\ Len(notifications) < NotificationCapacity
  /\ Goto(c, "notify", "sleep")
  /\ notifications' = Append(notifications, OskEvent(c, round[c]))
  /\ UNCHANGED <<managerVars, round, cancelled, workerVars, historyVars>>

\* rekey_interval is over.
TaskWake(c) ==
  /\ Goto(c, "sleep", "fetch")
  /\ UNCHANGED <<managerVars, notifications, round, cancelled, workerVars,
                 historyVars>>

\* Faulty variant: the task returns on an error, before the ExitEvent is sent.
TaskExitSilent(c) ==
  /\ Goto(c, "exit", "ended")
  /\ Ended(c)
  /\ UNCHANGED <<managerVars, notifications, round, workerVars, historyVars>>

\* The end of init_task: an ExitEvent, unless the manager is gone.
TaskExit(c) ==
  /\ Goto(c, "exit", "ended")
  /\ \/ /\ manager = "failed"
        /\ UNCHANGED notifications
     \/ /\ manager # "failed"
        /\ Len(notifications) < NotificationCapacity
        /\ notifications' = Append(notifications, ExitEvent(c))
  /\ Ended(c)
  /\ UNCHANGED <<managerVars, round, workerVars, historyVars>>

\* The runtime drops an aborted task at one of its awaits.
TaskReaped(c) ==
  /\ c \in cancelled
  /\ Running(c)
  /\ task' = [task EXCEPT ![c] = "reaped"]
  /\ Ended(c)
  /\ UNCHANGED <<managerVars, notifications, round, workerVars, historyVars>>

-----------------------------------------------------------------------------
(* The output-key worker, as the manager sees it.                          *)

WorkerRecv == /\ worker = "running"
              /\ requests # <<>>
              /\ requests' = Tail(requests)
              /\ UNCHANGED <<managerVars, notifications, taskVars, cancelled,
                             worker, historyVars>>

\* The worker thread panicked; the receiver of its channel is dropped.
WorkerPanic == /\ worker = "running"
               /\ worker' = "gone"
               /\ requests' = <<>>
               /\ UNCHANGED <<managerVars, notifications, taskVars, cancelled,
                              historyVars>>

-----------------------------------------------------------------------------
ManagerStep == \/ OnExit
               \/ OnOskFromStale
               \/ OnOskFromActive
               \/ OnOskFromUnknown
               \/ OnOskFromBudding
               \/ ForwardDone
               \/ ForwardError

TaskStep(c) == \/ TaskFetched(c)
               \/ TaskWritten(c)
               \/ TaskAcked(c)
               \/ TaskError(c)
               \/ TaskPanic(c)
               \/ TaskNotify(c)
               \/ TaskWake(c)
               \/ TaskExit(c)
               \/ TaskReaped(c)

Next == \/ OnAccept
        \/ AcceptError
        \/ ManagerStep
        \/ \E c \in ConnectionId : TaskStep(c)
        \/ WorkerRecv
        \/ WorkerPanic

Spec == Init /\ [][Next]_vars

\* Scheduling: the runtime polls every task that can go on; select! picks its
\* branch at random, and the channels serve their senders in order, so a sender
\* that again and again finds room gets it.  Nothing is assumed of new
\* connections, of the peer, of the QKD device or of panics.
FairSpec == /\ Spec
            /\ WF_vars(ManagerStep)
            /\ WF_vars(WorkerRecv)
            /\ \A c \in ConnectionId : /\ SF_vars(TaskNotify(c))
                                       /\ SF_vars(TaskExit(c))
                                       /\ WF_vars(TaskReaped(c))
                                       /\ WF_vars(task[c] = "notify" /\ TaskError(c))

-----------------------------------------------------------------------------
(* Properties.                                                             *)

Queued(ev) == \E i \in DOMAIN notifications : notifications[i] = ev

\* Every variable has its type; no channel holds more than its capacity
\* (connection_manager.rs:43, osk/deadman.rs:72).
TypeOK ==
  /\ next_connection_id \in 0 .. MaxConnections
  /\ active_connection \in ConnectionId \cup {None}
  /\ budding_connections \subseteq ConnectionId
  /\ manager \in {"select", "forwarding", "failed"}
  /\ forwarding \in IF manager = "forwarding" THEN Event ELSE {NoEvent}
  /\ removed \subseteq ConnectionId
  /\ notifications \in Seq(Event)
  /\ Len(notifications) <= NotificationCapacity
  /\ task \in [ConnectionId -> {"none", "fetch", "write", "ack", "notify",
                                "sleep", "exit", "ended", "reaped", "panicked"}]
  /\ round \in [ConnectionId -> 0 .. MaxRounds]
  /\ cancelled \subseteq ConnectionId
  /\ requests \in Seq(Event)
  /\ Len(requests) <= RequestCapacity
  /\ worker \in {"running", "gone"}
  /\ pruned \subseteq ConnectionId
  /\ promoted \in -1 .. (MaxConnections - 1)
  /\ forwarded \in Event \cup {NoEvent}

\* The worker receives every key at most once, and never an older key after a
\* newer one: not from a superseded connection, and not after the connection
\* that superseded it has exited and left no active connection behind
\* (connection_manager.rs:140-206).
KeysInOrder ==
  [][forwarded' # forwarded => Newer(forwarded', forwarded)]_forwarded

\* A task that runs and has not been aborted is one the manager holds a handle
\* of: none escapes when connections are pruned, skipped or superseded
\* (connection_manager.rs:96-116, 176-202).
NoOrphanTask ==
  manager # "failed" =>
    \A c \in ConnectionId : Running(c) /\ c \notin cancelled => c \in Registered

\* The manager holds on to a connection whose task has ended only until the exit
\* event it sent is handled; only a panic leaves such an entry behind
\* (connection_manager.rs:121-138, fanout_connection_handler.rs:43-69).
NoGhostConnection ==
  \A c \in Registered :
    Running(c) \/ task[c] = "panicked" \/ Queued(ExitEvent(c))

\* A negotiated key is lost on its way to the worker only if its connection was
\* superseded by a newer one or pruned: every key in the channel comes from a
\* registered connection or one of those (connection_manager.rs:149-185).
KeysAccountedFor ==
  \A c \in ConnectionId, r \in 1 .. MaxRounds :
    Queued(OskEvent(c, r)) => c \in Registered \/ c < promoted \/ c \in pruned

\* The budding connections never exceed their limit (connection_manager.rs:96).
BuddingBounded == Cardinality(budding_connections) <= MaxBudding

\* No task waits for ever to get an event to the manager, full channels, a
\* blocked manager or a dead worker notwithstanding
\* (fanout_osk_handler.rs:33, fanout_connection_handler.rs:58).
NotificationsAccepted ==
  \A c \in ConnectionId :
    (task[c] \in {"notify", "exit"}) ~> (task[c] \notin {"notify", "exit"})

\* A key in the notification channel reaches the worker, or a newer one does,
\* unless its connection was pruned or the manager has failed.
KeysDelivered ==
  \A c \in ConnectionId, r \in 1 .. MaxRounds :
    Queued(OskEvent(c, r)) ~> \/ ~Newer(OskEvent(c, r), forwarded)
                              \/ c \in pruned
                              \/ manager = "failed"

\* "Received exit notification for non-existent connection #{conn_id}. This is
\* likely a bug!" (connection_manager.rs:132-134): an exit event that the
\* manager is about to handle is of a connection it knows.
ExitsAreKnown ==
  manager = "select" /\ notifications # <<>> =>
    LET ev == Head(notifications) IN
    ev.type = "Exit" => ev.connection_id \in Registered

=============================================================================
