----------------------- MODULE ConnectionManagerProofs -----------------------
(***************************************************************************)
(* Proofs about ConnectionManager for every limit, capacity and number of  *)
(* connections.                                                            *)
(***************************************************************************)
EXTENDS ConnectionManager, FiniteSetTheorems, SequenceTheorems,
        WellFoundedInduction, TLAPS

-----------------------------------------------------------------------------
(* Facts about the helpers.                                                *)

\* BTreeMap::pop_first: a non-empty set of connection ids has a least element.
LEMMA MinIsLeast ==
  ASSUME NEW S, S \subseteq Nat, S # {}
  PROVE  Min(S) \in S /\ \A y \in S : Min(S) <= y
<1> DEFINE UpTo == {0 .. x : x \in S}
<1>1. UpTo \subseteq FiniteSubsetsOf(Nat) /\ UpTo # {}
  <2> SUFFICES ASSUME NEW x \in S PROVE 0 .. x \in FiniteSubsetsOf(Nat)
    OBVIOUS
  <2>1. IsFiniteSet(0 .. x)
    BY FS_Interval
  <2> QED
    BY <2>1 DEF FiniteSubsetsOf
<1>2. PICK T \in UpTo : \A U \in UpTo : <<U, T>> \notin StrictSubsetOrdering(Nat)
  BY <1>1, FS_StrictSubsetOrderingWellFounded, WFMin
<1>3. PICK x \in S : T = 0 .. x
  OBVIOUS
<1>4. ASSUME NEW y \in S PROVE x <= y
  <2> SUFFICES ASSUME y < x PROVE FALSE
    OBVIOUS
  <2>1. 0 .. y \subseteq 0 .. x /\ 0 .. y # 0 .. x
    OBVIOUS
  <2>2. 0 .. y \in SUBSET Nat /\ 0 .. x \in SUBSET Nat
    OBVIOUS
  <2>3. <<0 .. y, 0 .. x>> \in StrictSubsetOrdering(Nat)
    BY <2>1, <2>2 DEF StrictSubsetOrdering
  <2> QED
    BY <1>2, <1>3, <2>3
<1> QED
  BY <1>4 DEF Min

\* The budding connections are finitely many.
LEMMA BuddingFinite ==
  ASSUME NEW S \in SUBSET ConnectionId
  PROVE  IsFiniteSet(S)
<1>1. IsFiniteSet(ConnectionId)
  BY FS_Interval, ManagerAssumption DEF ConnectionId
<1> QED
  BY <1>1, FS_Subset

\* At most one connection is pruned, and it is one of the budding ones.
LEMMA PruneOne ==
  ASSUME TypeOK
  PROVE  /\ ToPrune \subseteq budding_connections
         /\ Cardinality(budding_connections) < MaxBudding => ToPrune = {}
         /\ Cardinality(budding_connections) >= MaxBudding
              => \E p \in budding_connections : ToPrune = {p}
<1>1. IsFiniteSet(budding_connections) /\ budding_connections \subseteq Nat
  BY BuddingFinite DEF TypeOK, ConnectionId
<1>2. Cardinality(budding_connections) \in Nat
  BY <1>1, FS_CardinalityType
<1>3. CASE Cardinality(budding_connections) >= MaxBudding
  <2>1. budding_connections # {}
    BY <1>3, FS_EmptySet, ManagerAssumption
  <2>2. Min(budding_connections) \in budding_connections
    BY <1>1, <2>1, MinIsLeast
  <2> QED
    BY <1>2, <1>3, <2>2, ManagerAssumption DEF ToPrune
<1>4. CASE ~(Cardinality(budding_connections) >= MaxBudding)
  BY <1>2, <1>4, ManagerAssumption DEF ToPrune
<1> QED
  BY <1>3, <1>4

\* The events of the tasks are events.
LEMMA EventType ==
  ASSUME NEW c \in ConnectionId, NEW r \in 0 .. MaxRounds
  PROVE  ExitEvent(c) \in Event /\ OskEvent(c, r) \in Event
BY ManagerAssumption DEF ExitEvent, OskEvent, Event

\* Only connections are aborted.
LEMMA AbortType ==
  ASSUME TypeOK, NEW S, S \subseteq ConnectionId
  PROVE  Abort(S) \subseteq ConnectionId
BY DEF TypeOK, Abort

\* The manager holds handles of connections only.
LEMMA RegisteredType == TypeOK => Registered \subseteq ConnectionId
BY DEF TypeOK, Registered

-----------------------------------------------------------------------------
(* The inductive invariant.                                                *)

\* What the manager knows of its connections: an active connection is the last
\* one promoted, the budding ones are newer, and the handles about to be dropped
\* belong to older ones.
RegistryInv ==
  /\ promoted < next_connection_id
  /\ \A b \in budding_connections : promoted < b /\ b < next_connection_id
  /\ active_connection # None => active_connection = promoted
  /\ \A r \in removed : r < promoted
  /\ manager = "forwarding" => active_connection # None
  /\ manager # "forwarding" => removed = {}
  /\ manager = "failed" => Registered = {} /\ notifications = <<>>

\* How far a connection task is and what the manager knows of it.
TaskInv ==
  /\ \A c \in ConnectionId : task[c] = "none" <=> c >= next_connection_id
  /\ \A c \in cancelled : /\ Running(c)
                          /\ c \notin Registered
                          /\ manager # "failed" => c < promoted \/ c \in pruned
  /\ NoOrphanTask
  /\ NoGhostConnection

\* Exit events come from tasks that have ended, after everything else they sent.
ExitInv ==
  \A i \in DOMAIN notifications :
    notifications[i].type = "Exit" =>
      /\ task[notifications[i].connection_id] = "ended"
      /\ \A j \in DOMAIN notifications :
           i < j => notifications[j].connection_id # notifications[i].connection_id

\* The connections that are registered, superseded or pruned.
Known == Registered \cup pruned \cup {c \in ConnectionId : c < promoted}

\* Every key in the channel comes from one of them.
SourceInv ==
  \A i \in DOMAIN notifications :
    notifications[i].type = "Osk" => notifications[i].connection_id \in Known

\* The last round of which each task may already have sent the key.
Spent == [c \in ConnectionId |->
            IF task[c] \in {"write", "ack", "notify"} THEN round[c] - 1
            ELSE round[c]]

\* The keys of one connection are in the channel in the order of their rounds,
\* behind those the manager has taken from it.
ChannelOrder ==
  \A i \in DOMAIN notifications :
    LET e == notifications[i] IN
    e.type = "Osk" =>
      /\ e.round <= Spent[e.connection_id]
      /\ \A j \in DOMAIN notifications :
           LET f == notifications[j] IN
           i < j /\ f.type = "Osk" /\ f.connection_id = e.connection_id
             => e.round < f.round
      /\ e.connection_id = forwarded.connection_id => forwarded.round < e.round
      /\ e.connection_id = forwarding.connection_id => forwarding.round < e.round

\* The key being forwarded is of the connection last promoted and newer than the
\* last one forwarded, which is of no later connection.
ForwardOrder ==
  /\ forwarded.connection_id <= promoted
  /\ \A c \in ConnectionId :
       /\ forwarded.connection_id = c => forwarded.round <= Spent[c]
       /\ forwarding.connection_id = c => forwarding.round <= Spent[c]
  /\ manager = "forwarding" => /\ forwarding.connection_id = promoted
                               /\ Newer(forwarding, forwarded)

IInv == /\ TypeOK
        /\ RegistryInv
        /\ TaskInv
        /\ ExitInv
        /\ SourceInv
        /\ ChannelOrder
        /\ ForwardOrder
        /\ BuddingBounded

-----------------------------------------------------------------------------
(* Type correctness.                                                       *)

\* Every step of the server keeps the type invariant: the channels never exceed
\* their capacities.
LEMMA TypePreserved == TypeOK /\ [Next]_vars => TypeOK'
<1> SUFFICES ASSUME TypeOK, [Next]_vars PROVE TypeOK'
  OBVIOUS
<1> USE ManagerAssumption
     DEF TypeOK, managerVars, taskVars, workerVars, historyVars
<1>1. CASE OnAccept
  <2>1. /\ next_connection_id \in ConnectionId
        /\ next_connection_id + 1 \in 0 .. MaxConnections
    BY <1>1 DEF OnAccept, ConnectionId
  <2>2. ToPrune \subseteq ConnectionId
    BY PruneOne
  <2>3. Abort(ToPrune) \subseteq ConnectionId
    BY <2>2, AbortType
  <2> QED
    BY <1>1, <2>1, <2>2, <2>3 DEF OnAccept
<1>2. CASE AcceptError
  BY <1>2, AbortType, RegisteredType DEF AcceptError, ManagerFails
<1>3. CASE OnExit
  <2>1. /\ Head(notifications) \in Event
        /\ Tail(notifications) \in Seq(Event)
        /\ Len(Tail(notifications)) <= NotificationCapacity
    BY <1>3 DEF OnExit, Receive
  <2>2. Head(notifications).connection_id \in ConnectionId
    BY <2>1 DEF Event
  <2> QED
    BY <1>3, <2>1, <2>2 DEF OnExit, Receive
<1>4. CASE OnOskFromStale
  BY <1>4 DEF OnOskFromStale, Receive
<1>5. CASE OnOskFromActive
  <2>1. /\ Head(notifications) \in Event
        /\ Tail(notifications) \in Seq(Event)
        /\ Len(Tail(notifications)) <= NotificationCapacity
    BY <1>5 DEF OnOskFromActive, Receive
  <2>2. Head(notifications).connection_id \in ConnectionId
    BY <2>1 DEF Event
  <2> QED
    BY <1>5, <2>1, <2>2 DEF OnOskFromActive, Receive, Forward
<1>6. CASE OnOskFromUnknown
  BY <1>6 DEF OnOskFromUnknown, Receive
<1>7. CASE OnOskFromBudding
  <2>1. /\ Head(notifications) \in Event
        /\ Tail(notifications) \in Seq(Event)
        /\ Len(Tail(notifications)) <= NotificationCapacity
    BY <1>7 DEF OnOskFromBudding, Receive
  <2>2. Head(notifications).connection_id \in -1 .. (MaxConnections - 1)
    BY <2>1 DEF Event, ConnectionId
  <2>3. Head(notifications).connection_id \in ConnectionId
    BY <2>1 DEF Event
  <2>4. active_connection # None => Abort({active_connection}) \subseteq ConnectionId
    BY AbortType
  <2>5. cancelled' \subseteq ConnectionId
    BY <1>7, <2>4 DEF OnOskFromBudding
  <2> QED
    BY <1>7, <2>1, <2>2, <2>3, <2>5 DEF OnOskFromBudding, Receive, Forward, SplitOff
<1>8. CASE ForwardDone
  <2>1. Append(requests, forwarding) \in Seq(Event)
    BY <1>8 DEF ForwardDone
  <2>2. Len(Append(requests, forwarding)) <= RequestCapacity
    BY <1>8 DEF ForwardDone
  <2>3. Abort(removed) \subseteq ConnectionId
    BY AbortType
  <2> QED
    BY <1>8, <2>1, <2>2, <2>3 DEF ForwardDone
<1>9. CASE ForwardError
  BY <1>9, AbortType, RegisteredType DEF ForwardError, ManagerFails
<1>10. ASSUME NEW c \in ConnectionId, TaskFetched(c) PROVE TypeOK'
  BY <1>10 DEF TaskFetched, Goto
<1>11. ASSUME NEW c \in ConnectionId, TaskWritten(c) PROVE TypeOK'
  BY <1>11 DEF TaskWritten, Goto
<1>12. ASSUME NEW c \in ConnectionId, TaskAcked(c) PROVE TypeOK'
  BY <1>12 DEF TaskAcked, Goto
<1>13. ASSUME NEW c \in ConnectionId, TaskError(c) PROVE TypeOK'
  BY <1>13 DEF TaskError
<1>14. ASSUME NEW c \in ConnectionId, TaskPanic(c) PROVE TypeOK'
  BY <1>14 DEF TaskPanic, Goto, Ended
<1>15. ASSUME NEW c \in ConnectionId, TaskNotify(c) PROVE TypeOK'
  BY <1>15, EventType DEF TaskNotify, Goto
<1>16. ASSUME NEW c \in ConnectionId, TaskWake(c) PROVE TypeOK'
  BY <1>16 DEF TaskWake, Goto
<1>17. ASSUME NEW c \in ConnectionId, TaskExit(c) PROVE TypeOK'
  <2>1. ExitEvent(c) \in Event
    BY <1>17, EventType
  <2>2. /\ Append(notifications, ExitEvent(c)) \in Seq(Event)
        /\ Len(Append(notifications, ExitEvent(c))) = Len(notifications) + 1
    BY <2>1
  <2>3. notifications' \in Seq(Event) /\ Len(notifications') <= NotificationCapacity
    <3>1. CASE UNCHANGED notifications
      BY <3>1
    <3>2. CASE /\ Len(notifications) < NotificationCapacity
               /\ notifications' = Append(notifications, ExitEvent(c))
      BY <2>2, <3>2
    <3> QED
      BY <1>17, <3>1, <3>2 DEF TaskExit
  <2> QED
    BY <1>17, <2>3 DEF TaskExit, Goto, Ended
<1>18. ASSUME NEW c \in ConnectionId, TaskReaped(c) PROVE TypeOK'
  BY <1>18 DEF TaskReaped, Ended
<1>19. CASE WorkerRecv
  BY <1>19 DEF WorkerRecv
<1>20. CASE WorkerPanic
  BY <1>20 DEF WorkerPanic
<1>21. CASE UNCHANGED vars
  BY <1>21 DEF vars
<1> QED
  BY <1>1, <1>2, <1>3, <1>4, <1>5, <1>6, <1>7, <1>8, <1>9, <1>10, <1>11,
     <1>12, <1>13, <1>14, <1>15, <1>16, <1>17, <1>18, <1>19, <1>20, <1>21
  DEF Next, ManagerStep, TaskStep

\* The initial states have the types.
LEMMA TypeInitially == Init => TypeOK
BY ManagerAssumption DEF Init, TypeOK, ConnectionId

\* Type correctness of the server.
THEOREM TypeCorrect == Spec => []TypeOK
BY TypeInitially, TypePreserved, PTL DEF Spec

-----------------------------------------------------------------------------
(* The limit of the budding connections.                                   *)

\* Accepting prunes before it inserts, and nothing else adds an entry.
LEMMA BuddingPreserved == TypeOK /\ BuddingBounded /\ [Next]_vars => BuddingBounded'
<1> SUFFICES ASSUME TypeOK, BuddingBounded, [Next]_vars PROVE BuddingBounded'
  OBVIOUS
<1>1. IsFiniteSet(budding_connections)
  BY BuddingFinite DEF TypeOK
<1>2. Cardinality(budding_connections) \in Nat
  BY <1>1, FS_CardinalityType
<1>3. CASE budding_connections' \subseteq budding_connections
  <2>1. /\ Cardinality(budding_connections') \in Nat
        /\ Cardinality(budding_connections') <= Cardinality(budding_connections)
    BY <1>1, <1>3, FS_Subset, FS_CardinalityType
  <2> QED
    BY <1>2, <2>1, ManagerAssumption DEF BuddingBounded
<1>4. CASE OnAccept
  <2> DEFINE kept == budding_connections \ ToPrune
  <2>1. IsFiniteSet(kept) /\ Cardinality(kept) \in Nat /\ Cardinality(kept) < MaxBudding
    <3>1. CASE Cardinality(budding_connections) < MaxBudding
      <4>1. kept = budding_connections
        BY <3>1, PruneOne
      <4> QED
        BY <1>1, <1>2, <3>1, <4>1
    <3>2. CASE Cardinality(budding_connections) >= MaxBudding
      <4>1. PICK p \in budding_connections : ToPrune = {p}
        BY <3>2, PruneOne
      <4>2. /\ IsFiniteSet(kept)
            /\ Cardinality(kept) = Cardinality(budding_connections) - 1
        BY <1>1, <4>1, FS_RemoveElement
      <4>3. Cardinality(kept) \in Nat
        BY <4>2, FS_CardinalityType
      <4> QED
        BY <1>2, <4>2, <4>3, ManagerAssumption DEF BuddingBounded
    <3> QED
      BY <1>2, <3>1, <3>2, ManagerAssumption
  <2>2. budding_connections' = kept \cup {next_connection_id}
    BY <1>4 DEF OnAccept
  <2> HIDE DEF kept
  <2>3. Cardinality(kept \cup {next_connection_id})
          = IF next_connection_id \in kept THEN Cardinality(kept)
            ELSE Cardinality(kept) + 1
    BY <2>1, FS_AddElement
  <2>4. Cardinality(kept \cup {next_connection_id}) \in Nat
    BY <2>1, FS_AddElement, FS_CardinalityType
  <2> QED
    BY <2>1, <2>2, <2>3, <2>4, ManagerAssumption DEF BuddingBounded
<1>5. [Next]_vars => OnAccept \/ budding_connections' \subseteq budding_connections
  BY DEF Next, ManagerStep, TaskStep, AcceptError, ManagerFails, OnExit,
         OnOskFromStale, OnOskFromActive, OnOskFromUnknown, OnOskFromBudding,
         SplitOff, ForwardDone, ForwardError, TaskFetched, TaskWritten, TaskAcked,
         TaskError, TaskPanic, TaskNotify, TaskWake, TaskExit, TaskReaped,
         WorkerRecv, WorkerPanic, vars, managerVars
<1> QED
  BY <1>3, <1>4, <1>5

\* A flood of connections that never complete a negotiation takes up no more
\* than MAX_BUDDING_CONNECTIONS entries (connection_manager.rs:96).
THEOREM BuddingLimited == Spec => []BuddingBounded
<1>1. Init => BuddingBounded
  BY FS_EmptySet, ManagerAssumption DEF Init, BuddingBounded
<1> QED
  BY <1>1, BuddingPreserved, TypeCorrect, PTL DEF Spec

-----------------------------------------------------------------------------
(* The registry.                                                           *)

\* Task and worker steps touch nothing of the manager's, and send nothing once
\* it has failed.
LEMMA OtherSteps ==
  ASSUME TypeOK,
         \/ \E c \in ConnectionId : TaskStep(c)
         \/ WorkerRecv
         \/ WorkerPanic
         \/ UNCHANGED vars
  PROVE  /\ UNCHANGED <<managerVars, historyVars>>
         /\ manager = "failed" => UNCHANGED notifications
BY DEF TaskStep, TaskFetched, TaskWritten, TaskAcked, TaskError, TaskPanic,
       TaskNotify, TaskWake, TaskExit, TaskReaped, WorkerRecv, WorkerPanic, vars

\* The head of the channel, as a handler sees it.
LEMMA ReceivedEvent ==
  ASSUME TypeOK, notifications # <<>>
  PROVE  /\ Head(notifications) \in Event
         /\ Head(notifications) = notifications[1]
         /\ Head(notifications).connection_id \in ConnectionId
         /\ Head(notifications).round \in 0 .. MaxRounds
         /\ Tail(notifications) \in Seq(Event)
         /\ Len(Tail(notifications)) = Len(notifications) - 1
         /\ Len(notifications) >= 1
         /\ \A i \in DOMAIN Tail(notifications) :
              /\ i + 1 \in DOMAIN notifications
              /\ Tail(notifications)[i] = notifications[i + 1]
<1>1. /\ Head(notifications) \in Event
      /\ Head(notifications) = notifications[1]
      /\ Tail(notifications) \in Seq(Event)
      /\ Len(Tail(notifications)) = Len(notifications) - 1
      /\ Len(notifications) >= 1
      /\ \A i \in DOMAIN Tail(notifications) :
           /\ i + 1 \in DOMAIN notifications
           /\ Tail(notifications)[i] = notifications[i + 1]
  BY DEF TypeOK
<1> QED
  BY <1>1 DEF Event

\* Every step keeps the ids of the registry apart and in order.
LEMMA RegistryPreserved == TypeOK /\ RegistryInv /\ [Next]_vars => RegistryInv'
<1> SUFFICES ASSUME TypeOK, RegistryInv, [Next]_vars PROVE RegistryInv'
  OBVIOUS
<1> USE ManagerAssumption DEF TypeOK, RegistryInv, Registered, ConnectionId
<1>1. CASE OnAccept
  BY <1>1, PruneOne DEF OnAccept
<1>2. CASE AcceptError
  BY <1>2 DEF AcceptError, ManagerFails, historyVars
<1>3. CASE OnExit
  BY <1>3 DEF OnExit, Receive, historyVars
<1>4. CASE OnOskFromStale
  BY <1>4 DEF OnOskFromStale, Receive, managerVars, historyVars
<1>5. CASE OnOskFromActive
  BY <1>5 DEF OnOskFromActive, FromActive, Receive, Forward, historyVars
<1>6. CASE OnOskFromUnknown
  BY <1>6 DEF OnOskFromUnknown, Receive, managerVars, historyVars
<1>7. CASE OnOskFromBudding
  <2> DEFINE c == Head(notifications).connection_id
  <2>1. /\ c \in budding_connections
        /\ budding_connections' = {b \in budding_connections : b > c}
        /\ removed' = budding_connections \ (budding_connections' \cup {c})
        /\ active_connection' = c
        /\ promoted' = c
        /\ manager' = "forwarding"
        /\ UNCHANGED next_connection_id
    BY <1>7 DEF OnOskFromBudding, SplitOff, Forward
  <2> HIDE DEF c
  <2> QED
    BY <2>1
<1>8. CASE ForwardDone
  BY <1>8 DEF ForwardDone
<1>9. CASE ForwardError
  BY <1>9 DEF ForwardError, ManagerFails, historyVars
<1>10. CASE \/ \E c \in ConnectionId : TaskStep(c)
            \/ WorkerRecv
            \/ WorkerPanic
            \/ UNCHANGED vars
  BY <1>10, OtherSteps DEF managerVars, historyVars
<1> QED
  BY <1>1, <1>2, <1>3, <1>4, <1>5, <1>6, <1>7, <1>8, <1>9, <1>10
  DEF Next, ManagerStep

-----------------------------------------------------------------------------
(* The notification channel.                                               *)

\* What a step may do to the notification channel.
LEMMA ChannelSteps ==
  ASSUME [Next]_vars
  PROVE  \/ UNCHANGED notifications
         \/ notifications' = <<>>
         \/ /\ notifications # <<>>
            /\ notifications' = Tail(notifications)
            /\ UNCHANGED taskVars
         \/ \E c \in ConnectionId : TaskNotify(c)
         \/ \E c \in ConnectionId :
              TaskExit(c) /\ notifications' = Append(notifications, ExitEvent(c))
BY DEF Next, ManagerStep, TaskStep, OnAccept, AcceptError, ManagerFails, OnExit,
       OnOskFromStale, OnOskFromActive, OnOskFromUnknown, OnOskFromBudding,
       Receive, ForwardDone, ForwardError, TaskFetched, TaskWritten, TaskAcked,
       TaskError, TaskPanic, TaskWake, TaskExit, TaskReaped, WorkerRecv,
       WorkerPanic, vars, taskVars

\* A task that has ended, panicked or been reaped stays so, and no step turns
\* one into another.
LEMMA EndedForGood ==
  ASSUME TypeOK, TaskInv, [Next]_vars, NEW c \in ConnectionId,
         task[c] \in {"ended", "panicked", "reaped"}
  PROVE  task'[c] = task[c]
<1>1. CASE OnAccept
  BY <1>1 DEF OnAccept, TaskInv, TypeOK, ConnectionId
<1>2. ASSUME NEW d \in ConnectionId, TaskStep(d) PROVE task'[c] = task[c]
  BY <1>2 DEF TaskStep, TaskFetched, TaskWritten, TaskAcked, TaskError, TaskPanic,
              TaskNotify, TaskWake, TaskExit, TaskReaped, Goto, Running, TypeOK
<1>3. CASE UNCHANGED task
  BY <1>3
<1> QED
  BY <1>1, <1>2, <1>3
  DEF Next, ManagerStep, AcceptError, ManagerFails, OnExit, OnOskFromStale,
      OnOskFromActive, OnOskFromUnknown, OnOskFromBudding, ForwardDone,
      ForwardError, WorkerRecv, WorkerPanic, vars, taskVars

\* What the channel holds after a send.
LEMMA SentEvent ==
  ASSUME TypeOK, NEW e \in Event, notifications' = Append(notifications, e)
  PROVE  /\ notifications' \in Seq(Event)
         /\ DOMAIN notifications' = 1 .. (Len(notifications) + 1)
         /\ DOMAIN notifications = 1 .. Len(notifications)
         /\ Len(notifications) \in Nat
         /\ notifications'[Len(notifications) + 1] = e
         /\ \A i \in DOMAIN notifications : notifications'[i] = notifications[i]
BY DEF TypeOK

\* Every queued event is an event.
LEMMA QueuedEvent ==
  ASSUME TypeOK, NEW i \in DOMAIN notifications
  PROVE  /\ notifications[i] \in Event
         /\ notifications[i].connection_id \in ConnectionId
         /\ notifications[i].round \in 0 .. MaxRounds
         /\ notifications[i].type \in {"Exit", "Osk"}
<1>1. notifications[i] \in Event
  BY DEF TypeOK
<1> QED
  BY <1>1 DEF Event

\* Every step keeps what is known of the exit events in the channel.
LEMMA ExitPreserved == TypeOK /\ TaskInv /\ ExitInv /\ [Next]_vars => ExitInv'
<1> SUFFICES ASSUME TypeOK, TaskInv, ExitInv, [Next]_vars PROVE ExitInv'
  OBVIOUS
<1>1. CASE UNCHANGED notifications
  BY <1>1, EndedForGood, QueuedEvent DEF ExitInv
<1>2. CASE notifications' = <<>>
  BY <1>2 DEF ExitInv
<1>3. CASE notifications # <<>> /\ notifications' = Tail(notifications)
  BY <1>3, ReceivedEvent, EndedForGood, QueuedEvent DEF ExitInv
<1>4. ASSUME NEW c \in ConnectionId, NEW e \in Event,
             e.connection_id = c,
             notifications' = Append(notifications, e),
             task[c] # "ended",
             e.type = "Exit" => task'[c] = "ended"
      PROVE  ExitInv'
  <2> SUFFICES ASSUME NEW i \in DOMAIN notifications', notifications'[i].type = "Exit"
               PROVE  /\ task'[notifications'[i].connection_id] = "ended"
                      /\ \A j \in DOMAIN notifications' :
                           i < j => notifications'[j].connection_id
                                      # notifications'[i].connection_id
    BY DEF ExitInv
  <2>1. CASE i \in DOMAIN notifications
    BY <1>4, <2>1, SentEvent, QueuedEvent, EndedForGood DEF ExitInv
  <2>2. CASE i = Len(notifications) + 1
    BY <1>4, <2>2, SentEvent
  <2> QED
    BY <1>4, <2>1, <2>2, SentEvent
<1>5. ASSUME NEW c \in ConnectionId, TaskNotify(c) PROVE ExitInv'
  <2>1. /\ OskEvent(c, round[c]) \in Event
        /\ OskEvent(c, round[c]).connection_id = c
        /\ OskEvent(c, round[c]).type = "Osk"
    BY EventType DEF TypeOK, OskEvent
  <2> QED
    BY <1>4, <1>5, <2>1 DEF TaskNotify, Goto
<1>6. ASSUME NEW c \in ConnectionId, TaskExit(c),
             notifications' = Append(notifications, ExitEvent(c))
      PROVE  ExitInv'
  <2>1. ExitEvent(c) \in Event /\ ExitEvent(c).connection_id = c
    BY EventType, ManagerAssumption DEF ExitEvent
  <2>2. task[c] # "ended" /\ task'[c] = "ended"
    BY <1>6 DEF TaskExit, Goto, TypeOK
  <2> QED
    BY <1>4, <1>6, <2>1, <2>2
<1> QED
  BY <1>1, <1>2, <1>3, <1>5, <1>6, ChannelSteps

-----------------------------------------------------------------------------
(* Where the keys in the channel come from.                                *)

\* Every step keeps the source of each key in the channel accounted for.
LEMMA SourcePreserved ==
  TypeOK /\ RegistryInv /\ TaskInv /\ ExitInv /\ SourceInv /\ [Next]_vars => SourceInv'
<1> SUFFICES ASSUME TypeOK, RegistryInv, TaskInv, ExitInv, SourceInv, [Next]_vars
             PROVE  SourceInv'
  OBVIOUS
<1>1. CASE notifications' = <<>>
  BY <1>1 DEF SourceInv
<1>2. CASE /\ UNCHANGED notifications \/ (notifications # <<>> /\ notifications' = Tail(notifications))
           /\ \A c \in ConnectionId : c \in Known => c \in Known'
  <2> SUFFICES ASSUME NEW i \in DOMAIN notifications', notifications'[i].type = "Osk"
               PROVE  notifications'[i].connection_id \in Known'
    BY DEF SourceInv
  <2>1. PICK j \in DOMAIN notifications : notifications'[i] = notifications[j]
    BY <1>2, ReceivedEvent
  <2>2. notifications[j].connection_id \in Known
    BY <2>1 DEF SourceInv
  <2> QED
    BY <1>2, <2>1, <2>2, QueuedEvent
<1>3. CASE OnAccept
  <2>1. \A c \in ConnectionId : c \in Known => c \in Known'
    BY <1>3, PruneOne DEF OnAccept, Known, Registered
  <2> QED
    BY <1>2, <1>3, <2>1 DEF OnAccept
<1>4. CASE OnExit
  <2> DEFINE d == Head(notifications).connection_id
  <2>1. \A c \in ConnectionId \ {d} : c \in Known => c \in Known'
    BY <1>4 DEF OnExit, Known, Registered, historyVars
  <2> SUFFICES ASSUME NEW i \in DOMAIN notifications', notifications'[i].type = "Osk"
               PROVE  notifications'[i].connection_id \in Known'
    BY DEF SourceInv
  <2>2. /\ i + 1 \in DOMAIN notifications
        /\ notifications'[i] = notifications[i + 1]
        /\ 1 \in DOMAIN notifications
        /\ d = notifications[1].connection_id
        /\ notifications[1].type = "Exit"
        /\ i \in Nat /\ i >= 1
    BY <1>4, ReceivedEvent DEF OnExit, Receive, TypeOK
  <2>3. notifications[i + 1].connection_id # d
    BY <2>2 DEF ExitInv
  <2>4. notifications[i + 1].connection_id \in Known
    BY <2>2 DEF SourceInv
  <2> HIDE DEF d
  <2> QED
    BY <2>1, <2>2, <2>3, <2>4, QueuedEvent
<1>5. CASE OnOskFromStale \/ OnOskFromActive \/ OnOskFromUnknown
  <2>1. \A c \in ConnectionId : c \in Known => c \in Known'
    BY <1>5 DEF OnOskFromStale, OnOskFromActive, OnOskFromUnknown, Known, Registered,
                managerVars, historyVars
  <2> QED
    BY <1>2, <1>5, <2>1 DEF OnOskFromStale, OnOskFromActive, OnOskFromUnknown, Receive
<1>6. CASE OnOskFromBudding
  <2> DEFINE d == Head(notifications).connection_id
  <2>1. /\ d \in budding_connections
        /\ budding_connections' = {b \in budding_connections : b > d}
        /\ removed' = budding_connections \ (budding_connections' \cup {d})
        /\ active_connection' = d
        /\ promoted' = d
        /\ removed = {}
        /\ UNCHANGED pruned
    BY <1>6 DEF OnOskFromBudding, SplitOff, Forward, Receive, RegistryInv
  <2> HIDE DEF d
  <2>2. \A c \in ConnectionId : c \in Known => c \in Known'
    BY <2>1, ManagerAssumption DEF Known, Registered, RegistryInv, TypeOK, ConnectionId
  <2> QED
    BY <1>2, <1>6, <2>2 DEF OnOskFromBudding, Receive
<1>7. CASE ForwardDone
  <2>1. \A c \in ConnectionId : c \in Known => c \in Known'
    BY <1>7 DEF ForwardDone, Known, Registered, RegistryInv
  <2> QED
    BY <1>2, <1>7, <2>1 DEF ForwardDone
<1>8. CASE AcceptError \/ ForwardError
  BY <1>1, <1>8 DEF AcceptError, ForwardError, ManagerFails
<1>9. ASSUME NEW c \in ConnectionId, TaskNotify(c) PROVE SourceInv'
  <2>1. /\ c \in Known
        /\ \A d \in ConnectionId : d \in Known => d \in Known'
    BY <1>9 DEF TaskNotify, Goto, Running, TaskInv, NoOrphanTask, Known, Registered,
                managerVars, historyVars
  <2>2. /\ OskEvent(c, round[c]) \in Event
        /\ OskEvent(c, round[c]).connection_id = c
        /\ notifications' = Append(notifications, OskEvent(c, round[c]))
    BY <1>9, EventType DEF TypeOK, OskEvent, TaskNotify
  <2> SUFFICES ASSUME NEW i \in DOMAIN notifications', notifications'[i].type = "Osk"
               PROVE  notifications'[i].connection_id \in Known'
    BY DEF SourceInv
  <2>3. CASE i \in DOMAIN notifications
    <3>1. notifications[i].connection_id \in Known /\ notifications'[i] = notifications[i]
      BY <2>2, <2>3, SentEvent DEF SourceInv
    <3> QED
      BY <2>1, <2>3, <3>1, QueuedEvent
  <2>4. CASE i = Len(notifications) + 1
    <3>1. notifications'[i].connection_id = c
      BY <2>2, <2>4, SentEvent
    <3> QED
      BY <2>1, <3>1
  <2> QED
    BY <2>2, <2>3, <2>4, SentEvent
<1>10. ASSUME NEW c \in ConnectionId, TaskExit(c) PROVE SourceInv'
  <2>1. CASE UNCHANGED notifications
    BY <1>2, <1>10, <2>1 DEF TaskExit, Known, Registered, managerVars, historyVars
  <2>2. CASE notifications' = Append(notifications, ExitEvent(c))
    <3>1. ExitEvent(c) \in Event /\ ExitEvent(c).type = "Exit"
      BY EventType, ManagerAssumption DEF ExitEvent
    <3> QED
      BY <1>10, <2>2, <3>1, SentEvent
      DEF SourceInv, TaskExit, Known, Registered, managerVars, historyVars
  <2> QED
    BY <1>10, <2>1, <2>2 DEF TaskExit
<1>11. CASE UNCHANGED <<notifications, managerVars, historyVars>>
  BY <1>2, <1>11 DEF Known, Registered, managerVars, historyVars
<1>12. ASSUME NEW c \in ConnectionId,
              \/ TaskFetched(c) \/ TaskWritten(c) \/ TaskAcked(c) \/ TaskError(c)
              \/ TaskPanic(c) \/ TaskWake(c) \/ TaskReaped(c)
       PROVE  UNCHANGED <<notifications, managerVars, historyVars>>
  BY <1>12 DEF TaskFetched, TaskWritten, TaskAcked, TaskError, TaskPanic, TaskWake,
               TaskReaped
<1>13. CASE WorkerRecv \/ WorkerPanic \/ UNCHANGED vars
  BY <1>11, <1>13 DEF WorkerRecv, WorkerPanic, vars
<1> QED
  BY <1>3, <1>4, <1>5, <1>6, <1>7, <1>8, <1>9, <1>10, <1>11, <1>12, <1>13
  DEF Next, ManagerStep, TaskStep

-----------------------------------------------------------------------------
(* The connection tasks.                                                   *)

\* Connections whose id was handed out have a task, the others have none.
LEMMA TaskOfId ==
  ASSUME TypeOK, TaskInv, [Next]_vars
  PROVE  \A c \in ConnectionId : task'[c] = "none" <=> c >= next_connection_id'
<1> USE ManagerAssumption DEF TypeOK, TaskInv, ConnectionId
<1>1. CASE OnAccept
  BY <1>1 DEF OnAccept
<1>2. ASSUME NEW d \in ConnectionId, TaskStep(d)
      PROVE  \A c \in ConnectionId : task'[c] = "none" <=> c >= next_connection_id'
  BY <1>2 DEF TaskStep, TaskFetched, TaskWritten, TaskAcked, TaskError, TaskPanic,
              TaskNotify, TaskWake, TaskExit, TaskReaped, Goto, Running, managerVars
<1>3. CASE UNCHANGED <<task, next_connection_id>>
  BY <1>3
<1> QED
  BY <1>1, <1>2, <1>3
  DEF Next, ManagerStep, AcceptError, ManagerFails, OnExit, OnOskFromStale,
      OnOskFromActive, OnOskFromUnknown, OnOskFromBudding, ForwardDone,
      ForwardError, WorkerRecv, WorkerPanic, vars, taskVars, managerVars

\* The part of TaskInv about aborted tasks.
CancelledInv ==
  \A c \in cancelled : /\ Running(c)
                       /\ c \notin Registered
                       /\ manager # "failed" => c < promoted \/ c \in pruned

\* Every step keeps the aborted tasks apart from the registered ones.
LEMMA CancelledPreserved ==
  ASSUME TypeOK, RegistryInv, TaskInv, [Next]_vars
  PROVE  CancelledInv'
<1> USE ManagerAssumption
     DEF CancelledInv, TypeOK, RegistryInv, TaskInv, ConnectionId, Registered,
         Running, managerVars, taskVars, historyVars
<1>1. CASE OnAccept
  <2> SUFFICES ASSUME NEW c \in cancelled'
               PROVE  Running(c)' /\ c \notin Registered' /\ (c < promoted' \/ c \in pruned')
    OBVIOUS
  <2>0. c \in cancelled \/ (c \in ToPrune /\ Running(c))
    BY <1>1 DEF OnAccept, Abort
  <2>1. c \in ConnectionId /\ Running(c) /\ c # next_connection_id
    <3>1. c \in ConnectionId /\ Running(c)
      BY <2>0, PruneOne
    <3>2. task[c] # "none"
      BY <3>1
    <3> QED
      BY <3>1, <3>2
  <2>2. Running(c)'
    BY <1>1, <2>1 DEF OnAccept
  <2>3. CASE c \in cancelled
    BY <1>1, <2>1, <2>2, <2>3 DEF OnAccept
  <2>4. CASE c \in ToPrune
    <3>1. c \in budding_connections
      BY <2>4, PruneOne
    <3> QED
      BY <1>1, <2>1, <2>2, <2>4, <3>1 DEF OnAccept
  <2> QED
    BY <1>1, <2>3, <2>4 DEF OnAccept, Abort
<1>2. CASE AcceptError \/ ForwardError
  BY <1>2 DEF AcceptError, ForwardError, ManagerFails, Abort
<1>3. CASE OnExit
  BY <1>3 DEF OnExit
<1>4. CASE OnOskFromStale \/ OnOskFromActive \/ OnOskFromUnknown
  BY <1>4 DEF OnOskFromStale, OnOskFromActive, OnOskFromUnknown, Receive, Forward
<1>5. CASE OnOskFromBudding
  <2> DEFINE d == Head(notifications).connection_id
  <2>1. /\ d \in budding_connections
        /\ budding_connections' = {b \in budding_connections : b > d}
        /\ removed' = budding_connections \ (budding_connections' \cup {d})
        /\ active_connection' = d
        /\ promoted' = d
        /\ manager' = "forwarding"
        /\ removed = {}
        /\ manager = "select"
        /\ UNCHANGED <<pruned, task>>
        /\ cancelled' = IF active_connection = None THEN cancelled
                        ELSE Abort({active_connection})
    BY <1>5 DEF OnOskFromBudding, SplitOff, Forward, Receive
  <2> HIDE DEF d
  <2> QED
    BY <2>1 DEF Abort
<1>6. CASE ForwardDone
  BY <1>6 DEF ForwardDone, Abort
<1>7. ASSUME NEW d \in ConnectionId, TaskStep(d) PROVE CancelledInv'
  BY <1>7 DEF TaskStep, TaskFetched, TaskWritten, TaskAcked, TaskError, TaskPanic,
              TaskNotify, TaskWake, TaskExit, TaskReaped, Goto, Ended
<1>8. CASE WorkerRecv \/ WorkerPanic \/ UNCHANGED vars
  BY <1>8 DEF WorkerRecv, WorkerPanic, vars
<1> QED
  BY <1>1, <1>2, <1>3, <1>4, <1>5, <1>6, <1>7, <1>8 DEF Next, ManagerStep

\* Every step keeps the running tasks aborted or registered.
LEMMA OrphanPreserved ==
  ASSUME TypeOK, RegistryInv, TaskInv, ExitInv, [Next]_vars
  PROVE  NoOrphanTask'
<1> USE ManagerAssumption
     DEF NoOrphanTask, TypeOK, RegistryInv, TaskInv, ConnectionId, Registered,
         Running, managerVars, taskVars, historyVars
<1>1. CASE OnAccept
  BY <1>1, PruneOne DEF OnAccept, Abort
<1>2. CASE AcceptError \/ ForwardError
  BY <1>2 DEF AcceptError, ForwardError, ManagerFails
<1>3. CASE OnExit
  <2> DEFINE d == Head(notifications).connection_id
  <2>1. task[d] = "ended" /\ d \in ConnectionId
    BY <1>3, ReceivedEvent DEF OnExit, Receive, ExitInv
  <2>2. /\ UNCHANGED <<manager, task, cancelled, removed>>
        /\ \/ d = active_connection /\ UNCHANGED budding_connections
           \/ UNCHANGED active_connection /\ budding_connections' = budding_connections \ {d}
    BY <1>3 DEF OnExit
  <2> HIDE DEF d
  <2> QED
    BY <2>1, <2>2
<1>4. CASE OnOskFromStale \/ OnOskFromActive \/ OnOskFromUnknown
  BY <1>4 DEF OnOskFromStale, OnOskFromActive, OnOskFromUnknown, Receive, Forward
<1>5. CASE OnOskFromBudding
  <2> DEFINE d == Head(notifications).connection_id
  <2>1. /\ d \in budding_connections
        /\ budding_connections' = {b \in budding_connections : b > d}
        /\ removed' = budding_connections \ (budding_connections' \cup {d})
        /\ active_connection' = d
        /\ removed = {}
        /\ manager = "select"
        /\ UNCHANGED task
        /\ cancelled' = IF active_connection = None THEN cancelled
                        ELSE Abort({active_connection})
    BY <1>5 DEF OnOskFromBudding, SplitOff, Forward, Receive
  <2> HIDE DEF d
  <2> QED
    BY <2>1 DEF Abort
<1>6. CASE ForwardDone
  BY <1>6 DEF ForwardDone, Abort
<1>7. ASSUME NEW d \in ConnectionId, TaskStep(d) PROVE NoOrphanTask'
  BY <1>7 DEF TaskStep, TaskFetched, TaskWritten, TaskAcked, TaskError, TaskPanic,
              TaskNotify, TaskWake, TaskExit, TaskReaped, Goto, Ended
<1>8. CASE WorkerRecv \/ WorkerPanic \/ UNCHANGED vars
  BY <1>8 DEF WorkerRecv, WorkerPanic, vars
<1> QED
  BY <1>1, <1>2, <1>3, <1>4, <1>5, <1>6, <1>7, <1>8 DEF Next, ManagerStep

\* An event stays in the channel until it is received.
LEMMA StillQueued ==
  ASSUME TypeOK, NEW e, Queued(e),
         \/ UNCHANGED notifications
         \/ \E f \in Event : notifications' = Append(notifications, f)
         \/ /\ notifications # <<>>
            /\ Head(notifications) # e
            /\ notifications' = Tail(notifications)
  PROVE  Queued(e)'
<1>1. PICK i \in DOMAIN notifications : notifications[i] = e
  BY DEF Queued
<1>2. CASE UNCHANGED notifications
  BY <1>1, <1>2 DEF Queued
<1>3. ASSUME NEW f \in Event, notifications' = Append(notifications, f)
      PROVE  Queued(e)'
  <2>1. i \in DOMAIN notifications' /\ notifications'[i] = e
    BY <1>1, <1>3, SentEvent
  <2> QED
    BY <2>1 DEF Queued
<1>4. CASE /\ notifications # <<>>
           /\ Head(notifications) # e
           /\ notifications' = Tail(notifications)
  <2>1. /\ i # 1
        /\ i \in 1 .. Len(notifications)
        /\ DOMAIN Tail(notifications) = 1 .. (Len(notifications) - 1)
    BY <1>1, <1>4, ReceivedEvent DEF TypeOK
  <2>2. i - 1 \in DOMAIN Tail(notifications) /\ (i - 1) + 1 = i
    BY <2>1
  <2>3. Tail(notifications)[i - 1] = e
    BY <1>1, <1>4, <2>2, ReceivedEvent
  <2> QED
    BY <1>4, <2>2, <2>3 DEF Queued
<1> QED
  BY <1>2, <1>3, <1>4

\* Every step keeps the registered connections running, panicked, or with their
\* exit event in the channel.
LEMMA GhostPreserved ==
  ASSUME TypeOK, RegistryInv, TaskInv, ExitInv, [Next]_vars
  PROVE  NoGhostConnection'
<1> SUFFICES ASSUME NEW c \in Registered'
             PROVE  (Running(c) \/ task[c] = "panicked" \/ Queued(ExitEvent(c)))'
  BY DEF NoGhostConnection
<1> DEFINE Alive == Running(c) \/ task[c] = "panicked" \/ Queued(ExitEvent(c))
<1>1. c \in ConnectionId
  BY TypePreserved DEF TypeOK, Registered
<1>2. c \in Registered => Alive
  BY DEF TaskInv, NoGhostConnection
<1>3. CASE OnAccept
  <2>1. CASE c = next_connection_id
    BY <1>1, <1>3, <2>1 DEF OnAccept, Running, TypeOK
  <2>2. CASE c # next_connection_id
    <3>1. c \in Registered
      BY <1>3, <2>2 DEF OnAccept, Registered
    <3> QED
      BY <1>1, <1>2, <1>3, <2>2, <3>1 DEF OnAccept, Running, Queued, TypeOK
  <2> QED
    BY <2>1, <2>2
<1>4. CASE AcceptError \/ ForwardError
  BY <1>4 DEF AcceptError, ForwardError, ManagerFails, Registered
<1>5. ASSUME UNCHANGED task, c \in Registered,
             \/ UNCHANGED notifications
             \/ /\ notifications # <<>>
                /\ Head(notifications) # ExitEvent(c)
                /\ notifications' = Tail(notifications)
      PROVE  Alive'
  <2>1. Queued(ExitEvent(c)) => Queued(ExitEvent(c))'
    BY <1>5, StillQueued
  <2> QED
    BY <1>2, <1>5, <2>1 DEF Running
<1>6. CASE OnExit
  <2> DEFINE d == Head(notifications).connection_id
  <2>1. /\ notifications # <<>>
        /\ notifications' = Tail(notifications)
        /\ UNCHANGED <<task, removed>>
        /\ removed = {}
        /\ \/ /\ d = active_connection
              /\ active_connection' = None
              /\ UNCHANGED budding_connections
           \/ /\ d # active_connection
              /\ UNCHANGED active_connection
              /\ budding_connections' = budding_connections \ {d}
    BY <1>6 DEF OnExit, Receive, RegistryInv, taskVars
  <2>2. c # d /\ c \in Registered
    <3> HIDE DEF d
    <3>1. active_connection \notin budding_connections
      BY ManagerAssumption DEF RegistryInv, TypeOK, ConnectionId
    <3> QED
      BY <2>1, <3>1 DEF Registered
  <2>3. Head(notifications) # ExitEvent(c)
    BY <2>2 DEF ExitEvent
  <2> QED
    BY <1>5, <2>1, <2>2, <2>3
<1>7. CASE OnOskFromStale \/ OnOskFromActive \/ OnOskFromUnknown \/ OnOskFromBudding
  <2>1. /\ notifications # <<>>
        /\ notifications' = Tail(notifications)
        /\ Head(notifications).type = "Osk"
        /\ UNCHANGED task
    BY <1>7 DEF OnOskFromStale, OnOskFromActive, OnOskFromUnknown, OnOskFromBudding,
                Receive, taskVars
  <2>2. c \in Registered
    BY <1>7 DEF OnOskFromStale, OnOskFromActive, OnOskFromUnknown, OnOskFromBudding,
                SplitOff, Registered, RegistryInv, managerVars
  <2>3. Head(notifications) # ExitEvent(c)
    BY <2>1 DEF ExitEvent
  <2> QED
    BY <1>5, <2>1, <2>2, <2>3
<1>8. CASE ForwardDone
  BY <1>5, <1>8 DEF ForwardDone, Registered, taskVars
<1>9. ASSUME NEW d \in ConnectionId, TaskStep(d) PROVE Alive'
  <2>1. c \in Registered /\ UNCHANGED manager
    BY <1>9, OtherSteps DEF Registered, managerVars
  <2>2. manager # "failed" /\ c \notin cancelled
    BY <2>1 DEF RegistryInv, TaskInv
  <2>3. CASE TaskExit(d)
    <3>1. ExitEvent(d) \in Event /\ notifications' = Append(notifications, ExitEvent(d))
      BY <2>2, <2>3, EventType, ManagerAssumption DEF TaskExit
    <3>2. CASE c = d
      BY <3>1, <3>2, SentEvent DEF Queued
    <3>3. CASE c # d
      <4>1. Queued(ExitEvent(c)) => Queued(ExitEvent(c))'
        BY <3>1, StillQueued
      <4>2. task'[c] = task[c]
        BY <1>1, <2>3, <3>3 DEF TaskExit, Goto, TypeOK
      <4> QED
        BY <1>2, <2>1, <4>1, <4>2 DEF Running
    <3> QED
      BY <3>2, <3>3
  <2>4. CASE TaskNotify(d)
    <3>1. Queued(ExitEvent(c)) => Queued(ExitEvent(c))'
      BY <2>4, StillQueued, EventType DEF TaskNotify, TypeOK
    <3> QED
      BY <1>1, <1>2, <2>1, <2>4, <3>1 DEF TaskNotify, Goto, Running, TypeOK
  <2>5. CASE \/ TaskFetched(d) \/ TaskWritten(d) \/ TaskAcked(d) \/ TaskError(d)
             \/ TaskPanic(d) \/ TaskWake(d) \/ TaskReaped(d)
    <3>1. Queued(ExitEvent(c)) => Queued(ExitEvent(c))'
      BY <2>5 DEF Queued, TaskFetched, TaskWritten, TaskAcked, TaskError, TaskPanic,
                  TaskWake, TaskReaped
    <3> QED
      BY <1>1, <1>2, <2>1, <2>2, <2>5, <3>1
      DEF TaskFetched, TaskWritten, TaskAcked, TaskError, TaskPanic, TaskWake,
          TaskReaped, Goto, Running, TypeOK
  <2> QED
    BY <1>9, <2>3, <2>4, <2>5 DEF TaskStep
<1>10. CASE WorkerRecv \/ WorkerPanic \/ UNCHANGED vars
  BY <1>5, <1>10 DEF WorkerRecv, WorkerPanic, vars, Registered, managerVars, taskVars
<1> QED
  BY <1>3, <1>4, <1>6, <1>7, <1>8, <1>9, <1>10 DEF Next, ManagerStep

-----------------------------------------------------------------------------
(* The order of the keys.                                                  *)

\* No step takes back a round.
LEMMA SpentGrows ==
  ASSUME TypeOK, TaskInv, [Next]_vars, NEW c \in ConnectionId
  PROVE  /\ Spent[c] \in Int
         /\ Spent'[c] \in Int
         /\ Spent[c] <= Spent'[c]
<1>1. Spent[c] \in Int /\ Spent'[c] \in Int
  <2>1. round[c] \in 0 .. MaxRounds /\ round'[c] \in 0 .. MaxRounds
    BY TypePreserved DEF TypeOK
  <2>2. round[c] \in Int /\ round'[c] \in Int
    BY <2>1, ManagerAssumption
  <2> QED
    BY <2>2 DEF Spent
<1> USE ManagerAssumption DEF Spent, TypeOK
<1>2. CASE OnAccept
  BY <1>1, <1>2 DEF OnAccept, TaskInv, ConnectionId
<1>3. ASSUME NEW d \in ConnectionId, TaskStep(d) PROVE Spent[c] <= Spent'[c]
  <2>1. CASE c = d
    BY <1>1, <1>3, <2>1
    DEF TaskStep, TaskFetched, TaskWritten, TaskAcked, TaskError, TaskPanic,
        TaskNotify, TaskWake, TaskExit, TaskReaped, Goto, Running
  <2>2. CASE c # d
    BY <1>1, <1>3, <2>2
    DEF TaskStep, TaskFetched, TaskWritten, TaskAcked, TaskError, TaskPanic,
        TaskNotify, TaskWake, TaskExit, TaskReaped, Goto
  <2> QED
    BY <2>1, <2>2
<1>4. CASE UNCHANGED <<task, round>>
  BY <1>1, <1>4
<1> QED
  BY <1>1, <1>2, <1>3, <1>4
  DEF Next, ManagerStep, AcceptError, ManagerFails, OnExit, OnOskFromStale,
      OnOskFromActive, OnOskFromUnknown, OnOskFromBudding, ForwardDone,
      ForwardError, WorkerRecv, WorkerPanic, vars, taskVars

\* Every step keeps the keys still to come newer than the last one forwarded.
LEMMA ForwardPreserved ==
  ASSUME TypeOK, RegistryInv, TaskInv, ChannelOrder, ForwardOrder, [Next]_vars
  PROVE  ForwardOrder'
<1> USE ManagerAssumption
<1>1. \A c \in ConnectionId : /\ Spent[c] \in Int
                             /\ Spent'[c] \in Int
                             /\ Spent[c] <= Spent'[c]
  BY SpentGrows
<1>2. /\ forwarded.connection_id \in Int /\ forwarded.round \in Int
      /\ forwarding.connection_id \in Int /\ forwarding.round \in Int
      /\ promoted \in Int
  BY DEF TypeOK, Event, NoEvent, ConnectionId
<1>3. NoEvent.connection_id = -1 /\ -1 \notin ConnectionId
  BY DEF NoEvent, ConnectionId
<1>4. CASE /\ UNCHANGED <<forwarded, promoted>>
           /\ \/ UNCHANGED <<forwarding, manager>>
              \/ forwarding' = NoEvent /\ manager' = "failed"
  BY <1>1, <1>2, <1>3, <1>4 DEF ForwardOrder, Newer
<1>5. ASSUME notifications # <<>>,
             Head(notifications).type = "Osk"
      PROVE  LET e == Head(notifications) IN
             /\ e \in Event
             /\ e.connection_id \in ConnectionId
             /\ e.round \in Int
             /\ e.round <= Spent[e.connection_id]
             /\ e.connection_id = forwarded.connection_id => forwarded.round < e.round
  BY <1>5, ReceivedEvent DEF ChannelOrder
<1>6. CASE OnOskFromActive
  <2>1. /\ forwarding' = Head(notifications)
        /\ Head(notifications).connection_id = promoted
        /\ UNCHANGED <<forwarded, promoted>>
        /\ notifications # <<>>
        /\ Head(notifications).type = "Osk"
    BY <1>6 DEF OnOskFromActive, FromActive, Receive, Forward, RegistryInv, historyVars
  <2> QED
    BY <1>1, <1>2, <1>5, <2>1 DEF ForwardOrder, Newer
<1>7. CASE OnOskFromBudding
  <2>1. /\ forwarding' = Head(notifications)
        /\ promoted' = Head(notifications).connection_id
        /\ promoted < promoted'
        /\ UNCHANGED forwarded
        /\ notifications # <<>>
        /\ Head(notifications).type = "Osk"
    BY <1>7 DEF OnOskFromBudding, Receive, Forward, RegistryInv
  <2>2. promoted' \in Int
    BY <2>1, <1>5 DEF ConnectionId
  <2> QED
    BY <1>1, <1>2, <1>5, <2>1, <2>2 DEF ForwardOrder, Newer
<1>8. CASE ForwardDone
  <2>1. /\ forwarded' = forwarding
        /\ forwarding' = NoEvent
        /\ manager = "forwarding" /\ manager' = "select"
        /\ UNCHANGED promoted
    BY <1>8 DEF ForwardDone
  <2> QED
    BY <1>1, <1>2, <1>3, <2>1 DEF ForwardOrder
<1> QED
  BY <1>4, <1>6, <1>7, <1>8
  DEF Next, ManagerStep, TaskStep, OnAccept, AcceptError, ManagerFails, OnExit,
      OnOskFromStale, OnOskFromUnknown, ForwardError, TaskFetched, TaskWritten,
      TaskAcked, TaskError, TaskPanic, TaskNotify, TaskWake, TaskExit, TaskReaped,
      WorkerRecv, WorkerPanic, vars, managerVars, historyVars

\* Every step keeps the keys of one connection in the channel in order.
LEMMA ChannelPreserved ==
  ASSUME TypeOK, RegistryInv, TaskInv, ChannelOrder, ForwardOrder, [Next]_vars
  PROVE  ChannelOrder'
<1> USE ManagerAssumption
<1>1. \A c \in ConnectionId : /\ Spent[c] \in Int
                             /\ Spent'[c] \in Int
                             /\ Spent[c] <= Spent'[c]
  BY SpentGrows
<1>2. NoEvent.connection_id = -1 /\ -1 \notin ConnectionId
  BY DEF NoEvent, ConnectionId
<1>3. CASE notifications' = <<>>
  BY <1>3 DEF ChannelOrder
<1>4. CASE /\ UNCHANGED notifications
           /\ \/ UNCHANGED <<forwarded, forwarding>>
              \/ forwarded' = forwarding /\ forwarding' = NoEvent
  BY <1>1, <1>2, <1>4, QueuedEvent DEF ChannelOrder
<1>5. CASE /\ notifications # <<>>
           /\ notifications' = Tail(notifications)
           /\ UNCHANGED forwarded
           /\ \/ UNCHANGED forwarding
              \/ forwarding' = Head(notifications) /\ Head(notifications).type = "Osk"
  <2> SUFFICES ASSUME NEW i \in DOMAIN notifications', notifications'[i].type = "Osk"
               PROVE  LET e == notifications'[i] IN
                      /\ e.round <= Spent'[e.connection_id]
                      /\ \A j \in DOMAIN notifications' :
                           LET f == notifications'[j] IN
                           i < j /\ f.type = "Osk" /\ f.connection_id = e.connection_id
                             => e.round < f.round
                      /\ e.connection_id = forwarded'.connection_id
                           => forwarded'.round < e.round
                      /\ e.connection_id = forwarding'.connection_id
                           => forwarding'.round < e.round
    BY DEF ChannelOrder
  <2>1. /\ i + 1 \in DOMAIN notifications /\ notifications'[i] = notifications[i + 1]
        /\ 1 \in DOMAIN notifications /\ Head(notifications) = notifications[1]
        /\ 1 < i + 1
    BY <1>5, ReceivedEvent DEF TypeOK
  <2>2. LET e == notifications[i + 1] IN
        /\ e.connection_id \in ConnectionId /\ e.round \in Int
        /\ e.round <= Spent[e.connection_id]
        /\ e.connection_id = forwarded.connection_id => forwarded.round < e.round
        /\ e.connection_id = forwarding.connection_id => forwarding.round < e.round
    BY <2>1, QueuedEvent DEF ChannelOrder
  <2>3. notifications[i + 1].round <= Spent'[notifications[i + 1].connection_id]
    BY <1>1, <2>2
  <2>4. ASSUME NEW j \in DOMAIN notifications', i < j,
               notifications'[j].type = "Osk",
               notifications'[j].connection_id = notifications[i + 1].connection_id
        PROVE  notifications[i + 1].round < notifications'[j].round
    <3>1. /\ j + 1 \in DOMAIN notifications /\ i + 1 < j + 1
          /\ notifications'[j] = notifications[j + 1]
      BY <1>5, <2>4, ReceivedEvent DEF TypeOK
    <3>2. notifications[i + 1].type = "Osk"
      BY <2>1
    <3> QED
      BY <2>1, <2>4, <3>1, <3>2 DEF ChannelOrder
  <2>5. ASSUME Head(notifications).type = "Osk",
               notifications[i + 1].connection_id = Head(notifications).connection_id
        PROVE  Head(notifications).round < notifications[i + 1].round
    BY <2>1, <2>5 DEF ChannelOrder
  <2> QED
    BY <1>5, <2>1, <2>2, <2>3, <2>4, <2>5
<1>6. ASSUME NEW c \in ConnectionId, TaskNotify(c) PROVE ChannelOrder'
  <2> DEFINE n == Len(notifications) + 1
             e == OskEvent(c, round[c])
  <2>1. /\ e \in Event
        /\ e.connection_id = c /\ e.round = round[c]
        /\ notifications' = Append(notifications, e)
    BY <1>6, EventType DEF TypeOK, OskEvent, TaskNotify
  <2>2. Spent[c] = round[c] - 1 /\ Spent'[c] = round[c] /\ round[c] \in Int
    BY <1>6 DEF TaskNotify, Goto, Spent, TypeOK
  <2>3. UNCHANGED <<forwarded, forwarding>>
    BY <1>6 DEF TaskNotify, managerVars, historyVars
  <2>4. /\ n \in Nat /\ DOMAIN notifications' = 1 .. n
        /\ DOMAIN notifications = 1 .. (n - 1)
        /\ notifications'[n] = e
        /\ \A i \in DOMAIN notifications : notifications'[i] = notifications[i]
    BY <2>1, SentEvent
  <2> HIDE DEF n, e
  <2>5. /\ forwarded.round \in Int /\ forwarding.round \in Int
        /\ c = forwarded.connection_id => forwarded.round < round[c]
        /\ c = forwarding.connection_id => forwarding.round < round[c]
    BY <2>2 DEF ForwardOrder, TypeOK, Event, NoEvent
  <2> SUFFICES ASSUME NEW i \in DOMAIN notifications', notifications'[i].type = "Osk"
               PROVE  LET f == notifications'[i] IN
                      /\ f.round <= Spent'[f.connection_id]
                      /\ \A j \in DOMAIN notifications' :
                           LET g == notifications'[j] IN
                           i < j /\ g.type = "Osk" /\ g.connection_id = f.connection_id
                             => f.round < g.round
                      /\ f.connection_id = forwarded'.connection_id
                           => forwarded'.round < f.round
                      /\ f.connection_id = forwarding'.connection_id
                           => forwarding'.round < f.round
    BY DEF ChannelOrder
  <2>6. CASE i = n
    BY <2>1, <2>2, <2>3, <2>4, <2>5, <2>6
  <2>7. CASE i \in DOMAIN notifications
    <3>1. /\ notifications'[i] = notifications[i]
          /\ notifications[i].connection_id \in ConnectionId
          /\ notifications[i].round \in Int
          /\ notifications[i].round <= Spent[notifications[i].connection_id]
      BY <2>4, <2>7, QueuedEvent DEF ChannelOrder
    <3>2. ASSUME NEW j \in DOMAIN notifications', i < j,
                 notifications'[j].type = "Osk",
                 notifications'[j].connection_id = notifications[i].connection_id
          PROVE  notifications[i].round < notifications'[j].round
      <4>1. CASE j = n
        BY <2>1, <2>2, <2>4, <3>1, <3>2, <4>1
      <4>2. CASE j \in DOMAIN notifications
        BY <2>4, <2>7, <3>1, <3>2, <4>2 DEF ChannelOrder
      <4> QED
        BY <2>4, <4>1, <4>2
    <3> QED
      BY <1>1, <2>3, <2>7, <3>1, <3>2 DEF ChannelOrder
  <2> QED
    BY <2>4, <2>6, <2>7
<1>7. ASSUME NEW c \in ConnectionId, TaskExit(c),
             notifications' = Append(notifications, ExitEvent(c))
      PROVE  ChannelOrder'
  <2>1. ExitEvent(c) \in Event /\ ExitEvent(c).type = "Exit"
    BY EventType DEF ExitEvent
  <2>2. UNCHANGED <<forwarded, forwarding>>
    BY <1>7 DEF TaskExit, managerVars, historyVars
  <2> QED
    BY <1>1, <1>7, <2>1, <2>2, SentEvent, QueuedEvent DEF ChannelOrder
<1> QED
  BY <1>3, <1>4, <1>5, <1>6, <1>7
  DEF Next, ManagerStep, TaskStep, OnAccept, AcceptError, ManagerFails, OnExit,
      OnOskFromStale, OnOskFromActive, OnOskFromUnknown, OnOskFromBudding, Receive,
      Forward, ForwardDone, ForwardError, TaskFetched, TaskWritten, TaskAcked,
      TaskError, TaskPanic, TaskWake, TaskExit, TaskReaped, WorkerRecv,
      WorkerPanic, vars, managerVars, historyVars

-----------------------------------------------------------------------------
(* The results.                                                            *)

\* The inductive invariant holds initially.
LEMMA InvInitially == Init => IInv
<1> SUFFICES ASSUME Init PROVE IInv
  OBVIOUS
<1>1. TypeOK
  BY TypeInitially
<1>2. RegistryInv
  BY ManagerAssumption DEF Init, RegistryInv, Registered
<1>3. TaskInv
  BY ManagerAssumption
  DEF Init, TaskInv, NoOrphanTask, NoGhostConnection, Running, Registered, ConnectionId
<1>4. ExitInv /\ SourceInv /\ ChannelOrder
  BY DEF Init, ExitInv, SourceInv, ChannelOrder
<1>5. ForwardOrder
  BY ManagerAssumption DEF Init, ForwardOrder, NoEvent, ConnectionId
<1>6. BuddingBounded
  BY FS_EmptySet, ManagerAssumption DEF Init, BuddingBounded
<1> QED
  BY <1>1, <1>2, <1>3, <1>4, <1>5, <1>6 DEF IInv

\* Every step keeps the inductive invariant.
LEMMA InvPreserved == IInv /\ [Next]_vars => IInv'
<1> SUFFICES ASSUME IInv, [Next]_vars PROVE IInv'
  OBVIOUS
<1>1. /\ TypeOK /\ RegistryInv /\ TaskInv /\ ExitInv /\ SourceInv
      /\ ChannelOrder /\ ForwardOrder /\ BuddingBounded
  BY DEF IInv
<1>2. TaskInv'
  BY <1>1, TaskOfId, CancelledPreserved, OrphanPreserved, GhostPreserved
  DEF TaskInv, CancelledInv
<1> QED
  BY <1>1, <1>2, TypePreserved, RegistryPreserved, ExitPreserved, SourcePreserved,
     ChannelPreserved, ForwardPreserved, BuddingPreserved DEF IInv

\* The inductive invariant holds in every reachable state.
LEMMA Invariance == Spec => []IInv
BY InvInitially, InvPreserved, PTL DEF Spec

\* The worker is never given an older key after a newer one, nor a key twice,
\* whatever connections are accepted, pruned, promoted, superseded or lost in
\* between (connection_manager.rs:140-206).
THEOREM KeysForwardedInOrder == Spec => KeysInOrder
<1>1. IInv /\ [Next]_vars
        => [forwarded' # forwarded => Newer(forwarded', forwarded)]_forwarded
  <2> SUFFICES ASSUME IInv, [Next]_vars, forwarded' # forwarded
               PROVE  Newer(forwarded', forwarded)
    OBVIOUS
  <2>1. ForwardDone
    BY DEF Next, ManagerStep, TaskStep, OnAccept, AcceptError, ManagerFails, OnExit,
           OnOskFromStale, OnOskFromActive, OnOskFromUnknown, OnOskFromBudding,
           ForwardError, TaskFetched, TaskWritten, TaskAcked, TaskError, TaskPanic,
           TaskNotify, TaskWake, TaskExit, TaskReaped, WorkerRecv, WorkerPanic,
           vars, historyVars
  <2> QED
    BY <2>1 DEF ForwardDone, IInv, ForwardOrder
<1> QED
  BY <1>1, Invariance, PTL DEF Spec, KeysInOrder

\* While the server runs, every running connection task has been aborted or can
\* be: none escapes its AbortOnDropHandle (connection_manager.rs:96-116, 176-202).
THEOREM NoTaskEscapes == Spec => []NoOrphanTask
<1>1. IInv => NoOrphanTask
  BY DEF IInv, TaskInv
<1> QED
  BY <1>1, Invariance, PTL

\* The manager holds no entry of a task that has ended, but for exits it has yet
\* to hear of and panics (connection_manager.rs:121-138).
THEOREM NoGhostStays == Spec => []NoGhostConnection
<1>1. IInv => NoGhostConnection
  BY DEF IInv, TaskInv
<1> QED
  BY <1>1, Invariance, PTL

\* A key that reaches the channel is dropped by the manager only if its connection
\* was superseded or pruned (connection_manager.rs:149-185).
THEOREM NoKeyLost == Spec => []KeysAccountedFor
<1>1. IInv => KeysAccountedFor
  <2> SUFFICES ASSUME IInv, NEW c \in ConnectionId, NEW r \in 1 .. MaxRounds,
                      Queued(OskEvent(c, r))
               PROVE  c \in Registered \/ c < promoted \/ c \in pruned
    BY DEF KeysAccountedFor
  <2>1. PICK i \in DOMAIN notifications : notifications[i] = OskEvent(c, r)
    BY DEF Queued
  <2>2. notifications[i].type = "Osk" /\ notifications[i].connection_id = c
    BY <2>1 DEF OskEvent
  <2> QED
    BY <2>2 DEF IInv, SourceInv, Known
<1> QED
  BY <1>1, Invariance, PTL

=============================================================================
