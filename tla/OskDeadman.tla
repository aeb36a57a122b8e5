----------------------------- MODULE OskDeadman -----------------------------
(***************************************************************************)
(* The output-key dead man's switch, osk/deadman.rs: OskDeadman handles    *)
(* send SetOsk requests over a bounded channel to one DeadmanWorker        *)
(* thread, which writes them into the slot through its broker (WireGuard,  *)
(* osk/wireguard.rs, or a file, osk/outfile.rs) and erases the slot when   *)
(* no request arrives for erase_after, at start-up, and when the last      *)
(* handle is gone.                                                         *)
(*                                                                         *)
(* Time is discrete.  The worker reacts within the tick in which it is     *)
(* woken; a broker call takes up to MaxWrite ticks and changes the slot at *)
(* some moment before it returns.                                          *)
(***************************************************************************)
EXTENDS Naturals, Sequences

CONSTANTS Keys,             \* output keys that negotiations may produce
          Random,           \* what erase_stale_osk leaves: a random key
          Truncated,        \* what an outfile write that was cut short leaves
          EraseAfter,       \* erase_after, in ticks
          ChannelCapacity,  \* mpsc::channel(8)
          MaxWrite,         \* bound: ticks one broker call may take
          MaxHandles,       \* bound: OskDeadman clones alive at once
          BrokerMayFail,    \* TRUE: broker calls may return an error or panic
          ExitModes         \* how the process may end: "return" (main returns
                            \* once every handle is dropped), "kill" (anytime)

ASSUME DeadmanAssumption ==
  /\ EraseAfter \in Nat \ {0}
  /\ ChannelCapacity \in Nat \ {0}
  /\ MaxWrite \in Nat
  /\ MaxHandles \in Nat \ {0}
  /\ BrokerMayFail \in BOOLEAN
  /\ ExitModes \subseteq {"return", "kill"}
  /\ Random \notin Keys
  /\ Truncated \notin Keys
  /\ Truncated # Random

VARIABLES requests,   \* the channel: keys sent and not yet received
          handles,    \* OskDeadman instances alive (senders of the channel)
          worker,     \* where the DeadmanWorker thread is
          job,        \* what the broker call in progress writes
          site,       \* which of the broker calls of event_loop that is
          timer,      \* ticks until next_erase
          busy,       \* ticks the broker call in progress has taken
          osk,        \* content of the slot
          age,        \* ticks osk has been in the slot of this process,
                      \* 0 when it is not a key
          process     \* "up" | "down"

vars == <<requests, handles, worker, job, site, timer, busy, osk, age, process>>

NotAKey == {Random, Truncated}

InCall == worker \in {"calling", "returning"}

\* The receiver of the channel is dropped with the worker.
ReceiverGone == worker \in {"done", "panicked"}

-----------------------------------------------------------------------------
(* The slot holds whatever an earlier process, or the operator, left.      *)

Init == /\ requests = <<>>
        /\ handles = 1
        /\ worker = "starting"
        /\ job = Random
        /\ site = "start"
        /\ timer = 0
        /\ busy = 0
        /\ osk \in Keys \cup NotAKey
        /\ age = 0
        /\ process = "up"

-----------------------------------------------------------------------------
(* The holders of OskDeadman handles.                                      *)

\* Keys are derived from fresh QKD keys and nonces: a new one differs from
\* every key still in the channel, in the worker's hands or in the slot.
FreshKey(k) == /\ k # osk
               /\ k # job
               /\ \A i \in DOMAIN requests : requests[i] # k

\* Faulty variant: an unbounded channel.
SetOskUnbounded(k) ==
  /\ process = "up"
  /\ handles > 0
  /\ ~ReceiverGone
  /\ FreshKey(k)
  /\ requests' = Append(requests, k)
  /\ UNCHANGED <<handles, worker, job, site, timer, busy, osk, age, process>>

\* OskDeadman::set_osk_impl; send().await waits while the channel is full.
SetOsk(k) == /\ process = "up"
             /\ handles > 0
             /\ ~ReceiverGone
             /\ Len(requests) < ChannelCapacity
             /\ FreshKey(k)
             /\ requests' = Append(requests, k)
             /\ UNCHANGED <<handles, worker, job, site, timer, busy, osk, age,
                            process>>

\* #[derive(Clone)]: one more sender on the same channel.
CloneHandle == /\ process = "up"
               /\ handles \in 1 .. (MaxHandles - 1)
               /\ handles' = handles + 1
               /\ UNCHANGED <<requests, worker, job, site, timer, busy, osk,
                              age, process>>

DropHandle == /\ process = "up"
              /\ handles > 0
              /\ handles' = handles - 1
              /\ UNCHANGED <<requests, worker, job, site, timer, busy, osk,
                             age, process>>

-----------------------------------------------------------------------------
(* The worker thread.                                                      *)

\* Enter self.broker.set_osk(content) at one of its four places in event_loop:
\* "start" before the loop, "request", "closed" and "timeout" in the match.
CallBroker(content, where) ==
  /\ worker' = "calling"
  /\ job' = content
  /\ site' = where
  /\ busy' = 0

\* event_loop begins with an erase, before any request is received.
WorkerStart ==
  /\ process = "up"
  /\ worker = "starting"
  /\ CallBroker(Random, "start")
  /\ UNCHANGED <<requests, handles, timer, osk, age, process>>

\* The broker changes the slot (netlink request applied, file written).
BrokerEffect ==
  /\ process = "up"
  /\ worker = "calling"
  /\ osk' = job
  /\ age' = 0
  /\ worker' = "returning"
  /\ UNCHANGED <<requests, handles, job, site, timer, busy, process>>

\* Faulty variant: a request does not move next_erase.
BrokerReturnKeepsDeadline ==
  /\ process = "up"
  /\ worker = "returning"
  /\ \/ /\ site = "closed"
        /\ worker' = "done"
        /\ requests' = <<>>
        /\ UNCHANGED timer
     \/ /\ site # "closed"
        /\ worker' = "waiting"
        /\ timer' = IF site = "request" THEN timer ELSE EraseAfter
        /\ UNCHANGED requests
  /\ job' = Random
  /\ busy' = 0
  /\ UNCHANGED <<handles, site, osk, age, process>>

\* The call returns Ok: leave the thread, or compute the next next_erase and
\* wait again.
BrokerReturn ==
  /\ process = "up"
  /\ worker = "returning"
  /\ \/ /\ site = "closed"
        /\ worker' = "done"
        /\ requests' = <<>>
        /\ UNCHANGED timer
     \/ /\ site # "closed"
        /\ worker' = "waiting"
        /\ timer' = EraseAfter
        /\ UNCHANGED requests
  /\ job' = Random
  /\ busy' = 0
  /\ UNCHANGED <<handles, site, osk, age, process>>

\* Faulty variant: an error of the broker is logged and otherwise ignored.
WorkerPanicIgnored ==
  /\ BrokerMayFail
  /\ process = "up"
  /\ InCall
  /\ worker' = "waiting"
  /\ timer' = EraseAfter
  /\ job' = Random
  /\ busy' = 0
  /\ UNCHANGED <<requests, handles, site, osk, age, process>>

\* Cut short, a write leaves the slot as it was or, in an outfile, which
\* File::create has truncated before write_all, an empty file.
CutShort == \/ UNCHANGED <<osk, age>>
            \/ worker = "calling" /\ osk' = Truncated /\ age' = 0

\* The worker cannot build its runtime, or the broker fails, before or after its
\* effect: an Err is turned into a panic of the thread, and the outfile handler
\* panics by itself.
WorkerPanic ==
  /\ BrokerMayFail
  /\ process = "up"
  /\ InCall \/ worker = "starting"
  /\ worker' = "panicked"
  /\ requests' = <<>>
  /\ job' = Random
  /\ busy' = 0
  /\ CutShort
  /\ UNCHANGED <<handles, site, timer, process>>

\* timeout_at polls the channel first: a queued request wins over an expired
\* deadline and over a closed channel.
RecvRequest ==
  /\ process = "up"
  /\ worker = "waiting"
  /\ requests # <<>>
  /\ requests' = Tail(requests)
  /\ CallBroker(Head(requests), "request")
  /\ UNCHANGED <<handles, timer, osk, age, process>>

\* Faulty variant: the worker returns without the final erase.
RecvClosedWithoutErase ==
  /\ process = "up"
  /\ worker = "waiting"
  /\ requests = <<>>
  /\ handles = 0
  /\ worker' = "done"
  /\ UNCHANGED <<requests, handles, job, site, timer, busy, osk, age, process>>

\* Faulty variant: the worker shuts down before it has drained the channel.
RecvClosedUndrained ==
  /\ process = "up"
  /\ worker = "waiting"
  /\ handles = 0
  /\ CallBroker(Random, "closed")
  /\ UNCHANGED <<requests, handles, timer, osk, age, process>>

\* recv() yields None: all handles dropped and the channel drained.
RecvClosed ==
  /\ process = "up"
  /\ worker = "waiting"
  /\ requests = <<>>
  /\ handles = 0
  /\ CallBroker(Random, "closed")
  /\ UNCHANGED <<requests, handles, timer, osk, age, process>>

\* Faulty variant: the timeout only starts the next wait.
EraseTimeoutWaitsAgain ==
  /\ process = "up"
  /\ worker = "waiting"
  /\ requests = <<>>
  /\ handles > 0
  /\ timer = 0
  /\ timer' = EraseAfter
  /\ UNCHANGED <<requests, handles, worker, job, site, busy, osk, age, process>>

\* next_erase has passed without a request.
EraseTimeout ==
  /\ process = "up"
  /\ worker = "waiting"
  /\ requests = <<>>
  /\ handles > 0
  /\ timer = 0
  /\ CallBroker(Random, "timeout")
  /\ UNCHANGED <<requests, handles, timer, osk, age, process>>

WorkerStep == \/ WorkerStart
              \/ BrokerEffect
              \/ BrokerReturn
              \/ RecvRequest
              \/ RecvClosed
              \/ EraseTimeout

-----------------------------------------------------------------------------
(* Time and the life of the process.                                       *)

\* The age counter stops one above what the lifetime property allows.
Lifetime == EraseAfter + 2 * MaxWrite
AgeCap == Lifetime + 1

\* The worker is blocked in timeout_at, with nothing to receive.
Blocked == /\ worker = "waiting"
           /\ requests = <<>>
           /\ handles > 0
           /\ timer > 0

Tick ==
  /\ process = "up"
  /\ \/ /\ InCall
        /\ busy < MaxWrite
        /\ busy' = busy + 1
        /\ UNCHANGED timer
     \/ /\ Blocked
        /\ timer' = timer - 1
        /\ UNCHANGED busy
     \/ /\ ReceiverGone
        /\ UNCHANGED <<timer, busy>>
  /\ age' = IF osk \notin Keys THEN 0
            ELSE IF age < AgeCap THEN age + 1 ELSE age
  /\ UNCHANGED <<requests, handles, worker, job, site, osk, process>>

\* main returned after the handles were dropped (the thread is detached and
\* not joined), or the process was killed: the worker ends wherever it is.
ProcessExit ==
  /\ process = "up"
  /\ \/ "return" \in ExitModes /\ handles = 0
     \/ "kill" \in ExitModes
  /\ process' = "down"
  /\ CutShort
  /\ UNCHANGED <<requests, handles, worker, job, site, timer, busy>>

\* The daemon is started again; the slot outlives the process.
ProcessStart ==
  /\ process = "down"
  /\ process' = "up"
  /\ requests' = <<>>
  /\ handles' = 1
  /\ worker' = "starting"
  /\ job' = Random
  /\ site' = "start"
  /\ timer' = 0
  /\ busy' = 0
  /\ age' = 0
  /\ UNCHANGED osk

-----------------------------------------------------------------------------
Next == \/ \E k \in Keys : SetOsk(k)
        \/ CloneHandle
        \/ DropHandle
        \/ WorkerStart
        \/ BrokerEffect
        \/ BrokerReturn
        \/ WorkerPanic
        \/ RecvRequest
        \/ RecvClosed
        \/ EraseTimeout
        \/ Tick
        \/ ProcessExit
        \/ ProcessStart

Spec == Init /\ [][Next]_vars

\* The operating system runs the worker thread, and time passes.  Nothing is
\* assumed of the senders, of the broker's failures or of the process's end.
FairSpec == Spec /\ WF_vars(WorkerStep) /\ WF_vars(Tick)

-----------------------------------------------------------------------------
(* Properties.                                                             *)

\* Every variable has its type; the channel never holds more than its capacity
\* (deadman.rs:72).
TypeOK ==
  /\ requests \in Seq(Keys) /\ Len(requests) <= ChannelCapacity
  /\ handles \in 0 .. MaxHandles
  /\ worker \in {"starting", "calling", "returning", "waiting", "done",
                 "panicked"}
  /\ job \in Keys \cup {Random}
  /\ site \in {"start", "request", "closed", "timeout"}
  /\ timer \in 0 .. EraseAfter
  /\ busy \in 0 .. MaxWrite
  /\ osk \in Keys \cup NotAKey
  /\ age \in 0 .. AgeCap
  /\ process \in {"up", "down"}

\* Somebody looks after the slot: the process is up and its worker has not
\* panicked.
Guarded == process = "up" /\ worker # "panicked"

\* No key, negotiated by this process or left over by an earlier one, stays in
\* the slot for more than EraseAfter plus the time of two broker calls while
\* the worker lives: every way through event_loop ends in a write within that
\* time (deadman.rs:97-121).
BoundedLifetime == Guarded => age <= Lifetime

\* When the worker has left event_loop the slot holds a random key, whatever
\* was still queued when the last handle went away (deadman.rs:110-114).
ShutdownErases == worker = "done" => osk = Random

\* Apart from start-up and shutdown, a key is only ever erased once it has been
\* in the slot for erase_after: every request restarts the deadline
\* (deadman.rs:101-104).
KeptUntilDue ==
  [][(osk \in Keys /\ osk' = Random)
        => (site \in {"start", "closed"} \/ age >= EraseAfter)]_vars

\* The worker, across failures and restarts, implements the abstract slot: a key
\* is in it only because it was just installed, and time passes while the slot
\* is guarded only if no key in it is past its lifetime (deadman.rs:97-121).
Slot == INSTANCE ExpiringSlot WITH up <- Guarded,
                                   age <- (IF Guarded THEN age ELSE 0)
ImplementsExpiringSlot == Slot!Spec

\* "automatically erases output keys" (deadman.rs:14): no key stays in the slot
\* for ever.
EveryKeyErased == \A k \in Keys : (osk = k) ~> (osk # k)

\* A key that is in the slot is replaced or erased in the end, unless the worker
\* panics or the process ends first: no way through event_loop waits for ever, and
\* a worker that has taken over a key of an earlier process erases it
\* (deadman.rs:97-121).
GuardedKeyErased ==
  \A k \in Keys : (osk = k /\ Guarded) ~> (osk # k \/ ~Guarded)

\* A key that was sent is written, also when the last handle is dropped while it
\* is still in the channel, unless the worker panics or the process ends first
\* (deadman.rs:104-109).
RequestWritten ==
  \A k \in Keys :
    (\E i \in DOMAIN requests : requests[i] = k) ~> (osk = k \/ ~Guarded)

\* "Once all [OskDeadman] instances have been dropped, the worker thread will
\* automatically be closed and the OSK will be erased." (deadman.rs:23-24)
LastDropErases == (handles = 0) ~> (osk \in NotAKey)

=============================================================================
