----------------------------- MODULE RekeyTiming -----------------------------
(***************************************************************************)
(* Rekeying in time: the server negotiates a key, sleeps for its own       *)
(* interval_secs and negotiates the next one (crypto/server.rs), a client   *)
(* that loses its connection tries again after two seconds                 *)
(* (net/tcp_client.rs), and the dead man's switch of each end erases a key  *)
(* that is not replaced within that end's own interval_secs and thirty     *)
(* seconds (setup.rs, osk/deadman.rs).                                     *)
(*                                                                         *)
(* Time is discrete.  A key is in use from when the worker has it in its    *)
(* channel.  A switch erases it neither before EraseAfter nor later than    *)
(* its wait in the channel and two broker calls after that, which           *)
(* OskDeadmanProofs proves of the worker from the moment it takes the key.  *)
(* A negotiation has two parts, before and after the client's               *)
(* acknowledgement, either of which takes bounded time unless somebody     *)
(* hangs: neither the reads of the two protocols nor the requests to the    *)
(* QKD device have a time-out.                                             *)
(*                                                                         *)
(* A client that has lost its connection does not take back what it has     *)
(* acknowledged there: the server's task of that connection may have the    *)
(* acknowledgement and puts the key in use when the client is on its next   *)
(* connection already.                                                     *)
(*                                                                         *)
(* Which keys are negotiated and on which connection is the subject of      *)
(* KeyExchange.                                                            *)
(***************************************************************************)
EXTENDS Integers, Sequences

CONSTANTS None,
          Intervals,    \* values of interval_secs
          Margin,       \* the thirty seconds that start_deadman adds
          RetryDelay,   \* the two seconds before the client tries again
          MaxPrepare,   \* bound: ticks from the beginning of a negotiation, or
                        \* of a connection, to the client's acknowledgement
          MaxConfirm,   \* bound: ticks from there until the server has the key
          MaxWait,      \* bound: ticks a key may wait in the worker's channel
          MaxWrite,     \* bound: ticks one broker call may take
          MaxBreaks     \* bound: broken connections between two keys of an end,
                        \* and between two moments at which both have the same

ASSUME TimingAssumption ==
  /\ None \notin Nat
  /\ Intervals \subseteq Nat
  /\ Margin \in Nat
  /\ RetryDelay \in Nat
  /\ MaxPrepare \in Nat
  /\ MaxConfirm \in Nat
  /\ MaxWait \in Nat
  /\ MaxWrite \in Nat
  /\ MaxBreaks \in Nat

VARIABLES interval,  \* per end: interval_secs of its configuration
          stage,     \* where the client's present connection is
          elapsed,   \* ticks the stage has lasted
          frozen,    \* somebody hangs: the stage does not go on
          late,      \* what the client acknowledged last on lost connections, and
                     \* the server has got nothing newer than: how many ticks ago,
                     \* None if the acknowledgement was lost, oldest first
          since,     \* per end: ticks since the worker got the key in use, None
                     \* when there is none or it is erased
          same,      \* the two ends were last given the same key
          apart,     \* ticks since they were not, while both use a key
          breaks,    \* broken connections since each end's last key, and since
                     \* the two ends were last given the same
          hung       \* somebody has hung since each end's last key, and since
                     \* the two ends were last given the same

vars == <<interval, stage, elapsed, frozen, late, since, same, apart, breaks, hung>>

End == {"server", "client"}

\* What breaks and hung are counted for; "split" while the ends have different keys.
Count == End \cup {"split"}
Counting(x) == x = "split" => ~same

\* start_deadman.
EraseAfter(e) == interval[e] + Margin
Lifetime(e) == EraseAfter(e) + MaxWait + 2 * MaxWrite

BothInUse == \A e \in End : since[e] # None

Older(age) == IF age = None THEN None ELSE age + 1

-----------------------------------------------------------------------------
\* Both daemons are up and have erased what they found; a first connection is made.
Init == /\ interval \in [End -> Intervals]
        /\ stage = "prepare"
        /\ elapsed = 0
        /\ frozen = FALSE
        /\ late = <<>>
        /\ since = [e \in End |-> None]
        /\ same = TRUE
        /\ apart = 0
        /\ breaks = [x \in Count |-> 0]
        /\ hung = [x \in Count |-> FALSE]

\* Faulty variant: the time of the stage before counts.
EnterLate(next) == /\ stage' = next
                   /\ elapsed' = elapsed

Enter(next) == /\ stage' = next
               /\ elapsed' = 0

\* End e gives a new key to its worker; agreed tells whether the other end has it.
Renew(e, agreed) ==
  /\ since' = [since EXCEPT ![e] = 0]
  /\ same' = agreed
  /\ apart' = IF agreed THEN 0 ELSE apart
  /\ breaks' = [x \in Count |-> IF x = e \/ (x = "split" /\ agreed) THEN 0
                                ELSE breaks[x]]
  /\ hung' = [x \in Count |-> IF x = e THEN frozen
                              ELSE hung[x] /\ ~(x = "split" /\ agreed)]

\* The client acknowledges a key and puts it in use.
Acknowledge == /\ stage = "prepare"
               /\ ~frozen
               /\ Enter("confirm")
               /\ Renew("client", FALSE)
               /\ UNCHANGED <<interval, frozen, late>>

\* The server has the acknowledgement and puts the key in use; what is under way on
\* older connections is dropped.
Confirm == /\ stage = "confirm"
           /\ ~frozen
           /\ Enter("sleep")
           /\ Renew("server", TRUE)
           /\ late' = <<>>
           /\ UNCHANGED <<interval, frozen>>

\* Faulty variant: the manager keeps what is older than the key it forwards.
LateConfirmKeepsOlder(i) ==
  /\ late[i] # None
  /\ Renew("server", i = Len(late) /\ stage # "confirm")
  /\ UNCHANGED <<interval, stage, elapsed, frozen, late>>

\* The server's task of a connection that the client has lost has the
\* acknowledgement after all: the key is put in use, and what is older is dropped.
LateConfirm(i) ==
  /\ late[i] # None
  /\ Renew("server", i = Len(late) /\ stage # "confirm")
  /\ late' = SubSeq(late, i + 1, Len(late))
  /\ UNCHANGED <<interval, stage, elapsed, frozen>>

\* sleep(rekey_interval) is over.
Wake == /\ stage = "sleep"
        /\ elapsed = interval["server"]
        /\ Enter("prepare")
        /\ UNCHANGED <<interval, frozen, late, since, same, apart, breaks, hung>>

Break == /\ \A x \in Count : breaks[x] < MaxBreaks
         /\ breaks' = [x \in Count |-> IF Counting(x) THEN breaks[x] + 1 ELSE breaks[x]]

\* A connection breaks, or an error is reported on one that hangs, and the client is
\* told.  An acknowledgement that is under way reaches the server or is lost.
Reset == /\ stage # "down"
         /\ Break
         /\ Enter("down")
         /\ frozen' = FALSE
         /\ late' \in IF stage = "confirm" THEN {Append(late, elapsed), Append(late, None)}
                      ELSE {late}
         /\ UNCHANGED <<interval, since, same, apart, hung>>

\* Faulty variant: the client goes on sleeping.
ReconnectNever == /\ stage = "down"
                  /\ elapsed = RetryDelay
                  /\ Enter("down")
                  /\ UNCHANGED <<interval, frozen, late, since, same, apart, breaks, hung>>

\* The client is back; the server negotiates at once on the new connection.
Reconnect == /\ stage = "down"
             /\ elapsed = RetryDelay
             /\ Enter("prepare")
             /\ UNCHANGED <<interval, frozen, late, since, same, apart, breaks, hung>>

\* The connection dies silently, or the QKD device does not answer: nobody notices.
Hang == /\ stage \in {"prepare", "confirm"}
        /\ ~frozen
        /\ frozen' = TRUE
        /\ hung' = [x \in Count |-> hung[x] \/ Counting(x)]
        /\ UNCHANGED <<interval, stage, elapsed, late, since, same, apart, breaks>>

\* The path is back or the device answers after all.
Resume == /\ frozen
          /\ frozen' = FALSE
          /\ UNCHANGED <<interval, stage, elapsed, late, since, same, apart, breaks, hung>>

\* Faulty variant: the deadline is the interval itself.
EraseWithoutMargin(e) ==
  /\ since[e] # None
  /\ since[e] >= interval[e]
  /\ since' = [since EXCEPT ![e] = None]
  /\ apart' = 0
  /\ UNCHANGED <<interval, stage, elapsed, frozen, late, same, breaks, hung>>

\* Faulty variant: the worker waits once more instead.
EraseWaitsAgain(e) ==
  /\ since[e] # None
  /\ since[e] >= EraseAfter(e)
  /\ since' = [since EXCEPT ![e] = 0]
  /\ UNCHANGED <<interval, stage, elapsed, frozen, late, same, apart, breaks, hung>>

\* The worker erases a key that is past its deadline.
Erase(e) == /\ since[e] # None
            /\ since[e] >= EraseAfter(e)
            /\ since' = [since EXCEPT ![e] = None]
            /\ apart' = 0
            /\ UNCHANGED <<interval, stage, elapsed, frozen, late, same, breaks, hung>>

\* How long a stage may last.
Limit == CASE stage = "prepare" -> MaxPrepare
           [] stage = "confirm" -> MaxConfirm
           [] stage = "sleep" -> interval["server"]
           [] stage = "down" -> RetryDelay

\* Neither the stage nor an acknowledgement under way takes longer than it may,
\* unless somebody hangs.
Tick == /\ \/ frozen
           \/ /\ elapsed < Limit
              /\ \A i \in DOMAIN late : late[i] # None => late[i] < MaxConfirm
        /\ \A e \in End : since[e] # None => since[e] < Lifetime(e)
        /\ elapsed' = IF frozen THEN elapsed ELSE elapsed + 1
        /\ late' = IF frozen THEN late ELSE [i \in DOMAIN late |-> Older(late[i])]
        /\ since' = [e \in End |-> Older(since[e])]
        /\ apart' = IF BothInUse /\ ~same THEN apart + 1 ELSE 0
        /\ UNCHANGED <<interval, stage, frozen, same, breaks, hung>>

-----------------------------------------------------------------------------
Negotiate == \/ Acknowledge
             \/ Confirm
             \/ \E i \in DOMAIN late : LateConfirm(i)
             \/ Wake
             \/ Reconnect

Next == \/ Negotiate
        \/ Reset
        \/ Hang
        \/ Resume
        \/ \E e \in End : Erase(e)
        \/ Tick

Spec == Init /\ [][Next]_vars

\* The daemons are scheduled and time passes; nothing breaks or hangs because it
\* must, and what hangs need not be noticed.
FairSpec == /\ Spec
            /\ WF_vars(Negotiate)
            /\ \A e \in End : WF_vars(Erase(e))
            /\ WF_vars(Tick)

-----------------------------------------------------------------------------
(* Properties.                                                             *)

\* Every variable has its type; no stage and no key outlives its bound
\* (crypto/server.rs:44-50, tcp_client.rs:57).
TypeOK ==
  /\ interval \in [End -> Intervals]
  /\ stage \in {"prepare", "confirm", "sleep", "down"}
  /\ elapsed \in 0 .. Limit
  /\ frozen \in BOOLEAN
  /\ late \in Seq(0 .. MaxConfirm \cup {None})
  /\ since \in [End -> Nat \cup {None}]
  /\ \A e \in End : since[e] # None => since[e] <= Lifetime(e)
  /\ same \in BOOLEAN
  /\ apart \in Nat
  /\ breaks \in [Count -> 0 .. MaxBreaks]
  /\ hung \in [Count -> BOOLEAN]

LongerOf(m, n) == IF m < n THEN n ELSE m

\* The longest that an end can be without a new key when the connection has broken
\* n times since its last one.  The server got that key before it slept, or late,
\* when the client was about to try again.  The client's key is as old as the
\* server's when the next one comes, but it has to wait for one confirmation only.
Gap(e, n) ==
  IF e = "server"
  THEN LongerOf(interval["server"], RetryDelay)
         + (n + 1) * (MaxPrepare + MaxConfirm) + n * RetryDelay
  ELSE interval["server"] + MaxConfirm + (n + 1) * MaxPrepare + n * RetryDelay

\* As long as nobody hangs, a switch erases a key only if the server's interval,
\* the negotiation and the reconnections since that key add up to that end's own
\* interval and the margin: a client with too short an interval loses good keys,
\* one with the server's interval does not (setup.rs:66, 153-158,
\* crypto/server.rs:44-50, tcp_client.rs:44-59).
KeptWhileRekeying ==
  [][\A e \in End :
       since[e] # None /\ since'[e] = None
         => hung[e] \/ Gap(e, breaks[e]) >= EraseAfter(e)]_vars

\* The two ends do not use different keys for longer than the reconnections take,
\* since they last had the same key, that it needs until the server has the
\* client's key; and if somebody hangs, for no longer than the server's switch
\* allows for the key it had and for each that it got late, on a connection the
\* client had lost (deadman.rs:97-121, crypto/client.rs:63-70, crypto/server.rs:67-75).
SplitBounded ==
  BothInUse /\ ~same =>
    LET n == breaks["split"]
    IN  /\ apart <= (n + 1) * Lifetime("server")
        /\ \/ hung["split"]
           \/ apart <= (n + 1) * MaxConfirm + n * (RetryDelay + MaxPrepare)

\* The server gets key after key, through breaks and erasures, unless somebody hangs
\* for ever or again and again (crypto/server.rs:44-50, tcp_client.rs:44-59).
KeysRotate == []<>(since["server"] = 0 \/ frozen)

\* When the negotiations hang, both ends come to have no key in use, unless it is
\* noticed before or they go on (deadman.rs:115-118).
SilenceErases ==
  frozen ~> (~frozen \/ \A e \in End : since[e] = None)

=============================================================================
