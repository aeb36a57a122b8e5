# A TLA+ model of daisyway

Daisyway is a daemon that runs on both ends of a WireGuard tunnel. Every two
minutes the two ends agree on a new symmetric key, derived from a key that a
pair of QKD devices (ETSI GS QKD 014) delivers to both, and install it as the
preshared key of the tunnel, or write it to a file. When no new key arrives in
time, the old one is erased.

This directory holds TLA+ modules for the parts of the daemon that carry its
logic, TLC configurations that check them on small instances, and TLAPS proofs
of the most important safety properties for every instance. Paths below are
relative to `src/daisyway/src/internal/` unless they start with `src/`.

## The system

| Component | State | Operations | Hard behaviour |
|---|---|---|---|
| Dead man's switch, `osk/deadman.rs` | channel of requests, deadline, worker thread | `set_osk`, clone and drop of handles, `event_loop` | deadline against requests, shutdown with a non-empty channel, panic, end of the process |
| Brokers, `osk/wireguard.rs`, `osk/outfile.rs` | the slot: PSK of the peer, content of the file | `set_osk` | takes time, fails before or after its effect, truncates first |
| Connection manager, `daisyway/net/tcp_server/connection_manager.rs` | active connection, budding connections, next id, notification channel | `on_accept`, `on_exit`, `on_osk` and its three cases | events of several tasks in any order, limits, aborts |
| Connection tasks, `fanout_connection_handler.rs`, `fanout_osk_handler.rs`, `abort_on_drop_handle.rs`, `daisyway/crypto/server.rs` | stage of the negotiation | fetch, write, read, notify, sleep, exit | cancellation, panics, waiting for a full channel |
| Client, `daisyway/net/tcp_client.rs`, `daisyway/crypto/client.rs` | connection, stage of the negotiation | connect, read, fetch, acknowledge, install, retry | losing the connection at any await |
| Key derivation, `daisyway/crypto/basics.rs`, `hash_domain.rs` | none | `derive_daisyway_key` | both ends must hash the same bytes |
| ETSI 014 client, `etsi014.rs` | TLS configuration, made once | `configure_rustls`, certificate verifier, `fetch_any_key`, `fetch_specific_key`, decoding | malformed answers: errors and panics; a verifier that overlooks one kind of error; requests without a time-out |
| QKD simulator, `src/simulator/src/main.rs` | a counter, TLS configuration | start, `enc_keys`, `dec_keys` | restart of the counter; which options switch client authentication on |
| Set-up, `daisyway/setup.rs`, `daisyway/net/tcp_participant.rs`, `util.rs` | none; builds the state of the others | reading and decoding of keys, choice of handler and role, start of the worker | short, long and partly read key files, both or no key handler, overflow of the deadline |
| Command line, `src/daisyway/src/main.rs` | none | the `exchange` command; manual pages, completion, logging | none |

How they interact. `Daisyway::from_config` starts one dead man's switch and
gives handles of it to a client or a server. The server's connection manager
selects between new connections and a channel (16 places) of notifications from
the tasks it has spawned; on a notification with a key it calls `set_osk` on its
handle, which puts the key into the worker's channel (8 places). The client does
the same directly. Nothing but these keys connects a daemon's rekeying with its
switch: the server sleeps for its `interval_secs` between keys, and each end's
switch erases after that end's own `interval_secs` and thirty seconds. Client and
server speak over TCP: a `RekeyReq` (id of the QKD key, nonce) from the server, a one-byte `RekeyAck` from the client.

What makes each part correct:

* the switch: no key stays in use past its deadline, none is erased early, and a
  shutdown leaves none behind;
* the manager: keys reach the worker in order and none is lost without a reason,
  the number of connections is bounded, no task escapes its control, and nobody
  waits for ever;
* the protocol: the server never uses a key that the client does not have, and
  after any faults both ends come to use the same key; keys that are renewed in
  time are not erased, and the two ends do not use different keys for long;
* the derivation: same tunnel, same key; new negotiation, new key;
* the set-up: a daemon that runs has whole keys, a guarded slot and a deadline
  after the next key, and gets keys from the device it was told to trust.

## Modules

| Module | Contents |
|---|---|
| `ExpiringSlot` | abstract specification: a slot in which no key outlives its lifetime while somebody looks after it |
| `OskDeadman` | the dead man's switch and its broker; implements `ExpiringSlot` |
| `OskDeadmanProofs` | theorems about `OskDeadman` |
| `ConnectionManager` | manager, connection tasks, notification channel, worker's channel |
| `ConnectionManagerProofs` | theorems about `ConnectionManager` |
| `KeyHandover` | abstract specification: the client commits to keys in order, and each end goes from committed key to newer committed key |
| `KeyExchange` | `ConnectionManager` composed with a client and the TCP connections; implements `KeyHandover` |
| `KeyExchangeProofs` | theorems about `KeyExchange`, from those about `ConnectionManager` |
| `RekeyTiming` | rekeying, reconnecting and the two switches in time |
| `RekeyTimingProofs` | theorems about `RekeyTiming` |
| `KeyAgreement` | what the two ends feed to the key derivation, and where it comes from |
| `KeyAgreementProofs` | theorems about `KeyAgreement` |
| `EtsiAccess` | operators: TLS between daemon and QKD device |
| `Startup` | a daemon from its command line to its event loop, and its first requests to the device; uses `EtsiAccess` |
| `StartupProofs` | theorems about `Startup` |
| `MC...` | one module per specification, extended by the `.cfg` files for TLC |

Definitions whose comment begins with "Faulty variant" are not part of any
specification. Each is a plausible bug in the definition below it; with it in
place of that definition, TLC finds the property violated that `PROJECT.json`
names. They show that the properties can fail.

### OskDeadman

`requests` is the channel, `handles` counts the `OskDeadman` values (senders),
`worker` is the place of the worker thread: `starting`, `calling` and `returning`
(inside a broker call, before and after its effect), `waiting` (in
`timeout_at(recv)`), `done`, `panicked`. `site` says which of the four broker
calls of `event_loop` is meant, `job` what it writes. `osk` is the slot; it
outlives the process, whose end and restart are `ProcessExit` and `ProcessStart`.

Time is a `Tick` action. It is enabled only when the worker is inside a broker
call, blocked in `timeout_at`, or gone; so the worker reacts at once when it is
woken, and a broker call takes at most `MaxWrite` ticks. `timer` counts down to
`next_erase`. `age` is how long the present key has been in the slot under the
present process. `timeout_at` polls the channel first, so that a queued request
wins over an expired deadline and over a closed channel.

Keys are told apart only by identity. A key that is sent is assumed not to be in
the slot, in the worker's hands or in the channel already, which `KeyAgreement`
shows for derived keys.

### ConnectionManager

The manager is one sequential process: `select` at its `select!`, `forwarding`
while it awaits `set_osk`, `failed` once `event_loop` has returned an error. A
handler runs without interruption up to its await, so it is one action;
`on_osk_from_budding` is `OnOskFromBudding` followed by `ForwardDone` or
`ForwardError`. The handles it drops only when it returns are kept in `removed`
until then.

A task (`task[c]`) goes through `fetch`, `write`, `ack`, `notify`, `sleep` and
round again, and leaves through `exit` to `ended`. Each await may fail; decoding
the QKD device's answer may panic, in which case no exit event is sent. Dropping
an `AbortOnDropHandle` puts the task into `cancelled`; it may take further steps
until `TaskReaped`, since an abort takes effect only at an await.

A key is the pair of connection and round that negotiated it. `pruned`,
`promoted` and `forwarded` are history variables for the properties.

### KeyExchange

Extends `ConnectionManager` and conjoins to each of its actions what it does to
the wire (`ServerAccept`, `ServerWrite(c)` and so on); its own specification is
`ExchangeSpec`. It extends the server and does not instantiate it so that the
proofs about the composition can cite the theorems about the server, which tlapm
does not offer through `INSTANCE`. The client is `connect`, `read`, `fetch`, `ack`,
`install`, `sleep` (two seconds after an error) or `panicked`. The client's n-th
connection is the server's connection n. Faults are counted and bounded; failures
that nothing recovers from (panic of a worker or of the client, failure of the
listener) can be switched off.

When one end closes a connection, the other learns of it. Besides, a connection
may die silently (`PathDies`): what was on the way arrives or is lost, and neither
end learns anything more. `unanswered` holds the ends that have sent something
into a dead connection; TCP retransmits and reports an error to those. An end
that only reads is told nothing, and neither protocol has a time-out: the server
comes to write a request, the client may wait for ever (`ClientStranded`).

### RekeyTiming

One pair of daemons, seen as the stages of the client's present connection:
`prepare` (from the beginning of a negotiation to the client's acknowledgement),
`confirm` (until the server has the key), `sleep` and `down` (the client's two
seconds). A stage lasts at most its limit, or as long as it likes while somebody
hangs (`frozen`). The two ends' intervals are chosen independently in the initial
state.

A connection that breaks in `confirm` leaves an acknowledgement behind: it is lost,
or the server's task of that connection reads it and puts the key in use
(`LateConfirm`), maybe after the client has acknowledged another key on its next
connection. `late` holds these acknowledgements in the order of their connections;
a key of a newer connection drops what is older, as the manager does.

`since[e]` is how long ago end `e` gave its key to its worker; `Erase(e)` is what
`OskDeadman` does to it: not before the deadline, and not later than `MaxWait` and
two broker calls after it. `OskDeadmanProofs` proves the part with the two calls, from
the moment the worker takes the key; `MaxWait` is the time before that, in which the
worker may be inside another call. `same` and `apart` follow whether both ends use
the same key. `breaks` and `hung` count what went wrong since each end's last
key, and, as `"split"`, since the two ends last had the same.

### EtsiAccess and Startup

`EtsiAccess` translates the TLS options of the `etsi014` section into a client
configuration, the certificate verifier's decision into the cases of `rustls` it
looks at, and the simulator's command line into what it serves. A certificate is
told by its issuer, whether it is for the right name and whether it is current.

`Startup` follows `ExchangeCommand::run` and `Daisyway::from_config` in the
order of the code (`stage`); every early return is a `Refuse`, and panics
are kept apart. The PSK file is read in portions of any size, as
`read_to_end_up_to` does. Texts in base64 are told by their length, which is what
decides whether `Base64::decode` succeeds and what it fills in. `rekey_interval +
30` panics or wraps, as the build has it, and the worker's `Instant::now() +
erase_after` panics when the clock has no such moment. A slot with a key that an
earlier process left is what the daemon starts with. A process that is refused or
panics ends (`Exit`) and takes the worker with it, wherever that is.

### KeyAgreement

`derive_daisyway_key` and what it calls are operators; the hash is a free
constructor. A UUID is a number of two bytes, so that `as_bytes`, `from_bytes`
and `to_bytes_le` do what they do. An answer of the QKD device has a number of
keys and a key length; `Decoded` follows `Etsi014Key::try_from` through its
checks, with its two ways to panic. A device is assumed to answer a request for a
key with that key: `fetch_specific_key` does not compare the ids. The actions follow negotiations on several
sessions, each end with parameters of its own, chosen freely in the initial
state, so that misconfigured pairs are covered too.

## What TLC checks

| Run | Instance | States | Result |
|---|---|---|---|
| `deadman` | 4 keys, deadline 4, calls of up to 2 ticks, channel 2, 2 handles, failures, returns, kills, restarts | 40 880 | holds |
| `deadman_broker` | 3 keys, deadline 2, failing brokers, process stays up | | `EveryKeyErased` violated |
| `deadman_exit` | the same, with a process that returns | | `LastDropErases` violated |
| `manager_safety` | 3 connections, 2 rounds, 2 budding places, channels 2 and 1 | 1.1 million | holds |
| `manager_live` | 2 connections, 2 rounds, 1 budding place, channels 1 and 1 | 14 706 | holds |
| `manager_exit` | as `manager_safety` | | `ExitsAreKnown` violated |
| `exchange_safety` | 2 connections, 2 rounds, 2 faults, fatal failures | 1.5 million | holds |
| `exchange_converge` | 3 connections, 1 round, 2 faults | 70 711 | holds |
| `agreement` | 2 PSKs, 2 peers on both ends, 2 sessions, 3 negotiations, 1 restart | 134 000 | holds |
| `rekey_timing` | intervals 0, 2 and 5 on either end, margin 4, confirmations of up to 2 ticks, 2 breaks between keys, hangs | 566 777 | holds |
| `startup` | every role, handler, peer id, interval and TLS option; key files of 27 kinds; every start of the simulator | 644 786 | holds |
| `startup_docs` | the same | | `OutfileIsUsed` violated |

**The switch.** `BoundedLifetime`: while the worker lives no key stays in the
slot longer than the deadline and two broker calls (the one that installed it
and the one that erases it). `ShutdownErases`, `KeptUntilDue`: a finished worker
leaves a random key, and only start-up and shutdown erase a key early.
`ImplementsExpiringSlot`: all of this as a refinement, across crashes.
`GuardedKeyErased`, `RequestWritten`: every key under a worker that stays alive is
erased or replaced in the end, and every queued request is written, also those
that are queued when the last handle is dropped.

**The manager.** `KeysInOrder`: the worker never gets an older key after a newer
one, even after the active connection has exited and every event counts as
"budding" again. `KeysAccountedFor`, `KeysDelivered`: keys are dropped only when
their connection was superseded or pruned. `NoOrphanTask`, `NoGhostConnection`:
the registry and the tasks agree. `BuddingBounded`. `NotificationsAccepted`: full
channels, a blocked manager or a dead worker leave no task waiting for ever.

**The protocol.** `ServerNeverAhead`: no key is on its way into use on the server
that the client has not acknowledged. `SettledAgree`: between negotiations both
ends use the same key. `ImplementsHandover`: across faults and fatal failures, what
each end puts in use is a key the client has acknowledged, and newer than the one
before. `Convergence`: with finitely many faults they come to use the same key again
and again, or the client waits on a connection that died silently. (In the run the
bound on rounds ends the rekeying, so there they stay with the last one.) The
exception is real: without it TLC shows the client that never reconnects.

**Time.** `KeptWhileRekeying`: as long as nobody hangs, a switch erases a key only
if the server's interval, the negotiation and the reconnections add up to the
deadline of that end. With equal intervals the thirty seconds are there for
negotiations and reconnections; a client with a shorter interval than the server
may lose good keys, which the code does not prevent. A server with an interval below
the two seconds of the retry may get a key late just before the client tries again,
which is why `Gap` takes the longer of the two. `SplitBounded`: how long the two ends
may use different keys. It counts the breaks since they last had the same key, not
since the server's last one: a key that the server gets late renews its switch and
leaves the two ends apart, since the client has moved on. With somebody hanging, each
such key may therefore add a lifetime of the server's switch. TLC finds each of the
bounds reached, and violated when it is lowered by one tick. `KeysRotate`: the server gets key after key
unless somebody hangs. `SilenceErases`: when somebody does, both switches erase.

**Start-up.** `NoSilentTruncation`: a PSK file is used whole or not at all. A file
that is too long for the buffer is cut, but what is left is never decoded: it is not
a whole number of groups of four characters, or decodes to more than a key. A
key that is too short is padded with zeros. `PanicsAreOverflow`: the start panics only for an
interval that overflows in a debug build. `RunningIsGuarded`: a running daemon
has a live switch whose deadline comes after the next key, but for intervals
near the ends of the clock and of `u64`. `OnlyTrustedDevice`: the option that
overlooks wrong names overlooks nothing else. `ClientsAuthenticated`: a simulator
that was given a CA answers only clients of that CA, with the exception that one
without a certificate of its own ignores the CA and serves plain HTTP to everybody.
`StartEnds`: every start comes to an end, in which what an earlier process has left is
erased, or the broker has failed to, or the process has ended. In the last case the
old key may stay: nothing is erased by a start that is refused, and one that fails to
bind its address may end before the worker's first erase.

**The key material.** `KeysMatch`: the two ends derive the same key exactly if
they have the same PSK and the same pair of peers. `NoKeyTwice`: no key is
derived twice, though the simulator repeats its keys after a restart.

### Four disagreements with the documentation

* `deadman_broker`: the switch "automatically erases output keys"
  (`osk/deadman.rs:14`), but one failing broker call ends the worker thread and
  leaves the key in the slot while the process runs on.
* `deadman_exit`: "Once all [OskDeadman] instances have been dropped, the worker
  thread will automatically be closed and the OSK will be erased"
  (`osk/deadman.rs:23-24`), but the thread is detached and the process may end
  first.
* `manager_exit`: an exit notification for an unknown connection "is likely a
  bug!" (`connection_manager.rs:132-134`), but it is part of normal operation:
  the task ended by itself just before it was pruned or a newer connection
  superseded it. (TLC's trace is one of pruning.)
* `startup_docs`: "If `outfile` is defined, it's used, otherwise the `wireguard`
  section is used" (`README.md:73-74`), but a configuration with both is refused
  (`daisyway/setup.rs:110-112`).

### Bounds

Channel capacities, deadlines and the limit of budding connections are small so
that they are reached: with one or two places every full-channel case occurs, a
deadline longer than two broker calls lets a key be replaced, erased and kept in
every order, and with three connections and two budding places one can be
pruned, one skipped and one promoted. Four keys suffice for the switch with a
channel of two places (one in the slot, one in the worker's hands, two queued).
`exchange_converge` needs one connection more than faults.

In `rekey_timing` the interval 0 makes the server negotiate without a pause, and 5
against 0 makes the client's deadline (4) shorter than the server's interval; breaks
between keys let the deadline of equal intervals be missed as well. A confirmation
(2 ticks) takes longer than the retry (1), so that late confirmations meet every
stage of the next connection, and two breaks leave up to two of them under way.
`startup` keeps the real numbers for keys (32 bytes, a buffer of 46 characters) and
intervals (120, 30), but `u64` ends at 1023 and the clock at 511; the intervals
are chosen around those limits. Parts of a configuration that the code never
looks at together (TLS, PSK file, the rest) are varied one at a time.

The safety properties do not depend on the bounds: they are proved for all values.

Deadlock is checked for `OskDeadman`, `RekeyTiming` and `Startup`. The other
modules end: a server whose
event loop has failed stops, and so do runs whose bounds are used up.

### Fairness

* `OskDeadman`: the worker thread is scheduled and time passes (weak fairness of
  `WorkerStep` and `Tick`). Nothing is assumed about senders, failures or the
  end of the process.
* `ConnectionManager`: the runtime polls the manager and the tasks (weak
  fairness), `select!` picks among ready branches at random, and tokio's
  channels serve waiting senders in order, hence strong fairness of a task's
  send. New connections, the peer, the QKD device and panics are left free.
* `KeyExchange`: both daemons are scheduled, TCP delivers on a live connection and
  gives up on what it cannot deliver on a dead one, the QKD device answers and
  sleeps end; faults need not happen.
* `RekeyTiming`: negotiations that do not hang go on, switches erase and time
  passes. What hangs need not be noticed.
* `Startup`: the main thread and the worker thread are scheduled, and a process
  whose `main` has returned or panicked ends; failures need not happen.

## What is proved

All proofs hold for every value of the constants that satisfies the named
assumptions (`DeadmanAssumption`, `ManagerAssumption`, `ExchangeAssumption`,
`AgreementAssumption`, `NoneIsNoKey`, `TimingAssumption`, `AccessAssumption`,
`StartupAssumption`, `ConfigAssumption`), which state only that limits are numbers,
positive where needed, that configurations and files are of their types, that
`MaxDuration` is within `u64`, and that markers such as `None` and `Malformed` are
none of the values they stand beside.

`OskDeadmanProofs`: `TypeCorrect`, `LifetimeBounded`, `ShutdownLeavesNoKey`,
`NotErasedEarly`, `DeadmanImplementsSlot`. None of the properties is inductive:
that the age of a key is bounded depends on where the worker is. The invariant
`AgeWithinDeadline` relates age, deadline and duration of the call in progress
for each place of the worker. The refinement is shown action by action: a broker's
effect is an `Install` or `Erase`, panics and exits are `Abandon`, ticks are
`Pass`, whose guard is what `AgeWithinDeadline` provides.

`ConnectionManagerProofs`: `TypeCorrect`, `BuddingLimited`,
`KeysForwardedInOrder`, `NoTaskEscapes`, `NoGhostStays`, `NoKeyLost`. The
invariant has the parts `RegistryInv` (the active connection is the last one
promoted, budding ones are newer, removed ones older), `TaskInv` (aborted tasks
are not registered and were superseded or pruned), `ExitInv` (an exit event is
the last event of its task), `SourceInv` (where queued keys come from),
`ChannelOrder` and `ForwardOrder` (rounds of one connection are queued in
order, behind what has been forwarded). The order of the keys needs all of them:
after the active connection has exited only `SourceInv` and `RegistryInv` tell
that an older key cannot be promoted again.

`KeyAgreementProofs`: `TypeCorrect`, `EndsAgree`, `KeysNeverRepeat`. The
invariant says that everyone who is at a negotiation works with the QKD key it
is about (`NegotiationInv`), that a negotiation is in one place at a time
(`TurnInv`), and that derived keys are those of the negotiation's QKD key, the
client's first (`DerivedInv`). `ConnectionIdOfPair` is the fact about sorting
that makes the two ends agree.

`RekeyTimingProofs`: `TypeCorrect`, `GoodKeysKept`, `ApartForAWhile`. The
invariant bounds the age of each end's key in every stage (`ServerAge`,
`ClientAge`) as a sum of the interval, one `Detour` for every break since that end's
last key, and the time in the present stage. The bounds of the two ends differ
because the client's count of breaks begins anew at its acknowledgement, the server's
only when it has read it. `ApartInv` bounds the time the two ends have been apart in
two ways: `ApartByStages`, while nobody hangs, by the stages and breaks since they
last had the same key, and `ApartByKeys`, whatever hangs, by the age of the server's
key and a lifetime for every break that is not an acknowledgement still under way.
The second is what a late confirmation preserves: it makes the age zero and takes at
least one acknowledgement out of `late`, which pays for the lifetime of the key it
replaces. That needs `StageInv`: every late acknowledgement has cost a connection
since the ends last agreed. `LateTaken`, `LateAdded` and `LateTicks` are the facts
about the sequence, `OneMore`, `Multiple` and `MoreIsMore` those about products.

`KeyExchangeProofs`: `ExchangeTypeCorrect`, `ServerStaysBehind`,
`SettledEndsAgree`, `ExchangeImplementsHandover`, `ExchangeImplementsServer`.
Every step of the composition is a step of the server or leaves it alone
(`ServerStep`), so that the server's invariant `IInv` and its theorems carry over;
`XInv` adds what the two ends know of each other:

* `ConnectedInv`: the server accepts only connections the client has made;
* `WireInv`, `RoundInv`, `ClientInv`, `AckedInv`: on one connection at most one of
  request on the wire, request in the client's hands and acknowledgement on the
  wire exists, it is of the task's present round, and it tells whether the key of
  that round has been acknowledged. `ServerNeverAhead` follows along the way of a
  key: a task is at `notify` only with an acknowledged key, and the channel, the
  manager and the worker take it from there;
* `InstallInv`: the client has the newest key it acknowledged in use or in its
  hands, which needs that the key of the next round or connection is newer than
  all before (`NextIsNewest`);
* `PrunedInv`, `DeliveryInv`: the key of a task that sleeps is with the worker or
  on its way there, unless its connection was superseded or pruned.

`SettledAgree` is where the last two meet: between negotiations the active
connection was neither superseded nor pruned, so the key of its present round is
the one last forwarded, and the client has it in use. In the refinement
`ClientAck` is a `Commit`, `ClientInstall` a `ClientUses` and `ForwardDone` a
`ServerUses`; nothing else touches the abstract state.

`StartupProofs`: `StartupTypeCorrect`, `PskNeverCut`, `OnlyOverflowPanics`,
`RunningHasDeadman`, `DeviceIsTrusted`, `DeviceKnowsClients`. The invariant `SInv`
says what each stage has behind it: the part of the file that was read
(`PskInv`), peers' keys that can be decoded (`IdsInv`), a TLS configuration made
from files that can be loaded (`TlsInv`), a worker with its deadline
(`WorkerInv`); and that a device that serves TLS wants certificates of the CA it
was given, and any other has no certificate (`DeviceInv`). `FullBufferRefused` is the arithmetic behind `PskNeverCut`: a full
buffer that is a whole number of groups encodes more than `KeyLength` bytes, for
every `KeyLength`. `Deadline` tells apart the three outcomes of the sum.

Only model-checked: the liveness properties `GuardedKeyErased`, `RequestWritten`,
`NotificationsAccepted`, `KeysDelivered`, `Convergence`, `KeysRotate`,
`SilenceErases` and `StartEnds`, and the absence of deadlock. They rest on fairness
and `ENABLED`, which the provers do not handle.

## What is not modelled

* Manual pages, shell completion, log levels and the printing of an example
  configuration (`main.rs`): output without state.
* The netlink and HTTP formats, JSON and PEM, and what rustls, reqwest and tokio
  do inside; they are taken to do what they document. Signatures in TLS are
  valid if the certificate is. reqwest follows redirects, which the simulator never
  sends and over https only a trusted device could.
* A device that answers with another key than the one asked for: nothing in
  `fetch_specific_key` would notice, and the two ends would derive different keys.
* The simulator's 400 answers to requests that daisyway never sends.
* `mix_fork` and `mix_trifork` of `hash_domain.rs`, which nothing calls.
* Whether the configurations of the two ends fit together, apart from what
  `KeyAgreement` and `RekeyTiming` say about PSK, peers and intervals.
* Packaging and the integration tests.

## Plan

1. Done: `OskDeadman` with its abstract slot, `ConnectionManager`, their
   composition with the client in `KeyExchange` with its abstract handover,
   `KeyAgreement`, `RekeyTiming`, `EtsiAccess` and `Startup`; proofs of every
   safety property and refinement that the passing runs check.
2. Left: a relation between `RekeyTiming`'s assumption on the switch and
   `OskDeadman` as a refinement instead of in words; the safety half of the
   liveness arguments (what a stuck state would look like) as invariants.
