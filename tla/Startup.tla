------------------------------- MODULE Startup -------------------------------
(***************************************************************************)
(* A daisyway daemon from the command line to its event loop: main.rs,     *)
(* Daisyway::from_config (setup.rs), the reading and decoding of keys       *)
(* (util.rs), the choice of the role (net/tcp_participant.rs), the set-up   *)
(* of the brokers (osk/wireguard.rs), the first steps of the output-key     *)
(* worker (osk/deadman.rs), and the first requests to the QKD device        *)
(* (EtsiAccess).                                                           *)
(*                                                                         *)
(* The configuration is given; files and devices are found in any state.   *)
(* A text in base64 is told by its length.  The type u64 ends at MaxU64,    *)
(* and the clock cannot represent a moment later than MaxDuration from now.*)
(***************************************************************************)
EXTENDS Naturals, EtsiAccess

CONSTANTS Configs,           \* configurations, a subset of DaisywayConfig
          PskFiles,          \* what a PSK file may hold: number of bytes that
                             \* are encoded, and of newlines after them
          Builds,            \* "debug" and "release"
          KeyLength,         \* KEY_LENGTH
          RekeyInterval,     \* REKEY_INTERVAL
          Margin,            \* the 30 seconds of start_deadman
          MaxU64,            \* u64::MAX
          MaxDuration        \* what can be added to Instant::now()

ASSUME StartupAssumption ==
  /\ PskFiles \subseteq [bytes : Nat, newlines : Nat]
  /\ Builds \subseteq {"debug", "release"}
  /\ KeyLength \in Nat
  /\ Margin \in Nat \ {0}
  /\ MaxU64 \in Nat
  /\ MaxDuration \in 0 .. MaxU64
  /\ RekeyInterval \in 0 .. MaxU64
  /\ None \notin Nat \cup ClientConfig \cup {"outfile", "wireguard", "client", "server"}
  /\ Malformed \notin Nat

\* A public key is told by the number of bytes its text encodes.
DaisywayConfig ==
  [etsi014 : Etsi014Config, interval_secs : 0 .. MaxU64 \cup {None},
   endpoint : BOOLEAN, listen : BOOLEAN, psk_file : BOOLEAN,
   local_peer_id : Nat \cup {Malformed}, remote_peer_id : Nat \cup {Malformed},
   interface : BOOLEAN, outfile : BOOLEAN]

ASSUME ConfigAssumption == Configs \subseteq DaisywayConfig

VARIABLES config,       \* the configuration file
          build,        \* how the program was compiled
          stage,        \* what comes next
          why,          \* what the start was refused for, None if it was not
          file,         \* the PSK file that is open or was read
          red,          \* bytes of it read so far
          psk,          \* how many bytes of the PSK are from the file; the others
                        \* are zero
          tls,          \* the rustls configuration
          handler,      \* the broker
          erase_after,  \* deadline of the output-key worker
          worker,       \* where the output-key worker is
          slot,         \* content of the slot: "leftover" of an earlier process or
                        \* "random"
          participant,  \* the role
          device,       \* the QKD device
          fetched       \* keys came from the device

given == <<config, build>>
pskVars == <<file, red, psk>>
madeVars == <<tls, handler, erase_after, participant>>
workerVars == <<worker, slot>>
etsiVars == <<device, fetched>>
vars == <<given, stage, why, pskVars, madeVars, workerVars, etsiVars>>

-----------------------------------------------------------------------------
(* Keys in base64.                                                         *)

\* KEY_LENGTH_B64, the size of the read buffer.
KeyLengthB64 == (KeyLength * 4) \div 3 + 4

\* Length of the text that encodes n bytes, with padding.
EncodedLen(n) == 4 * ((n + 2) \div 3)

\* Size of a file.
Size(f) == EncodedLen(f.bytes) + f.newlines

SmallerOf(m, n) == IF m < n THEN m ELSE n

\* base64_to_key of the first n characters of a text that encodes a number of
\* bytes, Malformed for a text that is not base64 at all: how many bytes of the
\* key come from it, Malformed for an error.  Base64::decode wants groups of four
\* and room for what it decodes, and does not mind room to spare.
base64_to_key(bytes, n) ==
  LET decoded == IF n = EncodedLen(bytes) THEN bytes ELSE 3 * (n \div 4)
  IN  IF bytes = Malformed THEN Malformed
      ELSE IF n % 4 = 0 /\ decoded <= KeyLength THEN decoded
      ELSE Malformed

WholeText(bytes) == IF bytes = Malformed THEN 0 ELSE EncodedLen(bytes)

\* load_base64_key_file, when n bytes of the file are in the buffer: one newline is
\* trimmed, another one makes the text invalid.
DecodeBuffer(f, n) ==
  IF n > EncodedLen(f.bytes) + 1 THEN Malformed
  ELSE base64_to_key(f.bytes, SmallerOf(n, EncodedLen(f.bytes)))

-----------------------------------------------------------------------------
Init == /\ config \in Configs
        /\ build \in Builds
        /\ stage = "load"
        /\ why = None
        /\ file = None
        /\ red = 0
        /\ psk = None
        /\ tls = None
        /\ handler = None
        /\ erase_after = None
        /\ worker = "none"
        /\ slot = "leftover"
        /\ participant = None
        /\ device = NoDevice
        /\ fetched = FALSE

\* An error is returned to main, which ends the process.
Refuse(reason) ==
  /\ stage' = "refused"
  /\ why' = reason
  /\ UNCHANGED <<given, pskVars, madeVars, workerVars, etsiVars>>

-----------------------------------------------------------------------------
(* ExchangeCommand::run and Daisyway::from_config, in the order of the code. *)

\* The variants of DaisywayTcpParticipantConfig are tried in order and do not mind
\* fields of each other.
Role == IF config.endpoint THEN "client" ELSE "server"

\* load_from_file: the file cannot be read or is not a configuration.
LoadFails == stage = "load" /\ Refuse("config")

\* load_from_file; no variant fits a peer section with neither field.
Load ==
  /\ stage = "load"
  /\ IF ~config.endpoint /\ ~config.listen THEN Refuse("config")
     ELSE /\ stage' = "psk"
          /\ UNCHANGED <<given, why, pskVars, madeVars, workerVars, etsiVars>>

\* rekey_interval.
RekeySecs == IF config.interval_secs = None THEN RekeyInterval ELSE config.interval_secs

NoPskFile ==
  /\ stage = "psk"
  /\ ~config.psk_file
  /\ psk' = 0
  /\ stage' = "ids"
  /\ UNCHANGED <<given, why, file, red, madeVars, workerVars, etsiVars>>

OpenPskFile ==
  /\ stage = "psk"
  /\ config.psk_file
  /\ file' \in PskFiles
  /\ stage' = "reading"
  /\ UNCHANGED <<given, why, red, psk, madeVars, workerVars, etsiVars>>

\* Faulty variant: read is given more room than the buffer has.
ReadSomeBeyond ==
  /\ stage = "reading"
  /\ \E n \in 1 .. (Size(file) - red) : red' = red + n
  /\ UNCHANGED <<given, stage, why, file, psk, madeVars, workerVars, etsiVars>>

\* read_to_end_up_to: read returns some of the bytes that are left and fit.
ReadSome ==
  /\ stage = "reading"
  /\ \E n \in 1 .. (SmallerOf(Size(file), KeyLengthB64) - red) : red' = red + n
  /\ UNCHANGED <<given, stage, why, file, psk, madeVars, workerVars, etsiVars>>

\* What is in the buffer is decoded.
UseBuffer ==
  LET key == DecodeBuffer(file, red)
  IN  IF key = Malformed THEN Refuse("psk")
      ELSE /\ psk' = key
           /\ stage' = "ids"
           /\ UNCHANGED <<given, why, file, red, madeVars, workerVars, etsiVars>>

\* Faulty variant: one read has to do.
ReadDoneAfterOneRead == /\ stage = "reading"
                        /\ red > 0 \/ Size(file) = 0
                        /\ UseBuffer

\* Faulty variant: only a full buffer ends the loop.
ReadDoneWhenFull == /\ stage = "reading"
                    /\ red = KeyLengthB64
                    /\ UseBuffer

\* The buffer is full or read returns 0.
ReadDone == /\ stage = "reading"
            /\ red \in {KeyLengthB64, Size(file)}
            /\ UseBuffer

\* The file cannot be opened, or read returns an error.
ReadFails == /\ stage = "reading" \/ (stage = "psk" /\ config.psk_file)
             /\ Refuse("psk")

\* Faulty variant: only the local peer is looked at.
DecodeLocalIdOnly ==
  /\ stage = "ids"
  /\ IF base64_to_key(config.local_peer_id, WholeText(config.local_peer_id)) = Malformed
     THEN Refuse("ids")
     ELSE /\ stage' = "etsi"
          /\ UNCHANGED <<given, why, pskVars, madeVars, workerVars, etsiVars>>

DecodeIds ==
  /\ stage = "ids"
  /\ IF \E id \in {config.local_peer_id, config.remote_peer_id} :
          base64_to_key(id, WholeText(id)) = Malformed
     THEN Refuse("ids")
     ELSE /\ stage' = "etsi"
          /\ UNCHANGED <<given, why, pskVars, madeVars, workerVars, etsiVars>>

\* Etsi014Connection::from_config, which runs once in a process, so that the crypto
\* provider can be installed.
ConfigureEtsi ==
  /\ stage = "etsi"
  /\ \E cacert, cert \in Authorities \cup {Malformed} :
       IF CanConfigureRustls(config.etsi014, cacert, cert)
       THEN /\ tls' = configure_rustls(config.etsi014, cacert, cert)
            /\ stage' = "handler"
            /\ UNCHANGED <<given, why, pskVars, handler, erase_after, participant, workerVars, etsiVars>>
       ELSE Refuse("etsi")

\* client_builder.build() returns an error.
BuildFails == stage = "etsi" /\ Refuse("etsi")

-----------------------------------------------------------------------------
(* The key handler.                                                        *)

\* Faulty variant: the deadline is the interval itself.
AddMarginForgotten(n) == n

\* rekey_interval + 30: what becomes of a sum that does not fit is up to the build,
\* None being a panic.
AddMargin(n) ==
  CASE n + Margin <= MaxU64 -> n + Margin
    [] n + Margin > MaxU64 /\ build = "release" -> (n + Margin) % (MaxU64 + 1)
    [] OTHER -> None

\* The main thread panics, which ends the process.
Panic == /\ stage' = "panicked"
         /\ UNCHANGED <<given, why, pskVars, madeVars, workerVars, etsiVars>>

\* start_deadman and OskDeadman::start, which spawns the worker; then
\* DaisywayTcpParticipant::from_config.
StartDeadman(broker) ==
  IF AddMargin(RekeySecs) = None THEN Panic
  ELSE /\ handler' = broker
       /\ erase_after' = AddMargin(RekeySecs)
       /\ worker' = "starting"
       /\ participant' = Role
       /\ stage' = "event_loop"
       /\ UNCHANGED <<given, why, pskVars, tls, slot, etsiVars>>

\* The choice cannot be made.
NoSingleHandler == /\ stage = "handler"
                   /\ config.interface = config.outfile
                   /\ Refuse("handler")

UseOutfile == /\ stage = "handler"
              /\ config.outfile
              /\ ~config.interface
              /\ StartDeadman("outfile")

\* WireGuardOskHandler::setup decodes the peer again, with expect.  No peer of the
\* interface has a key that was filled up with zeros.
UseWireGuard ==
  /\ stage = "handler"
  /\ config.interface
  /\ ~config.outfile
  /\ LET peer == base64_to_key(config.remote_peer_id, WholeText(config.remote_peer_id))
     IN  \/ peer = Malformed /\ Panic
         \/ peer = KeyLength /\ StartDeadman("wireguard")
         \/ peer # Malformed /\ Refuse("wireguard")

-----------------------------------------------------------------------------
(* DaisywayTcpParticipant::event_loop.                                     *)

Run == /\ stage = "event_loop"
       /\ stage' = "running"
       /\ UNCHANGED <<given, why, pskVars, madeVars, workerVars, etsiVars>>

\* DaisywayTcpServer::event_loop cannot bind its address.
BindFails == /\ stage = "event_loop"
             /\ participant = "server"
             /\ Refuse("bind")

\* The process ends and takes the worker with it.
Exit == /\ stage \in {"refused", "panicked"}
        /\ worker # "none"
        /\ worker' = "none"
        /\ UNCHANGED <<given, stage, why, pskVars, madeVars, slot, etsiVars>>

-----------------------------------------------------------------------------
(* The output-key worker.                                                  *)

\* event_loop begins with an erase; Instant::now() + erase_after panics when
\* there is no such moment.
WorkerStarts ==
  /\ worker = "starting"
  /\ slot' = "random"
  /\ worker' = IF erase_after <= MaxDuration THEN "waiting" ELSE "panicked"
  /\ UNCHANGED <<given, stage, why, pskVars, madeVars, etsiVars>>

\* The broker cannot write.
WorkerFails ==
  /\ worker = "starting"
  /\ worker' = "failed"
  /\ UNCHANGED <<given, stage, why, pskVars, madeVars, slot, etsiVars>>

-----------------------------------------------------------------------------
(* The QKD device.                                                         *)

\* The simulator is started, with any options and files.
StartDevice ==
  /\ device = NoDevice
  /\ \E args \in Args, certificate \in Certificate \cup {Malformed},
        ca \in Authorities \cup {Malformed} :
       /\ CanStart(args, certificate, ca)
       /\ device' = Serving(args, certificate, ca)
  /\ UNCHANGED <<given, stage, why, pskVars, madeVars, workerVars, fetched>>

StopDevice ==
  /\ device # NoDevice
  /\ device' = NoDevice
  /\ UNCHANGED <<given, stage, why, pskVars, madeVars, workerVars, fetched>>

\* A request of the running daemon is answered with a key.
Fetch ==
  /\ stage = "running"
  /\ Answers(config.etsi014, tls, device)
  /\ fetched' = TRUE
  /\ UNCHANGED <<given, stage, why, pskVars, madeVars, workerVars, device>>

-----------------------------------------------------------------------------
StartUp == \/ Load
           \/ NoPskFile
           \/ OpenPskFile
           \/ ReadSome
           \/ ReadDone
           \/ DecodeIds
           \/ ConfigureEtsi
           \/ NoSingleHandler
           \/ UseOutfile
           \/ UseWireGuard
           \/ Run

Next == \/ StartUp
        \/ LoadFails
        \/ ReadFails
        \/ BuildFails
        \/ BindFails
        \/ Exit
        \/ WorkerStarts
        \/ WorkerFails
        \/ StartDevice
        \/ StopDevice
        \/ Fetch

Spec == Init /\ [][Next]_vars

\* The main thread and the worker thread are scheduled, and a process that is to end
\* ends; nothing fails because it must.
FairSpec == Spec /\ WF_vars(StartUp) /\ WF_vars(WorkerStarts) /\ WF_vars(Exit)

-----------------------------------------------------------------------------
(* Properties.                                                             *)

\* Every variable has its type; the buffer is never overrun (util.rs:15-28), and
\* a daemon without a key handler is not running (setup.rs:106-136).
TypeOK ==
  /\ config \in Configs
  /\ build \in Builds
  /\ stage \in {"load", "psk", "reading", "ids", "etsi", "handler", "event_loop",
                "running", "refused", "panicked"}
  /\ why \in {None, "config", "psk", "ids", "etsi", "handler", "wireguard", "bind"}
  /\ file \in PskFiles \cup {None}
  /\ red \in 0 .. KeyLengthB64
  /\ psk \in 0 .. KeyLength \cup {None}
  /\ tls \in ClientConfig \cup {None}
  /\ handler \in {"outfile", "wireguard", None}
  /\ erase_after \in 0 .. MaxU64 \cup {None}
  /\ worker \in {"none", "starting", "waiting", "panicked", "failed"}
  /\ slot \in {"leftover", "random"}
  /\ participant \in {"client", "server", None}
  /\ device \in Device
  /\ fetched \in BOOLEAN
  /\ stage \in {"event_loop", "running"}
       => worker # "none" /\ None \notin {psk, tls, handler, erase_after, participant}

\* A PSK file is used as a whole or not at all, in whatever portions it is read: a
\* file that is too long for the buffer is refused, never cut, and a shorter key is
\* filled up with zeros (util.rs:11-31, 43-58).
NoSilentTruncation == file # None /\ psk # None => psk = file.bytes

\* No configuration, file or device makes the start-up panic, apart from an interval
\* that overflows in a debug build: what expect() relies on was checked before
\* (setup.rs:89-95, wireguard.rs:23, setup.rs:157).
PanicsAreOverflow ==
  stage = "panicked" => build = "debug" /\ RekeySecs > MaxU64 - Margin

\* A daemon is running without an output-key worker only if its broker failed or
\* the interval is beyond the clock, and with a deadline that comes before the
\* next key only if the sum has wrapped around (setup.rs:153-158,
\* deadman.rs:97-103).
RunningIsGuarded ==
  stage = "running" =>
    /\ worker \in {"starting", "waiting", "failed"} \/ RekeySecs > MaxDuration - Margin
    /\ \/ erase_after > RekeySecs
       \/ build = "release" /\ RekeySecs > MaxU64 - Margin

\* Over https, keys come only from a device whose certificate was issued by the
\* configured CA and is within its dates, and is for the right name unless the
\* dangerous option is given, which relaxes nothing else (etsi014.rs:39-98,
\* 204-269).
OnlyTrustedDevice ==
  [][~fetched /\ fetched' /\ config.etsi014.https =>
       LET c == device.certificate
       IN  /\ config.etsi014.tls_cacert
           /\ tls.roots = {c.issuer}
           /\ c.current
           /\ \/ c.named
              \/ config.etsi014.danger_allow_insecure_no_server_name_certificates]_vars

\* A simulator that was given a CA answers only daemons that have both a certificate
\* of that CA and its key in their configuration, with one exception: without a
\* certificate of its own it serves plain HTTP, to everybody, whatever CA it was
\* given (simulator/src/main.rs:166-180, 205-215, etsi014.rs:112-113, 229-257).
ClientsAuthenticated ==
  [][~fetched /\ fetched' /\ device.ca_path # None =>
       \/ /\ config.etsi014.tls_cert /\ config.etsi014.tls_key
          /\ tls.client_cert = device.ca_path
       \/ device.certificate = None /\ ~config.etsi014.https]_vars

\* Every start comes to an end: the key that an earlier process left in the slot is
\* erased, or the broker fails to, or the process has ended, and then that key may
\* still be there (main.rs:260-263, setup.rs:64-145, util.rs:15-29, deadman.rs:99).
StartEnds ==
  <>(\/ slot = "random"
     \/ worker = "failed"
     \/ stage \in {"refused", "panicked"} /\ worker = "none")

\* Documentation: "If `outfile` is defined, it's used" (README.md:73).
OutfileIsUsed == config.outfile => why # "handler"

=============================================================================
