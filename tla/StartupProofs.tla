---------------------------- MODULE StartupProofs ----------------------------
(***************************************************************************)
(* Theorems about Startup, for every configuration and PSK file, every key *)
(* length, interval and margin, and every device.                          *)
(***************************************************************************)
EXTENDS Integers, Startup, TLAPS

-----------------------------------------------------------------------------
(* The inductive invariant.                                                *)

\* The stages of the main thread, in order.
BeforeRead == {"load", "psk"}
BeforePsk == BeforeRead \cup {"reading"}
BeforeWorker == BeforePsk \cup {"ids", "etsi", "handler"}
AfterIds == {"etsi", "handler"}
AfterTls == {"handler", "event_loop", "running"}

\* The PSK file is read before its key is made, no further than it goes, and its
\* key is all of it.
PskInv ==
  /\ stage \in BeforeRead => file = None /\ red = 0
  /\ stage \in BeforePsk => psk = None
  /\ stage = "reading" => file \in PskFiles /\ red <= Size(file)
  /\ stage \in {"ids", "etsi", "handler", "event_loop", "running"} => psk # None
  /\ NoSilentTruncation

\* Past their check the peers' keys can be decoded.
IdsInv ==
  stage \in AfterIds =>
    base64_to_key(config.remote_peer_id, WholeText(config.remote_peer_id)) # Malformed

\* The TLS configuration is what configure_rustls makes of files it can load.
TlsInv ==
  stage \in AfterTls =>
    \E cacert, cert \in Authorities \cup {Malformed} :
      /\ CanConfigureRustls(config.etsi014, cacert, cert)
      /\ tls = configure_rustls(config.etsi014, cacert, cert)

\* A worker has its deadline; it panics only where the clock cannot reach it.
WorkerInv ==
  /\ stage \in BeforeWorker => worker = "none"
  /\ worker # "none" => erase_after = AddMargin(RekeySecs) /\ erase_after # None
  /\ worker = "panicked" => erase_after > MaxDuration
  /\ stage \in {"event_loop", "running"}
       => worker # "none" /\ handler # None /\ participant # None

\* A device that serves TLS admits the clients of the CA it was given; any other has
\* no certificate.
DeviceInv == IF device.serves = "tls" THEN device.client_ca = device.ca_path
             ELSE device.certificate = None

SInv == TypeOK /\ PskInv /\ IdsInv /\ TlsInv /\ WorkerInv /\ PanicsAreOverflow /\ DeviceInv

-----------------------------------------------------------------------------
(* Keys in base64.                                                         *)

\* Lengths are lengths.
LEMMA Lengths ==
  /\ KeyLengthB64 \in Nat
  /\ \A n \in Nat : EncodedLen(n) \in Nat
BY StartupAssumption DEF KeyLengthB64, EncodedLen

\* A text cut off at the end of the buffer is not decoded: what the buffer holds is
\* more than a key, whatever the length of keys (util.rs:33, 43-58).
LEMMA FullBufferRefused ==
  ASSUME KeyLengthB64 % 4 = 0
  PROVE  3 * (KeyLengthB64 \div 4) > KeyLength
<1>1. PICK q \in Int : KeyLengthB64 = 4 * q /\ KeyLengthB64 \div 4 = q
  BY Lengths
<1>2. 3 * ((KeyLength * 4) \div 3) >= KeyLength * 4 - 2
  BY StartupAssumption
<1>3. 3 * KeyLengthB64 >= KeyLength * 4 + 10
  BY <1>2, StartupAssumption DEF KeyLengthB64
<1> QED
  BY <1>1, <1>3, StartupAssumption

\* What decoding makes of a text that is a whole number of bytes: all of it.
LEMMA WholeTextDecoded ==
  ASSUME NEW b \in Nat, base64_to_key(b, EncodedLen(b)) # Malformed
  PROVE  base64_to_key(b, EncodedLen(b)) = b /\ b <= KeyLength
BY StartupAssumption DEF base64_to_key

\* The key that load_base64_key_file returns is all of the file's, in whatever
\* state of the buffer its loop ends.
LEMMA WholeFileOrError ==
  ASSUME NEW f \in PskFiles, NEW n, n \in {KeyLengthB64, Size(f)}, n <= Size(f),
         DecodeBuffer(f, n) # Malformed
  PROVE  DecodeBuffer(f, n) = f.bytes /\ f.bytes \in 0 .. KeyLength
<1> DEFINE b == f.bytes
           len == EncodedLen(b)
<1>1. b \in Nat /\ f.newlines \in Nat /\ len \in Nat /\ n \in Nat
  BY StartupAssumption, Lengths DEF Size
<1>2. DecodeBuffer(f, n) = base64_to_key(b, SmallerOf(n, len))
  BY DEF DecodeBuffer
<1>3. CASE n >= len
  <2>1. SmallerOf(n, len) = len
    BY <1>1, <1>3 DEF SmallerOf
  <2> HIDE DEF b
  <2> QED
    BY <1>1, <1>2, <2>1, WholeTextDecoded DEF b
<1>4. CASE n < len
  <2>1. SmallerOf(n, len) = n
    BY <1>4 DEF SmallerOf
  <2>2. n = KeyLengthB64
    BY <1>1, <1>4 DEF Size
  <2>3. /\ b # Malformed
        /\ n # EncodedLen(b)
        /\ n % 4 = 0
        /\ 3 * (n \div 4) <= KeyLength
    <3> HIDE DEF b
    <3>1. b # Malformed /\ n # EncodedLen(b)
      BY <1>1, <1>4, StartupAssumption
    <3> QED
      BY <1>2, <2>1, <3>1 DEF base64_to_key
  <2>4. 3 * (n \div 4) > KeyLength
    BY <2>2, <2>3, FullBufferRefused
  <2>5. 3 * (n \div 4) \in Nat
    BY <1>1
  <2> QED
    BY <2>3, <2>4, <2>5, StartupAssumption
<1> QED
  BY <1>1, <1>3, <1>4

-----------------------------------------------------------------------------
(* The configuration.                                                      *)

\* The parts of a configuration that the proofs look at.
LEMMA ConfigParts ==
  ASSUME TypeOK
  PROVE  /\ config.etsi014 \in Etsi014Config
         /\ RekeySecs \in 0 .. MaxU64
         /\ Role \in {"client", "server"}
<1>1. config \in DaisywayConfig
  BY ConfigAssumption DEF TypeOK
<1>2. config.etsi014 \in Etsi014Config
  BY <1>1 DEF DaisywayConfig
<1>3. config.interval_secs \in 0 .. MaxU64 \cup {None}
  BY <1>1 DEF DaisywayConfig
<1> QED
  BY <1>2, <1>3, StartupAssumption DEF RekeySecs, Role

\* The deadline, with the sum that fits, wraps around or panics.
LEMMA Deadline ==
  ASSUME TypeOK
  PROVE  \/ /\ AddMargin(RekeySecs) = RekeySecs + Margin
            /\ RekeySecs + Margin <= MaxU64
         \/ /\ AddMargin(RekeySecs) \in 0 .. MaxU64
            /\ RekeySecs + Margin > MaxU64
            /\ build = "release"
         \/ /\ AddMargin(RekeySecs) = None
            /\ RekeySecs + Margin > MaxU64
            /\ build = "debug"
<1> DEFINE n == RekeySecs
<1>1. n \in Nat /\ Margin \in Nat /\ MaxU64 \in Nat
  BY ConfigParts, StartupAssumption
<1>2. build \in {"debug", "release"}
  BY StartupAssumption DEF TypeOK
<1> HIDE DEF n
<1>3. CASE n + Margin <= MaxU64
  BY <1>1, <1>3 DEF AddMargin, n
<1>4. CASE n + Margin > MaxU64 /\ build = "release"
  <2>1. AddMargin(n) = (n + Margin) % (MaxU64 + 1)
    BY <1>1, <1>4 DEF AddMargin
  <2>2. (n + Margin) % (MaxU64 + 1) \in 0 .. MaxU64
    BY <1>1
  <2> QED
    BY <1>4, <2>1, <2>2 DEF n
<1>5. CASE n + Margin > MaxU64 /\ build = "debug"
  <2>1. ~(n + Margin <= MaxU64) /\ build # "release"
    BY <1>1, <1>5
  <2> QED
    BY <1>5, <2>1 DEF AddMargin, n
<1> QED
  BY <1>1, <1>2, <1>3, <1>4, <1>5

-----------------------------------------------------------------------------
(* The steps.                                                              *)

\* A step that leaves alone what a definition looks at leaves it alone.
LEMMA Frame ==
  ASSUME UNCHANGED given
  PROVE  /\ RekeySecs' = RekeySecs
         /\ AddMargin(RekeySecs)' = AddMargin(RekeySecs)
BY DEF given, RekeySecs, AddMargin

\* An error ends the start with what has been made so far.
LEMMA RefuseKeeps ==
  ASSUME SInv, NEW reason \in {"config", "psk", "ids", "etsi", "handler", "wireguard", "bind"},
         Refuse(reason)
  PROVE  SInv'
<1>1. /\ stage' = "refused" /\ why' = reason
      /\ UNCHANGED <<given, config, build, file, red, psk, tls, handler, erase_after,
                     participant, worker, slot, device, fetched>>
  BY DEF Refuse, given, pskVars, madeVars, workerVars, etsiVars
<1>2. TypeOK'
  BY <1>1 DEF SInv, TypeOK
<1>3. PskInv'
  BY <1>1 DEF SInv, PskInv, NoSilentTruncation, BeforePsk, BeforeRead
<1>4. WorkerInv'
  BY <1>1, Frame DEF SInv, WorkerInv, BeforeWorker, BeforePsk, BeforeRead
<1>5. DeviceInv'
  BY <1>1 DEF SInv, DeviceInv
<1>6. IdsInv' /\ TlsInv' /\ PanicsAreOverflow'
  BY <1>1 DEF IdsInv, AfterIds, TlsInv, AfterTls, PanicsAreOverflow
<1> QED
  BY <1>2, <1>3, <1>4, <1>5, <1>6 DEF SInv

\* A panic is one that PanicsAreOverflow allows for.
LEMMA PanicKeeps ==
  ASSUME SInv, Panic, build = "debug", RekeySecs > MaxU64 - Margin
  PROVE  SInv'
<1>1. /\ stage' = "panicked"
      /\ UNCHANGED <<given, config, build, why, file, red, psk, tls, handler, erase_after,
                     participant, worker, slot, device, fetched>>
  BY DEF Panic, given, pskVars, madeVars, workerVars, etsiVars
<1>2. TypeOK'
  BY <1>1 DEF SInv, TypeOK
<1>3. PskInv'
  BY <1>1 DEF SInv, PskInv, NoSilentTruncation, BeforePsk, BeforeRead
<1>4. WorkerInv'
  BY <1>1, Frame DEF SInv, WorkerInv, BeforeWorker, BeforePsk, BeforeRead
<1>5. DeviceInv'
  BY <1>1 DEF SInv, DeviceInv
<1>6. IdsInv' /\ TlsInv'
  BY <1>1 DEF IdsInv, AfterIds, TlsInv, AfterTls
<1>7. PanicsAreOverflow'
  BY <1>1, Frame DEF PanicsAreOverflow
<1> QED
  BY <1>2, <1>3, <1>4, <1>5, <1>6, <1>7 DEF SInv

\* The worker is started with a deadline, or the sum panics.
LEMMA StartDeadmanKeeps ==
  ASSUME SInv, stage = "handler", NEW broker \in {"outfile", "wireguard"},
         StartDeadman(broker)
  PROVE  SInv'
<1>0. TypeOK
  BY DEF SInv
<1>1. CASE AddMargin(RekeySecs) = None
  <2>1. Panic
    BY <1>1 DEF StartDeadman
  <2>2. RekeySecs \in Nat /\ Margin \in Nat /\ MaxU64 \in Nat
    BY <1>0, ConfigParts, StartupAssumption
  <2>3. None \notin Nat
    BY StartupAssumption
  <2>4. build = "debug" /\ RekeySecs + Margin > MaxU64
    BY <1>0, <1>1, <2>2, <2>3, Deadline
  <2> QED
    BY <2>1, <2>2, <2>4, PanicKeeps
<1>2. CASE AddMargin(RekeySecs) # None
  <2>1. /\ handler' = broker
        /\ erase_after' = AddMargin(RekeySecs)
        /\ worker' = "starting"
        /\ participant' = Role
        /\ stage' = "event_loop"
        /\ UNCHANGED <<given, config, build, why, file, red, psk, tls, slot, device, fetched>>
    BY <1>2 DEF StartDeadman, given, pskVars, etsiVars
  <2>2. erase_after' \in 0 .. MaxU64
    BY <1>0, <1>2, <2>1, Deadline, ConfigParts, StartupAssumption
  <2>3. tls \in ClientConfig
    BY ConfigParts DEF SInv, TlsInv, AfterTls, CanConfigureRustls, configure_rustls,
                       ClientConfig, Roots, Etsi014Config
  <2>4. None \notin {psk, tls, handler', erase_after', participant'}
    <3>1. psk # None
      BY DEF SInv, PskInv
    <3>2. participant' \in {"client", "server"}
      BY <1>0, <2>1, ConfigParts
    <3> QED
      BY <1>2, <2>1, <2>3, <3>1, <3>2, StartupAssumption
  <2>5. participant' \in {"client", "server"}
    BY <1>0, <2>1, ConfigParts
  <2>6. TypeOK'
    BY <1>0, <2>1, <2>2, <2>4, <2>5 DEF TypeOK
  <2>7. PskInv'
    BY <2>1 DEF SInv, PskInv, NoSilentTruncation, BeforePsk, BeforeRead
  <2>8. WorkerInv'
    BY <1>2, <2>1, <2>4, Frame DEF WorkerInv, BeforeWorker, BeforePsk, BeforeRead
  <2>9. TlsInv'
    BY <2>1 DEF SInv, TlsInv, AfterTls
  <2>10. DeviceInv' /\ IdsInv' /\ PanicsAreOverflow'
    BY <2>1 DEF SInv, DeviceInv, IdsInv, AfterIds, PanicsAreOverflow
  <2> QED
    BY <2>6, <2>7, <2>8, <2>9, <2>10 DEF SInv
<1> QED
  BY <1>1, <1>2

\* Reading and decoding the PSK file.
LEMMA PskKeeps ==
  ASSUME SInv, Load \/ NoPskFile \/ OpenPskFile \/ ReadSome \/ ReadDone
  PROVE  SInv'
<1>0. TypeOK /\ PskInv /\ WorkerInv /\ DeviceInv
  BY DEF SInv
<1>1. ASSUME Refuse("config") \/ Refuse("psk") PROVE SInv'
  BY <1>1, RefuseKeeps
<1>2. ASSUME stage \in BeforePsk, stage' \in BeforePsk \cup {"ids"},
             UNCHANGED <<given, why, madeVars, workerVars, etsiVars>>,
             file' \in PskFiles \cup {None}, red' \in 0 .. KeyLengthB64,
             psk' \in 0 .. KeyLength \cup {None},
             PskInv'
      PROVE  SInv'
  <2>1. UNCHANGED <<config, build, why, tls, handler, erase_after, participant,
                    worker, slot, device, fetched>>
    BY <1>2 DEF given, madeVars, workerVars, etsiVars
  <2>2. stage' \in {"load", "psk", "reading", "ids"}
    BY <1>2 DEF BeforePsk, BeforeRead
  <2>3. TypeOK'
    BY <1>0, <1>2, <2>1, <2>2 DEF TypeOK
  <2>4. worker = "none"
    BY <1>0, <1>2 DEF WorkerInv, BeforeWorker
  <2>5. WorkerInv'
    BY <2>1, <2>2, <2>4 DEF WorkerInv
  <2>6. DeviceInv' /\ IdsInv' /\ TlsInv' /\ PanicsAreOverflow'
    BY <1>0, <2>1, <2>2 DEF DeviceInv, IdsInv, AfterIds, TlsInv, AfterTls,
                            PanicsAreOverflow
  <2> QED
    BY <1>2, <2>3, <2>5, <2>6 DEF SInv
<1> USE DEF BeforePsk, BeforeRead
<1>3. CASE Load
  <2>1. CASE ~Refuse("config")
    <3>1. /\ stage = "load" /\ stage' = "psk"
          /\ UNCHANGED <<given, why, file, red, psk, madeVars, workerVars, etsiVars>>
      BY <1>3, <2>1 DEF Load, pskVars
    <3>2. PskInv'
      BY <1>0, <3>1 DEF PskInv, NoSilentTruncation
    <3> QED
      BY <1>0, <1>2, <3>1, <3>2 DEF TypeOK
  <2> QED
    BY <1>1, <2>1
<1>4. CASE NoPskFile
  <2>1. /\ stage = "psk" /\ stage' = "ids" /\ psk' = 0
        /\ UNCHANGED <<given, why, file, red, madeVars, workerVars, etsiVars>>
    BY <1>4 DEF NoPskFile
  <2>2. 0 \in 0 .. KeyLength /\ None # 0
    BY StartupAssumption
  <2>3. PskInv'
    BY <1>0, <2>1, <2>2 DEF PskInv, NoSilentTruncation
  <2> QED
    BY <1>0, <1>2, <2>1, <2>2, <2>3 DEF TypeOK
<1>5. CASE OpenPskFile
  <2>1. /\ stage = "psk" /\ stage' = "reading" /\ file' \in PskFiles
        /\ UNCHANGED <<given, why, red, psk, madeVars, workerVars, etsiVars>>
    BY <1>5 DEF OpenPskFile
  <2>2. red = 0 /\ psk = None
    BY <1>0, <2>1 DEF PskInv
  <2>3. Size(file') \in Nat
    BY <2>1, Lengths, StartupAssumption DEF Size
  <2>4. PskInv'
    BY <2>1, <2>2, <2>3 DEF PskInv, NoSilentTruncation, Size
  <2> QED
    BY <1>0, <1>2, <2>1, <2>4 DEF TypeOK
<1>6. CASE ReadSome
  <2>1. stage = "reading" /\ UNCHANGED <<given, stage, why, file, psk, madeVars, workerVars, etsiVars>>
    BY <1>6 DEF ReadSome
  <2>2. file \in PskFiles /\ red <= Size(file) /\ psk = None
    BY <1>0, <2>1 DEF PskInv
  <2>3. Size(file) \in Nat /\ KeyLengthB64 \in Nat /\ red \in Nat
    BY <1>0, <2>2, Lengths, StartupAssumption DEF Size, TypeOK
  <2>4. red' \in 0 .. KeyLengthB64 /\ red' <= Size(file)
    BY <1>6, <2>3 DEF ReadSome, SmallerOf
  <2>5. PskInv'
    BY <1>0, <2>1, <2>2, <2>4 DEF PskInv, NoSilentTruncation, Size
  <2> QED
    BY <1>0, <1>2, <2>1, <2>4, <2>5 DEF TypeOK
<1>7. CASE ReadDone
  <2>1. CASE DecodeBuffer(file, red) = Malformed
    BY <1>1, <1>7, <2>1 DEF ReadDone, UseBuffer
  <2>2. CASE DecodeBuffer(file, red) # Malformed
    <3>1. /\ stage = "reading" /\ stage' = "ids"
          /\ psk' = DecodeBuffer(file, red)
          /\ red \in {KeyLengthB64, Size(file)}
          /\ UNCHANGED <<given, why, file, red, madeVars, workerVars, etsiVars>>
      BY <1>7, <2>2 DEF ReadDone, UseBuffer
    <3>2. file \in PskFiles /\ red <= Size(file)
      BY <1>0, <3>1 DEF PskInv
    <3>3. psk' = file.bytes /\ psk' \in 0 .. KeyLength
      BY <2>2, <3>1, <3>2, WholeFileOrError
    <3>4. psk' # None
      BY <3>3, StartupAssumption
    <3>5. PskInv'
      BY <3>1, <3>3, <3>4 DEF PskInv, NoSilentTruncation
    <3> QED
      BY <1>0, <1>2, <3>1, <3>3, <3>5 DEF TypeOK
  <2> QED
    BY <2>1, <2>2
<1> QED
  BY <1>3, <1>4, <1>5, <1>6, <1>7

\* The peers' keys and the TLS configuration.
LEMMA ConfigureKeeps ==
  ASSUME SInv, DecodeIds \/ ConfigureEtsi
  PROVE  SInv'
<1>0. TypeOK /\ PskInv /\ WorkerInv /\ DeviceInv
  BY DEF SInv
<1>1. CASE DecodeIds
  <2>1. CASE Refuse("ids")
    BY <2>1, RefuseKeeps
  <2>2. CASE ~Refuse("ids")
    <3>1. /\ stage = "ids" /\ stage' = "etsi"
          /\ base64_to_key(config.remote_peer_id, WholeText(config.remote_peer_id)) # Malformed
          /\ UNCHANGED <<given, why, pskVars, madeVars, workerVars, etsiVars>>
      BY <1>1, <2>2 DEF DecodeIds
    <3>2. UNCHANGED <<config, build, file, red, psk, tls, handler, erase_after,
                      participant, worker, slot, device, fetched>>
      BY <3>1 DEF given, pskVars, madeVars, workerVars, etsiVars
    <3>3. TypeOK'
      BY <1>0, <3>1, <3>2 DEF TypeOK
    <3>4. PskInv'
      BY <1>0, <3>1, <3>2 DEF PskInv, NoSilentTruncation, BeforePsk, BeforeRead
    <3>5. WorkerInv'
      BY <1>0, <3>1, <3>2, Frame DEF WorkerInv, BeforeWorker, BeforePsk, BeforeRead
    <3>6. IdsInv' /\ TlsInv' /\ DeviceInv' /\ PanicsAreOverflow'
      BY <1>0, <3>1, <3>2 DEF IdsInv, TlsInv, AfterTls, DeviceInv, PanicsAreOverflow
    <3> QED
      BY <3>3, <3>4, <3>5, <3>6 DEF SInv
  <2> QED
    BY <2>1, <2>2
<1>2. CASE ConfigureEtsi
  <2>1. PICK cacert \in Authorities \cup {Malformed}, cert \in Authorities \cup {Malformed} :
          IF CanConfigureRustls(config.etsi014, cacert, cert)
          THEN /\ tls' = configure_rustls(config.etsi014, cacert, cert)
               /\ stage' = "handler"
               /\ UNCHANGED <<given, why, pskVars, handler, erase_after, participant,
                              workerVars, etsiVars>>
          ELSE Refuse("etsi")
    BY <1>2 DEF ConfigureEtsi
  <2>2. CASE ~CanConfigureRustls(config.etsi014, cacert, cert)
    BY <2>1, <2>2, RefuseKeeps
  <2>3. CASE CanConfigureRustls(config.etsi014, cacert, cert)
    <3>1. /\ stage = "etsi" /\ stage' = "handler"
          /\ tls' = configure_rustls(config.etsi014, cacert, cert)
          /\ UNCHANGED <<given, why, pskVars, handler, erase_after, participant,
                         workerVars, etsiVars>>
      BY <1>2, <2>1, <2>3 DEF ConfigureEtsi
    <3>2. UNCHANGED <<config, build, file, red, psk, worker, slot, device, fetched>>
      BY <3>1 DEF given, pskVars, workerVars, etsiVars
    <3>3. TlsInv'
      BY <2>3, <3>1, <3>2 DEF TlsInv
    <3>4. tls' \in ClientConfig
      BY <1>0, <2>3, <3>1, ConfigParts
      DEF CanConfigureRustls, configure_rustls, ClientConfig, Roots, Etsi014Config
    <3>5. TypeOK'
      BY <1>0, <3>1, <3>2, <3>4 DEF TypeOK
    <3>6. PskInv'
      BY <1>0, <3>1, <3>2 DEF PskInv, NoSilentTruncation, BeforePsk, BeforeRead
    <3>7. WorkerInv'
      BY <1>0, <3>1, <3>2, Frame DEF WorkerInv, BeforeWorker, BeforePsk, BeforeRead
    <3>8. IdsInv' /\ DeviceInv' /\ PanicsAreOverflow'
      BY <1>0, <3>1, <3>2 DEF SInv, IdsInv, AfterIds, DeviceInv, PanicsAreOverflow
    <3> QED
      BY <3>3, <3>5, <3>6, <3>7, <3>8 DEF SInv
  <2> QED
    BY <2>2, <2>3
<1> QED
  BY <1>1, <1>2

\* The choice of the broker and the event loop.
LEMMA HandlerKeeps ==
  ASSUME SInv, NoSingleHandler \/ UseOutfile \/ UseWireGuard \/ Run
  PROVE  SInv'
<1>1. CASE NoSingleHandler
  BY <1>1, RefuseKeeps DEF NoSingleHandler
<1>2. CASE UseOutfile
  BY <1>2, StartDeadmanKeeps DEF UseOutfile
<1>3. CASE UseWireGuard
  <2>1. /\ stage = "handler"
        /\ base64_to_key(config.remote_peer_id, WholeText(config.remote_peer_id)) # Malformed
    BY <1>3 DEF UseWireGuard, SInv, IdsInv, AfterIds
  <2>2. StartDeadman("wireguard") \/ Refuse("wireguard")
    BY <1>3, <2>1 DEF UseWireGuard
  <2> QED
    BY <2>1, <2>2, StartDeadmanKeeps, RefuseKeeps
<1>4. CASE Run
  <2>1. /\ stage = "event_loop" /\ stage' = "running"
        /\ UNCHANGED <<given, config, build, why, file, red, psk, tls, handler,
                       erase_after, participant, worker, slot, device, fetched>>
    BY <1>4 DEF Run, given, pskVars, madeVars, workerVars, etsiVars
  <2>2. TypeOK'
    BY <2>1 DEF SInv, TypeOK
  <2>3. PskInv'
    BY <2>1 DEF SInv, PskInv, NoSilentTruncation, BeforePsk, BeforeRead
  <2>4. WorkerInv'
    BY <2>1, Frame DEF SInv, WorkerInv, BeforeWorker, BeforePsk, BeforeRead
  <2>5. TlsInv'
    BY <2>1 DEF SInv, TlsInv, AfterTls
  <2>6. IdsInv' /\ DeviceInv' /\ PanicsAreOverflow'
    BY <2>1 DEF SInv, IdsInv, AfterIds, DeviceInv, PanicsAreOverflow
  <2> QED
    BY <2>2, <2>3, <2>4, <2>5, <2>6 DEF SInv
<1> QED
  BY <1>1, <1>2, <1>3, <1>4

\* The worker.
LEMMA WorkerKeeps ==
  ASSUME SInv, WorkerStarts \/ WorkerFails \/ Exit
  PROVE  SInv'
<1>1. /\ UNCHANGED <<given, config, build, stage, why, file, red, psk, tls, handler,
                     erase_after, participant, device, fetched>>
      /\ slot' \in {slot, "random"}
  BY DEF WorkerStarts, WorkerFails, Exit, given, pskVars, madeVars, etsiVars
<1>2. \/ worker # "none" /\ worker' \in {"waiting", "failed"}
      \/ worker # "none" /\ worker' = "panicked" /\ ~(erase_after <= MaxDuration)
      \/ stage \in {"refused", "panicked"} /\ worker' = "none"
  BY DEF WorkerStarts, WorkerFails, Exit
<1>3. worker # "none" => erase_after \in Nat /\ MaxDuration \in Nat
  BY StartupAssumption DEF SInv, TypeOK, WorkerInv
<1>4. TypeOK'
  BY <1>1, <1>2 DEF SInv, TypeOK
<1>5. WorkerInv'
  BY <1>1, <1>2, <1>3, Frame DEF SInv, WorkerInv, BeforeWorker, BeforePsk, BeforeRead
<1>6. PskInv'
  BY <1>1 DEF SInv, PskInv, NoSilentTruncation, Size
<1>7. TlsInv' /\ IdsInv' /\ DeviceInv'
  BY <1>1 DEF SInv, TlsInv, IdsInv, DeviceInv
<1>8. PanicsAreOverflow'
  BY <1>1, Frame DEF SInv, PanicsAreOverflow
<1> QED
  BY <1>4, <1>5, <1>6, <1>7, <1>8 DEF SInv

\* A device that comes up with TLS admits the clients of the CA it was given.
LEMMA ServingDevice ==
  ASSUME NEW args \in Args, NEW certificate \in Certificate \cup {Malformed},
         NEW ca \in Authorities \cup {Malformed},
         CanStart(args, certificate, ca)
  PROVE  LET d == Serving(args, certificate, ca) IN
         /\ d \in Device
         /\ IF d.serves = "tls" THEN d.client_ca = d.ca_path ELSE d.certificate = None
<1>1. CASE UsesTls(args)
  <2> DEFINE given_ca == IF args.ca_path THEN ca ELSE None
  <2>1. Serving(args, certificate, ca)
          = [serves |-> "tls", certificate |-> certificate, client_ca |-> given_ca,
             ca_path |-> given_ca]
    BY <1>1 DEF Serving, load_tls_config
  <2>2. certificate \in Certificate /\ given_ca \in Authorities \cup {None}
    BY <1>1 DEF CanStart
  <2> HIDE DEF given_ca
  <2> QED
    BY <2>1, <2>2 DEF Device
<1>2. CASE ~UsesTls(args)
  <2> DEFINE given_ca == IF args.ca_path THEN ca ELSE None
  <2>1. Serving(args, certificate, ca)
          = [serves |-> "plain", certificate |-> None, client_ca |-> None,
             ca_path |-> given_ca]
    BY <1>2 DEF Serving, NoDevice
  <2>2. given_ca \in Authorities \cup {Malformed, None}
    OBVIOUS
  <2> HIDE DEF given_ca
  <2> QED
    BY <2>1, <2>2 DEF Device
<1> QED
  BY <1>1, <1>2

\* The device.
LEMMA DeviceKeeps ==
  ASSUME SInv, StartDevice \/ StopDevice \/ Fetch
  PROVE  SInv'
<1>1. /\ UNCHANGED <<given, config, build, stage, why, file, red, psk, tls, handler,
                     erase_after, participant, worker, slot>>
      /\ fetched' \in {fetched, TRUE}
  BY DEF StartDevice, StopDevice, Fetch, given, pskVars, madeVars, workerVars
<1>2. device' \in Device /\ DeviceInv'
  <2>1. CASE StartDevice
    BY <2>1, ServingDevice DEF StartDevice, DeviceInv
  <2>2. CASE StopDevice
    BY <2>2 DEF StopDevice, DeviceInv, Device, NoDevice
  <2>3. CASE Fetch
    BY <2>3 DEF Fetch, SInv, DeviceInv, TypeOK
  <2> QED
    BY <2>1, <2>2, <2>3
<1>3. fetched' \in BOOLEAN
  BY <1>1 DEF SInv, TypeOK
<1>4. TypeOK'
  BY <1>1, <1>2, <1>3 DEF SInv, TypeOK
<1>5. WorkerInv'
  BY <1>1, Frame DEF SInv, WorkerInv
<1>6. PskInv'
  BY <1>1 DEF SInv, PskInv, NoSilentTruncation, Size
<1>7. TlsInv' /\ IdsInv'
  BY <1>1 DEF SInv, TlsInv, IdsInv
<1>8. PanicsAreOverflow'
  BY <1>1, Frame DEF SInv, PanicsAreOverflow
<1> QED
  BY <1>2, <1>4, <1>5, <1>6, <1>7, <1>8 DEF SInv

-----------------------------------------------------------------------------
(* The results.                                                            *)

\* The inductive invariant holds initially.
LEMMA StartupInvInitially == Init => SInv
<1> SUFFICES ASSUME Init PROVE SInv
  OBVIOUS
<1>1. NoDevice \in Device /\ DeviceInv
  BY DEF Init, DeviceInv, NoDevice, Device
<1>2. 0 \in 0 .. KeyLengthB64
  BY Lengths
<1>3. TypeOK
  BY <1>1, <1>2 DEF Init, TypeOK
<1>4. PskInv
  BY DEF Init, PskInv, NoSilentTruncation
<1>5. IdsInv /\ TlsInv /\ WorkerInv /\ PanicsAreOverflow
  BY DEF Init, IdsInv, AfterIds, TlsInv, AfterTls, WorkerInv, PanicsAreOverflow
<1> QED
  BY <1>1, <1>3, <1>4, <1>5 DEF SInv

\* Every step keeps the inductive invariant.
LEMMA StartupInvPreserved == SInv /\ [Next]_vars => SInv'
<1> SUFFICES ASSUME SInv, [Next]_vars PROVE SInv'
  OBVIOUS
<1>1. CASE StartUp
  BY <1>1, PskKeeps, ConfigureKeeps, HandlerKeeps DEF StartUp
<1>2. CASE LoadFails \/ ReadFails \/ BuildFails \/ BindFails
  BY <1>2, RefuseKeeps DEF LoadFails, ReadFails, BuildFails, BindFails
<1>3. CASE Exit \/ WorkerStarts \/ WorkerFails
  BY <1>3, WorkerKeeps
<1>4. CASE StartDevice \/ StopDevice \/ Fetch
  BY <1>4, DeviceKeeps
<1>5. CASE UNCHANGED vars
  <2>1. UNCHANGED <<given, config, build, stage, why, file, red, psk, tls, handler,
                    erase_after, participant, worker, slot, device, fetched>>
    BY <1>5 DEF vars, given, pskVars, madeVars, workerVars, etsiVars
  <2>2. TypeOK'
    BY <2>1 DEF SInv, TypeOK
  <2>3. PskInv' /\ IdsInv' /\ TlsInv' /\ DeviceInv'
    BY <2>1 DEF SInv, PskInv, NoSilentTruncation, Size, IdsInv, TlsInv, DeviceInv
  <2>4. WorkerInv' /\ PanicsAreOverflow'
    BY <2>1, Frame DEF SInv, WorkerInv, PanicsAreOverflow
  <2> QED
    BY <2>2, <2>3, <2>4 DEF SInv
<1> QED
  BY <1>1, <1>2, <1>3, <1>4, <1>5 DEF Next

\* The inductive invariant holds in every reachable state.
LEMMA StartupInvariance == Spec => []SInv
BY StartupInvInitially, StartupInvPreserved, PTL DEF Spec

\* Type correctness of the start-up: the buffer is not overrun (util.rs:15-28), and
\* a daemon that runs has everything from_config makes (setup.rs:106-136).
THEOREM StartupTypeCorrect == Spec => []TypeOK
<1>1. SInv => TypeOK
  BY DEF SInv
<1> QED
  BY <1>1, StartupInvariance, PTL

\* A PSK file is used as a whole or not at all, for every length of keys, every
\* file, and in whatever portions it is read (util.rs:11-31, 43-58).
THEOREM PskNeverCut == Spec => []NoSilentTruncation
<1>1. SInv => NoSilentTruncation
  BY DEF SInv, PskInv
<1> QED
  BY <1>1, StartupInvariance, PTL

\* The start-up panics only when the interval overflows in a debug build: every
\* expect() relies on what was checked before (setup.rs:89-95, 157, wireguard.rs:23).
THEOREM OnlyOverflowPanics == Spec => []PanicsAreOverflow
<1>1. SInv => PanicsAreOverflow
  BY DEF SInv
<1> QED
  BY <1>1, StartupInvariance, PTL

\* A daemon that runs has its dead man's switch, with a deadline after the next
\* key, except for broken brokers and the overflows of clock and sum
\* (setup.rs:153-158, deadman.rs:97-103).
THEOREM RunningHasDeadman == Spec => []RunningIsGuarded
<1>1. SInv => RunningIsGuarded
  <2> SUFFICES ASSUME SInv, stage = "running"
               PROVE  /\ \/ worker \in {"starting", "waiting", "failed"}
                         \/ RekeySecs > MaxDuration - Margin
                      /\ \/ erase_after > RekeySecs
                         \/ build = "release" /\ RekeySecs > MaxU64 - Margin
    BY DEF RunningIsGuarded
  <2>1. /\ TypeOK
        /\ worker \in {"starting", "waiting", "failed", "panicked"}
        /\ erase_after = AddMargin(RekeySecs)
        /\ erase_after # None
        /\ worker = "panicked" => erase_after > MaxDuration
    BY DEF SInv, TypeOK, WorkerInv
  <2>2. /\ RekeySecs \in Nat /\ Margin \in Nat \ {0} /\ MaxU64 \in Nat
        /\ MaxDuration \in Nat /\ MaxDuration <= MaxU64
    BY <2>1, ConfigParts, StartupAssumption
  <2>3. CASE erase_after = RekeySecs + Margin
    BY <2>1, <2>2, <2>3
  <2>4. CASE RekeySecs + Margin > MaxU64 /\ build = "release"
    BY <2>2, <2>4
  <2> QED
    BY <2>1, <2>3, <2>4, Deadline
<1> QED
  BY <1>1, StartupInvariance, PTL

\* Only an answered request of a running daemon yields a key.
LEMMA FetchOnly ==
  ASSUME [Next]_vars, ~fetched, fetched'
  PROVE  stage = "running" /\ Answers(config.etsi014, tls, device)
<1>1. fetched' # fetched
  OBVIOUS
<1>2. Fetch
  BY <1>1 DEF Next, StartUp, Load, NoPskFile, OpenPskFile, ReadSome, ReadDone, UseBuffer,
              DecodeIds, ConfigureEtsi, NoSingleHandler, UseOutfile, UseWireGuard,
              StartDeadman, Panic, Refuse, Run, LoadFails, ReadFails, BuildFails, BindFails,
              Exit, WorkerStarts, WorkerFails, StartDevice, StopDevice, vars, etsiVars
<1> QED
  BY <1>2 DEF Fetch

\* What a TLS configuration has of the daemon's.
LEMMA TlsParts ==
  ASSUME SInv, stage = "running"
  PROVE  /\ tls.no_server_name
              = config.etsi014.danger_allow_insecure_no_server_name_certificates
         /\ tls.client_cert # None => ClientAuth(config.etsi014)
         /\ \A a \in tls.roots : config.etsi014.tls_cacert /\ tls.roots = {a}
BY DEF SInv, TlsInv, AfterTls, configure_rustls, Roots

\* Over https keys come only from a device with a certificate of the configured CA,
\* within its dates and for the right name, the dangerous option relaxing nothing
\* but the name (etsi014.rs:39-98, 204-269).
THEOREM DeviceIsTrusted == Spec => OnlyTrustedDevice
<1> DEFINE Trusted ==
      ~fetched /\ fetched' /\ config.etsi014.https =>
        LET c == device.certificate
        IN  /\ config.etsi014.tls_cacert
            /\ tls.roots = {c.issuer}
            /\ c.current
            /\ \/ c.named
               \/ config.etsi014.danger_allow_insecure_no_server_name_certificates
<1>1. SInv /\ [Next]_vars => [Trusted]_vars
  <2> SUFFICES ASSUME SInv, [Next]_vars, ~fetched, fetched', config.etsi014.https
               PROVE  LET c == device.certificate
                      IN  /\ config.etsi014.tls_cacert
                          /\ tls.roots = {c.issuer}
                          /\ c.current
                          /\ \/ c.named
                             \/ config.etsi014.danger_allow_insecure_no_server_name_certificates
    OBVIOUS
  <2>1. stage = "running" /\ verify_server_cert(tls, device.certificate)
    BY FetchOnly DEF Answers, Connects, Handshake
  <2> DEFINE c == device.certificate
  <2>2. /\ c.issuer \in tls.roots
        /\ c.current
        /\ c.named \/ tls.no_server_name
    BY <2>1 DEF verify_server_cert, WebPkiVerdict, NoServerNameVerification
  <2> QED
    BY <2>1, <2>2, TlsParts
<1> QED
  BY <1>1, StartupInvariance, PTL DEF Spec, OnlyTrustedDevice

\* A simulator that was given a CA answers only daemons configured with a certificate
\* of that CA and its key, or, for want of a certificate of its own, everybody, over
\* plain HTTP (simulator/src/main.rs:166-180, 205-215, etsi014.rs:112-113, 229-257).
THEOREM DeviceKnowsClients == Spec => ClientsAuthenticated
<1> DEFINE Authenticated ==
      ~fetched /\ fetched' /\ device.ca_path # None =>
        \/ /\ config.etsi014.tls_cert /\ config.etsi014.tls_key
           /\ tls.client_cert = device.ca_path
        \/ device.certificate = None /\ ~config.etsi014.https
<1>1. SInv /\ [Next]_vars => [Authenticated]_vars
  <2> SUFFICES ASSUME SInv, [Next]_vars, ~fetched, fetched', device.ca_path # None
               PROVE  \/ /\ config.etsi014.tls_cert /\ config.etsi014.tls_key
                         /\ tls.client_cert = device.ca_path
                      \/ device.certificate = None /\ ~config.etsi014.https
    OBVIOUS
  <2>1. stage = "running" /\ Answers(config.etsi014, tls, device)
    BY FetchOnly
  <2>2. CASE config.etsi014.https
    <3>1. device.serves = "tls" /\ device.client_ca \in {None, tls.client_cert}
      BY <2>1, <2>2 DEF Answers, Connects, Handshake
    <3>2. device.client_ca = device.ca_path
      BY <3>1 DEF SInv, DeviceInv
    <3>3. tls.client_cert = device.ca_path
      BY <3>1, <3>2
    <3> QED
      BY <2>1, <3>3, TlsParts DEF ClientAuth
  <2>3. CASE ~config.etsi014.https
    <3>1. device.serves = "plain"
      BY <2>1, <2>3 DEF Answers, Connects
    <3> QED
      BY <2>3, <3>1 DEF SInv, DeviceInv
  <2> QED
    BY <2>2, <2>3
<1> QED
  BY <1>1, StartupInvariance, PTL DEF Spec, ClientsAuthenticated

=============================================================================
