---------------------------- MODULE KeyAgreement ----------------------------
(***************************************************************************)
(* The key material of the daisyway protocol: which bytes the two ends     *)
(* feed to the key derivation (crypto/basics.rs, crypto/hash_domain.rs),   *)
(* and where they come from: the ETSI 014 client (etsi014.rs), the QKD     *)
(* simulator (simulator/src/main.rs) and the rekey messages                *)
(* (crypto/server.rs, crypto/client.rs).                                   *)
(*                                                                         *)
(* A session is one connection between the two daemons.  The client is on  *)
(* one session at a time, while tasks of the server may still be busy with *)
(* the sessions before it.  Random nonces do not repeat, and hashes do not *)
(* collide.  A UUID is cut down to a number of two bytes.                  *)
(*                                                                         *)
(* Which of the keys reach the tunnels is the subject of KeyExchange.      *)
(***************************************************************************)
EXTENDS Naturals, Sequences

CONSTANTS None,
          Psks,          \* preshared keys of daisyway's own
          PeerIds,       \* WireGuard public keys; as numbers, in byte order
          AnswerCounts,  \* how many keys a QKD device's answer may hold
          AnswerLens,    \* how many bytes a key of an answer may have
          MaxSessions,   \* bound: connections in a run
          MaxNonces,     \* bound: negotiations in a run
          MaxRestarts    \* bound: restarts of the simulator in a run

ASSUME AgreementAssumption == /\ None \notin Nat
                              /\ PeerIds \subseteq Nat
                              /\ AnswerCounts \subseteq Nat
                              /\ AnswerLens \subseteq Nat
                              /\ MaxSessions \in Nat \ {0}
                              /\ MaxNonces \in Nat
                              /\ MaxRestarts \in Nat

Sessions == 1 .. MaxSessions
Nonces == 1 .. MaxNonces

-----------------------------------------------------------------------------
(* Identifiers.                                                            *)

Byte == 256

\* Uuid::as_bytes, Uuid::from_bytes and Uuid::to_bytes_le.
AsBytes(uuid) == <<uuid \div Byte, uuid % Byte>>
FromBytes(bytes) == bytes[1] * Byte + bytes[2]
ToBytesLe(uuid) == <<uuid % Byte, uuid \div Byte>>

-----------------------------------------------------------------------------
(* Key derivation.                                                         *)

DaisywayProtocolParameters ==
  [psk : Psks, local_peer_id : PeerIds, remote_peer_id : PeerIds]

\* Faulty variant: the two peers are not sorted.
ConnectionIdUnsorted(self, peer) == [first_peer |-> self, second_peer |-> peer]

\* WireGuardConnectionId::new sorts the two peers.
WireGuardConnectionId(self, peer) ==
  IF self <= peer THEN [first_peer |-> self, second_peer |-> peer]
                  ELSE [first_peer |-> peer, second_peer |-> self]

\* Faulty variant: the nonce is left out.
KdfInputWithoutNonce(psk, nonce, key, connection_id) ==
  [psk |-> psk, qkd_key |-> key.key, qkd_key_id |-> ToBytesLe(key.id),
   wireguard_connection_id |-> connection_id]

KdfInput(psk, nonce, key, connection_id) ==
  [psk |-> psk, nonce |-> nonce, qkd_key |-> key.key,
   qkd_key_id |-> ToBytesLe(key.id), wireguard_connection_id |-> connection_id]

\* HashDomain::mix: a hash of the chaining key and the data.
Mix(chain, data) == [chain |-> chain, data |-> data]

\* ProtocolDomains::derive_key.
DeriveKeyDomain == Mix(Mix("zero", "Daisyway v1"), "derive key")

derive_daisyway_key(params, nonce, key) ==
  Mix(DeriveKeyDomain,
      KdfInput(params.psk, nonce, key,
               WireGuardConnectionId(params.local_peer_id, params.remote_peer_id)))

-----------------------------------------------------------------------------
(* The QKD device and its client.                                          *)

KeyLen == 32

\* handle_keys: the key of the simulator is its id, twice.
SimulatorKey(uuid) == AsBytes(uuid) \o AsBytes(uuid)

\* An answer of the device to a request for the key uuid; only that of the simulator
\* is sure to hold exactly one key of KeyLen bytes.  That it is the key asked for is
\* taken for granted here and by fetch_specific_key, which does not compare the ids.
Answers(uuid) ==
  [keys : AnswerCounts, id : {uuid},
   key : [bytes : {SimulatorKey(uuid)}, len : AnswerLens]]

\* Length of the Base64 text of n bytes.
EncodedLen(n) == 4 * ((n + 2) \div 3)

\* Faulty variant: a key that is too short is padded with zeros.
DecodedPadded(answer) ==
  IF answer.keys # 1 THEN "error"
  ELSE IF EncodedLen(EncodedLen(answer.key.len)) = KeyLen THEN "panic"
  ELSE IF answer.key.len > KeyLen THEN "panic"
  ELSE "ok"

\* Etsi014Key::try_from: the assertion compares the length of the encoding of
\* the text, and decoding fails when the buffer is too small; both panic.
Decoded(answer) ==
  IF answer.keys # 1 THEN "error"
  ELSE IF EncodedLen(EncodedLen(answer.key.len)) = KeyLen THEN "panic"
  ELSE IF answer.key.len > KeyLen THEN "panic"
  ELSE IF answer.key.len # KeyLen THEN "error"
  ELSE "ok"

Etsi014Key(answer) == [id |-> answer.id, key |-> answer.key]

\* Keys of the QKD device, RekeyReq messages, negotiations under way, and the
\* keys that may come of them.
Etsi014Keys == [id : Nat, key : [bytes : Seq(Nat), len : {KeyLen}]]
RekeyReqs == [qkd_key_id : Seq(Nat), nonce : Nonces]
Negotiations == [stage : {"ack"}, nonce : Nonces, key : Etsi014Keys]

DerivedKeys ==
  [chain : {DeriveKeyDomain},
   data : [psk : Psks, nonce : Nonces, qkd_key : [bytes : Seq(Nat), len : {KeyLen}],
           qkd_key_id : Seq(Nat),
           wireguard_connection_id : [first_peer : PeerIds, second_peer : PeerIds]]]

ASSUME NoneIsNoKey == None \notin DerivedKeys

-----------------------------------------------------------------------------
VARIABLES server_params, client_params,  \* protocol_params of the two ends
          counter,      \* of the simulator: the id of the next key
          restarts,     \* restarts of the simulator so far
          nonces,       \* nonces drawn so far
          session,      \* the session the client is on
          server,       \* per session: the task's negotiation
          client,       \* the client's negotiation
          rekey_req,    \* per session: the RekeyReq on the way
          rekey_ack,    \* per session: TRUE iff a RekeyAck is on the way
          server_key,   \* history: the keys the server derived, by nonce
          client_key,   \* history: the keys the client derived, by nonce
          used          \* history: the QKD keys of the negotiations, by nonce

vars == <<server_params, client_params, counter, restarts, nonces, session,
          server, client, rekey_req, rekey_ack, server_key, client_key, used>>

paramVars == <<server_params, client_params>>
historyVars == <<server_key, client_key, used>>

At(stage) == [stage |-> stage, nonce |-> None, key |-> None]
NoReq == [qkd_key_id |-> None, nonce |-> None]

Init == /\ server_params \in DaisywayProtocolParameters
        /\ client_params \in DaisywayProtocolParameters
        /\ counter = 1
        /\ restarts = 0
        /\ nonces = 0
        /\ session = 1
        /\ server = [s \in Sessions |-> At("fetch")]
        /\ client = At("read")
        /\ rekey_req = [s \in Sessions |-> NoReq]
        /\ rekey_ack = [s \in Sessions |-> FALSE]
        /\ server_key = [n \in Nonces |-> None]
        /\ client_key = [n \in Nonces |-> None]
        /\ used = [n \in Nonces |-> None]

\* The client has opened the session.
Opened(s) == s <= session

-----------------------------------------------------------------------------
(* The server's task of session s: DaisywayServerProtocol::negotiate_key.  *)

\* enc_keys: the simulator counts its keys.
NextKeyId == counter' = counter + 1

\* fetch_any_key, then a RekeyReq with a new nonce is written.
ServerRequest(s) ==
  /\ Opened(s)
  /\ server[s].stage = "fetch"
  /\ nonces < MaxNonces
  /\ nonces' = nonces + 1
  /\ NextKeyId
  /\ \E answer \in Answers(counter) :
       /\ Decoded(answer) = "ok"
       /\ server' = [server EXCEPT ![s] = [stage |-> "ack", nonce |-> nonces + 1,
                                           key |-> Etsi014Key(answer)]]
       /\ rekey_req' = [rekey_req EXCEPT ![s] =
                          [qkd_key_id |-> AsBytes(answer.id), nonce |-> nonces + 1]]
       /\ used' = [used EXCEPT ![nonces + 1] = answer.id]
  /\ UNCHANGED <<paramVars, restarts, session, client, rekey_ack, server_key,
                 client_key>>

\* The device answers with an error, or with something that is not one key of
\* KeyLen bytes: the task ends.
ServerNoKey(s) ==
  /\ Opened(s)
  /\ server[s].stage = "fetch"
  /\ \E answer \in Answers(counter) : Decoded(answer) # "ok"
  /\ server' = [server EXCEPT ![s] = At("closed")]
  /\ NextKeyId
  /\ UNCHANGED <<paramVars, restarts, nonces, session, client, rekey_req,
                 rekey_ack, historyVars>>

\* The acknowledgement is read: derive the key, and sleep until the next round.
ServerDerive(s) ==
  /\ server[s].stage = "ack"
  /\ rekey_ack[s]
  /\ rekey_ack' = [rekey_ack EXCEPT ![s] = FALSE]
  /\ server_key' = [server_key EXCEPT ![server[s].nonce] =
                      derive_daisyway_key(server_params, server[s].nonce,
                                          server[s].key)]
  /\ server' = [server EXCEPT ![s] = At("fetch")]
  /\ UNCHANGED <<paramVars, counter, restarts, nonces, session, client, rekey_req,
                 client_key, used>>

\* The client is gone, or the connection breaks.
ServerCloses(s) ==
  /\ Opened(s)
  /\ server[s].stage # "closed"
  /\ server' = [server EXCEPT ![s] = At("closed")]
  /\ UNCHANGED <<paramVars, counter, restarts, nonces, session, client, rekey_req,
                 rekey_ack, historyVars>>

-----------------------------------------------------------------------------
(* The client: DaisywayClientProtocol::wait_for_key_negotiation.           *)

\* The RekeyReq is read and the key it names is fetched (dec_keys).
ClientFetch ==
  /\ client.stage = "read"
  /\ LET req == rekey_req[session] IN
     /\ req # NoReq
     /\ \E answer \in Answers(FromBytes(req.qkd_key_id)) :
          /\ Decoded(answer) = "ok"
          /\ client' = [stage |-> "ack", nonce |-> req.nonce,
                        key |-> Etsi014Key(answer)]
  /\ rekey_req' = [rekey_req EXCEPT ![session] = NoReq]
  /\ UNCHANGED <<paramVars, counter, restarts, nonces, session, server, rekey_ack,
                 historyVars>>

\* The RekeyAck is written and the key derived.
ClientDerive ==
  /\ client.stage = "ack"
  /\ rekey_ack' = [rekey_ack EXCEPT ![session] = TRUE]
  /\ client_key' = [client_key EXCEPT ![client.nonce] =
                      derive_daisyway_key(client_params, client.nonce, client.key)]
  /\ client' = At("read")
  /\ UNCHANGED <<paramVars, counter, restarts, nonces, session, server, rekey_req,
                 server_key, used>>

\* An error of the connection or the device: connect again.
ClientReconnects ==
  /\ client.stage # "dead"
  /\ session < MaxSessions
  /\ session' = session + 1
  /\ client' = At("read")
  /\ UNCHANGED <<paramVars, counter, restarts, nonces, server, rekey_req, rekey_ack,
                 historyVars>>

\* A malformed answer of the device takes the client's process down.
ClientPanics ==
  /\ client.stage = "read"
  /\ rekey_req[session] # NoReq
  /\ \E answer \in Answers(FromBytes(rekey_req[session].qkd_key_id)) :
       Decoded(answer) = "panic"
  /\ client' = At("dead")
  /\ UNCHANGED <<paramVars, counter, restarts, nonces, session, server, rekey_req,
                 rekey_ack, historyVars>>

-----------------------------------------------------------------------------
\* The simulator is started again and counts from one.
SimulatorRestart ==
  /\ restarts < MaxRestarts
  /\ restarts' = restarts + 1
  /\ counter' = 1
  /\ UNCHANGED <<paramVars, nonces, session, server, client, rekey_req, rekey_ack,
                 historyVars>>

Next == \/ \E s \in Sessions : \/ ServerRequest(s)
                               \/ ServerNoKey(s)
                               \/ ServerDerive(s)
                               \/ ServerCloses(s)
        \/ ClientFetch
        \/ ClientDerive
        \/ ClientReconnects
        \/ ClientPanics
        \/ SimulatorRestart

Spec == Init /\ [][Next]_vars

-----------------------------------------------------------------------------
(* Properties.                                                             *)

\* Every variable has its type; each end keeps a nonce and a QKD key exactly while
\* it negotiates, and only QKD keys of KeyLen bytes (etsi014.rs:133-171).
TypeOK ==
  /\ server_params \in DaisywayProtocolParameters
  /\ client_params \in DaisywayProtocolParameters
  /\ counter \in Nat
  /\ restarts \in 0 .. MaxRestarts
  /\ nonces \in 0 .. MaxNonces
  /\ session \in Sessions
  /\ server \in [Sessions -> {At("fetch"), At("closed")} \cup Negotiations]
  /\ client \in {At("read"), At("dead")} \cup Negotiations
  /\ rekey_req \in [Sessions -> {NoReq} \cup RekeyReqs]
  /\ rekey_ack \in [Sessions -> BOOLEAN]
  /\ server_key \in [Nonces -> {None} \cup DerivedKeys]
  /\ client_key \in [Nonces -> {None} \cup DerivedKeys]
  /\ used \in [Nonces -> {None} \cup Nat]

\* The two ends are configured for the same tunnel.
SameTunnel ==
  /\ server_params.psk = client_params.psk
  /\ {server_params.local_peer_id, server_params.remote_peer_id}
       = {client_params.local_peer_id, client_params.remote_peer_id}

\* When the server derives the key of a negotiation the client has derived one
\* already, and it is the same key exactly if both are configured with the same
\* PSK and the same two peers (crypto/basics.rs:98-108, crypto/server.rs:67-75).
KeysMatch ==
  \A n \in Nonces :
    server_key[n] # None =>
      /\ client_key[n] # None
      /\ server_key[n] = client_key[n] <=> SameTunnel

\* No end ever derives the same key in two negotiations, not even when the QKD
\* device hands out the same key twice (crypto/basics.rs:85-107,
\* simulator/src/main.rs:116-119, 203).
NoKeyTwice ==
  \A m, n \in Nonces :
    m # n => /\ server_key[m] # None => server_key[m] # server_key[n]
             /\ client_key[m] # None => client_key[m] # client_key[n]

=============================================================================
