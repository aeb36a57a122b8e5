------------------------- MODULE KeyAgreementProofs -------------------------
(***************************************************************************)
(* Both ends derive the same key from a negotiation exactly when they are  *)
(* configured for the same tunnel, and no key is derived twice: for every  *)
(* set of PSKs and peers, every number of sessions and negotiations, and   *)
(* every number of restarts of the simulator.                              *)
(***************************************************************************)
EXTENDS KeyAgreement, TLAPS

-----------------------------------------------------------------------------
(* Facts about the operators.                                              *)

\* The connection id does not depend on which end computes it, and tells any two
\* different pairs of peers apart (crypto/basics.rs:55-63).
LEMMA ConnectionIdOfPair ==
  ASSUME NEW a \in PeerIds, NEW b \in PeerIds, NEW c \in PeerIds, NEW d \in PeerIds
  PROVE  WireGuardConnectionId(a, b) = WireGuardConnectionId(c, d)
           <=> {a, b} = {c, d}
BY AgreementAssumption DEF WireGuardConnectionId

\* An id survives its way through a RekeyReq (crypto/server.rs:60,
\* crypto/client.rs:59).
LEMMA IdRoundTrip == ASSUME NEW u \in Nat PROVE FromBytes(AsBytes(u)) = u
BY DEF FromBytes, AsBytes, Byte

\* The bytes of an id, and of a key of the simulator.
LEMMA ByteTypes ==
  ASSUME NEW u \in Nat
  PROVE  /\ AsBytes(u) \in Seq(Nat)
         /\ ToBytesLe(u) \in Seq(Nat)
         /\ SimulatorKey(u) \in Seq(Nat)
<1>1. u \div Byte \in Nat /\ u % Byte \in Nat
  BY DEF Byte
<1>2. AsBytes(u) \in Seq(Nat) /\ ToBytesLe(u) \in Seq(Nat)
  BY <1>1 DEF AsBytes, ToBytesLe
<1> QED
  BY <1>2 DEF SimulatorKey

\* The key of the device with the given id.
WholeKey(u) == [id |-> u, key |-> [bytes |-> SimulatorKey(u), len |-> KeyLen]]

\* It is a key of the QKD device.
LEMMA WholeKeyType == ASSUME NEW u \in Nat PROVE WholeKey(u) \in Etsi014Keys
BY ByteTypes DEF WholeKey, Etsi014Keys

\* An answer that is accepted holds exactly that key (etsi014.rs:133-171).
LEMMA AcceptedAnswer ==
  ASSUME NEW u \in Nat, NEW answer \in Answers(u), Decoded(answer) = "ok"
  PROVE  answer.id = u /\ Etsi014Key(answer) = WholeKey(u)
<1>1. answer.key.len = KeyLen
  BY DEF Decoded, Answers
<1> QED
  BY <1>1 DEF Answers, Etsi014Key, WholeKey

\* Derived keys have their type.
LEMMA DeriveType ==
  ASSUME NEW p \in DaisywayProtocolParameters, NEW n \in Nonces, NEW u \in Nat
  PROVE  derive_daisyway_key(p, n, WholeKey(u)) \in DerivedKeys
<1>1. WireGuardConnectionId(p.local_peer_id, p.remote_peer_id)
        \in [first_peer : PeerIds, second_peer : PeerIds]
  BY DEF WireGuardConnectionId, DaisywayProtocolParameters
<1> QED
  BY <1>1, ByteTypes
  DEF derive_daisyway_key, DerivedKeys, Mix, KdfInput, WholeKey,
      DaisywayProtocolParameters

\* Two ends derive the same key from the same negotiation exactly if they have
\* the same PSK and the same pair of peers.
LEMMA DeriveInjective ==
  ASSUME NEW p \in DaisywayProtocolParameters, NEW q \in DaisywayProtocolParameters,
         NEW n \in Nonces, NEW u \in Nat
  PROVE  derive_daisyway_key(p, n, WholeKey(u)) = derive_daisyway_key(q, n, WholeKey(u))
           <=> /\ p.psk = q.psk
               /\ {p.local_peer_id, p.remote_peer_id}
                    = {q.local_peer_id, q.remote_peer_id}
<1> DEFINE i(x) == WireGuardConnectionId(x.local_peer_id, x.remote_peer_id)
<1>1. i(p) = i(q) <=> {p.local_peer_id, p.remote_peer_id}
                        = {q.local_peer_id, q.remote_peer_id}
  BY ConnectionIdOfPair DEF DaisywayProtocolParameters
<1>2. derive_daisyway_key(p, n, WholeKey(u)) = derive_daisyway_key(q, n, WholeKey(u))
        <=> p.psk = q.psk /\ i(p) = i(q)
  BY DEF derive_daisyway_key, Mix, KdfInput
<1> QED
  BY <1>1, <1>2

\* Keys of different negotiations differ.
LEMMA NonceSeparates ==
  ASSUME NEW p, NEW m, NEW n, NEW k, NEW l,
         derive_daisyway_key(p, m, k) = derive_daisyway_key(p, n, l)
  PROVE  m = n
BY DEF derive_daisyway_key, Mix, KdfInput

-----------------------------------------------------------------------------
(* The inductive invariant.                                                *)

\* A negotiation that has been begun, with the QKD key it is about.
Begun(n) == n \in 1 .. nonces /\ used[n] \in Nat

\* Whoever is at a negotiation works with the key it is about.
NegotiationInv ==
  /\ \A s \in Sessions :
       server[s].stage = "ack" => /\ Begun(server[s].nonce)
                                  /\ server[s].key = WholeKey(used[server[s].nonce])
  /\ client.stage = "ack" => /\ Begun(client.nonce)
                             /\ client.key = WholeKey(used[client.nonce])
  /\ \A s \in Sessions :
       rekey_req[s] # NoReq =>
         /\ Begun(rekey_req[s].nonce)
         /\ rekey_req[s].qkd_key_id = AsBytes(used[rekey_req[s].nonce])

\* The client is busy with a request of session s.
ClientBusy(s) == session = s /\ client.stage = "ack"

\* The server's current negotiation is in one place: on its way to the client, in
\* its hands, or acknowledged; between negotiations there is none.
TurnInv ==
  \A s \in Sessions :
    /\ server[s].stage = "fetch" => /\ rekey_req[s] = NoReq
                                    /\ ~ClientBusy(s)
                                    /\ ~rekey_ack[s]
    /\ server[s].stage = "ack" =>
         /\ rekey_req[s] # NoReq => /\ rekey_req[s].nonce = server[s].nonce
                                    /\ ~ClientBusy(s)
                                    /\ ~rekey_ack[s]
         /\ ClientBusy(s) => client.nonce = server[s].nonce /\ ~rekey_ack[s]
         /\ rekey_ack[s] => client_key[server[s].nonce] # None

\* The keys derived are those of the negotiations' QKD keys, the client's first.
DerivedInv ==
  \A n \in Nonces :
    /\ server_key[n] # None =>
         /\ Begun(n)
         /\ server_key[n] = derive_daisyway_key(server_params, n, WholeKey(used[n]))
         /\ client_key[n] # None
    /\ client_key[n] # None =>
         /\ Begun(n)
         /\ client_key[n] = derive_daisyway_key(client_params, n, WholeKey(used[n]))

IInv == TypeOK /\ NegotiationInv /\ TurnInv /\ DerivedInv

-----------------------------------------------------------------------------
(* Type correctness.                                                       *)

\* The initial states have the types.
LEMMA TypeInitially == Init => TypeOK
BY AgreementAssumption DEF Init, TypeOK, Sessions, Nonces, At, NoReq

\* Every step keeps the types, as long as the negotiations are about whole keys.
LEMMA TypePreserved == TypeOK /\ NegotiationInv /\ [Next]_vars => TypeOK'
<1> SUFFICES ASSUME TypeOK, NegotiationInv, [Next]_vars PROVE TypeOK'
  OBVIOUS
<1> USE AgreementAssumption DEF TypeOK, paramVars, historyVars
<1>1. ASSUME NEW s \in Sessions, ServerRequest(s) PROVE TypeOK'
  <2>1. PICK answer \in Answers(counter) :
          /\ Decoded(answer) = "ok"
          /\ server' = [server EXCEPT ![s] = [stage |-> "ack", nonce |-> nonces + 1,
                                              key |-> Etsi014Key(answer)]]
          /\ rekey_req' = [rekey_req EXCEPT ![s] =
                             [qkd_key_id |-> AsBytes(answer.id), nonce |-> nonces + 1]]
          /\ used' = [used EXCEPT ![nonces + 1] = answer.id]
    BY <1>1 DEF ServerRequest
  <2>2. answer.id = counter /\ Etsi014Key(answer) = WholeKey(counter)
    BY <2>1, AcceptedAnswer
  <2>3. nonces + 1 \in Nonces /\ nonces' = nonces + 1 /\ counter' \in Nat
    BY <1>1 DEF ServerRequest, NextKeyId, Nonces
  <2>4. [stage |-> "ack", nonce |-> nonces + 1, key |-> Etsi014Key(answer)]
          \in Negotiations
    BY <2>2, <2>3, WholeKeyType DEF Negotiations
  <2>5. [qkd_key_id |-> AsBytes(answer.id), nonce |-> nonces + 1] \in RekeyReqs
    BY <2>2, <2>3, ByteTypes DEF RekeyReqs
  <2>6. /\ server' \in [Sessions -> {At("fetch"), At("closed")} \cup Negotiations]
        /\ rekey_req' \in [Sessions -> {NoReq} \cup RekeyReqs]
        /\ used' \in [Nonces -> {None} \cup Nat]
    BY <2>1, <2>2, <2>3, <2>4, <2>5
  <2> QED
    BY <1>1, <2>3, <2>6 DEF ServerRequest, Nonces
<1>2. ASSUME NEW s \in Sessions, ServerNoKey(s) PROVE TypeOK'
  BY <1>2 DEF ServerNoKey, NextKeyId
<1>3. ASSUME NEW s \in Sessions, ServerDerive(s) PROVE TypeOK'
  <2> DEFINE k == derive_daisyway_key(server_params, server[s].nonce, server[s].key)
  <2>1. server[s].nonce \in Nonces
    BY <1>3 DEF ServerDerive, Negotiations, At
  <2>2. k \in DerivedKeys
    BY <1>3, <2>1, DeriveType DEF ServerDerive, NegotiationInv, Begun
  <2>3. server_key' = [server_key EXCEPT ![server[s].nonce] = k]
    BY <1>3 DEF ServerDerive
  <2> HIDE DEF k
  <2>4. server_key' \in [Nonces -> {None} \cup DerivedKeys]
    BY <2>2, <2>3
  <2> QED
    BY <1>3, <2>4 DEF ServerDerive
<1>4. ASSUME NEW s \in Sessions, ServerCloses(s) PROVE TypeOK'
  BY <1>4 DEF ServerCloses
<1>5. CASE ClientFetch
  <2>1. rekey_req[session] \in RekeyReqs
    BY <1>5 DEF ClientFetch
  <2>2. Begun(rekey_req[session].nonce)
    BY <1>5 DEF ClientFetch, NegotiationInv
  <2>3. FromBytes(rekey_req[session].qkd_key_id) = used[rekey_req[session].nonce]
    BY <1>5, <2>2, IdRoundTrip DEF ClientFetch, NegotiationInv, Begun
  <2>4. client' \in Negotiations
    BY <1>5, <2>1, <2>2, <2>3, AcceptedAnswer, WholeKeyType
    DEF ClientFetch, Begun, RekeyReqs, Negotiations
  <2> QED
    BY <1>5, <2>4 DEF ClientFetch
<1>6. CASE ClientDerive
  <2> DEFINE k == derive_daisyway_key(client_params, client.nonce, client.key)
  <2>1. client.nonce \in Nonces
    BY <1>6 DEF ClientDerive, Negotiations, At
  <2>2. k \in DerivedKeys
    BY <1>6, <2>1, DeriveType DEF ClientDerive, NegotiationInv, Begun
  <2>3. client_key' = [client_key EXCEPT ![client.nonce] = k]
    BY <1>6 DEF ClientDerive
  <2> HIDE DEF k
  <2>4. client_key' \in [Nonces -> {None} \cup DerivedKeys]
    BY <2>2, <2>3
  <2> QED
    BY <1>6, <2>4 DEF ClientDerive
<1>7. CASE ClientReconnects
  BY <1>7 DEF ClientReconnects, Sessions
<1>8. CASE ClientPanics
  BY <1>8 DEF ClientPanics
<1>9. CASE SimulatorRestart
  BY <1>9 DEF SimulatorRestart
<1>10. CASE UNCHANGED vars
  BY <1>10 DEF vars
<1> QED
  BY <1>1, <1>2, <1>3, <1>4, <1>5, <1>6, <1>7, <1>8, <1>9, <1>10 DEF Next

-----------------------------------------------------------------------------
(* The other parts are preserved.                                          *)

\* Negotiations that have begun stay what they are.
LEMMA BegunForGood ==
  ASSUME TypeOK, [Next]_vars
  PROVE  \A n : Begun(n) => Begun(n)' /\ used'[n] = used[n]
<1> USE DEF TypeOK, paramVars, historyVars, Begun
<1>1. ASSUME NEW s \in Sessions, ServerRequest(s)
      PROVE  \A n : Begun(n) => Begun(n)' /\ used'[n] = used[n]
  <2>1. nonces' = nonces + 1 /\ \E u : used' = [used EXCEPT ![nonces + 1] = u]
    BY <1>1 DEF ServerRequest
  <2> QED
    BY <2>1, AgreementAssumption DEF Nonces
<1>2. CASE UNCHANGED <<nonces, used>>
  BY <1>2
<1>3. (\E s \in Sessions : ServerRequest(s)) \/ UNCHANGED <<nonces, used>>
  BY DEF Next, vars, ServerNoKey, ServerDerive, ServerCloses, ClientFetch,
         ClientDerive, ClientReconnects, ClientPanics, SimulatorRestart
<1> QED
  BY <1>1, <1>2, <1>3

\* A new negotiation is about the key that the device has just handed out.
LEMMA RequestEffect ==
  ASSUME TypeOK, NEW s \in Sessions, ServerRequest(s)
  PROVE  /\ nonces + 1 \in Nonces
         /\ nonces' = nonces + 1
         /\ used' = [used EXCEPT ![nonces + 1] = counter]
         /\ server' = [server EXCEPT ![s] = [stage |-> "ack", nonce |-> nonces + 1,
                                             key |-> WholeKey(counter)]]
         /\ rekey_req' = [rekey_req EXCEPT ![s] =
                            [qkd_key_id |-> AsBytes(counter), nonce |-> nonces + 1]]
<1>1. nonces + 1 \in Nonces /\ nonces' = nonces + 1
  BY AgreementAssumption DEF ServerRequest, TypeOK, Nonces
<1>2. \A answer \in Answers(counter) :
        Decoded(answer) = "ok" => /\ answer.id = counter
                                  /\ Etsi014Key(answer) = WholeKey(counter)
  BY AcceptedAnswer DEF TypeOK
<1> QED
  BY <1>1, <1>2 DEF ServerRequest

\* The client fetches the key that the negotiation is about.
LEMMA FetchEffect ==
  ASSUME TypeOK, NegotiationInv, ClientFetch
  PROVE  /\ rekey_req[session] # NoReq
         /\ Begun(rekey_req[session].nonce)
         /\ client' = [stage |-> "ack", nonce |-> rekey_req[session].nonce,
                       key |-> WholeKey(used[rekey_req[session].nonce])]
<1>1. rekey_req[session] # NoReq /\ Begun(rekey_req[session].nonce)
  BY DEF ClientFetch, NegotiationInv, TypeOK
<1>2. FromBytes(rekey_req[session].qkd_key_id) = used[rekey_req[session].nonce]
  BY <1>1, IdRoundTrip DEF NegotiationInv, TypeOK, Begun
<1> QED
  BY <1>1, <1>2, AcceptedAnswer DEF ClientFetch, Begun

\* Every step keeps what the negotiations are about.
LEMMA NegotiationPreserved ==
  TypeOK /\ NegotiationInv /\ [Next]_vars => NegotiationInv'
<1> SUFFICES ASSUME TypeOK, NegotiationInv, [Next]_vars PROVE NegotiationInv'
  OBVIOUS
<1>0. \A n : Begun(n) => Begun(n)' /\ used'[n] = used[n]
  BY BegunForGood
<1>1. ASSUME NEW s \in Sessions, ServerRequest(s) PROVE NegotiationInv'
  <2>1. \A n : n = nonces + 1 => Begun(n)' /\ used'[n] = counter
    BY <1>1, RequestEffect, AgreementAssumption DEF Begun, TypeOK, Nonces
  <2>2. client' = client
    BY <1>1 DEF ServerRequest
  <2> QED
    BY <1>0, <1>1, <2>1, <2>2, RequestEffect DEF NegotiationInv, TypeOK
<1>2. ASSUME NEW s \in Sessions, ServerNoKey(s) \/ ServerDerive(s) \/ ServerCloses(s)
      PROVE  NegotiationInv'
  <2>1. /\ server' = [server EXCEPT ![s] = At("closed")]
             \/ server' = [server EXCEPT ![s] = At("fetch")]
        /\ UNCHANGED <<client, rekey_req>>
    BY <1>2 DEF ServerNoKey, ServerDerive, ServerCloses
  <2> QED
    BY <1>0, <2>1 DEF NegotiationInv, TypeOK, At
<1>3. CASE ClientFetch
  <2>1. /\ server' = server
        /\ rekey_req' = [rekey_req EXCEPT ![session] = NoReq]
    BY <1>3 DEF ClientFetch
  <2> QED
    BY <1>0, <1>3, <2>1, FetchEffect DEF NegotiationInv, TypeOK
<1>4. CASE ClientDerive \/ ClientReconnects \/ ClientPanics
  <2>1. /\ client' = At("read") \/ client' = At("dead")
        /\ UNCHANGED <<server, rekey_req>>
    BY <1>4 DEF ClientDerive, ClientReconnects, ClientPanics
  <2> QED
    BY <1>0, <2>1 DEF NegotiationInv, At
<1>5. CASE SimulatorRestart \/ UNCHANGED vars
  <2>1. UNCHANGED <<server, client, rekey_req>>
    BY <1>5 DEF SimulatorRestart, vars
  <2> QED
    BY <1>0, <2>1 DEF NegotiationInv
<1> QED
  BY <1>1, <1>2, <1>3, <1>4, <1>5 DEF Next

\* Every step keeps the server's negotiation in one place.
LEMMA TurnPreserved ==
  TypeOK /\ NegotiationInv /\ TurnInv /\ [Next]_vars => TurnInv'
<1> SUFFICES ASSUME TypeOK, NegotiationInv, TurnInv, [Next]_vars PROVE TurnInv'
  OBVIOUS
<1> USE DEF TurnInv, ClientBusy
<1>1. ASSUME NEW s \in Sessions, ServerRequest(s) PROVE TurnInv'
  <2>1. UNCHANGED <<client, session, rekey_ack, client_key>>
    BY <1>1 DEF ServerRequest
  <2>2. server[s].stage = "fetch"
    BY <1>1 DEF ServerRequest
  <2> QED
    BY <1>1, <2>1, <2>2, RequestEffect DEF TypeOK
<1>2. ASSUME NEW s \in Sessions, ServerNoKey(s) \/ ServerCloses(s) PROVE TurnInv'
  BY <1>2 DEF ServerNoKey, ServerCloses, TypeOK, At, historyVars
<1>3. ASSUME NEW s \in Sessions, ServerDerive(s) PROVE TurnInv'
  BY <1>3 DEF ServerDerive, TypeOK, At
<1>4. CASE ClientFetch
  <2>1. /\ rekey_req' = [rekey_req EXCEPT ![session] = NoReq]
        /\ UNCHANGED <<server, session, rekey_ack, client_key>>
        /\ client.stage = "read"
    BY <1>4 DEF ClientFetch, historyVars
  <2> QED
    BY <1>4, <2>1, FetchEffect DEF TypeOK
<1>5. CASE ClientDerive
  <2> DEFINE k == derive_daisyway_key(client_params, client.nonce, client.key)
  <2>1. client.nonce \in Nonces
    BY <1>5 DEF ClientDerive, TypeOK, Negotiations, At
  <2>2. k # None
    BY <1>5, <2>1, DeriveType, NoneIsNoKey DEF ClientDerive, NegotiationInv, Begun, TypeOK
  <2>3. /\ client_key' = [client_key EXCEPT ![client.nonce] = k]
        /\ rekey_ack' = [rekey_ack EXCEPT ![session] = TRUE]
        /\ client.stage = "ack"
        /\ client' = At("read")
        /\ UNCHANGED <<server, session, rekey_req>>
    BY <1>5 DEF ClientDerive
  <2> HIDE DEF k
  <2>4. \A n \in Nonces : client_key[n] # None => client_key'[n] # None
    BY <2>2, <2>3 DEF TypeOK
  <2>5. \A s \in Sessions : server[s].stage = "ack" => server[s].nonce \in Nonces
    BY DEF TypeOK, Negotiations, At
  <2> QED
    BY <2>1, <2>2, <2>3, <2>4, <2>5 DEF TypeOK, At
<1>6. CASE ClientReconnects \/ ClientPanics
  BY <1>6 DEF ClientReconnects, ClientPanics, At, historyVars
<1>7. CASE SimulatorRestart \/ UNCHANGED vars
  BY <1>7 DEF SimulatorRestart, vars, historyVars
<1> QED
  BY <1>1, <1>2, <1>3, <1>4, <1>5, <1>6, <1>7 DEF Next

\* Every step keeps what is known of the derived keys.
LEMMA DerivedPreserved == IInv /\ [Next]_vars => DerivedInv'
<1> SUFFICES ASSUME TypeOK, NegotiationInv, TurnInv, DerivedInv, [Next]_vars
             PROVE  DerivedInv'
  BY DEF IInv
<1>0. /\ \A n : Begun(n) => Begun(n)' /\ used'[n] = used[n]
      /\ UNCHANGED <<server_params, client_params>>
  <2>1. UNCHANGED <<server_params, client_params>>
    BY DEF Next, vars, paramVars, ServerRequest, ServerNoKey, ServerDerive,
           ServerCloses, ClientFetch, ClientDerive, ClientReconnects, ClientPanics,
           SimulatorRestart
  <2> QED
    BY <2>1, BegunForGood
<1>1. ASSUME NEW s \in Sessions, ServerDerive(s) PROVE DerivedInv'
  <2>1. /\ server[s].nonce \in Nonces
        /\ Begun(server[s].nonce)
        /\ server[s].key = WholeKey(used[server[s].nonce])
        /\ client_key[server[s].nonce] # None
    BY <1>1 DEF ServerDerive, TypeOK, NegotiationInv, TurnInv, Negotiations, At
  <2>2. /\ server_key' = [server_key EXCEPT ![server[s].nonce] =
                            derive_daisyway_key(server_params, server[s].nonce,
                                                WholeKey(used[server[s].nonce]))]
        /\ client_key' = client_key
    BY <1>1, <2>1 DEF ServerDerive
  <2> QED
    BY <1>0, <2>1, <2>2 DEF DerivedInv, TypeOK
<1>2. CASE ClientDerive
  <2> DEFINE k == derive_daisyway_key(client_params, client.nonce,
                                      WholeKey(used[client.nonce]))
  <2>1. /\ client.nonce \in Nonces
        /\ Begun(client.nonce)
        /\ client.key = WholeKey(used[client.nonce])
    BY <1>2 DEF ClientDerive, TypeOK, NegotiationInv, Negotiations, At
  <2>2. k # None
    BY <2>1, DeriveType, NoneIsNoKey DEF Begun, TypeOK
  <2>3. /\ client_key' = [client_key EXCEPT ![client.nonce] = k]
        /\ server_key' = server_key
    BY <1>2, <2>1 DEF ClientDerive
  <2> QED
    BY <1>0, <2>1, <2>2, <2>3 DEF DerivedInv, TypeOK
<1>3. CASE UNCHANGED <<server_key, client_key>>
  BY <1>0, <1>3 DEF DerivedInv
<1>4. \/ \E s \in Sessions : ServerDerive(s)
      \/ ClientDerive
      \/ UNCHANGED <<server_key, client_key>>
  BY DEF Next, vars, historyVars, ServerRequest, ServerNoKey, ServerCloses,
         ClientFetch, ClientReconnects, ClientPanics, SimulatorRestart
<1> QED
  BY <1>1, <1>2, <1>3, <1>4

-----------------------------------------------------------------------------
(* The results.                                                            *)

\* The inductive invariant holds in every reachable state.
LEMMA Invariance == Spec => []IInv
<1>1. Init => IInv
  <2>1. Init => NegotiationInv /\ TurnInv /\ DerivedInv
    BY DEF Init, NegotiationInv, TurnInv, DerivedInv, ClientBusy, At
  <2> QED
    BY <2>1, TypeInitially DEF IInv
<1>2. IInv /\ [Next]_vars => IInv'
  BY TypePreserved, NegotiationPreserved, TurnPreserved, DerivedPreserved DEF IInv
<1> QED
  BY <1>1, <1>2, PTL DEF Spec

\* Type correctness; in particular no key is derived from a QKD key that does not
\* have KeyLen bytes (etsi014.rs:133-171).
THEOREM TypeCorrect == Spec => []TypeOK
<1>1. IInv => TypeOK
  BY DEF IInv
<1> QED
  BY <1>1, Invariance, PTL

\* The server derives a key only after the client has, and both derive the same
\* one exactly if they are configured for the same tunnel
\* (crypto/basics.rs:98-108, crypto/server.rs:67-75).
THEOREM EndsAgree == Spec => []KeysMatch
<1>1. IInv => KeysMatch
  <2> SUFFICES ASSUME IInv, NEW n \in Nonces, server_key[n] # None
               PROVE  /\ client_key[n] # None
                      /\ server_key[n] = client_key[n] <=> SameTunnel
    BY DEF KeysMatch
  <2>1. /\ client_key[n] # None
        /\ used[n] \in Nat
        /\ server_key[n] = derive_daisyway_key(server_params, n, WholeKey(used[n]))
        /\ client_key[n] = derive_daisyway_key(client_params, n, WholeKey(used[n]))
    BY DEF IInv, DerivedInv, Begun
  <2>2. /\ server_params \in DaisywayProtocolParameters
        /\ client_params \in DaisywayProtocolParameters
    BY DEF IInv, TypeOK
  <2>3. server_key[n] = client_key[n] <=> SameTunnel
    BY <2>1, <2>2, DeriveInjective DEF SameTunnel
  <2> QED
    BY <2>1, <2>3
<1> QED
  BY <1>1, Invariance, PTL

\* No end derives the same key in two negotiations, however often the simulator
\* is restarted and hands out its keys again (crypto/basics.rs:85-107).
THEOREM KeysNeverRepeat == Spec => []NoKeyTwice
<1>1. IInv => NoKeyTwice
  <2> SUFFICES ASSUME IInv, NEW m \in Nonces, NEW n \in Nonces, m # n
               PROVE  /\ server_key[m] # None => server_key[m] # server_key[n]
                      /\ client_key[m] # None => client_key[m] # client_key[n]
    BY DEF NoKeyTwice
  <2> QED
    BY NonceSeparates DEF IInv, DerivedInv
<1> QED
  BY <1>1, Invariance, PTL

=============================================================================
