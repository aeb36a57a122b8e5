------------------------------ MODULE MCStartup ------------------------------
(* Startup on small instances: the parts of a configuration that do not    *)
(* meet are varied one at a time, the others being as in the examples.     *)
EXTENDS Startup

PlainEtsi == [https |-> FALSE, root |-> TRUE, tls_cacert |-> FALSE,
              tls_cert |-> FALSE, tls_key |-> FALSE,
              danger_allow_insecure_no_server_name_certificates |-> FALSE]

Example == [etsi014 |-> PlainEtsi, interval_secs |-> None, endpoint |-> TRUE,
            listen |-> FALSE, psk_file |-> TRUE, local_peer_id |-> 32,
            remote_peer_id |-> 32, interface |-> FALSE, outfile |-> TRUE]

\* Roles, handlers, peers and intervals, without a PSK file; peers with a key cut
\* short, too long or malformed; intervals around what the clock and the word hold.
HandlerConfigs ==
  [etsi014 : {PlainEtsi}, interval_secs : {None, 0, 481, 482, 993, 994, 1023},
   endpoint : BOOLEAN, listen : BOOLEAN, psk_file : {FALSE},
   local_peer_id : {32, 31, Malformed}, remote_peer_id : {32, 31, 33, Malformed},
   interface : BOOLEAN, outfile : BOOLEAN]

TlsConfigs == {[Example EXCEPT !.etsi014 = e, !.psk_file = FALSE] : e \in Etsi014Config}

MCConfigs == {Example} \cup HandlerConfigs \cup TlsConfigs

\* No bytes, keys that fill the buffer or not, and files as long as the buffer and
\* longer.
MCPskFiles == [bytes : {0, 1, 30, 31, 32, 33, 34, 36, 48}, newlines : 0 .. 2]
=============================================================================
