----------------------------- MODULE EtsiAccess -----------------------------
(***************************************************************************)
(* Access to the QKD device: what a daisyway daemon makes of the TLS        *)
(* options of its configuration (etsi014.rs), what the QKD simulator makes  *)
(* of its command line (simulator/src/main.rs), and whether a request of    *)
(* the one is answered by the other.                                       *)
(*                                                                         *)
(* A certificate is told by who issued it, whether it is valid for the     *)
(* name in the URL and whether it is within its dates.  Signatures are     *)
(* left to rustls.                                                         *)
(***************************************************************************)
CONSTANTS None,
          Malformed,     \* a file that cannot be read or decoded
          Authorities    \* CA certificates

ASSUME AccessAssumption == /\ None \notin Authorities
                           /\ Malformed \notin Authorities
                           /\ None # Malformed

Certificate == [issuer : Authorities, named : BOOLEAN, current : BOOLEAN]

\* Which options of the etsi014 section are given; root: the URL has no path of
\* its own.
Etsi014Config == [https : BOOLEAN, root : BOOLEAN, tls_cacert : BOOLEAN,
                  tls_cert : BOOLEAN, tls_key : BOOLEAN,
                  danger_allow_insecure_no_server_name_certificates : BOOLEAN]

\* client_auth is an Option that is flattened into the section: with one of its
\* two fields missing it is None.
ClientAuth(config) == config.tls_cert /\ config.tls_key

-----------------------------------------------------------------------------
(* The daemon.                                                             *)

\* A rustls::ClientConfig.
ClientConfig == [roots : SUBSET Authorities,
                 client_cert : Authorities \cup {None},
                 no_server_name : BOOLEAN]

\* Which root certificates are loaded when tls_cacert holds cacert.
Roots(config, cacert) == IF config.tls_cacert THEN {cacert} ELSE {}

\* configure_rustls succeeds.  cacert and cert are what the files hold, the
\* latter standing for the client's certificate and key: their issuer, or
\* Malformed, also for a key that does not fit the certificate.  A verifier
\* without a root certificate cannot be built (NoServerNameVerification::from_roots).
CanConfigureRustls(config, cacert, cert) ==
  /\ config.tls_cacert => cacert # Malformed
  /\ ClientAuth(config) => cert # Malformed
  /\ config.danger_allow_insecure_no_server_name_certificates
       => Roots(config, cacert) # {}

configure_rustls(config, cacert, cert) ==
  [roots |-> Roots(config, cacert),
   client_cert |-> IF ClientAuth(config) THEN cert ELSE None,
   no_server_name |-> config.danger_allow_insecure_no_server_name_certificates]

\* WebPkiServerVerifier::verify_server_cert: the name is looked at last.
WebPkiVerdict(roots, certificate) ==
  CASE certificate.issuer \notin roots -> "UnknownIssuer"
    [] certificate.issuer \in roots /\ ~certificate.current -> "Expired"
    [] certificate.issuer \in roots /\ certificate.current /\ ~certificate.named
         -> "NotValidForName"
    [] OTHER -> "Ok"

\* Faulty variant: any error about the certificate is overlooked.
OverlooksEveryError(verdict) == TRUE

\* NoServerNameVerification::verify_server_cert overlooks one error of the inner
\* verifier.
NoServerNameVerification(verdict) == verdict \in {"Ok", "NotValidForName"}

verify_server_cert(tls, certificate) ==
  LET verdict == WebPkiVerdict(tls.roots, certificate)
  IN  IF tls.no_server_name THEN NoServerNameVerification(verdict) ELSE verdict = "Ok"

-----------------------------------------------------------------------------
(* The simulator.                                                          *)

\* Which options are given.
Args == [cert_path : BOOLEAN, key_path : BOOLEAN, ca_path : BOOLEAN]

\* State of a device: it serves "tls", "plain" HTTP or nothing; the certificate it
\* shows; the authority whose clients it admits, None if it admits everybody; and
\* what is in the CA file that its operator gave it, None without one.
Device == [serves : {"tls", "plain", "nothing"}, certificate : Certificate \cup {None},
           client_ca : Authorities \cup {None},
           ca_path : Authorities \cup {Malformed, None}]
NoDevice == [serves |-> "nothing", certificate |-> None, client_ca |-> None,
             ca_path |-> None]

\* Without a certificate and a key the simulator serves HTTP, ca_path or not.
UsesTls(args) == args.cert_path /\ args.key_path

\* main refuses half a pair; load_tls_config panics on a file it cannot load.
CanStart(args, certificate, ca) ==
  /\ args.cert_path = args.key_path
  /\ UsesTls(args) => certificate # Malformed /\ (args.ca_path => ca # Malformed)

\* Faulty variant: the CA is loaded, but clients need not authenticate.
load_tls_config_no_client_auth(certificate, ca) ==
  [serves |-> "tls", certificate |-> certificate, client_ca |-> None, ca_path |-> ca]

load_tls_config(certificate, ca) ==
  [serves |-> "tls", certificate |-> certificate, client_ca |-> ca, ca_path |-> ca]

\* The simulator once it listens; over plain HTTP the CA file is not looked at.
Serving(args, certificate, ca) ==
  LET ca_path == IF args.ca_path THEN ca ELSE None
  IN  IF UsesTls(args) THEN load_tls_config(certificate, ca_path)
      ELSE [NoDevice EXCEPT !.serves = "plain", !.ca_path = ca_path]

-----------------------------------------------------------------------------
(* A request.                                                              *)

\* rustls on both sides: the daemon accepts the device's certificate, and the
\* device the daemon's where it wants one.
Handshake(tls, device) ==
  /\ device.serves = "tls"
  /\ verify_server_cert(tls, device.certificate)
  /\ device.client_ca \in {None, tls.client_cert}

\* fetch_key_internal gets an answer with a status; the simulator redirects nobody.
Connects(config, tls, device) ==
  IF config.https THEN Handshake(tls, device) ELSE device.serves = "plain"

\* handle_request: a URL with a path of its own leads to 404, which
\* fetch_key_internal reports as an error.
Answers(config, tls, device) == Connects(config, tls, device) /\ config.root

=============================================================================
