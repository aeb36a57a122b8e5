--------------------------- MODULE MCKeyAgreement ---------------------------
(* KeyAgreement on small instances.                                        *)
EXTENDS KeyAgreement
=============================================================================
