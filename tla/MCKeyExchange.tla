--------------------------- MODULE MCKeyExchange ---------------------------
(* KeyExchange on small instances.                                         *)
EXTENDS KeyExchange
=============================================================================
