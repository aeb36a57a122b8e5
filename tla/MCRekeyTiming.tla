---------------------------- MODULE MCRekeyTiming ----------------------------
(* RekeyTiming on small instances.                                         *)
EXTENDS RekeyTiming
=============================================================================
