------------------------ MODULE MCConnectionManager ------------------------
(* ConnectionManager on small instances.                                   *)
EXTENDS ConnectionManager
=============================================================================
