---------------------------- MODULE MCOskDeadman ----------------------------
(* OskDeadman on small instances: a handful of keys.                       *)
EXTENDS OskDeadman
=============================================================================
