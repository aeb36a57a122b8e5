----------------------------- MODULE KeyHandover -----------------------------
(***************************************************************************)
(* What the two daemons promise each other about output keys, whatever      *)
(* connections break and whoever fails: the client commits to keys in an    *)
(* order both know; either end only ever puts keys in use that the client   *)
(* has committed to, and never goes back to an older one.  An end may skip  *)
(* keys and may lag behind the other.                                      *)
(***************************************************************************)
CONSTANTS Keys,        \* keys that negotiations may produce
          NoKey,       \* no key yet
          Newer(_, _)  \* the order of the keys

VARIABLES committed,   \* the keys the client has acknowledged
          client_key,  \* the key the client has last put in use
          server_key   \* the key the server has last put in use

vars == <<committed, client_key, server_key>>

Init == /\ committed = {}
        /\ client_key = NoKey
        /\ server_key = NoKey

Commit(k) == /\ \A j \in committed : Newer(k, j)
             /\ committed' = committed \cup {k}
             /\ UNCHANGED <<client_key, server_key>>

ClientUses(k) == /\ k \in committed
                 /\ Newer(k, client_key)
                 /\ client_key' = k
                 /\ UNCHANGED <<committed, server_key>>

ServerUses(k) == /\ k \in committed
                 /\ Newer(k, server_key)
                 /\ server_key' = k
                 /\ UNCHANGED <<committed, client_key>>

Next == \E k \in Keys : Commit(k) \/ ClientUses(k) \/ ServerUses(k)

Spec == Init /\ [][Next]_vars

=============================================================================
