---------------------------- MODULE ExpiringSlot ----------------------------
(***************************************************************************)
(* What the output-key machinery promises to the tunnel that uses it: a    *)
(* slot (the preshared key of a WireGuard peer, or the content of the      *)
(* outfile) that holds either a negotiated key or something that is not    *)
(* one, and in which no negotiated key grows older than Lifetime while a   *)
(* live worker looks after the slot.                                       *)
(*                                                                         *)
(* The module models no code of its own; OskDeadman implements it.         *)
(***************************************************************************)
EXTENDS Naturals

CONSTANTS Keys,      \* negotiated output keys
          NotAKey,   \* slot contents that are not a negotiated key
          Lifetime   \* the most ticks a negotiated key may stay in the slot

VARIABLES osk,       \* content of the slot
          age,       \* ticks osk has been there since the slot was taken over;
                     \* 0 when it is not a key or nobody looks after the slot
          up         \* TRUE iff a live worker looks after the slot

slotVars == <<osk, age, up>>

Init == /\ osk \in Keys \cup NotAKey
        /\ age = 0
        /\ up = TRUE

\* A newly negotiated key replaces whatever is in the slot.
Install(k) == /\ up
              /\ osk' = k
              /\ age' = 0
              /\ UNCHANGED up

\* The content of the slot is destroyed.
Erase == /\ up
         /\ osk' \in NotAKey
         /\ age' = 0
         /\ UNCHANGED up

\* The worker or its process ends: the slot keeps what it holds, unless a write
\* that was under way has destroyed it.
Abandon == /\ up
           /\ up' = FALSE
           /\ age' = 0
           /\ osk' \in NotAKey \cup {osk}

\* A new process takes over the slot and starts to count from zero.
TakeOver == /\ ~up
            /\ up' = TRUE
            /\ UNCHANGED <<osk, age>>

\* Time passes only as long as the key in the slot may still be there.
Pass == /\ up
        /\ osk \in Keys => age < Lifetime
        /\ age' = IF osk \in Keys THEN age + 1 ELSE 0
        /\ UNCHANGED <<osk, up>>

Next == \/ \E k \in Keys : Install(k)
        \/ Erase
        \/ Abandon
        \/ TakeOver
        \/ Pass

Spec == Init /\ [][Next]_slotVars
=============================================================================
