----------------------------- MODULE CloseChain -----------------------------
(***************************************************************************)
(* What one device's connections and their ends promise each other: a      *)
(* session may begin at any time, but gets its link only when nothing that *)
(* earlier sessions left behind is pending; each session that ends leaves  *)
(* one close behind, with its audio-flow task, and they end one by one.    *)
(***************************************************************************)
EXTENDS Naturals

VARIABLES
    session,    \* "none", "attempt" without a link, or "linked"
    pending     \* closes of ended sessions that are not over

vars == <<session, pending>>

Init == session = "none" /\ pending = 0

Begins == session = "none" /\ session' = "attempt" /\ UNCHANGED pending
Links  == session = "attempt" /\ pending = 0 /\ session' = "linked" /\ UNCHANGED pending
Ends   == session # "none" /\ session' = "none" /\ pending' = pending + 1
Over   == pending > 0 /\ pending' = pending - 1 /\ UNCHANGED session

Next == Begins \/ Links \/ Ends \/ Over

Spec == Init /\ [][Next]_vars
=============================================================================
