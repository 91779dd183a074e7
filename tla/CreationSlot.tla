---------------------------- MODULE CreationSlot ----------------------------
(***************************************************************************)
(* What the connection flow may assume of a device's entry in              *)
(* connectionCreations.  A creation runs in the driver, becomes ready, is  *)
(* released by the attempt that waits for it, and frees the slot when the  *)
(* pool thread is done with it.  An attempt may release a creation that is *)
(* not ready; no creation starts while another one occupies the slot.      *)
(***************************************************************************)

VARIABLE slot

Init == slot = "none"

Starts   == slot = "none" /\ slot' = "running"
Ready    == slot = "running" /\ slot' = "ready"
Released == slot \in {"running", "ready"} /\ slot' = "released"
Finishes == slot = "released" /\ slot' = "none"

Next == Starts \/ Ready \/ Released \/ Finishes

Spec == Init /\ [][Next]_slot
=============================================================================
