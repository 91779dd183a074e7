-------------------------- MODULE MCConnectionFlow --------------------------
(* Instances of ConnectionFlow for TLC. *)
EXTENDS ConnectionFlow, TLC

CONSTANTS d1, d2, c1, c2

\* Values of MaxGen: clicks, reconnects and disconnects allowed per device.
ThreeGens     == d1 :> 3
OneGenEach    == d1 :> 1 @@ d2 :> 1
TwoAndOneGens == d1 :> 2 @@ d2 :> 1

\* Connection objects are created in no particular order.
ConnSymmetry == Permutations(Conns)
=============================================================================
