----------------------------- MODULE RadioCycle -----------------------------
(***************************************************************************)
(* What a Bluetooth recovery promises about the radio: once it has been    *)
(* asked to turn off, the recovery does not end before it has been asked   *)
(* to turn on again, and the recovery reports success only if it saw the   *)
(* radio off and, after that, on.                                          *)
(***************************************************************************)

VARIABLES
    phase,     \* "idle", "preparing", "off", "restoring"
    seenOff,   \* the radio was seen off
    seenOn,    \* and then on
    success    \* what the latest recovery reported

vars == <<phase, seenOff, seenOn, success>>

Init == phase = "idle" /\ seenOff = FALSE /\ seenOn = FALSE /\ success = FALSE

Starts ==
    /\ phase = "idle" /\ phase' = "preparing"
    /\ UNCHANGED <<seenOff, seenOn, success>>

AsksOff ==
    /\ phase = "preparing" /\ ~seenOff /\ phase' = "off"
    /\ UNCHANGED <<seenOff, seenOn, success>>

SeesOff ==
    /\ phase \in {"preparing", "off"} /\ seenOff' = TRUE
    /\ UNCHANGED <<phase, seenOn, success>>

AsksOn ==
    /\ phase = "off" \/ (phase = "preparing" /\ seenOff)
    /\ phase' = "restoring"
    /\ UNCHANGED <<seenOff, seenOn, success>>

SeesOn ==
    /\ phase = "restoring" \/ (phase = "preparing" /\ seenOff)
    /\ seenOn' = TRUE
    /\ UNCHANGED <<phase, seenOff, success>>

Ends ==
    /\ phase \in {"preparing", "restoring"} /\ phase' = "idle"
    /\ success' = (seenOff /\ seenOn)
    /\ seenOff' = FALSE /\ seenOn' = FALSE

Next == Starts \/ AsksOff \/ SeesOff \/ AsksOn \/ SeesOn \/ Ends

Spec == Init /\ [][Next]_vars
=============================================================================
