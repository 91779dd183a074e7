------------------------- MODULE ConnectionCreation -------------------------
(***************************************************************************)
(* Creating connection objects for one device: ConnectionCreation.hpp and  *)
(* its use by ConnectDeviceAsync.                                          *)
(*                                                                         *)
(* A pool thread makes the driver call, which can neither be interrupted   *)
(* nor bounded.  The UI thread waits for the result up to a deadline and   *)
(* then takes it or abandons it.  Both sides share a State object; what    *)
(* one side does between two waits under the mutex of that object is one   *)
(* action.                                                                 *)
(***************************************************************************)
EXTENDS Integers

CONSTANTS
    Creations,   \* identities of State objects
    None         \* no State object

ASSUME CreationAssumption == None \notin Creations

VARIABLES
    entry,      \* the device's entry in connectionCreations
    attempt,    \* what ConnectDeviceAsync does: "idle", "waits" or "holds"
    thread,     \* per State: where its Run coroutine is
    local,      \* Run's local variable holds a connection object
    published,  \* State.connection holds a connection object
    error,      \* State.error is a failure
    abandoned,  \* State.abandoned
    claimed,    \* State.claimed
    ready,      \* State.ready, an event
    finished,   \* State.finished
    made,       \* history: the driver returned an object
    closes      \* history: how often that object was closed

stateVars == <<published, error, abandoned, claimed, ready, finished>>
vars == <<entry, attempt, thread, local, stateVars, made, closes>>

\* State.released, an event that Abandon and Take set.
Released(k) == abandoned[k] \/ claimed[k]

-----------------------------------------------------------------------------
(* The attempt, on the UI thread *)

\* Mutant: an attempt does not wait for the previous creation to finish.
SlotFreeMut == TRUE

\* Otherwise the attempt ends with DeviceUnavailable.
SlotFree == entry # None => finished[entry]

Start(k) ==
    /\ attempt = "idle" /\ SlotFree
    /\ thread[k] = "unused"
    /\ entry' = k
    /\ attempt' = "waits"
    /\ thread' = [thread EXCEPT ![k] = "begin"]
    /\ UNCHANGED <<local, stateVars, made, closes>>

\* The deadline, a cancellation or a lost session; at any time while waiting.
Abandon ==
    /\ attempt = "waits"
    /\ attempt' = "idle"
    /\ abandoned' = [abandoned EXCEPT ![entry] = TRUE]
    /\ UNCHANGED <<entry, thread, local, published, error, claimed, ready, finished,
                   made, closes>>

\* Mutant: the result is handed over without a claim.
TakeMut ==
    /\ attempt = "waits" /\ ready[entry] /\ ~error[entry]
    /\ abandoned' = [abandoned EXCEPT ![entry] = TRUE]
    /\ attempt' = IF published[entry] THEN "holds" ELSE "idle"
    /\ UNCHANGED <<entry, thread, local, published, error, claimed, ready, finished,
                   made, closes>>

\* Take; on an error it throws and the creation is abandoned instead.
Take ==
    /\ attempt = "waits" /\ ready[entry] /\ ~error[entry]
    /\ claimed' = [claimed EXCEPT ![entry] = TRUE]
    /\ published' = [published EXCEPT ![entry] = FALSE]
    /\ attempt' = IF published[entry] THEN "holds" ELSE "idle"
    /\ UNCHANGED <<entry, thread, local, error, abandoned, ready, finished, made,
                   closes>>

\* The session that owns the taken connection is closed.
SessionCloses ==
    /\ attempt = "holds"
    /\ attempt' = "idle"
    /\ closes' = [closes EXCEPT ![entry] = @ + 1]
    /\ UNCHANGED <<entry, thread, local, stateVars, made>>

-----------------------------------------------------------------------------
(* Run, on a pool thread *)

\* Abandoned before the driver call: nothing to do.
Skip(k) ==
    /\ thread[k] = "begin" /\ abandoned[k]
    /\ thread' = [thread EXCEPT ![k] = "done"]
    /\ finished' = [finished EXCEPT ![k] = TRUE]
    /\ ready' = [ready EXCEPT ![k] = TRUE]
    /\ UNCHANGED <<entry, attempt, local, published, error, abandoned, claimed, made,
                   closes>>

CallDriver(k) ==
    /\ thread[k] = "begin" /\ ~abandoned[k]
    /\ thread' = [thread EXCEPT ![k] = "driver"]
    /\ UNCHANGED <<entry, attempt, local, stateVars, made, closes>>

\* Mutant: the thread finishes as soon as the driver returns.
DriverReturnsMut(k) ==
    /\ thread[k] = "driver"
    /\ \E object, fails \in BOOLEAN :
          /\ ~(object /\ fails)
          /\ made' = [made EXCEPT ![k] = object]
          /\ published' = [published EXCEPT ![k] = object]
          /\ error' = [error EXCEPT ![k] = fails]
    /\ ready' = [ready EXCEPT ![k] = TRUE]
    /\ finished' = [finished EXCEPT ![k] = TRUE]
    /\ thread' = [thread EXCEPT ![k] = "done"]
    /\ UNCHANGED <<entry, attempt, local, abandoned, claimed, closes>>

\* TryCreateFromId returns an object or none, or throws.  The result is
\* published in the State object.
DriverReturns(k) ==
    /\ thread[k] = "driver"
    /\ \E object, fails \in BOOLEAN :
          /\ ~(object /\ fails)
          /\ made' = [made EXCEPT ![k] = object]
          /\ published' = [published EXCEPT ![k] = object]
          /\ error' = [error EXCEPT ![k] = fails]
    /\ ready' = [ready EXCEPT ![k] = TRUE]
    /\ thread' = [thread EXCEPT ![k] = "waits"]
    /\ UNCHANGED <<entry, attempt, local, abandoned, claimed, finished, closes>>

\* Mutant: an unclaimed object is dropped without a Close.
ReleasedWakesMut(k) ==
    /\ thread[k] = "waits" /\ Released(k)
    /\ thread' = [thread EXCEPT ![k] = "finish"]
    /\ UNCHANGED <<entry, attempt, local, stateVars, made, closes>>

\* Mutant: Take does not set the event that the thread waits for.
ReleasedWakesMut2(k) ==
    /\ thread[k] = "waits" /\ abandoned[k]
    /\ local' = [local EXCEPT ![k] = published[k]]
    /\ published' = [published EXCEPT ![k] = FALSE]
    /\ thread' = [thread EXCEPT ![k] = "finish"]
    /\ UNCHANGED <<entry, attempt, error, abandoned, claimed, ready, finished, made,
                   closes>>

\* The attempt is done with the State object; an unclaimed object comes back.
ReleasedWakes(k) ==
    /\ thread[k] = "waits" /\ Released(k)
    /\ IF claimed[k]
       THEN UNCHANGED <<local, published>>
       ELSE /\ local' = [local EXCEPT ![k] = published[k]]
            /\ published' = [published EXCEPT ![k] = FALSE]
    /\ thread' = [thread EXCEPT ![k] = "finish"]
    /\ UNCHANGED <<entry, attempt, error, abandoned, claimed, ready, finished, made,
                   closes>>

\* The late object is closed in the worker, which then gives up the slot.
\* Close may throw; the worker finishes all the same.
Finish(k) ==
    /\ thread[k] = "finish"
    /\ closes' = IF local[k] THEN [closes EXCEPT ![k] = @ + 1] ELSE closes
    /\ local' = [local EXCEPT ![k] = FALSE]
    /\ thread' = [thread EXCEPT ![k] = "done"]
    /\ finished' = [finished EXCEPT ![k] = TRUE]
    /\ UNCHANGED <<entry, attempt, published, error, abandoned, claimed, ready, made>>

-----------------------------------------------------------------------------

Init ==
    /\ entry = None
    /\ attempt = "idle"
    /\ thread = [k \in Creations |-> "unused"]
    /\ local = [k \in Creations |-> FALSE]
    /\ published = [k \in Creations |-> FALSE]
    /\ error = [k \in Creations |-> FALSE]
    /\ abandoned = [k \in Creations |-> FALSE]
    /\ claimed = [k \in Creations |-> FALSE]
    /\ ready = [k \in Creations |-> FALSE]
    /\ finished = [k \in Creations |-> FALSE]
    /\ made = [k \in Creations |-> FALSE]
    /\ closes = [k \in Creations |-> 0]

Attempt == Abandon \/ Take \/ SessionCloses \/ \E k \in Creations : Start(k)

\* The steps of Run that do not depend on the driver.
RunStep(k) == Skip(k) \/ CallDriver(k) \/ ReleasedWakes(k) \/ Finish(k)

Next == Attempt \/ \E k \in Creations : RunStep(k) \/ DriverReturns(k)

Spec == Init /\ [][Next]_vars

\* Pool threads run.  The driver may keep one for ever.
FairSpec == Spec /\ \A k \in Creations : WF_vars(RunStep(k))

-----------------------------------------------------------------------------
(* Properties *)

\* Every variable has its type.
TypeOK ==
    /\ entry \in Creations \cup {None}
    /\ attempt \in {"idle", "waits", "holds"}
    /\ thread \in [Creations ->
                     {"unused", "begin", "driver", "waits", "finish", "done"}]
    /\ local \in [Creations -> BOOLEAN] /\ published \in [Creations -> BOOLEAN]
    /\ error \in [Creations -> BOOLEAN] /\ abandoned \in [Creations -> BOOLEAN]
    /\ claimed \in [Creations -> BOOLEAN] /\ ready \in [Creations -> BOOLEAN]
    /\ finished \in [Creations -> BOOLEAN] /\ made \in [Creations -> BOOLEAN]
    /\ closes \in [Creations -> 0..1]

Busy(k) == thread[k] \notin {"unused", "done"}

\* Creations for one device never overlap: none starts while an earlier driver
\* call, or the Close of its late result, is pending (README.md, Features).
NoOverlap == \A j, k \in Creations : Busy(j) /\ Busy(k) => j = k

\* An object is closed at most once, and not while its session uses it.
ClosedOnce ==
    \A k \in Creations :
        /\ closes[k] <= 1
        /\ attempt = "holds" /\ entry = k => closes[k] = 0

\* No object is forgotten: when its thread is done, it is either in use or closed.
NoneForgotten ==
    \A k \in Creations : thread[k] = "done" /\ made[k] =>
        closes[k] = 1 \/ (attempt = "holds" /\ entry = k)

\* The slot as ConnectDeviceAsync sees it, and as the connection flow models it.
SlotState ==
    CASE SlotFree                -> "none"
      [] ~SlotFree /\ Released(entry) -> "released"
      [] ~SlotFree /\ ~Released(entry) /\ ready[entry]  -> "ready"
      [] ~SlotFree /\ ~Released(entry) /\ ~ready[entry] -> "running"

Slot == INSTANCE CreationSlot WITH slot <- SlotState

\* The component is what the connection flow takes it for.
ImplementsSlot == Slot!Spec

\* A device is free again once the attempt released it and the driver returned.
SlotIsFreed ==
    \A k \in Creations :
        (Released(k) /\ thread[k] # "driver") ~> finished[k]

=============================================================================
