------------------------- MODULE BluetoothRecovery -------------------------
(***************************************************************************)
(* The reset of a Bluetooth adapter: EnsureBluetoothReady from the moment  *)
(* it decided to run one, RunBluetoothRecoveryTransaction, and the radio   *)
(* requests it issues from pool threads (BluetoothRecovery.hpp).  Whether  *)
(* a reset is due, and what it does to sessions and to the queue, is part  *)
(* of ConnectionFlow; there the transaction is a step with any result.     *)
(*                                                                         *)
(* `at' names the await at which the coroutine is suspended: capitalised,  *)
(* a stage that was posted to the UI thread; otherwise the bounded wait it *)
(* is in, or a place between two calls.  Nothing makes the radio driver    *)
(* answer, and a request that was given up may still take effect.  Nobody  *)
(* else switches the radios.                                               *)
(***************************************************************************)
EXTENDS BluetoothRouting

CONSTANTS
    MaxRecoveries,  \* bound: recoveries, one after the other
    InOrder         \* assumption: requests for a radio take effect in the order
                    \* they were made, or not at all

Recoveries == 1..MaxRecoveries

ASSUME RecoveryAssumption ==
    /\ Home \in Adapters /\ None \notin Adapters
    /\ MaxLookups \in Nat /\ MaxPlugs \in Nat /\ MaxRecoveries \in Nat
    /\ Resolvers = Recoveries /\ InOrder \in BOOLEAN

VARIABLES
    at,          \* where the recovery waits
    recovery,    \* g_app.bluetooth.generation
    allowed,     \* g_app.radioAccess is Allowed
    radio,       \* the adapter it resets
    tx,          \* locals of the transaction
    watch,       \* WaitForRadioState: its target, its event and its result
    result,      \* g_app.bluetooth.lastResult
    radioState,  \* per adapter
    requests,    \* calls of SetRadioStateInBackground, in order
    notify,      \* a StateChanged callback is on its way
    cycle        \* history: "off" once the radio was off, "cycled" once on again

txVars  == <<at, radio, tx, result, watch, allowed>>
envVars == <<radioState, requests, notify, cycle>>
vars    == <<waits, requested, routingVars, recovery, txVars, envVars>>

NoWatch == [at |-> "none", target |-> "On", event |-> FALSE, result |-> "no"]
NewTx   == [offRequested |-> FALSE, offConfirmed |-> FALSE, onRequested |-> FALSE,
            onConfirmed |-> FALSE, primary |-> "UnexpectedFailure",
            onFailure |-> "TurnOnTimedOut"]

Init ==
    /\ waits = [w \in Recoveries \X {"main", "route"} |-> Idle]
    /\ requested = {}
    /\ RoutingInit
    /\ at = "idle" /\ recovery = 0 /\ allowed = FALSE /\ radio = None
    /\ tx = NewTx /\ watch = NoWatch /\ result = "NotRequired"
    /\ radioState \in [Adapters -> {"On", "Off"}]
    /\ \A a \in Adapters \ {Home} : radioState[a] = "On"   \* bound
    /\ requests = <<>> /\ notify = FALSE /\ cycle = "none"

m == MainWait(recovery)

\* What CheckAsyncDeadline may find.
Checks == IF recovery \in requested THEN {"cancelled"} ELSE {"passed", "timeout"}

\* The error of a wait or a check as a result.
ErrorResult(error) ==
    CASE error = "timeout"   -> "OperationTimedOut"
      [] error = "cancelled" -> "Cancelled"
      [] OTHER               -> "UnexpectedFailure"

\* The wait of the coroutine is over; its outcome is consumed.
Awaited(place, outcome) ==
    /\ at = place /\ HasOutcome(m)
    /\ outcome = waits[m].at
    /\ waits' = [waits EXCEPT ![m] = Idle]

Awaits(source, operation) == waits' = [waits EXCEPT ![m] = Asleep(source, operation)]

-----------------------------------------------------------------------------
(* EnsureBluetoothReady *)

Begins ==
    /\ at = "idle" /\ recovery < MaxRecoveries
    /\ recovery' = recovery + 1
    /\ at' = "FindingRadio"
    /\ UNCHANGED <<waits, requested, routingVars, radio, tx, watch, allowed, result,
                   envVars>>

\* The recovery ends before its transaction.
EndsWith(outcome) ==
    /\ at' = "ending"
    /\ tx' = [tx EXCEPT !.primary = outcome]

FindsRadio ==
    /\ at = "FindingRadio"
    /\ \E check \in Checks :
           IF check = "passed"
           THEN /\ at' = "resolving"
                /\ resolve' = [resolve EXCEPT ![recovery] = Posted]
                /\ Awaits(recovery, "started")
                /\ UNCHANGED tx
           ELSE EndsWith(ErrorResult(check)) /\ UNCHANGED <<waits, resolve>>
    /\ UNCHANGED <<requested, present, plugs, routes, entry, recovery, radio, result,
                   watch, allowed, envVars>>

RadioFound ==
    /\ \E outcome \in Outcomes :
           /\ Awaited("resolving", outcome)
           /\ LET found == IF outcome = "completed" THEN resolve[recovery].result
                           ELSE outcome
              IN  IF found \in Adapters
                  THEN at' = "FoundRadio" /\ radio' = found /\ UNCHANGED tx
                  ELSE /\ EndsWith(IF found = "failed" THEN "RadioUnavailable"
                                   ELSE ErrorResult(found))
                       /\ UNCHANGED radio
           /\ resolve' = IF outcome = "completed"
                         THEN [resolve EXCEPT ![recovery] = NoResolve] ELSE resolve
    /\ UNCHANGED <<requested, present, plugs, routes, entry, recovery, result, watch,
                   allowed, envVars>>

\* Streams are closed (see ConnectionFlow); then each audio-flow task is waited for.
\* One of them stands for all.
WaitsForTasks ==
    /\ at = "FoundRadio"
    /\ \E check \in Checks :
           IF check # "passed"
           THEN EndsWith(ErrorResult(check)) /\ UNCHANGED waits
           ELSE /\ UNCHANGED tx
                /\ \/ at' = "tasks" /\ Awaits(recovery, "started")
                   \/ at' = "RequestingAccess" /\ UNCHANGED waits
    /\ UNCHANGED <<requested, routingVars, recovery, radio, result, watch, allowed,
                   envVars>>

TaskEnds ==
    /\ at = "tasks" /\ waits[m].operation = "started"
    /\ waits' = [waits EXCEPT ![m] = OperationOver(@)]
    /\ UNCHANGED <<requested, routingVars, recovery, txVars, envVars>>

\* All tasks are over and the transaction begins, or the wait was in vain.
TasksAwaited ==
    /\ \E outcome \in Outcomes :
           /\ Awaited("tasks", outcome)
           /\ IF outcome = "completed"
              THEN at' = "RequestingAccess" /\ UNCHANGED tx
              ELSE EndsWith(ErrorResult(outcome))
    /\ UNCHANGED <<requested, routingVars, recovery, radio, result, watch, allowed,
                   envVars>>

\* The end of the transaction; an earlier error is kept.
TransactionResult ==
    IF tx.offConfirmed /\ tx.onConfirmed /\ tx.primary = "NotRequired" THEN "Success"
    ELSE IF (tx.offRequested \/ tx.offConfirmed) /\ ~tx.onConfirmed THEN tx.onFailure
    ELSE tx.primary

\* The result is published and the next recovery may begin; locals are gone, and
\* so is the subscription to the radio.
Publishes ==
    /\ at = "ending"
    /\ at' = "idle"
    /\ result' = TransactionResult
    /\ radio' = None /\ tx' = NewTx /\ watch' = NoWatch /\ notify' = FALSE
    /\ cycle' = "none"
    /\ UNCHANGED <<waits, requested, routingVars, recovery, allowed, radioState,
                   requests>>

-----------------------------------------------------------------------------
(* RunBluetoothRecoveryTransaction: the primary phase *)

\* An exception or a refusal ends the primary phase.
PrimaryEnds(primary) ==
    /\ at' = "cleanup"
    /\ tx' = [tx EXCEPT !.primary = primary]

RequestsAccess ==
    /\ at = "RequestingAccess"
    /\ IF allowed
       THEN at' = "allowed" /\ UNCHANGED <<waits, tx>>
       ELSE \E check \in Checks :
                IF check = "passed"
                THEN at' = "access" /\ Awaits(recovery, "started") /\ UNCHANGED tx
                ELSE PrimaryEnds(ErrorResult(check)) /\ UNCHANGED waits
    /\ UNCHANGED <<requested, routingVars, recovery, radio, result, watch, allowed,
                   envVars>>

\* Windows, or the user it asks, decides on the access.
AccessAnswered ==
    /\ at = "access" /\ waits[m].operation = "started"
    /\ waits' = [waits EXCEPT ![m] = OperationOver(@)]
    /\ UNCHANGED <<requested, routingVars, recovery, txVars, envVars>>

AccessAwaited ==
    /\ \E outcome \in Outcomes, granted \in BOOLEAN :
           /\ Awaited("access", outcome)
           /\ IF outcome # "completed"
              THEN PrimaryEnds(ErrorResult(outcome)) /\ UNCHANGED allowed
              ELSE /\ allowed' = granted
                   /\ IF granted THEN at' = "allowed" /\ UNCHANGED tx
                      ELSE PrimaryEnds("AccessDenied")
    /\ UNCHANGED <<requested, routingVars, recovery, radio, result, watch, envVars>>

\* radio.State(), which throws when the adapter is gone.
ReadsState ==
    /\ at = "allowed"
    /\ IF radio \notin present
       THEN PrimaryEnds("UnexpectedFailure") /\ UNCHANGED cycle
       ELSE IF radioState[radio] = "Off"
       THEN /\ at' = "cleanup" /\ cycle' = "off"
            /\ tx' = [tx EXCEPT !.offConfirmed = TRUE, !.primary = "NotRequired"]
       ELSE at' = "TurningOff" /\ UNCHANGED <<tx, cycle>>
    /\ UNCHANGED <<waits, requested, routingVars, recovery, radio, result, watch,
                   allowed, radioState, requests, notify>>

-----------------------------------------------------------------------------
(* Both phases: a request, its answer, the state it leads to *)

NewRequest(target) == [target |-> target, adapter |-> radio, at |-> "posted",
                       answer |-> "none"]

\* AwaitBounded(SetRadioStateInBackground(...)): the request is made before the
\* wait looks at its deadline.
Asks(target, source) ==
    /\ requests' = Append(requests, NewRequest(target))
    /\ Awaits(source, "started")

TurnsOff ==
    /\ at = "TurningOff"
    /\ \E check \in Checks :
           IF check = "passed"
           THEN /\ at' = "turningOff"
                /\ Asks("Off", recovery)
                /\ tx' = [tx EXCEPT !.offRequested = TRUE]
           ELSE PrimaryEnds(ErrorResult(check)) /\ UNCHANGED <<waits, requests>>
    /\ UNCHANGED <<requested, routingVars, recovery, radio, result, watch, allowed,
                   radioState, notify, cycle>>

\* The answer to the latest request, or why there is none.
Answer(outcome) ==
    IF outcome = "completed" THEN requests[Len(requests)].answer ELSE outcome

\* Mutant: the driver's answer is taken for the state of the radio.
OffAnsweredMut ==
    /\ \E outcome \in Outcomes :
           /\ Awaited("turningOff", outcome)
           /\ LET answer == Answer(outcome) IN
              IF answer = "allowed"
              THEN /\ at' = "cleanup"
                   /\ tx' = [tx EXCEPT !.offConfirmed = TRUE, !.primary = "NotRequired"]
              ELSE PrimaryEnds(IF answer = "denied" THEN "TurnOffDenied"
                               ELSE ErrorResult(answer))
           /\ allowed' = (allowed /\ Answer(outcome) # "denied")
    /\ UNCHANGED <<requested, routingVars, recovery, radio, result, watch, envVars>>

OffAnswered ==
    /\ \E outcome \in Outcomes :
           /\ Awaited("turningOff", outcome)
           /\ LET answer == Answer(outcome) IN
              IF answer = "allowed" THEN at' = "WaitingForOff" /\ UNCHANGED tx
              ELSE PrimaryEnds(IF answer = "denied" THEN "TurnOffDenied"
                               ELSE ErrorResult(answer))
           /\ allowed' = (allowed /\ Answer(outcome) # "denied")
    /\ UNCHANGED <<requested, routingVars, recovery, radio, result, watch, envVars>>

\* WaitForRadioState subscribes, then reads the state.
Watches(place, target, source) ==
    LET found == IF radio \notin present THEN "failed"
                 ELSE IF radioState[radio] = target THEN "yes" ELSE "no"
    IN  /\ at' = place
        /\ watch' = [at |-> IF found = "no" THEN "waiting" ELSE "over",
                     target |-> target, event |-> FALSE, result |-> found]
        /\ Awaits(source, IF found = "no" THEN "started" ELSE "over")

WatchesForOff ==
    /\ at = "WaitingForOff" /\ Watches("waitingForOff", "Off", recovery)
    /\ UNCHANGED <<requested, routingVars, recovery, radio, tx, result, allowed, envVars>>

\* Its kernel wait ends by the event, after which it reads the state once more,
\* or by its timer.
WatchEnds ==
    /\ watch.at = "waiting"
    /\ watch' = [watch EXCEPT !.at = "over",
           !.result = IF ~watch.event THEN "no"
                      ELSE IF radio \notin present THEN "failed"
                      ELSE IF radioState[radio] = watch.target THEN "yes" ELSE "no"]
    /\ waits' = IF at \in {"waitingForOff", "waitingForOn"}
                THEN [waits EXCEPT ![m] = OperationOver(@)] ELSE waits
    /\ UNCHANGED <<requested, routingVars, recovery, at, radio, tx, result, allowed,
                   envVars>>

\* What became of the watch, or why the wait for it was given up.
Watched(outcome) == IF outcome = "completed" THEN watch.result ELSE outcome

OffWatched ==
    /\ \E outcome \in Outcomes :
           /\ Awaited("waitingForOff", outcome)
           /\ at' = "cleanup"
           /\ tx' = [tx EXCEPT !.offConfirmed = Watched(outcome) = "yes",
                  !.primary = CASE Watched(outcome) = "yes" -> "NotRequired"
                                [] Watched(outcome) = "no"  -> "TurnOffTimedOut"
                                [] OTHER -> ErrorResult(Watched(outcome))]
    /\ UNCHANGED <<requested, routingVars, recovery, radio, result, watch, allowed,
                   envVars>>

-----------------------------------------------------------------------------
(* Cleanup, which heeds no cancellation *)

\* Mutant: On is asked for only if the radio was seen off.
CleansUpMut ==
    /\ at = "cleanup"
    /\ IF ~tx.offConfirmed THEN at' = "ending" /\ UNCHANGED tx
       ELSE IF ~tx.offRequested /\ radio \notin present
       THEN at' = "ending" /\ tx' = [tx EXCEPT !.onFailure = "UnexpectedFailure"]
       ELSE IF ~tx.offRequested /\ radioState[radio] = "On"
       THEN at' = "ending" /\ tx' = [tx EXCEPT !.onConfirmed = TRUE]
       ELSE at' = "TurningOn" /\ UNCHANGED tx
    /\ UNCHANGED <<waits, requested, routingVars, recovery, radio, result, watch,
                   allowed, envVars>>

CleansUp ==
    /\ at = "cleanup"
    /\ IF ~(tx.offRequested \/ tx.offConfirmed) THEN at' = "ending" /\ UNCHANGED tx
       ELSE IF ~tx.offRequested /\ radio \notin present
       THEN at' = "ending" /\ tx' = [tx EXCEPT !.onFailure = "UnexpectedFailure"]
       ELSE IF ~tx.offRequested /\ radioState[radio] = "On"
       THEN at' = "ending" /\ tx' = [tx EXCEPT !.onConfirmed = TRUE]
       ELSE at' = "TurningOn" /\ UNCHANGED tx
    /\ UNCHANGED <<waits, requested, routingVars, recovery, radio, result, watch,
                   allowed, envVars>>

TurnsOn ==
    /\ at = "TurningOn" /\ at' = "turningOn"
    /\ Asks("On", NoCancellation)
    /\ tx' = [tx EXCEPT !.onRequested = TRUE]
    /\ UNCHANGED <<requested, routingVars, recovery, radio, result, watch, allowed,
                   radioState, notify, cycle>>

OnFails(error) ==
    /\ at' = "ending"
    /\ tx' = [tx EXCEPT !.onFailure =
           CASE error = "timeout" -> "TurnOnTimedOut"
             [] error = "denied"  -> "TurnOnDenied"
             [] OTHER             -> "UnexpectedFailure"]

OnAnswered ==
    /\ \E outcome \in Outcomes :
           /\ Awaited("turningOn", outcome)
           /\ IF Answer(outcome) = "allowed" THEN at' = "WaitingForOn" /\ UNCHANGED tx
              ELSE OnFails(Answer(outcome))
           /\ allowed' = (allowed /\ Answer(outcome) # "denied")
    /\ UNCHANGED <<requested, routingVars, recovery, radio, result, watch, envVars>>

WatchesForOn ==
    /\ at = "WaitingForOn" /\ Watches("waitingForOn", "On", NoCancellation)
    /\ UNCHANGED <<requested, routingVars, recovery, radio, tx, result, allowed, envVars>>

OnWatched ==
    /\ \E outcome \in Outcomes :
           /\ Awaited("waitingForOn", outcome)
           /\ IF Watched(outcome) \in {"yes", "no"}
              THEN /\ at' = "ending"
                   /\ tx' = [tx EXCEPT !.onConfirmed = Watched(outcome) = "yes"]
              ELSE OnFails(Watched(outcome))
    /\ UNCHANGED <<requested, routingVars, recovery, radio, result, watch, allowed,
                   envVars>>

-----------------------------------------------------------------------------
(* SetRadioStateInBackground, the driver and the UI thread *)

Pending(i) == requests[i].at \in {"posted", "issued"}

\* The coroutine waits for the answer to request i.
AwaitsAnswer(i) ==
    /\ i = Len(requests) /\ at \in {"turningOff", "turningOn"}
    /\ waits[m].at \notin {"cancelled", "timeout"}

\* The pool thread calls SetStateAsync; that the wait was given up is noticed
\* only after that.
RequestIssued(i) ==
    /\ requests[i].at = "posted"
    /\ InOrder => \A j \in 1..(i - 1) : requests[j].at # "posted"
    /\ requests' = [requests EXCEPT ![i].at = "issued"]
    /\ UNCHANGED waits

\* The driver's answer may come before the radio has turned, or never.
DriverAnswers(i) ==
    /\ AwaitsAnswer(i)
    /\ requests[i].at \in {"issued", "turned"} /\ requests[i].answer = "none"
    /\ \/ requests' = [requests EXCEPT ![i].answer = "allowed"]
       \/ /\ requests[i].at = "issued"
          /\ \E answer \in {"denied", "failed"} :
                 requests' = [requests EXCEPT ![i].answer = answer, ![i].at = "dead"]
    /\ waits' = [waits EXCEPT ![m] = OperationOver(@)]

\* The driver heeds the Cancel of a request that was given up, or refuses it.
RequestWithdrawn(i) ==
    /\ requests[i].at = "issued" /\ requests[i].answer = "none" /\ ~AwaitsAnswer(i)
    /\ requests' = [requests EXCEPT ![i].at = "dead"]
    /\ UNCHANGED waits

RequestStep(i) ==
    /\ RequestIssued(i) \/ DriverAnswers(i) \/ RequestWithdrawn(i)
    /\ UNCHANGED <<requested, routingVars, recovery, txVars, radioState, notify, cycle>>

RadioTurns(i) ==
    LET request == requests[i] IN
    /\ request.at = "issued" /\ request.adapter \in present
    /\ radioState' = [radioState EXCEPT ![request.adapter] = request.target]
    /\ requests' = [j \in DOMAIN requests |->
           IF j = i THEN [request EXCEPT !.at = "turned"]
           ELSE IF InOrder /\ j < i /\ Pending(j) /\ requests[j].adapter = request.adapter
           THEN [requests[j] EXCEPT !.at = "dead"]
           ELSE requests[j]]
    /\ IF request.adapter = radio
       THEN /\ notify' = (watch.at = "waiting")
            /\ cycle' = CASE cycle = "none" /\ request.target = "Off" -> "off"
                          [] cycle = "off" /\ request.target = "On"   -> "cycled"
                          [] OTHER -> cycle
       ELSE UNCHANGED <<notify, cycle>>
    /\ UNCHANGED <<waits, requested, routingVars, recovery, txVars>>

\* The StateChanged handler of the watch.
HandlerRuns ==
    /\ notify /\ notify' = FALSE
    /\ watch' = [watch EXCEPT !.event = @ \/ (watch.at = "waiting" /\ radio \in present
                                              /\ radioState[radio] = watch.target)]
    /\ UNCHANGED <<waits, requested, routingVars, recovery, at, radio, tx, result,
                   allowed, radioState, requests, cycle>>

\* A click or the shutdown cancels the attempt.
Cancels ==
    /\ at # "idle" /\ recovery \notin requested
    /\ Request(recovery)
    /\ UNCHANGED <<routingVars, recovery, txVars, envVars>>

-----------------------------------------------------------------------------
Transaction ==
    \/ RequestsAccess \/ AccessAwaited \/ ReadsState
    \/ TurnsOff \/ OffAnswered \/ WatchesForOff \/ OffWatched
    \/ CleansUp \/ TurnsOn \/ OnAnswered \/ WatchesForOn \/ OnWatched

\* What the dispatcher and the timers carry on.
Recovers ==
    \/ FindsRadio \/ RadioFound \/ WaitsForTasks \/ TasksAwaited \/ Transaction
    \/ Publishes

WaitsOn ==
    /\ \E w \in DOMAIN waits : WaitStep(w)
    /\ UNCHANGED <<routingVars, recovery, txVars, envVars>>

Environment ==
    \/ TaskEnds \/ AccessAnswered \/ WatchEnds \/ HandlerRuns
    \/ \E i \in DOMAIN requests : RequestStep(i) \/ RadioTurns(i)

\* Bound: look-ups and the cache rest while a transaction runs.  Nothing in it reads
\* them, and they go on with the next recovery.
RoutingRuns == at \in {"idle", "FindingRadio", "resolving"}

Routing ==
    /\ \/ /\ RoutingRuns
          /\ \/ \E i \in DOMAIN routes : Lookup(i)
             \/ RowShown \/ RowRemoved
             \/ \E r \in Resolvers : ResolveStep(r)
       \/ \E a \in Adapters : AdapterChanges(a)
    /\ UNCHANGED <<recovery, txVars, envVars>>

Next == Begins \/ Recovers \/ WaitsOn \/ Environment \/ Routing \/ Cancels

Spec == Init /\ [][Next]_vars

\* The dispatcher runs what is posted to it, and timers end waits.  Nothing is
\* assumed of the driver, the look-ups, the audio tasks or the user.
FairSpec ==
    /\ Spec /\ WF_vars(Recovers)
    /\ \A r \in Recoveries :
           WF_vars(WaitStep(MainWait(r)) /\ UNCHANGED <<routingVars, recovery, txVars, envVars>>)

-----------------------------------------------------------------------------
\* Success means that the radio was really off during this recovery, and on again
\* after that, although answers, states and callbacks come in any order.
SuccessMeansCycled ==
    at = "ending" /\ TransactionResult = "Success" => cycle = "cycled"

\* A radio the program switched is on in the end, if every request to turn it on
\* took effect: also when turning it off failed, timed out or was cancelled
\* (BluetoothRecovery.hpp:152).  Checked for InOrder = TRUE.
RadioRestored ==
    at = "idle" /\ (\A i \in DOMAIN requests : ~Pending(i))
    /\ (\A i \in DOMAIN requests : requests[i].target = "On" => requests[i].at = "turned")
        => \A i \in DOMAIN requests : radioState[requests[i].adapter] = "On"

\* No recovery goes on for ever, although the driver need not answer.
RecoveryEnds == at # "idle" ~> at = "idle"

\* The recovery is what RadioCycle promises.
Phase ==
    CASE at = "idle" -> "idle"
      [] at # "idle" /\ tx.onRequested -> "restoring"
      [] at # "idle" /\ ~tx.onRequested /\ tx.offRequested -> "off"
      [] OTHER -> "preparing"

Cycle == INSTANCE RadioCycle WITH phase <- Phase, seenOff <- tx.offConfirmed,
             seenOn <- tx.onConfirmed, success <- (result = "Success")

ImplementsRadioCycle == Cycle!Spec

=============================================================================
