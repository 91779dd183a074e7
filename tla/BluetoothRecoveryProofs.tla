----------------------- MODULE BluetoothRecoveryProofs -----------------------
(***************************************************************************)
(* Safety proofs for BluetoothRecovery, for any number of recoveries,      *)
(* requests, look-ups and adapters.  Three invariants do not depend on one *)
(* another: that of the transaction and the radios, which leaves waits and *)
(* routes unconstrained, so that it holds for any answer at any time; that *)
(* of the waits; and that of the routes.                                   *)
(***************************************************************************)
EXTENDS BluetoothRecovery, FiniteSetTheorems, TLAPS

\* Places of a recovery, by what it has done.
Early   == {"idle", "FindingRadio", "resolving"}
Seeking == {"TurningOff", "turningOff", "WaitingForOff", "waitingForOff"}
OnPlaces == {"TurningOn", "turningOn", "WaitingForOn", "waitingForOn"}
Before  == {"FoundRadio", "tasks", "RequestingAccess", "access", "allowed"}
WithRadio == Before \cup Seeking \cup OnPlaces \cup {"cleanup"}

Primaries == {"NotRequired", "RadioUnavailable", "AccessDenied", "TurnOffDenied",
              "TurnOffTimedOut", "OperationTimedOut", "Cancelled", "UnexpectedFailure"}
OnFailures == {"TurnOnTimedOut", "TurnOnDenied", "UnexpectedFailure"}

Transactions == [offRequested: BOOLEAN, offConfirmed: BOOLEAN, onRequested: BOOLEAN,
                 onConfirmed: BOOLEAN, primary: Primaries, onFailure: OnFailures]
Watchings == [at: {"none", "waiting", "over"}, target: {"On", "Off"}, event: BOOLEAN,
              result: {"yes", "no", "failed"}]
RadioRequests == [target: {"On", "Off"}, adapter: Adapters,
                  at: {"posted", "issued", "turned", "dead"},
                  answer: {"none", "allowed", "denied", "failed"}]

\* The variables of the transaction have their types.
TypeOK ==
    /\ at \in Early \cup WithRadio \cup {"ending"}
    /\ radio \in Adapters \cup {None} /\ (at \in WithRadio => radio \in Adapters)
    /\ tx \in Transactions /\ watch \in Watchings
    /\ result \in Primaries \cup OnFailures \cup {"Success"}
    /\ radioState \in [Adapters -> {"On", "Off"}]
    /\ requests \in Seq(RadioRequests)
    /\ cycle \in {"none", "off", "cycled"}

\* What the place of the recovery says about its transaction.
PlaceInv ==
    /\ at \in Early => radio = None /\ cycle = "none"
    /\ at \in Early \cup Before \cup {"TurningOff"} => ~tx.offRequested /\ ~tx.offConfirmed
    /\ at \in Seeking \ {"TurningOff"} => tx.offRequested /\ ~tx.offConfirmed
    /\ at \in Early \cup Before \cup Seeking \cup {"cleanup", "TurningOn"} =>
           ~tx.onRequested /\ ~tx.onConfirmed
    /\ at = "TurningOn" => tx.offRequested \/ tx.offConfirmed
    /\ at \in OnPlaces \ {"TurningOn"} => tx.onRequested /\ ~tx.onConfirmed
    /\ tx.onRequested => tx.offRequested \/ tx.offConfirmed
    /\ at = "ending" => (tx.offRequested => tx.onRequested)
    /\ tx.onConfirmed => tx.onRequested \/ (tx.offConfirmed /\ ~tx.offRequested)
    /\ tx.offConfirmed => tx.primary = "NotRequired"

\* What was seen of the radio is true of it.
CycleInv ==
    /\ cycle = "off" => radio \in Adapters /\ radioState[radio] = "Off"
    /\ at \in Seeking /\ cycle = "none" => radioState[radio] = "On"
    /\ at = "waitingForOff" =>
           watch.target = "Off" /\ (watch.result = "yes" => cycle # "none")
    /\ at = "waitingForOn" =>
           /\ watch.target = "On"
           /\ watch.result = "yes" /\ tx.offConfirmed => cycle = "cycled"
    /\ tx.offConfirmed => cycle # "none"
    /\ tx.offConfirmed /\ tx.onConfirmed => cycle = "cycled"

Turned(i) == requests[i].at = "turned"
Later(i) == {j \in DOMAIN requests : i < j /\ requests[j].adapter = requests[i].adapter}

\* The latest request for an adapter that took effect.
Latest(i) == Turned(i) /\ \A j \in Later(i) : ~Turned(j)

\* A request to turn a radio off is followed by one to turn it on, and a radio
\* is what the latest request made it.
RequestInv ==
    /\ \A i \in DOMAIN requests : requests[i].target = "Off" =>
           \/ \E j \in Later(i) : requests[j].target = "On"
           \/ i = Len(requests) /\ requests[i].adapter = radio
                                /\ tx.offRequested /\ ~tx.onRequested
    /\ \A i \in DOMAIN requests : Turned(i) =>
           \E j \in DOMAIN requests : requests[j].adapter = requests[i].adapter /\ Latest(j)
    /\ \A i \in DOMAIN requests : Latest(i) =>
           radioState[requests[i].adapter] = requests[i].target
    /\ \A i \in DOMAIN requests : \A j \in Later(i) : Turned(j) => ~Pending(i)

IInv == TypeOK /\ PlaceInv /\ CycleInv /\ RequestInv

ivars == <<at, radio, tx, watch, result, radioState, requests, cycle>>

USE RecoveryAssumption
USE DEF txVars, envVars

-----------------------------------------------------------------------------
(* Types *)

LEMMA ErrorResultType == ASSUME NEW e PROVE ErrorResult(e) \in Primaries
  BY DEF ErrorResult, Primaries

LEMMA InitInv == Init => IInv
<1> SUFFICES ASSUME Init PROVE IInv
  OBVIOUS
<1>1. TypeOK
  BY DEF Init, TypeOK, NewTx, NoWatch, Transactions, Watchings, Primaries, OnFailures, Early,
     WithRadio, Before, Seeking, OnPlaces
<1>2. PlaceInv /\ CycleInv
  BY DEF Init, PlaceInv, CycleInv, NewTx, Early, Before, Seeking, OnPlaces
<1>3. RequestInv
  BY DEF Init, RequestInv
<1> QED
  BY <1>1, <1>2, <1>3 DEF IInv

\* The waits, the routes, the tasks and the user do not touch the transaction.
Outside ==
    WaitsOn \/ Routing \/ Cancels \/ TaskEnds \/ AccessAnswered \/ UNCHANGED vars

LEMMA OutsideStep == ASSUME Outside PROVE UNCHANGED ivars
  BY DEF Outside, WaitsOn, Routing, Cancels, TaskEnds, AccessAnswered, vars, ivars

\* What a step of the transaction may do to its record.
LEMMA TxUpdates ==
  ASSUME NEW t \in Transactions
  PROVE  /\ \A p \in Primaries : [t EXCEPT !.primary = p] \in Transactions
         /\ \A f \in OnFailures : [t EXCEPT !.onFailure = f] \in Transactions
         /\ \A p \in Primaries, b \in BOOLEAN :
                [t EXCEPT !.offConfirmed = b, !.primary = p] \in Transactions
         /\ [t EXCEPT !.offRequested = TRUE] \in Transactions
         /\ [t EXCEPT !.onRequested = TRUE] \in Transactions
         /\ \A b \in BOOLEAN : [t EXCEPT !.onConfirmed = b] \in Transactions
  BY DEF Transactions

\* The calls of the driver keep the list of requests as it is, but for their fate.
LEMMA RequestUpdates ==
  ASSUME requests \in Seq(RadioRequests), NEW i \in DOMAIN requests,
         NEW r \in RadioRequests
  PROVE  [requests EXCEPT ![i] = r] \in Seq(RadioRequests)
  OBVIOUS

LEMMA RequestRecords ==
  ASSUME NEW r \in RadioRequests
  PROVE  /\ \A a \in {"issued", "turned", "dead"} : [r EXCEPT !.at = a] \in RadioRequests
         /\ \A w \in {"allowed", "denied", "failed"} : [r EXCEPT !.answer = w] \in RadioRequests
  BY DEF RadioRequests

\* A step of one request, in terms of the record that stands for it.
LEMMA RequestStepUpdates ==
  ASSUME requests \in Seq(RadioRequests), NEW i \in DOMAIN requests, RequestStep(i)
  PROVE  \E r \in RadioRequests :
            /\ requests' = [requests EXCEPT ![i] = r]
            /\ r.target = requests[i].target /\ r.adapter = requests[i].adapter
            /\ r.at = "turned" <=> requests[i].at = "turned"
            /\ r.at \in {"posted", "issued"} => Pending(i)
<1> DEFINE q == requests[i]
<1>1. q \in RadioRequests
  OBVIOUS
<1>2. CASE RequestIssued(i)
  <2> DEFINE r == [q EXCEPT !.at = "issued"]
  <2>1. requests' = [requests EXCEPT ![i] = r]
    BY <1>2 DEF RequestIssued
  <2>2. q.at = "posted"
    BY <1>2 DEF RequestIssued
  <2>3. r \in RadioRequests
    BY <1>1, RequestRecords
  <2>4. r.target = q.target /\ r.adapter = q.adapter /\ r.at = "issued"
    BY <1>1 DEF RadioRequests
  <2> QED
    BY <2>1, <2>2, <2>3, <2>4 DEF Pending
<1>3. CASE requests' = [requests EXCEPT ![i].answer = "allowed"]
  <2> DEFINE r == [q EXCEPT !.answer = "allowed"]
  <2>1. requests' = [requests EXCEPT ![i] = r]
    BY <1>3
  <2>2. r \in RadioRequests
    BY <1>1, RequestRecords
  <2>3. r.target = q.target /\ r.adapter = q.adapter /\ r.at = q.at
    BY <1>1 DEF RadioRequests
  <2> QED
    BY <2>1, <2>2, <2>3 DEF Pending
<1>4. CASE \E w \in {"denied", "failed"} : /\ q.at = "issued"
                /\ requests' = [requests EXCEPT ![i].answer = w, ![i].at = "dead"]
  <2> PICK w \in {"denied", "failed"} : /\ q.at = "issued"
                /\ requests' = [requests EXCEPT ![i].answer = w, ![i].at = "dead"]
    BY <1>4
  <2> DEFINE r == [q EXCEPT !.answer = w, !.at = "dead"]
  <2>1. requests' = [requests EXCEPT ![i] = r]
    OBVIOUS
  <2>2. r \in RadioRequests
    BY <1>1 DEF RadioRequests
  <2>3. r.target = q.target /\ r.adapter = q.adapter /\ r.at = "dead"
    BY <1>1 DEF RadioRequests
  <2> QED
    BY <2>1, <2>2, <2>3
<1>5. CASE RequestWithdrawn(i)
  <2> DEFINE r == [q EXCEPT !.at = "dead"]
  <2>1. requests' = [requests EXCEPT ![i] = r] /\ q.at = "issued"
    BY <1>5 DEF RequestWithdrawn
  <2>2. r \in RadioRequests
    BY <1>1, RequestRecords
  <2>3. r.target = q.target /\ r.adapter = q.adapter /\ r.at = "dead"
    BY <1>1 DEF RadioRequests
  <2> QED
    BY <2>1, <2>2, <2>3
<1> QED
  BY <1>2, <1>3, <1>4, <1>5 DEF RequestStep, DriverAnswers

\* A request that takes effect.
LEMMA RadioTurnsUpdates ==
  ASSUME TypeOK, NEW i \in DOMAIN requests, RadioTurns(i)
  PROVE  /\ requests' \in Seq(RadioRequests) /\ Len(requests') = Len(requests)
         /\ \A j \in DOMAIN requests :
                /\ requests'[j].target = requests[j].target
                /\ requests'[j].adapter = requests[j].adapter
                /\ requests'[j].at = "turned" <=> (requests[j].at = "turned" \/ j = i)
                /\ requests'[j].at \in {"posted", "issued"} =>
                       /\ Pending(j) /\ j # i
                       /\ InOrder /\ j < i => requests[j].adapter # requests[i].adapter
         /\ radioState' = [radioState EXCEPT ![requests[i].adapter] = requests[i].target]
         /\ radioState' \in [Adapters -> {"On", "Off"}]
<1> DEFINE q == requests[i]
           new(j) == IF j = i THEN [q EXCEPT !.at = "turned"]
                     ELSE IF InOrder /\ j < i /\ Pending(j) /\ requests[j].adapter = q.adapter
                     THEN [requests[j] EXCEPT !.at = "dead"]
                     ELSE requests[j]
<1>1. requests \in Seq(RadioRequests) /\ q \in RadioRequests
  BY DEF TypeOK
<1>2. requests' = [j \in DOMAIN requests |-> new(j)]
  BY DEF RadioTurns
<1>3. \A j \in DOMAIN requests : new(j) \in RadioRequests
  <2> TAKE j \in DOMAIN requests
  <2>1. requests[j] \in RadioRequests
    BY <1>1
  <2>2. [q EXCEPT !.at = "turned"] \in RadioRequests
    BY <1>1, RequestRecords
  <2>3. [requests[j] EXCEPT !.at = "dead"] \in RadioRequests
    BY <2>1, RequestRecords
  <2> QED
    BY <2>1, <2>2, <2>3
<1>4. \A j \in DOMAIN requests :
          /\ new(j).target = requests[j].target /\ new(j).adapter = requests[j].adapter
          /\ new(j).at = "turned" <=> (requests[j].at = "turned" \/ j = i)
          /\ new(j).at \in {"posted", "issued"} =>
                 /\ Pending(j) /\ j # i
                 /\ InOrder /\ j < i => requests[j].adapter # q.adapter
  <2> TAKE j \in DOMAIN requests
  <2>1. requests[j] \in RadioRequests
    BY <1>1
  <2>2. CASE j = i
    BY <2>1, <2>2 DEF RadioRequests
  <2>3. CASE j # i /\ InOrder /\ j < i /\ Pending(j) /\ requests[j].adapter = q.adapter
    BY <2>1, <2>3 DEF RadioRequests, Pending
  <2>4. CASE j # i /\ ~(InOrder /\ j < i /\ Pending(j) /\ requests[j].adapter = q.adapter)
    BY <2>1, <2>4 DEF RadioRequests, Pending
  <2> QED
    BY <2>2, <2>3, <2>4
<1> HIDE DEF new
<1>5. requests' \in Seq(RadioRequests) /\ Len(requests') = Len(requests)
  <2>1. DOMAIN requests = 1..Len(requests) /\ Len(requests) \in Nat
    BY <1>1
  <2>2. requests' \in [1..Len(requests) -> RadioRequests]
    BY <1>2, <1>3, <2>1
  <2> QED
    BY <2>1, <2>2
<1>6. q.adapter \in Adapters /\ q.target \in {"On", "Off"}
  BY <1>1 DEF RadioRequests
<1>7. radioState' = [radioState EXCEPT ![q.adapter] = q.target]
  BY DEF RadioTurns
<1>8. radioState' \in [Adapters -> {"On", "Off"}]
  BY <1>6, <1>7 DEF TypeOK
<1>9. \A j \in DOMAIN requests : requests'[j] = new(j)
  BY <1>2
<1> QED
  BY <1>4, <1>5, <1>7, <1>8, <1>9

\* A request is made.
LEMMA AskUpdates ==
  ASSUME TypeOK, radio \in Adapters, NEW target \in {"On", "Off"}, NEW source,
         Asks(target, source)
  PROVE  /\ requests' = Append(requests, NewRequest(target))
         /\ NewRequest(target) \in RadioRequests
         /\ requests' \in Seq(RadioRequests)
<1>1. NewRequest(target) \in RadioRequests
  BY DEF NewRequest, RadioRequests
<1> QED
  BY <1>1 DEF Asks, TypeOK

\* Every step is one of these.
LEMMA NextCases ==
  ASSUME [Next]_vars
  PROVE  \/ Outside
         \/ Begins \/ FindsRadio \/ RadioFound \/ WaitsForTasks \/ TasksAwaited
         \/ Publishes \/ RequestsAccess \/ AccessAwaited \/ ReadsState
         \/ TurnsOff \/ OffAnswered \/ WatchesForOff \/ OffWatched
         \/ CleansUp \/ TurnsOn \/ OnAnswered \/ WatchesForOn \/ OnWatched
         \/ WatchEnds \/ HandlerRuns
         \/ \E i \in DOMAIN requests : RequestStep(i)
         \/ \E i \in DOMAIN requests : RadioTurns(i)
  BY DEF Next, Recovers, Transaction, Environment, Outside

LEMMA TypeStep == ASSUME TypeOK, [Next]_vars PROVE TypeOK'
<1> USE DEF Early, WithRadio, Before, Seeking, OnPlaces
<1>1. tx \in Transactions
  BY DEF TypeOK
<1>t. /\ \A p \in Primaries : [tx EXCEPT !.primary = p] \in Transactions
      /\ \A f \in OnFailures : [tx EXCEPT !.onFailure = f] \in Transactions
      /\ \A p \in Primaries, b \in BOOLEAN :
             [tx EXCEPT !.offConfirmed = b, !.primary = p] \in Transactions
      /\ [tx EXCEPT !.offRequested = TRUE] \in Transactions
      /\ [tx EXCEPT !.onRequested = TRUE] \in Transactions
      /\ \A b \in BOOLEAN : [tx EXCEPT !.onConfirmed = b] \in Transactions
  BY <1>1, TxUpdates
<1>e. ASSUME NEW p \in Primaries, EndsWith(p) \/ PrimaryEnds(p)
      PROVE  tx' \in Transactions /\ at' \in {"ending", "cleanup"}
  BY <1>e, <1>t DEF EndsWith, PrimaryEnds
<1>f. ASSUME NEW e, OnFails(e) PROVE tx' \in Transactions /\ at' = "ending"
  <2>1. (CASE e = "timeout" -> "TurnOnTimedOut" [] e = "denied" -> "TurnOnDenied"
           [] OTHER -> "UnexpectedFailure") \in OnFailures
    BY DEF OnFailures
  <2> QED
    BY <1>f, <1>t, <2>1 DEF OnFails
<1>2. CASE Outside
  BY <1>2, OutsideStep DEF ivars, TypeOK
<1>3. CASE Begins
  BY <1>3 DEF Begins, TypeOK
<1>4. CASE FindsRadio
  <2>1. tx' \in Transactions /\ at' \in {"resolving", "ending"}
    BY <1>1, <1>4, <1>e, ErrorResultType DEF FindsRadio, EndsWith
  <2> QED
    BY <1>4, <2>1 DEF FindsRadio, TypeOK
<1>5. CASE RadioFound
  <2>1. tx' \in Transactions /\ (at' = "ending" \/ (at' = "FoundRadio" /\ radio' \in Adapters))
    <3> USE DEF Primaries
    <3> QED
    BY <1>1, <1>5, <1>e, ErrorResultType DEF RadioFound, EndsWith, Awaited
  <2>2. radio' \in Adapters \cup {None}
    BY <1>5 DEF RadioFound, TypeOK
  <2> QED
    BY <1>5, <2>1, <2>2 DEF RadioFound, TypeOK
<1>6. CASE WaitsForTasks
  <2>1. tx' \in Transactions /\ at' \in {"tasks", "RequestingAccess", "ending"}
    BY <1>1, <1>6, <1>e, ErrorResultType DEF WaitsForTasks, EndsWith
  <2> QED
    BY <1>6, <2>1 DEF WaitsForTasks, TypeOK
<1>7. CASE TasksAwaited
  <2>1. tx' \in Transactions /\ at' \in {"RequestingAccess", "ending"}
    BY <1>1, <1>7, <1>e, ErrorResultType DEF TasksAwaited, EndsWith, Awaited
  <2> QED
    BY <1>7, <2>1 DEF TasksAwaited, Awaited, TypeOK
<1>8. CASE Publishes
  <2>1. NewTx \in Transactions /\ NoWatch \in Watchings
    BY DEF NewTx, NoWatch, Transactions, Watchings, Primaries, OnFailures
  <2>2. TransactionResult \in Primaries \cup OnFailures \cup {"Success"}
    BY <1>1 DEF TransactionResult, Transactions
  <2> QED
    BY <1>8, <2>1, <2>2 DEF Publishes, TypeOK
<1>9. CASE RequestsAccess
  <2>1. tx' \in Transactions /\ at' \in {"allowed", "access", "cleanup"}
    BY <1>1, <1>9, <1>e, ErrorResultType DEF RequestsAccess, PrimaryEnds
  <2> QED
    BY <1>9, <2>1 DEF RequestsAccess, TypeOK
<1>10. CASE AccessAwaited
  <2>1. tx' \in Transactions /\ at' \in {"allowed", "cleanup"}
    <3>1. "AccessDenied" \in Primaries
      BY DEF Primaries
    <3> QED
      BY <1>1, <1>10, <1>e, <3>1, ErrorResultType DEF AccessAwaited, PrimaryEnds, Awaited
  <2> QED
    BY <1>10, <2>1 DEF AccessAwaited, Awaited, TypeOK
<1>11. CASE ReadsState
  <2>1. "UnexpectedFailure" \in Primaries /\ "NotRequired" \in Primaries
    BY DEF Primaries
  <2>2. tx' \in Transactions /\ at' \in {"TurningOff", "cleanup"}
    BY <1>1, <1>11, <1>e, <1>t, <2>1 DEF ReadsState, PrimaryEnds
  <2>3. cycle' \in {"none", "off", "cycled"}
    BY <1>11 DEF ReadsState, TypeOK
  <2> QED
    BY <1>11, <2>2, <2>3 DEF ReadsState, TypeOK
<1>12. CASE TurnsOff
  <2>1. radio \in Adapters
    BY <1>12 DEF TurnsOff, TypeOK
  <2>2. tx' \in Transactions /\ at' \in {"turningOff", "cleanup"}
    BY <1>12, <1>e, <1>t, ErrorResultType DEF TurnsOff, PrimaryEnds
  <2>3. requests' \in Seq(RadioRequests)
    BY <1>12, <2>1, AskUpdates DEF TurnsOff, TypeOK
  <2> QED
    BY <1>12, <2>1, <2>2, <2>3 DEF TurnsOff, TypeOK
<1>13. CASE OffAnswered
  <2>1. tx' \in Transactions /\ at' \in {"WaitingForOff", "cleanup"}
    <3>1. "TurnOffDenied" \in Primaries
      BY DEF Primaries
    <3> QED
      BY <1>1, <1>13, <1>e, <3>1, ErrorResultType DEF OffAnswered, PrimaryEnds
  <2> QED
    BY <1>13, <2>1 DEF OffAnswered, Awaited, TypeOK
<1>14. CASE WatchesForOff
  <2>1. watch' \in Watchings
    BY <1>14 DEF WatchesForOff, Watches, Watchings
  <2> QED
    BY <1>14, <2>1 DEF WatchesForOff, Watches, TypeOK
<1>15. CASE OffWatched
  <2>1. tx' \in Transactions
    <3> PICK outcome \in Outcomes : tx' = [tx EXCEPT !.offConfirmed = Watched(outcome) = "yes",
                  !.primary = CASE Watched(outcome) = "yes" -> "NotRequired"
                                [] Watched(outcome) = "no"  -> "TurnOffTimedOut"
                                [] OTHER -> ErrorResult(Watched(outcome))]
      BY <1>15 DEF OffWatched
    <3> DEFINE w == Watched(outcome)
               p == CASE w = "yes" -> "NotRequired" [] w = "no" -> "TurnOffTimedOut"
                      [] OTHER -> ErrorResult(w)
               b == w = "yes"
    <3>1. p \in Primaries
      <4> HIDE DEF w
      <4>1. ErrorResult(w) \in Primaries /\ "NotRequired" \in Primaries
            /\ "TurnOffTimedOut" \in Primaries
        BY ErrorResultType DEF Primaries
      <4> QED
        BY <4>1
    <3>2. b \in BOOLEAN
      OBVIOUS
    <3>3. tx' = [tx EXCEPT !.offConfirmed = b, !.primary = p]
      OBVIOUS
    <3> HIDE DEF p, b
    <3>4. [tx EXCEPT !.offConfirmed = b, !.primary = p] \in Transactions
      BY <1>1, <3>1, <3>2, TxUpdates
    <3> QED
      BY <3>3, <3>4
  <2> QED
    BY <1>15, <2>1 DEF OffWatched, Awaited, TypeOK
<1>16. CASE CleansUp
  <2>1. tx' \in Transactions /\ at' \in {"ending", "TurningOn"}
    BY <1>1, <1>16, <1>t DEF CleansUp, OnFailures
  <2> QED
    BY <1>16, <2>1 DEF CleansUp, TypeOK
<1>17. CASE TurnsOn
  <2>1. radio \in Adapters
    BY <1>17 DEF TurnsOn, TypeOK
  <2>2. requests' \in Seq(RadioRequests)
    BY <1>17, <2>1, AskUpdates DEF TurnsOn
  <2> QED
    BY <1>17, <1>t, <2>1, <2>2 DEF TurnsOn, TypeOK
<1>18. CASE OnAnswered
  <2>1. tx' \in Transactions /\ at' \in {"WaitingForOn", "ending"}
    BY <1>1, <1>18, <1>f DEF OnAnswered
  <2> QED
    BY <1>18, <2>1 DEF OnAnswered, Awaited, TypeOK
<1>19. CASE WatchesForOn
  <2>1. watch' \in Watchings
    BY <1>19 DEF WatchesForOn, Watches, Watchings
  <2> QED
    BY <1>19, <2>1 DEF WatchesForOn, Watches, TypeOK
<1>20. CASE OnWatched
  <2>1. tx' \in Transactions /\ at' = "ending"
    BY <1>1, <1>20, <1>f, <1>t DEF OnWatched
  <2> QED
    BY <1>20, <2>1 DEF OnWatched, TypeOK
<1>21. CASE WatchEnds
  <2>1. watch' \in Watchings
    BY <1>21 DEF WatchEnds, Watchings, TypeOK
  <2> QED
    BY <1>21, <2>1 DEF WatchEnds, TypeOK
<1>22. CASE HandlerRuns
  <2>1. watch' \in Watchings
    BY <1>22 DEF HandlerRuns, Watchings, TypeOK
  <2> QED
    BY <1>22, <2>1 DEF HandlerRuns, TypeOK
<1>23. ASSUME NEW i \in DOMAIN requests, RequestStep(i) PROVE TypeOK'
  <2>1. requests' \in Seq(RadioRequests)
    BY <1>23, RequestStepUpdates, RequestUpdates DEF TypeOK
  <2> QED
    BY <1>23, <2>1 DEF RequestStep, TypeOK
<1>24. ASSUME NEW i \in DOMAIN requests, RadioTurns(i) PROVE TypeOK'
  <2>1. requests' \in Seq(RadioRequests) /\ radioState' \in [Adapters -> {"On", "Off"}]
    BY <1>24, RadioTurnsUpdates
  <2>2. cycle' \in {"none", "off", "cycled"}
    BY <1>24 DEF RadioTurns, TypeOK
  <2> QED
    BY <1>24, <2>1, <2>2 DEF RadioTurns, TypeOK
<1> QED
  BY <1>2, <1>3, <1>4, <1>5, <1>6, <1>7, <1>8, <1>9, <1>10, <1>11, <1>12, <1>13, <1>14,
     <1>15, <1>16, <1>17, <1>18, <1>19, <1>20, <1>21, <1>22, <1>23, <1>24, NextCases

-----------------------------------------------------------------------------
(* What the place says about the transaction *)

\* The recovery ends, or its primary phase does, before the radio was seen off.
LEMMA PlaceEnds ==
  ASSUME TypeOK, PlaceInv, ~tx.offConfirmed, ~tx.onRequested, ~tx.onConfirmed,
         NEW p, \/ EndsWith(p) /\ ~tx.offRequested
                \/ PrimaryEnds(p)
  PROVE  PlaceInv'
<1>1. tx' = [tx EXCEPT !.primary = p]
  BY DEF EndsWith, PrimaryEnds
<1>2. /\ tx'.offRequested = tx.offRequested /\ ~tx'.offConfirmed /\ ~tx'.onRequested
      /\ ~tx'.onConfirmed
  BY <1>1 DEF TypeOK, Transactions
<1> QED
  BY <1>2 DEF EndsWith, PrimaryEnds, PlaceInv, Early, Before, Seeking, OnPlaces

LEMMA PlaceStep == ASSUME TypeOK, PlaceInv, [Next]_vars PROVE PlaceInv'
<1> USE DEF Early, Before, Seeking, OnPlaces
<1>1. tx \in Transactions
  BY DEF TypeOK
<1>2. CASE Outside
  BY <1>2, OutsideStep DEF ivars, PlaceInv
<1>3. CASE Begins
  BY <1>3 DEF Begins, PlaceInv
<1>4. CASE FindsRadio
  BY <1>4, PlaceEnds DEF FindsRadio, PlaceInv
<1>5. CASE RadioFound
  BY <1>5, PlaceEnds DEF RadioFound, Awaited, PlaceInv
<1>6. CASE WaitsForTasks
  BY <1>6, PlaceEnds DEF WaitsForTasks, PlaceInv
<1>7. CASE TasksAwaited
  BY <1>7, PlaceEnds DEF TasksAwaited, Awaited, PlaceInv
<1>8. CASE Publishes
  BY <1>8 DEF Publishes, NewTx, PlaceInv
<1>9. CASE RequestsAccess
  BY <1>9, PlaceEnds DEF RequestsAccess, PlaceInv
<1>10. CASE AccessAwaited
  BY <1>10, PlaceEnds DEF AccessAwaited, Awaited, PlaceInv
<1>11. CASE ReadsState
  BY <1>1, <1>11, PlaceEnds DEF ReadsState, PlaceInv, Transactions
<1>12. CASE TurnsOff
  BY <1>1, <1>12, PlaceEnds DEF TurnsOff, PlaceInv, Transactions
<1>13. CASE OffAnswered
  BY <1>13, PlaceEnds DEF OffAnswered, Awaited, PlaceInv
<1>14. CASE WatchesForOff
  BY <1>14 DEF WatchesForOff, Watches, PlaceInv
<1>15. CASE OffWatched
  BY <1>1, <1>15 DEF OffWatched, Awaited, PlaceInv, Transactions
<1>16. CASE CleansUp
  BY <1>1, <1>16 DEF CleansUp, PlaceInv, Transactions
<1>17. CASE TurnsOn
  BY <1>1, <1>17 DEF TurnsOn, PlaceInv, Transactions
<1>18. CASE OnAnswered
  BY <1>1, <1>18 DEF OnAnswered, OnFails, Awaited, PlaceInv, Transactions
<1>19. CASE WatchesForOn
  BY <1>19 DEF WatchesForOn, Watches, PlaceInv
<1>20. CASE OnWatched
  BY <1>1, <1>20 DEF OnWatched, OnFails, Awaited, PlaceInv, Transactions
<1>21. CASE WatchEnds
  BY <1>21 DEF WatchEnds, PlaceInv
<1>22. CASE HandlerRuns
  BY <1>22 DEF HandlerRuns, PlaceInv
<1>23. ASSUME NEW i \in DOMAIN requests, RequestStep(i) PROVE PlaceInv'
  BY <1>23 DEF RequestStep, PlaceInv
<1>24. ASSUME NEW i \in DOMAIN requests, RadioTurns(i) PROVE PlaceInv'
  <2>1. requests[i] \in RadioRequests
    BY DEF TypeOK
  <2>2. requests[i].adapter \in Adapters
    BY <2>1 DEF RadioRequests
  <2> QED
    BY <1>24, <2>2 DEF RadioTurns, PlaceInv
<1> QED
  BY <1>2, <1>3, <1>4, <1>5, <1>6, <1>7, <1>8, <1>9, <1>10, <1>11, <1>12, <1>13, <1>14,
     <1>15, <1>16, <1>17, <1>18, <1>19, <1>20, <1>21, <1>22, <1>23, <1>24, NextCases

-----------------------------------------------------------------------------
(* What was seen of the radio *)

LEMMA CycleStep == ASSUME TypeOK, PlaceInv, CycleInv, [Next]_vars PROVE CycleInv'
<1> USE DEF Early, Before, Seeking, OnPlaces, WithRadio
<1>1. tx \in Transactions /\ watch \in Watchings
  BY DEF TypeOK
<1>2. CASE Outside
  BY <1>2, OutsideStep DEF ivars, CycleInv
<1>3. CASE Begins
  BY <1>3 DEF Begins, CycleInv
<1>4. CASE FindsRadio
  BY <1>1, <1>4 DEF FindsRadio, EndsWith, CycleInv, PlaceInv, Transactions
<1>5. CASE RadioFound
  BY <1>1, <1>5 DEF RadioFound, Awaited, EndsWith, CycleInv, PlaceInv, Transactions
<1>6. CASE WaitsForTasks
  BY <1>1, <1>6 DEF WaitsForTasks, EndsWith, CycleInv, PlaceInv, Transactions
<1>7. CASE TasksAwaited
  BY <1>1, <1>7 DEF TasksAwaited, Awaited, EndsWith, CycleInv, PlaceInv, Transactions
<1>8. CASE Publishes
  BY <1>8 DEF Publishes, NewTx, NoWatch, CycleInv
<1>9. CASE RequestsAccess
  BY <1>1, <1>9 DEF RequestsAccess, PrimaryEnds, CycleInv, PlaceInv, Transactions
<1>10. CASE AccessAwaited
  BY <1>1, <1>10 DEF AccessAwaited, Awaited, PrimaryEnds, CycleInv, PlaceInv, Transactions
<1>11. CASE ReadsState
  <2>1. radio \in Adapters /\ radioState[radio] \in {"On", "Off"}
    BY <1>11 DEF ReadsState, TypeOK
  <2> QED
    BY <1>1, <1>11, <2>1 DEF ReadsState, PrimaryEnds, CycleInv, PlaceInv, Transactions
<1>12. CASE TurnsOff
  BY <1>1, <1>12 DEF TurnsOff, PrimaryEnds, CycleInv, PlaceInv, Transactions
<1>13. CASE OffAnswered
  BY <1>1, <1>13 DEF OffAnswered, Awaited, PrimaryEnds, CycleInv, PlaceInv, Transactions
<1>14. CASE WatchesForOff
  BY <1>1, <1>14 DEF WatchesForOff, Watches, CycleInv, PlaceInv
<1>15. CASE OffWatched
  BY <1>1, <1>15 DEF OffWatched, Awaited, Watched, CycleInv, PlaceInv, Transactions, Outcomes
<1>16. CASE CleansUp
  <2>1. cycle \in {"none", "off", "cycled"}
    BY DEF TypeOK
  <2>2. UNCHANGED <<radio, radioState, cycle>> /\ at' \in {"ending", "TurningOn"}
    BY <1>16 DEF CleansUp
  <2>3. \/ tx'.offConfirmed = tx.offConfirmed /\ tx'.onConfirmed = tx.onConfirmed
        \/ tx'.offConfirmed = tx.offConfirmed /\ radioState[radio] = "On"
    BY <1>1, <1>16 DEF CleansUp, Transactions
  <2>4. tx'.offConfirmed => cycle # "none"
    BY <2>3 DEF CycleInv
  <2> QED
    BY <2>1, <2>2, <2>3, <2>4 DEF CycleInv
<1>17. CASE TurnsOn
  BY <1>1, <1>17 DEF TurnsOn, CycleInv, PlaceInv, Transactions
<1>18. CASE OnAnswered
  BY <1>1, <1>18 DEF OnAnswered, OnFails, Awaited, CycleInv, PlaceInv, Transactions
<1>19. CASE WatchesForOn
  BY <1>1, <1>19 DEF WatchesForOn, Watches, CycleInv, PlaceInv, TypeOK
<1>20. CASE OnWatched
  BY <1>1, <1>20 DEF OnWatched, OnFails, Awaited, Watched, CycleInv, PlaceInv, Transactions,
     Outcomes
<1>21. CASE WatchEnds
  BY <1>1, <1>21 DEF WatchEnds, CycleInv, PlaceInv, TypeOK, Watchings
<1>22. CASE HandlerRuns
  BY <1>1, <1>22 DEF HandlerRuns, CycleInv, Watchings
<1>23. ASSUME NEW i \in DOMAIN requests, RequestStep(i) PROVE CycleInv'
  BY <1>23 DEF RequestStep, CycleInv
<1>24. ASSUME NEW i \in DOMAIN requests, RadioTurns(i) PROVE CycleInv'
  <2>1. requests[i] \in RadioRequests
    BY DEF TypeOK
  <2>2. requests[i].adapter \in Adapters /\ requests[i].target \in {"On", "Off"}
    BY <2>1 DEF RadioRequests
  <2>3. radioState' = [radioState EXCEPT ![requests[i].adapter] = requests[i].target]
    BY <1>24 DEF RadioTurns
  <2>4. UNCHANGED <<at, radio, tx, watch>>
    BY <1>24 DEF RadioTurns
  <2>5. CASE requests[i].adapter # radio
    BY <1>24, <2>2, <2>3, <2>4, <2>5 DEF RadioTurns, CycleInv, TypeOK
  <2>6. CASE requests[i].adapter = radio
    <3>1. radioState'[radio] = requests[i].target
      BY <2>2, <2>3, <2>6 DEF TypeOK
    <3>2. cycle' = CASE cycle = "none" /\ requests[i].target = "Off" -> "off"
                     [] cycle = "off" /\ requests[i].target = "On"   -> "cycled"
                     [] OTHER -> cycle
      BY <1>24, <2>6 DEF RadioTurns
    <3>3. cycle \in {"none", "off", "cycled"}
      BY DEF TypeOK
    <3> QED
      BY <2>2, <2>4, <2>6, <3>1, <3>2, <3>3 DEF CycleInv
  <2> QED
    BY <2>5, <2>6
<1> QED
  BY <1>2, <1>3, <1>4, <1>5, <1>6, <1>7, <1>8, <1>9, <1>10, <1>11, <1>12, <1>13, <1>14,
     <1>15, <1>16, <1>17, <1>18, <1>19, <1>20, <1>21, <1>22, <1>23, <1>24, NextCases

-----------------------------------------------------------------------------
(* The requests and the radios *)

\* Steps that make no request and switch no radio.
LEMMA RequestsKept ==
  ASSUME RequestInv, UNCHANGED <<requests, radioState>>,
         tx.offRequested /\ ~tx.onRequested =>
             radio' = radio /\ tx'.offRequested /\ ~tx'.onRequested
  PROVE  RequestInv'
<1>1. \A i : /\ Turned(i)' <=> Turned(i)
             /\ Later(i)' = Later(i)
             /\ Pending(i)' <=> Pending(i)
             /\ Latest(i)' <=> Latest(i)
  BY DEF Turned, Later, Pending, Latest
<1> QED
  BY <1>1 DEF RequestInv

\* A request is on its way, or is given up.
LEMMA FateKeeps ==
  ASSUME TypeOK, RequestInv, UNCHANGED <<radio, tx, radioState>>,
         requests' \in Seq(RadioRequests), Len(requests') = Len(requests),
         \A j \in DOMAIN requests :
             /\ requests'[j].target = requests[j].target
             /\ requests'[j].adapter = requests[j].adapter
             /\ requests'[j].at = "turned" <=> requests[j].at = "turned"
             /\ requests'[j].at \in {"posted", "issued"} => Pending(j)
  PROVE  RequestInv'
<1>1. DOMAIN requests' = DOMAIN requests
  BY DEF TypeOK
<1>2. \A i \in DOMAIN requests : /\ Turned(i)' <=> Turned(i)
                                 /\ Later(i)' = Later(i)
                                 /\ Pending(i)' => Pending(i)
  BY <1>1 DEF Turned, Later, Pending
<1>3. \A i \in DOMAIN requests : Later(i) \subseteq DOMAIN requests
  BY DEF Later
<1>4. \A i \in DOMAIN requests : Latest(i)' <=> Latest(i)
  BY <1>2, <1>3 DEF Latest
<1> QED
  BY <1>1, <1>2, <1>3, <1>4 DEF RequestInv

\* A request is made for the radio of the transaction.
LEMMA AskKeeps ==
  ASSUME TypeOK, PlaceInv, RequestInv, NEW target \in {"On", "Off"},
         radio \in Adapters, UNCHANGED <<radio, radioState>>,
         requests' = Append(requests, NewRequest(target)),
         NewRequest(target) \in RadioRequests,
         target = "Off" => ~tx.offRequested /\ tx'.offRequested /\ ~tx'.onRequested
  PROVE  RequestInv'
<1> PICK n : n = Len(requests) + 1
  OBVIOUS
<1>1. requests \in Seq(RadioRequests) /\ Len(requests) \in Nat
      /\ DOMAIN requests = 1..Len(requests)
  BY DEF TypeOK
<1>2. /\ DOMAIN requests' = DOMAIN requests \cup {n} /\ n \notin DOMAIN requests
      /\ Len(requests') = n
      /\ \A i \in DOMAIN requests : i < n
  BY <1>1
<1>3. \A i \in DOMAIN requests : requests'[i] = requests[i]
  BY <1>1
<1>4. requests'[n] = NewRequest(target)
  BY <1>1
<1>5. requests'[n].target = target /\ requests'[n].adapter = radio /\ requests'[n].at = "posted"
  BY <1>4 DEF NewRequest
<1>6. ~Turned(n)' /\ Later(n)' = {}
  BY <1>1, <1>2, <1>5 DEF Turned, Later
<1>7. \A i \in DOMAIN requests :
          /\ Turned(i)' <=> Turned(i)
          /\ Pending(i)' <=> Pending(i)
          /\ Later(i)' = Later(i) \cup (IF requests[i].adapter = radio THEN {n} ELSE {})
  BY <1>2, <1>3, <1>5 DEF Turned, Later, Pending
<1>8. \A i \in DOMAIN requests : Later(i) \subseteq DOMAIN requests
  BY DEF Later
<1>9. \A i \in DOMAIN requests : Latest(i)' <=> Latest(i)
  BY <1>6, <1>7, <1>8 DEF Latest
<1>10. ~Latest(n)'
  BY <1>6 DEF Latest
<1>11. ASSUME NEW i \in DOMAIN requests', requests'[i].target = "Off"
       PROVE  \/ \E j \in Later(i)' : requests'[j].target = "On"
              \/ i = Len(requests') /\ requests'[i].adapter = radio'
                                    /\ tx'.offRequested /\ ~tx'.onRequested
  <2>1. CASE i = n
    BY <1>2, <1>5, <1>11, <2>1
  <2>2. CASE i \in DOMAIN requests
    <3>1. CASE \E j \in Later(i) : requests[j].target = "On"
      BY <1>3, <1>7, <1>8, <2>2, <3>1
    <3>2. CASE i = Len(requests) /\ requests[i].adapter = radio /\ tx.offRequested
      <4>1. target = "On" /\ n \in Later(i)'
        BY <1>7, <2>2, <3>2
      <4> QED
        BY <1>5, <4>1
    <3>3. requests[i].target = "Off"
      BY <1>3, <1>11, <2>2
    <3> QED
      BY <2>2, <3>1, <3>2, <3>3 DEF RequestInv
  <2> QED
    BY <1>2, <1>11, <2>1, <2>2
<1>12. ASSUME NEW i \in DOMAIN requests', Turned(i)'
       PROVE  \E j \in DOMAIN requests' :
                  requests'[j].adapter = requests'[i].adapter /\ Latest(j)'
  <2>1. i \in DOMAIN requests /\ Turned(i)
    BY <1>2, <1>6, <1>7, <1>12
  <2>2. PICK j \in DOMAIN requests : requests[j].adapter = requests[i].adapter /\ Latest(j)
    BY <2>1 DEF RequestInv
  <2> QED
    BY <1>2, <1>3, <1>9, <2>1, <2>2
<1>13. ASSUME NEW i \in DOMAIN requests', Latest(i)'
       PROVE  radioState'[requests'[i].adapter] = requests'[i].target
  BY <1>2, <1>3, <1>9, <1>10, <1>13 DEF RequestInv
<1>14. ASSUME NEW i \in DOMAIN requests', NEW j \in Later(i)', Turned(j)'
       PROVE  ~Pending(i)'
  <2>1. i \in DOMAIN requests /\ j \in DOMAIN requests
    BY <1>2, <1>6, <1>14 DEF Later
  <2>2. j \in Later(i) /\ Turned(j)
    BY <1>2, <1>7, <1>14, <2>1
  <2> QED
    BY <1>7, <2>1, <2>2 DEF RequestInv
<1> QED
  BY <1>11, <1>12, <1>13, <1>14 DEF RequestInv

\* A request takes effect: it is the latest one then, and what was asked before it
\* of the same adapter does not happen any more.
LEMMA TurnKeeps ==
  ASSUME InOrder, TypeOK, RequestInv, NEW i \in DOMAIN requests, RadioTurns(i)
  PROVE  RequestInv'
<1> DEFINE a == requests[i].adapter
<1>1. /\ requests' \in Seq(RadioRequests) /\ Len(requests') = Len(requests)
      /\ \A j \in DOMAIN requests :
             /\ requests'[j].target = requests[j].target
             /\ requests'[j].adapter = requests[j].adapter
             /\ requests'[j].at = "turned" <=> (requests[j].at = "turned" \/ j = i)
             /\ requests'[j].at \in {"posted", "issued"} =>
                    Pending(j) /\ j # i /\ (j < i => requests[j].adapter # a)
      /\ radioState' = [radioState EXCEPT ![a] = requests[i].target]
  BY RadioTurnsUpdates
<1>2. DOMAIN requests' = DOMAIN requests /\ DOMAIN requests = 1..Len(requests)
      /\ Len(requests) \in Nat
  BY <1>1 DEF TypeOK
<1>3. \A j \in DOMAIN requests :
          /\ Turned(j)' <=> (Turned(j) \/ j = i)
          /\ Later(j)' = Later(j)
          /\ Pending(j)' => Pending(j) /\ j # i /\ (j < i => requests[j].adapter # a)
  BY <1>1, <1>2 DEF Turned, Later, Pending
<1>4. \A j \in DOMAIN requests : Later(j) \subseteq DOMAIN requests
  BY DEF Later
<1>5. Pending(i) /\ UNCHANGED <<radio, tx>>
  BY DEF RadioTurns, Pending
<1>6. \A j \in Later(i) : ~Turned(j) /\ j # i
  BY <1>2, <1>5 DEF RequestInv, Later
<1>7. Latest(i)'
  BY <1>3, <1>4, <1>6 DEF Latest
<1>8. \A j \in DOMAIN requests :
          requests[j].adapter = a => (Latest(j)' <=> j = i)
  <2> SUFFICES ASSUME NEW j \in DOMAIN requests, requests[j].adapter = a, j # i
               PROVE  ~Latest(j)'
    BY <1>7
  <2>1. CASE j < i
    <3>1. i \in Later(j)
      BY <2>1 DEF Later
    <3> QED
      BY <1>3, <3>1 DEF Latest
  <2>2. CASE i < j
    <3>1. j \in Later(i)
      BY <2>2 DEF Later
    <3> QED
      BY <1>3, <1>6, <3>1 DEF Latest
  <2> QED
    BY <1>2, <2>1, <2>2
<1>9. \A j \in DOMAIN requests :
          requests[j].adapter # a => (Latest(j)' <=> Latest(j))
  <2> SUFFICES ASSUME NEW j \in DOMAIN requests, requests[j].adapter # a
               PROVE  Latest(j)' <=> Latest(j)
    OBVIOUS
  <2>1. i \notin Later(j) /\ i # j
    BY DEF Later
  <2> QED
    BY <1>3, <1>4, <2>1 DEF Latest
<1>10. \A j \in DOMAIN requests : requests[j] \in RadioRequests
  BY DEF TypeOK
<1>11. \A j \in DOMAIN requests : requests[j].adapter \in Adapters
  BY <1>10 DEF RadioRequests
<1>12. radioState'[a] = requests[i].target
       /\ \A b \in Adapters : b # a => radioState'[b] = radioState[b]
  BY <1>1, <1>11 DEF TypeOK
<1> HIDE DEF a
<1>13. ASSUME NEW j \in DOMAIN requests', requests'[j].target = "Off"
       PROVE  \/ \E k \in Later(j)' : requests'[k].target = "On"
              \/ j = Len(requests') /\ requests'[j].adapter = radio'
                                    /\ tx'.offRequested /\ ~tx'.onRequested
  BY <1>1, <1>2, <1>3, <1>4, <1>5, <1>13 DEF RequestInv
<1>14. ASSUME NEW j \in DOMAIN requests', Turned(j)'
       PROVE  \E k \in DOMAIN requests' :
                  requests'[k].adapter = requests'[j].adapter /\ Latest(k)'
  <2>1. CASE requests[j].adapter = a
    BY <1>1, <1>2, <1>7, <2>1 DEF a
  <2>2. CASE requests[j].adapter # a
    <3>1. j \in DOMAIN requests /\ Turned(j)
      BY <1>2, <1>3, <1>14, <2>2 DEF a
    <3>2. PICK k \in DOMAIN requests : requests[k].adapter = requests[j].adapter /\ Latest(k)
      BY <3>1 DEF RequestInv
    <3> QED
      BY <1>1, <1>2, <1>9, <2>2, <3>1, <3>2
  <2> QED
    BY <2>1, <2>2
<1>15. ASSUME NEW j \in DOMAIN requests', Latest(j)'
       PROVE  radioState'[requests'[j].adapter] = requests'[j].target
  <2>1. CASE requests[j].adapter = a
    BY <1>1, <1>2, <1>8, <1>12, <1>15, <2>1
  <2>2. CASE requests[j].adapter # a
    <3>1. Latest(j)
      BY <1>2, <1>9, <1>15, <2>2
    <3>2. radioState[requests[j].adapter] = requests[j].target
      BY <1>2, <3>1 DEF RequestInv
    <3> QED
      BY <1>1, <1>2, <1>11, <1>12, <2>2, <3>2
  <2> QED
    BY <2>1, <2>2
<1>16. ASSUME NEW j \in DOMAIN requests', NEW k \in Later(j)', Turned(k)'
       PROVE  ~Pending(j)'
  <2>1. j \in DOMAIN requests /\ k \in Later(j) /\ k \in DOMAIN requests
    BY <1>2, <1>3, <1>4
  <2>2. CASE k = i
    <3>1. j < i /\ requests[j].adapter = a
      BY <2>1, <2>2 DEF Later, a
    <3> QED
      BY <1>3, <2>1, <3>1
  <2>3. CASE Turned(k)
    BY <1>3, <2>1, <2>3 DEF RequestInv
  <2> QED
    BY <1>3, <1>16, <2>1, <2>2, <2>3
<1> QED
  BY <1>13, <1>14, <1>15, <1>16 DEF RequestInv

LEMMA RequestsStep ==
  ASSUME InOrder, TypeOK, PlaceInv, RequestInv, [Next]_vars
  PROVE  RequestInv'
<1> USE DEF Early, Before, Seeking, OnPlaces, WithRadio
<1>1. tx \in Transactions
  BY DEF TypeOK
<1>2. CASE Outside
  BY <1>2, OutsideStep, RequestsKept DEF ivars
<1>3. CASE Begins
  BY <1>3, RequestsKept DEF Begins
<1>4. CASE FindsRadio
  BY <1>1, <1>4, RequestsKept DEF FindsRadio, PlaceInv
<1>5. CASE RadioFound
  BY <1>1, <1>5, RequestsKept DEF RadioFound, Awaited, PlaceInv
<1>6. CASE WaitsForTasks
  BY <1>1, <1>6, RequestsKept DEF WaitsForTasks, PlaceInv
<1>7. CASE TasksAwaited
  BY <1>1, <1>7, RequestsKept DEF TasksAwaited, Awaited, PlaceInv
<1>8. CASE Publishes
  BY <1>1, <1>8, RequestsKept DEF Publishes, PlaceInv
<1>9. CASE RequestsAccess
  BY <1>1, <1>9, RequestsKept DEF RequestsAccess, PlaceInv
<1>10. CASE AccessAwaited
  BY <1>1, <1>10, RequestsKept DEF AccessAwaited, Awaited, PlaceInv
<1>11. CASE ReadsState
  BY <1>1, <1>11, RequestsKept DEF ReadsState, PlaceInv
<1>12. CASE TurnsOff
  <2>1. radio \in Adapters /\ ~tx.offRequested /\ ~tx.onRequested
    BY <1>12 DEF TurnsOff, TypeOK, PlaceInv
  <2>2. CASE UNCHANGED requests
    BY <1>12, <2>1, <2>2, RequestsKept DEF TurnsOff
  <2>3. CASE Asks("Off", recovery) /\ tx' = [tx EXCEPT !.offRequested = TRUE]
    <3>1. tx'.offRequested /\ ~tx'.onRequested
      BY <1>1, <2>1, <2>3 DEF Transactions
    <3>2. requests' = Append(requests, NewRequest("Off")) /\ NewRequest("Off") \in RadioRequests
      BY <2>1, <2>3, AskUpdates
    <3>3. UNCHANGED <<radio, radioState>>
      BY <1>12 DEF TurnsOff
    <3> QED
      BY <2>1, <3>1, <3>2, <3>3, AskKeeps
  <2> QED
    BY <1>12, <2>2, <2>3 DEF TurnsOff
<1>13. CASE OffAnswered
  BY <1>1, <1>13, RequestsKept DEF OffAnswered, PrimaryEnds, Transactions
<1>14. CASE WatchesForOff
  BY <1>14, RequestsKept DEF WatchesForOff
<1>15. CASE OffWatched
  BY <1>1, <1>15, RequestsKept DEF OffWatched, Transactions
<1>16. CASE CleansUp
  BY <1>1, <1>16, RequestsKept DEF CleansUp, Transactions
<1>17. CASE TurnsOn
  <2>1. radio \in Adapters
    BY <1>17 DEF TurnsOn, TypeOK
  <2>2. requests' = Append(requests, NewRequest("On")) /\ NewRequest("On") \in RadioRequests
    BY <1>17, <2>1, AskUpdates DEF TurnsOn
  <2>3. UNCHANGED <<radio, radioState>>
    BY <1>17 DEF TurnsOn
  <2> QED
    BY <2>1, <2>2, <2>3, AskKeeps
<1>18. CASE OnAnswered
  BY <1>1, <1>18, RequestsKept DEF OnAnswered, Awaited, PlaceInv
<1>19. CASE WatchesForOn
  BY <1>19, RequestsKept DEF WatchesForOn
<1>20. CASE OnWatched
  BY <1>1, <1>20, RequestsKept DEF OnWatched, Awaited, PlaceInv
<1>21. CASE WatchEnds
  BY <1>21, RequestsKept DEF WatchEnds
<1>22. CASE HandlerRuns
  BY <1>22, RequestsKept DEF HandlerRuns
<1>23. ASSUME NEW i \in DOMAIN requests, RequestStep(i) PROVE RequestInv'
  <2>1. requests \in Seq(RadioRequests)
    BY DEF TypeOK
  <2>2. PICK r \in RadioRequests :
            /\ requests' = [requests EXCEPT ![i] = r]
            /\ r.target = requests[i].target /\ r.adapter = requests[i].adapter
            /\ r.at = "turned" <=> requests[i].at = "turned"
            /\ r.at \in {"posted", "issued"} => Pending(i)
    BY <1>23, <2>1, RequestStepUpdates
  <2>3. requests' \in Seq(RadioRequests) /\ Len(requests') = Len(requests)
    BY <2>1, <2>2, RequestUpdates
  <2>4. \A j \in DOMAIN requests : requests'[j] = IF j = i THEN r ELSE requests[j]
    BY <2>1, <2>2
  <2>5. \A j \in DOMAIN requests :
            /\ requests'[j].target = requests[j].target
            /\ requests'[j].adapter = requests[j].adapter
            /\ requests'[j].at = "turned" <=> requests[j].at = "turned"
            /\ requests'[j].at \in {"posted", "issued"} => Pending(j)
    BY <2>2, <2>4 DEF Pending
  <2>6. UNCHANGED <<radio, tx, radioState>>
    BY <1>23 DEF RequestStep
  <2> QED
    BY <2>3, <2>5, <2>6, FateKeeps
<1>24. ASSUME NEW i \in DOMAIN requests, RadioTurns(i) PROVE RequestInv'
  BY <1>24, TurnKeeps
<1> QED
  BY <1>2, <1>3, <1>4, <1>5, <1>6, <1>7, <1>8, <1>9, <1>10, <1>11, <1>12, <1>13, <1>14,
     <1>15, <1>16, <1>17, <1>18, <1>19, <1>20, <1>21, <1>22, <1>23, <1>24, NextCases

-----------------------------------------------------------------------------
(* The theorems *)

PhaseInv == TypeOK /\ PlaceInv /\ CycleInv

LEMMA PhaseHolds == Spec => []PhaseInv
<1>1. Init => PhaseInv
  BY InitInv DEF IInv, PhaseInv
<1>2. PhaseInv /\ [Next]_vars => PhaseInv'
  BY TypeStep, PlaceStep, CycleStep DEF PhaseInv
<1> QED
  BY <1>1, <1>2, PTL DEF Spec

\* A recovery reports success only if the radio was off and then on again, for any
\* order of answers, state changes, callbacks, timeouts and cancellations
\* (RunBluetoothRecoveryTransaction, BluetoothRecovery.hpp:91).
THEOREM SuccessIsCycle == Spec => []SuccessMeansCycled
<1>1. PhaseInv => SuccessMeansCycled
  BY DEF PhaseInv, CycleInv, TypeOK, Transactions, Primaries, OnFailures, SuccessMeansCycled,
     TransactionResult
<1> QED
  BY <1>1, PhaseHolds, PTL

\* If requests for a radio take effect in the order they were made, or not at all,
\* and each request to turn one on did, every radio the program switched is on
\* between recoveries, also after failures, timeouts and cancellations
\* (BluetoothRecovery.hpp:152).
THEOREM RadioIsRestored == ASSUME InOrder PROVE Spec => []RadioRestored
<1>1. Init => PhaseInv /\ RequestInv
  BY InitInv DEF IInv, PhaseInv
<1>2. PhaseInv /\ RequestInv /\ [Next]_vars => (PhaseInv /\ RequestInv)'
  BY TypeStep, PlaceStep, CycleStep, RequestsStep DEF PhaseInv
<1>3. PhaseInv /\ RequestInv => RadioRestored
  <2> SUFFICES ASSUME PhaseInv, RequestInv, at = "idle",
                      \A i \in DOMAIN requests :
                          requests[i].target = "On" => requests[i].at = "turned",
                      NEW i \in DOMAIN requests
               PROVE  radioState[requests[i].adapter] = "On"
    BY DEF RadioRestored
  <2>1. \A j \in DOMAIN requests : requests[j] \in RadioRequests
    BY DEF PhaseInv, TypeOK
  <2>2. \A j \in DOMAIN requests : requests[j].target \in {"On", "Off"}
    BY <2>1 DEF RadioRequests
  <2>3. ~tx.offRequested
    BY DEF PhaseInv, PlaceInv, Early
  <2>4. ASSUME NEW j \in DOMAIN requests, requests[j].target = "Off"
        PROVE  \E k \in Later(j) : k \in DOMAIN requests /\ Turned(k)
    <3>1. PICK k \in Later(j) : requests[k].target = "On"
      BY <2>3, <2>4 DEF RequestInv
    <3> QED
      BY <3>1 DEF Later, Turned
  <2>5. \E j \in DOMAIN requests : requests[j].adapter = requests[i].adapter /\ Turned(j)
    BY <2>2, <2>4 DEF Later, Turned
  <2>6. PICK j \in DOMAIN requests : requests[j].adapter = requests[i].adapter /\ Latest(j)
    BY <2>5 DEF RequestInv
  <2>7. requests[j].target = "On"
    BY <2>2, <2>4, <2>6 DEF Latest
  <2> QED
    BY <2>6, <2>7 DEF RequestInv
<1> QED
  BY <1>1, <1>2, <1>3, PTL DEF Spec

\* The recovery keeps what RadioCycle promises: it does not end between a request to
\* turn the radio off and one to turn it on, and reports success only of a radio it
\* saw off and then on.
THEOREM RecoveryImplementsCycle == Spec => ImplementsRadioCycle
<1> USE DEF Early, Before, Seeking, OnPlaces, WithRadio
<1>1. Init => Cycle!Init
  BY DEF Init, Cycle!Init, Phase, NewTx
<1>2. ASSUME PhaseInv, [Next]_vars PROVE [Cycle!Next]_(Cycle!vars)
  <2>1. tx \in Transactions
    BY <1>2 DEF PhaseInv, TypeOK
  <2>2. PlaceInv
    BY <1>2 DEF PhaseInv
  <2> USE DEF Cycle!Next, Cycle!vars, Cycle!Starts, Cycle!AsksOff, Cycle!SeesOff, Cycle!AsksOn,
              Cycle!SeesOn, Cycle!Ends
  <2>3. ASSUME UNCHANGED <<tx, result>>, at' = "idle" <=> at = "idle" PROVE UNCHANGED Cycle!vars
    BY <2>3 DEF Phase
  <2>4. ASSUME at # "idle", at' # "idle", UNCHANGED result,
               UNCHANGED <<tx.offRequested, tx.offConfirmed, tx.onRequested, tx.onConfirmed>>
        PROVE  UNCHANGED Cycle!vars
    BY <2>4 DEF Phase
  <2>5. CASE Outside
    BY <2>3, <2>5, OutsideStep DEF ivars
  <2>6. CASE Begins
    BY <2>2, <2>6 DEF Begins, PlaceInv, Phase
  <2>7. CASE FindsRadio
    BY <2>1, <2>4, <2>7 DEF FindsRadio, EndsWith, Transactions
  <2>8. CASE RadioFound
    BY <2>1, <2>4, <2>8 DEF RadioFound, Awaited, EndsWith, Transactions
  <2>9. CASE WaitsForTasks
    BY <2>1, <2>4, <2>9 DEF WaitsForTasks, EndsWith, Transactions
  <2>10. CASE TasksAwaited
    BY <2>1, <2>4, <2>10 DEF TasksAwaited, Awaited, EndsWith, Transactions
  <2>11. CASE Publishes
    <3>1. TransactionResult = "Success" <=> tx.offConfirmed /\ tx.onConfirmed
      BY <2>1, <2>2 DEF TransactionResult, PlaceInv, Transactions, Primaries, OnFailures
    <3>2. at = "ending" /\ at' = "idle" /\ result' = TransactionResult /\ tx' = NewTx
      BY <2>11 DEF Publishes
    <3>3. Phase \in {"preparing", "restoring"} /\ Phase' = "idle"
      BY <2>2, <3>2 DEF Phase, PlaceInv
    <3> QED
      BY <2>1, <3>1, <3>2, <3>3 DEF NewTx, Transactions
  <2>12. CASE RequestsAccess
    BY <2>1, <2>4, <2>12 DEF RequestsAccess, PrimaryEnds, Transactions
  <2>13. CASE AccessAwaited
    BY <2>1, <2>4, <2>13 DEF AccessAwaited, Awaited, PrimaryEnds, Transactions
  <2>14. CASE ReadsState
    BY <2>1, <2>2, <2>4, <2>14 DEF ReadsState, PrimaryEnds, Transactions, Phase, PlaceInv
  <2>15. CASE TurnsOff
    BY <2>1, <2>2, <2>4, <2>15 DEF TurnsOff, PrimaryEnds, Transactions, Phase, PlaceInv
  <2>16. CASE OffAnswered
    BY <2>1, <2>4, <2>16 DEF OffAnswered, Awaited, PrimaryEnds, Transactions
  <2>17. CASE WatchesForOff
    BY <2>3, <2>17 DEF WatchesForOff, Watches
  <2>18. CASE OffWatched
    BY <2>1, <2>2, <2>4, <2>18 DEF OffWatched, Awaited, Transactions, Phase, PlaceInv
  <2>19. CASE CleansUp
    BY <2>1, <2>2, <2>4, <2>19 DEF CleansUp, Transactions, Phase, PlaceInv
  <2>20. CASE TurnsOn
    BY <2>1, <2>2, <2>20 DEF TurnsOn, Transactions, Phase, PlaceInv
  <2>21. CASE OnAnswered
    BY <2>1, <2>4, <2>21 DEF OnAnswered, Awaited, OnFails, Transactions
  <2>22. CASE WatchesForOn
    BY <2>3, <2>22 DEF WatchesForOn, Watches
  <2>23. CASE OnWatched
    BY <2>1, <2>2, <2>4, <2>23 DEF OnWatched, Awaited, OnFails, Transactions, Phase, PlaceInv
  <2>24. CASE WatchEnds
    BY <2>3, <2>24 DEF WatchEnds
  <2>25. CASE HandlerRuns
    BY <2>3, <2>25 DEF HandlerRuns
  <2>26. ASSUME NEW i \in DOMAIN requests, RequestStep(i) PROVE UNCHANGED Cycle!vars
    BY <2>3, <2>26 DEF RequestStep
  <2>27. ASSUME NEW i \in DOMAIN requests, RadioTurns(i) PROVE UNCHANGED Cycle!vars
    BY <2>3, <2>27 DEF RadioTurns
  <2> QED
    BY <1>2, <2>5, <2>6, <2>7, <2>8, <2>9, <2>10, <2>11, <2>12, <2>13, <2>14, <2>15, <2>16, <2>17,
       <2>18, <2>19, <2>20, <2>21, <2>22, <2>23, <2>24, <2>25, <2>26, <2>27, NextCases
<1> QED
  BY <1>1, <1>2, PhaseHolds, PTL DEF Spec, ImplementsRadioCycle, Cycle!Spec

-----------------------------------------------------------------------------
(* The waits *)

Waitings == [at: {"idle", "check", "register", "attach", "asleep"} \cup Outcomes, source: Nat,
             operation: {"none", "started", "over"}, registered: BOOLEAN,
             completed: BOOLEAN, cancelled: BOOLEAN, signal: BOOLEAN]

WaitNames == Recoveries \X {"main", "route"}

\* A wait that is registered hears of a request to cancel it; one that is not has
\* heard of it already, and of the end of its operation.
Kept(x, asked) ==
    /\ x.at \in {"attach", "asleep"} =>
           /\ x.registered <=> x.source \notin asked
           /\ x.source \in asked => x.signal
    /\ x.at = "asleep" /\ x.operation = "over" => x.signal

WaitInv ==
    /\ waits \in [WaitNames -> Waitings] /\ recovery \in Nat
    /\ \A w \in WaitNames : Kept(waits[w], requested)

\* One wait is replaced.
LEMMA WaitPut ==
  ASSUME WaitInv, NEW w, NEW x \in Waitings, Kept(x, requested),
         waits' = [waits EXCEPT ![w] = x], UNCHANGED requested, recovery' \in Nat
  PROVE  WaitInv'
<1>1. waits' \in [WaitNames -> Waitings]
  BY DEF WaitInv
<1>2. ASSUME NEW v \in WaitNames PROVE Kept(waits'[v], requested')
  <2>1. waits'[v] = x \/ waits'[v] = waits[v]
    BY DEF WaitInv
  <2> QED
    BY <2>1 DEF WaitInv
<1> QED
  BY <1>1, <1>2 DEF WaitInv

LEMMA WaitRecords ==
  /\ Idle \in Waitings /\ Kept(Idle, requested)
  /\ \A s \in Nat, o \in {"started", "over"} :
         /\ Asleep(s, o) \in Waitings /\ Kept(Asleep(s, o), requested)
         /\ Started(s, o) \in Waitings /\ Kept(Started(s, o), requested)
  /\ \A x \in Waitings : Kept(x, requested) =>
         OperationOver(x) \in Waitings /\ Kept(OperationOver(x), requested)
<1>1. Idle \in Waitings /\ Kept(Idle, requested)
  BY DEF Idle, Waitings, Kept, NoCancellation
<1>2. ASSUME NEW s \in Nat, NEW o \in {"started", "over"}
      PROVE  /\ Asleep(s, o) \in Waitings /\ Kept(Asleep(s, o), requested)
             /\ Started(s, o) \in Waitings /\ Kept(Started(s, o), requested)
  BY DEF Asleep, Started, Idle, Waitings, Kept, Outcomes, NoCancellation
<1>3. ASSUME NEW x \in Waitings, Kept(x, requested)
      PROVE  OperationOver(x) \in Waitings /\ Kept(OperationOver(x), requested)
  BY <1>3 DEF OperationOver, Waitings, Kept, Outcomes
<1> QED
  BY <1>1, <1>2, <1>3

\* What the coroutine does to its own wait.
LEMMA WaitMoves ==
  ASSUME WaitInv, UNCHANGED requested, recovery' \in Nat,
         NEW s \in {recovery, NoCancellation}, NEW o \in {"started", "over"},
         \/ UNCHANGED waits
         \/ Awaits(s, o)
         \/ waits' = [waits EXCEPT ![m] = Idle]
         \/ waits' = [waits EXCEPT ![m] = OperationOver(@)]
  PROVE  WaitInv'
<1>1. CASE UNCHANGED waits
  BY <1>1 DEF WaitInv
<1>2. CASE Awaits(s, o)
  <2>1. s \in Nat
    BY DEF WaitInv, NoCancellation
  <2> QED
    BY <1>2, <2>1, WaitRecords, WaitPut DEF Awaits
<1>3. CASE waits' = [waits EXCEPT ![m] = Idle]
  BY <1>3, WaitRecords, WaitPut
<1>4. CASE waits' = [waits EXCEPT ![m] = OperationOver(@)]
  <2>1. CASE m \in WaitNames
    <3>1. waits[m] \in Waitings /\ Kept(waits[m], requested)
      BY <2>1 DEF WaitInv
    <3> QED
      BY <1>4, <3>1, WaitRecords, WaitPut
  <2>2. CASE m \notin WaitNames
    <3>1. waits' = waits
      BY <1>4, <2>2 DEF WaitInv
    <3> QED
      BY <3>1 DEF WaitInv
  <2> QED
    BY <2>1, <2>2
<1> QED
  BY <1>1, <1>2, <1>3, <1>4

\* The steps of a wait itself.
LEMMA WaitStepKeeps ==
  ASSUME WaitInv, NEW w \in WaitNames, WaitStep(w), UNCHANGED recovery
  PROVE  WaitInv'
<1> DEFINE x == waits[w]
<1>1. x \in Waitings /\ Kept(x, requested) /\ UNCHANGED requested /\ recovery' \in Nat
  BY DEF WaitInv, WaitStep, CheckDeadline, Register, Attach, Resumes
<1>2. CASE CheckDeadline(w)
  <2>1. PICK next \in Outcomes \cup {"register"} : waits' = [waits EXCEPT ![w].at = next]
    BY <1>2 DEF CheckDeadline, Outcomes
  <2> DEFINE y == [x EXCEPT !.at = next]
  <2>2. y \in Waitings /\ Kept(y, requested)
    BY <1>1 DEF Waitings, Kept, Outcomes
  <2>3. waits' = [waits EXCEPT ![w] = y]
    BY <2>1
  <2> QED
    BY <1>1, <2>2, <2>3, WaitPut
<1>3. CASE Register(w)
  <2> DEFINE late == x.source \in requested
             y == [x EXCEPT !.at = "attach", !.registered = ~late, !.cancelled = late,
                            !.signal = late]
  <2>1. waits' = [waits EXCEPT ![w] = y]
    BY <1>3 DEF Register, WaitInv
  <2>2. late \in BOOLEAN
    OBVIOUS
  <2>3. y \in Waitings
    BY <1>1, <2>2 DEF Waitings
  <2>4. y.at = "attach" /\ y.source = x.source /\ y.registered = ~late /\ y.signal = late
    BY <1>1 DEF Waitings
  <2>5. Kept(y, requested)
    BY <2>4 DEF Kept
  <2> QED
    BY <1>1, <2>1, <2>3, <2>5, WaitPut
<1>4. CASE Attach(w)
  <2> DEFINE y == [x EXCEPT !.at = "asleep", !.completed = x.operation = "over",
                            !.signal = @ \/ x.operation = "over"]
  <2>1. waits' = [waits EXCEPT ![w] = y] /\ x.at = "attach"
    BY <1>4 DEF Attach, WaitInv
  <2>2. y \in Waitings
    BY <1>1 DEF Waitings
  <2>3. /\ y.source = x.source /\ y.registered = x.registered /\ y.operation = x.operation
        /\ y.signal = (x.signal \/ x.operation = "over")
    BY <1>1 DEF Waitings
  <2>4. Kept(y, requested)
    BY <1>1, <2>1, <2>3 DEF Kept
  <2> QED
    BY <1>1, <2>1, <2>2, <2>4, WaitPut
<1>5. CASE Resumes(w)
  <2>1. PICK next \in Outcomes : waits' = [waits EXCEPT ![w].at = next]
    BY <1>5 DEF Resumes, Outcomes
  <2> DEFINE y == [x EXCEPT !.at = next]
  <2>2. y \in Waitings /\ Kept(y, requested)
    BY <1>1 DEF Waitings, Kept, Outcomes
  <2>3. waits' = [waits EXCEPT ![w] = y]
    BY <2>1
  <2> QED
    BY <1>1, <2>2, <2>3, WaitPut
<1> QED
  BY <1>2, <1>3, <1>4, <1>5 DEF WaitStep

LEMMA CancelKeeps ==
  ASSUME WaitInv, Cancels PROVE WaitInv'
<1>1. /\ requested' = requested \cup {recovery} /\ UNCHANGED recovery
      /\ waits' = [w \in DOMAIN waits |->
            IF waits[w].registered /\ waits[w].source = recovery
            THEN [waits[w] EXCEPT !.cancelled = TRUE, !.signal = TRUE, !.registered = FALSE]
            ELSE waits[w]]
  BY DEF Cancels, Request
<1>2. ASSUME NEW w \in WaitNames
      PROVE  waits'[w] \in Waitings /\ Kept(waits'[w], requested')
  <2> PICK x, y : x = waits[w] /\ y = waits'[w]
    OBVIOUS
  <2>1. x \in Waitings /\ Kept(x, requested)
    BY DEF WaitInv
  <2>2. y = IF x.registered /\ x.source = recovery
            THEN [x EXCEPT !.cancelled = TRUE, !.signal = TRUE, !.registered = FALSE]
            ELSE x
    BY <1>1 DEF WaitInv
  <2>3. CASE x.registered /\ x.source = recovery
    <3>1. y = [x EXCEPT !.cancelled = TRUE, !.signal = TRUE, !.registered = FALSE]
      BY <2>2, <2>3
    <3>2. y \in Waitings
      BY <2>1, <3>1 DEF Waitings
    <3>3. y.source = recovery /\ y.registered = FALSE /\ y.signal = TRUE
      BY <2>1, <2>3, <3>1 DEF Waitings
    <3>4. recovery \in requested'
      BY <1>1, Zenon
    <3>5. Kept(y, requested')
      BY <3>3, <3>4, Zenon DEF Kept
    <3> QED
      BY <3>2, <3>5
  <2>4. CASE ~(x.registered /\ x.source = recovery)
    <3>1. y = x
      BY <2>2, <2>4
    <3>2. x.at \in {"attach", "asleep"} =>
              (x.source \in requested' <=> x.source \in requested)
      BY <1>1, <2>1, <2>4 DEF Kept
    <3>3. Kept(x, requested')
      BY <2>1, <3>2 DEF Kept
    <3> QED
      BY <2>1, <3>1, <3>3
  <2> QED
    BY <2>3, <2>4
<1>3. waits' = [w \in WaitNames |-> waits'[w]]
  BY <1>1 DEF WaitInv
<1> QED
  BY <1>1, <1>2, <1>3 DEF WaitInv

\* A look-up ends, or a resolver reads and returns.
LEMMA RoutingKeepsWaits ==
  ASSUME WaitInv, Routing PROVE WaitInv'
<1>1. UNCHANGED <<requested, recovery>> /\ recovery' \in Nat
  BY DEF WaitInv, Routing, Lookup, RowShown, RowRemoved, ResolveStep, AdapterChanges
<1>2. ASSUME NEW x \in Waitings, Kept(x, requested)
      PROVE  OperationOver(x) \in Waitings /\ Kept(OperationOver(x), requested)
  BY <1>2, WaitRecords
<1>3. CASE UNCHANGED waits
  BY <1>1, <1>3 DEF WaitInv
<1>4. ASSUME NEW i, LookupEnds(i) PROVE WaitInv'
  <2>1. ASSUME NEW w \in WaitNames
        PROVE  waits'[w] \in {waits[w], OperationOver(waits[w])}
    BY <1>4 DEF LookupEnds, WaitInv
  <2>2. ASSUME NEW w \in WaitNames
        PROVE  waits'[w] \in Waitings /\ Kept(waits'[w], requested')
    BY <1>1, <1>2, <2>1 DEF WaitInv
  <2>3. waits' = [w \in WaitNames |-> waits'[w]]
    BY <1>4 DEF LookupEnds, WaitInv
  <2> QED
    BY <1>1, <2>2, <2>3 DEF WaitInv
<1>5. ASSUME NEW r \in Resolvers, ResolveReads(r) PROVE WaitInv'
  <2>1. PICK o \in {"over", "started"} : waits' = [waits EXCEPT ![RouteWait(r)] = Started(r, o)]
    BY <1>5 DEF ResolveReads
  <2>2. r \in Nat
    BY DEF Recoveries
  <2> QED
    BY <1>1, <2>1, <2>2, WaitRecords, WaitPut
<1>6. ASSUME NEW r \in Resolvers, ResolveReturns(r) PROVE WaitInv'
  <2>1. waits' = [waits EXCEPT ![RouteWait(r)] = Idle, ![MainWait(r)] = OperationOver(@)]
    BY <1>6 DEF ResolveReturns
  <2>2. MainWait(r) \in WaitNames /\ RouteWait(r) \in WaitNames
        /\ MainWait(r) # RouteWait(r)
    BY DEF MainWait, RouteWait, WaitNames
  <2>3. waits' = [w \in WaitNames |-> IF w = MainWait(r) THEN OperationOver(waits[w])
                                      ELSE IF w = RouteWait(r) THEN Idle ELSE waits[w]]
    BY <2>1, <2>2 DEF WaitInv
  <2>4. ASSUME NEW w \in WaitNames
        PROVE  waits'[w] \in Waitings /\ Kept(waits'[w], requested')
    BY <1>1, <1>2, <2>3, WaitRecords DEF WaitInv
  <2> QED
    BY <1>1, <2>3, <2>4 DEF WaitInv
<1> QED
  BY <1>3, <1>4, <1>5, <1>6
     DEF Routing, Lookup, RowShown, RowRemoved, ResolveStep, AdapterChanges,
         ResolveFetches, ResolveChecks, ResolveInvalidates

LEMMA WaitsStep == ASSUME WaitInv, [Next]_vars PROVE WaitInv'
<1>1. NoCancellation \in {recovery, NoCancellation} /\ recovery \in Nat
      /\ recovery \in {recovery, NoCancellation}
  BY DEF WaitInv
<1> DEFINE Moves ==
        /\ UNCHANGED requested /\ recovery' \in Nat
        /\ \/ UNCHANGED waits
           \/ \E s \in {recovery, NoCancellation}, o \in {"started", "over"} : Awaits(s, o)
           \/ waits' = [waits EXCEPT ![m] = Idle]
           \/ waits' = [waits EXCEPT ![m] = OperationOver(@)]
<1>2. CASE Moves
  BY <1>1, <1>2, WaitMoves
<1>3. CASE WaitsOn
  BY <1>3, WaitStepKeeps DEF WaitsOn, WaitInv
<1>4. CASE Routing
  BY <1>4, RoutingKeepsWaits
<1>5. CASE Cancels
  BY <1>5, CancelKeeps
<1>6. CASE Begins \/ Publishes \/ UNCHANGED vars
  BY <1>1, <1>2, <1>6 DEF Begins, Publishes, vars
<1>7. CASE FindsRadio \/ WaitsForTasks \/ RequestsAccess
  BY <1>1, <1>2, <1>7 DEF FindsRadio, WaitsForTasks, RequestsAccess
<1>8. CASE RadioFound \/ TasksAwaited \/ AccessAwaited \/ OffAnswered \/ OffWatched
           \/ OnAnswered \/ OnWatched
  BY <1>1, <1>2, <1>8 DEF RadioFound, TasksAwaited, AccessAwaited, OffAnswered, OffWatched,
     OnAnswered, OnWatched, Awaited
<1>9. CASE ReadsState \/ CleansUp \/ HandlerRuns
  BY <1>1, <1>2, <1>9 DEF ReadsState, CleansUp, HandlerRuns
<1>10. CASE TurnsOff \/ TurnsOn
  BY <1>1, <1>2, <1>10 DEF TurnsOff, TurnsOn, Asks
<1>11. CASE WatchesForOff \/ WatchesForOn
  BY <1>1, <1>2, <1>11 DEF WatchesForOff, WatchesForOn, Watches
<1>12. CASE TaskEnds \/ AccessAnswered \/ WatchEnds
  BY <1>1, <1>2, <1>12 DEF TaskEnds, AccessAnswered, WatchEnds
<1>13. ASSUME NEW i \in DOMAIN requests, RequestStep(i) \/ RadioTurns(i) PROVE Moves
  BY <1>1, <1>13 DEF RequestStep, RequestIssued, DriverAnswers, RequestWithdrawn, RadioTurns
<1> HIDE DEF Moves
<1> QED
  BY <1>2, <1>3, <1>4, <1>5, <1>6, <1>7, <1>8, <1>9, <1>10, <1>11, <1>12, <1>13, NextCases
     DEF Outside

\* No wait sleeps past the end of its operation or a request to cancel it, for any
\* number of recoveries and any interleaving of the three sides (AsyncUtil.hpp:80).
THEOREM WakesHold == Spec => []WakesAreKept
<1>1. Init => WaitInv
  <2> SUFFICES ASSUME Init PROVE WaitInv
    OBVIOUS
  <2>1. waits = [w \in WaitNames |-> Idle] /\ recovery = 0
    BY DEF Init, WaitNames
  <2> QED
    BY <2>1, WaitRecords DEF WaitInv
<1>2. WaitInv /\ [Next]_vars => WaitInv'
  BY WaitsStep
<1>3. WaitInv => WakesAreKept
  BY DEF WaitInv, Kept, WakesAreKept
<1> QED
  BY <1>1, <1>2, <1>3, PTL DEF Spec

-----------------------------------------------------------------------------
(* The routes *)

Routes == [at: {"posted", "listing", "opening", "done"}, ancestors: Seq(Adapters),
           adapter: Adapters \cup {None}, instance: Adapters \cup {None}, failed: BOOLEAN]

Resolving == [at: {"idle", "posted", "fetched", "read", "stale", "again", "reading", "over"},
              route: Nat, result: Adapters \cup {None, "failed"} \cup Outcomes,
              stale: SUBSET Nat]

\* A route that nothing leads to any more.
Gone(i) == entry # i /\ \A r \in Resolvers : resolve[r].route # i

RoutesType ==
    /\ present \subseteq Adapters
    /\ routes \in Seq(Routes) /\ entry \in 0..Len(routes)
    /\ resolve \in [Resolvers -> Resolving]
    /\ \A r \in Resolvers : resolve[r].at \in {"fetched", "read", "stale", "reading"} =>
                              resolve[r].route \in DOMAIN routes

\* What was of no use when a resolver began is of no use now, or out of reach; a
\* resolver that dropped the cache's route finds a newer one.
StaleInv ==
    \A r \in Resolvers :
        /\ resolve[r].stale \subseteq DOMAIN routes
        /\ \A i \in resolve[r].stale : Stale(i) \/ Gone(i)
        /\ resolve[r].at = "again" => entry \notin resolve[r].stale
        /\ resolve[r].at \in {"read", "reading"} => resolve[r].route \notin resolve[r].stale

\* The choice among adapters is one of them, or none.
LEMMA ChosenAdapter ==
  ASSUME NEW ancestors, NEW S, NEW T,
         NEW instances, DOMAIN instances = S
  PROVE  SelectAdapter(ancestors, instances) \in S \cup {None}
<1> DEFINE matches(k) == {a \in DOMAIN instances : instances[a] = ancestors[k]}
           hits       == {k \in DOMAIN ancestors : matches(k) # {}}
           nearest    == CHOOSE k \in hits : \A j \in hits : k <= j
           candidates == IF hits = {} THEN DOMAIN instances ELSE matches(nearest)
<1>1. candidates \subseteq S
  OBVIOUS
<1>2. SelectAdapter(ancestors, instances) =
          IF Cardinality(candidates) = 1 THEN CHOOSE a \in candidates : TRUE ELSE None
  BY DEF SelectAdapter
<1> HIDE DEF candidates
<1>3. ASSUME Cardinality(candidates) = 1 PROVE candidates # {}
  BY <1>3, FS_EmptySet
<1> QED
  BY <1>1, <1>2, <1>3

LEMMA NewRouteType == NewRoute \in Routes
<1>1. <<>> \in Seq(Adapters)
  OBVIOUS
<1> QED
  BY <1>1 DEF NewRoute, Routes

\* One route changes, which was not done before.
LEMMA RoutePut ==
  ASSUME RoutesType, StaleInv, NEW i \in DOMAIN routes, NEW x \in Routes,
         ~Done(i), routes' = [routes EXCEPT ![i] = x],
         UNCHANGED <<present, entry, resolve>>
  PROVE  RoutesType' /\ StaleInv'
<1>1. routes' \in Seq(Routes) /\ Len(routes') = Len(routes) /\ DOMAIN routes' = DOMAIN routes
  BY DEF RoutesType
<1>2. RoutesType'
  BY <1>1 DEF RoutesType
<1>3. \A j \in DOMAIN routes : Stale(j) => Stale(j)'
  <2> TAKE j \in DOMAIN routes
  <2>1. j # i => routes'[j] = routes[j]
    BY DEF RoutesType
  <2> QED
    BY <2>1 DEF Stale, Done
<1>4. \A j : Gone(j)' <=> Gone(j)
  BY DEF Gone
<1>5. StaleInv'
  BY <1>1, <1>3, <1>4 DEF StaleInv
<1> QED
  BY <1>2, <1>5

\* A look-up goes on.
LEMMA LookupKeeps ==
  ASSUME RoutesType, StaleInv, NEW i \in DOMAIN routes, Lookup(i)
  PROVE  RoutesType' /\ StaleInv'
<1> DEFINE x == routes[i]
<1>1. x \in Routes /\ UNCHANGED <<present, entry, resolve>>
  BY DEF RoutesType, Lookup
<1>2. CASE LookupBegins(i)
  <2> DEFINE y == [x EXCEPT !.at = "listing",
                            !.ancestors = IF Home \in present THEN <<Home>> ELSE <<>>]
  <2>1. <<>> \in Seq(Adapters) /\ <<Home>> \in Seq(Adapters)
    OBVIOUS
  <2>2. (IF Home \in present THEN <<Home>> ELSE <<>>) \in Seq(Adapters)
    BY <2>1
  <2>3. y \in Routes
    BY <1>1, <2>2 DEF Routes
  <2>4. routes' = [routes EXCEPT ![i] = y] /\ ~Done(i)
    BY <1>2 DEF LookupBegins, RoutesType, Done
  <2> QED
    BY <1>1, <2>3, <2>4, RoutePut
<1>3. CASE LookupChooses(i)
  <2> DEFINE chosen(named) == SelectAdapter(x.ancestors,
                   [a \in present |-> IF a \in named THEN a ELSE None])
  <2>1. PICK named \in SUBSET present :
            /\ chosen(named) # None
            /\ routes' = [routes EXCEPT ![i].at = "opening", ![i].adapter = chosen(named),
                   ![i].instance = IF chosen(named) \in named THEN chosen(named) ELSE None]
    BY <1>3 DEF LookupChooses
  <2> DEFINE adapter == chosen(named)
  <2>2. adapter \in Adapters
    BY <2>1, ChosenAdapter DEF RoutesType
  <2> HIDE DEF chosen
  <2> DEFINE y == [x EXCEPT !.at = "opening", !.adapter = adapter,
                            !.instance = IF adapter \in named THEN adapter ELSE None]
  <2>3. y \in Routes
    BY <1>1, <2>2 DEF Routes
  <2>4. routes' = [routes EXCEPT ![i] = y]
    BY <2>1 DEF RoutesType
  <2>5. ~Done(i)
    BY <1>3 DEF LookupChooses, Done
  <2> QED
    BY <1>1, <2>3, <2>4, <2>5, RoutePut
<1>4. CASE LookupEnds(i)
  <2>1. ~Done(i)
    BY <1>4 DEF LookupEnds, Done
  <2>2. CASE routes' = [routes EXCEPT ![i].at = "done", ![i].ancestors = <<>>]
    <3> DEFINE y == [x EXCEPT !.at = "done", !.ancestors = <<>>]
    <3>1. <<>> \in Seq(Adapters)
      OBVIOUS
    <3>2. y \in Routes
      BY <1>1, <3>1 DEF Routes
    <3>3. routes' = [routes EXCEPT ![i] = y]
      BY <2>2 DEF RoutesType
    <3> QED
      BY <1>1, <2>1, <3>2, <3>3, RoutePut
  <2>3. CASE routes' = [routes EXCEPT ![i] = [NewRoute EXCEPT !.at = "done", !.failed = TRUE]]
    <3>1. [NewRoute EXCEPT !.at = "done", !.failed = TRUE] \in Routes
      BY NewRouteType DEF Routes
    <3> QED
      BY <1>1, <2>1, <2>3, <3>1, RoutePut
  <2> QED
    BY <1>4, <2>2, <2>3 DEF LookupEnds
<1> QED
  BY <1>2, <1>3, <1>4 DEF Lookup

\* A route is made for the cache, unless it has one.
LEMMA PrewarmKeeps ==
  ASSUME RoutesType, PrewarmBluetoothRoute
  PROVE  /\ routes' \in Seq(Routes) /\ entry' \in 0..Len(routes')
         /\ DOMAIN routes \subseteq DOMAIN routes'
         /\ \A i \in DOMAIN routes : routes'[i] = routes[i]
         /\ entry' = entry \/ entry' \notin DOMAIN routes
         /\ entry' # 0
<1>1. CASE entry # 0 /\ UNCHANGED <<routes, entry>>
  BY <1>1 DEF RoutesType
<1>2. CASE entry = 0 /\ routes' = Append(routes, NewRoute) /\ entry' = Len(routes) + 1
  <2> QED
    BY <1>2, NewRouteType DEF RoutesType
<1> QED
  BY <1>1, <1>2 DEF PrewarmBluetoothRoute

\* The entry is dropped.  Its record is cleared only if nobody has it.
LEMMA InvalidateKeeps ==
  ASSUME RoutesType, NEW readers, InvalidateBluetoothRoute(entry, readers)
  PROVE  /\ routes' \in Seq(Routes) /\ entry' = 0
         /\ DOMAIN routes' = DOMAIN routes
         /\ \A i \in DOMAIN routes :
                \/ routes'[i] = routes[i]
                \/ i = entry /\ \A r \in readers : resolve[r].route # i
<1>1. [NewRoute EXCEPT !.at = "done"] \in Routes
  BY NewRouteType DEF Routes
<1> QED
  BY <1>1 DEF InvalidateBluetoothRoute, RoutesType

\* Resolvers move on, while the cache and its routes may change.
LEMMA ResolversKeep ==
  ASSUME RoutesType, StaleInv, UNCHANGED present,
         resolve' \in [Resolvers -> Resolving],
         routes' \in Seq(Routes), entry' \in 0..Len(routes'),
         DOMAIN routes \subseteq DOMAIN routes',
         \A i \in DOMAIN routes : Stale(i) => Stale(i)' \/ Gone(i)',
         \A i \in DOMAIN routes : Gone(i) => Gone(i)',
         entry' = entry \/ entry' \notin DOMAIN routes,
         \A q \in Resolvers :
             \/ resolve'[q] = resolve[q]
             \/ /\ resolve'[q].stale \subseteq DOMAIN routes
                /\ \A i \in resolve'[q].stale : Stale(i) \/ Gone(i)
                /\ resolve'[q].at = "again" => entry' \notin resolve'[q].stale
                /\ resolve'[q].at \in {"read", "reading"} =>
                       resolve'[q].route \notin resolve'[q].stale
                /\ resolve'[q].at \in {"fetched", "read", "stale", "reading"} =>
                       resolve'[q].route \in DOMAIN routes'
  PROVE  RoutesType' /\ StaleInv'
<1>1. ASSUME NEW q \in Resolvers
      PROVE  /\ resolve'[q].stale \subseteq DOMAIN routes'
             /\ \A i \in resolve'[q].stale : Stale(i)' \/ Gone(i)'
             /\ resolve'[q].at = "again" => entry' \notin resolve'[q].stale
             /\ resolve'[q].at \in {"read", "reading"} =>
                    resolve'[q].route \notin resolve'[q].stale
             /\ resolve'[q].at \in {"fetched", "read", "stale", "reading"} =>
                    resolve'[q].route \in DOMAIN routes'
  <2>1. CASE resolve'[q] = resolve[q]
    <3>1. /\ resolve[q].stale \subseteq DOMAIN routes
          /\ \A i \in resolve[q].stale : Stale(i) \/ Gone(i)
          /\ resolve[q].at = "again" => entry \notin resolve[q].stale
          /\ resolve[q].at \in {"read", "reading"} => resolve[q].route \notin resolve[q].stale
          /\ resolve[q].at \in {"fetched", "read", "stale", "reading"} =>
                 resolve[q].route \in DOMAIN routes
      BY DEF StaleInv, RoutesType
    <3> QED
      BY <2>1, <3>1
  <2>2. CASE resolve'[q] # resolve[q]
    BY <2>2
  <2> QED
    BY <2>1, <2>2
<1> QED
  BY <1>1 DEF StaleInv, RoutesType

\* One of them gets a new record, and the cache stays as it is.
LEMMA ResolverPut ==
  ASSUME RoutesType, StaleInv, UNCHANGED <<present, routes, entry>>,
         NEW r, NEW x \in Resolving, resolve' = [resolve EXCEPT ![r] = x],
         r \in Resolvers => x.route \in {0, resolve[r].route},
         x.stale \subseteq DOMAIN routes,
         \A i \in x.stale : Stale(i) \/ Gone(i),
         x.at = "again" => entry \notin x.stale,
         x.at \in {"read", "reading"} => x.route \notin x.stale,
         x.at \in {"fetched", "read", "stale", "reading"} => x.route \in DOMAIN routes
  PROVE  RoutesType' /\ StaleInv'
<1>1. resolve' \in [Resolvers -> Resolving]
  BY DEF RoutesType
<1>2. \A i : Stale(i)' <=> Stale(i)
  BY DEF Stale, Done
<1>3. \A q \in Resolvers : resolve'[q] = resolve[q] \/ (q = r /\ resolve'[q] = x)
  BY DEF RoutesType
<1>4. \A i \in DOMAIN routes : Gone(i) => Gone(i)'
  <2> SUFFICES ASSUME NEW i \in DOMAIN routes, Gone(i), NEW q \in Resolvers
               PROVE  resolve'[q].route # i
    BY DEF Gone
  <2>1. i # 0
    BY DEF RoutesType
  <2> QED
    BY <1>3, <2>1 DEF Gone
<1>5. routes' \in Seq(Routes) /\ entry' \in 0..Len(routes')
      /\ DOMAIN routes \subseteq DOMAIN routes'
  BY DEF RoutesType
<1>6. \A q \in Resolvers :
             \/ resolve'[q] = resolve[q]
             \/ /\ resolve'[q].stale \subseteq DOMAIN routes
                /\ \A i \in resolve'[q].stale : Stale(i) \/ Gone(i)
                /\ resolve'[q].at = "again" => entry' \notin resolve'[q].stale
                /\ resolve'[q].at \in {"read", "reading"} =>
                       resolve'[q].route \notin resolve'[q].stale
                /\ resolve'[q].at \in {"fetched", "read", "stale", "reading"} =>
                       resolve'[q].route \in DOMAIN routes'
  BY <1>3
<1> QED
  BY <1>1, <1>2, <1>4, <1>5, <1>6, ResolversKeep

LEMMA ResolveKeeps ==
  ASSUME RoutesType, StaleInv, NEW r \in Resolvers, ResolveStep(r)
  PROVE  RoutesType' /\ StaleInv'
<1> DEFINE x == resolve[r]
<1>1. /\ x \in Resolving /\ UNCHANGED present
      /\ x.stale \subseteq DOMAIN routes /\ \A i \in x.stale : Stale(i) \/ Gone(i)
      /\ x.at = "again" => entry \notin x.stale
      /\ x.at \in {"read", "reading"} => x.route \notin x.stale
      /\ x.at \in {"fetched", "read", "stale", "reading"} => x.route \in DOMAIN routes
  BY DEF RoutesType, StaleInv, ResolveStep
<1>2. CASE ResolveFetches(r)
  <2>1. PICK place \in {"fetched", "read"} :
            /\ resolve' = [resolve EXCEPT ![r].route = entry', ![r].at = place]
            /\ place = "read" => x.at = "again"
    BY <1>2 DEF ResolveFetches
  <2> PICK e : e = entry'
    OBVIOUS
  <2> DEFINE y == [x EXCEPT !.route = e, !.at = place]
  <2>2. /\ routes' \in Seq(Routes) /\ e \in 0..Len(routes') /\ e # 0
        /\ DOMAIN routes \subseteq DOMAIN routes'
        /\ \A i \in DOMAIN routes : routes'[i] = routes[i]
        /\ e = entry \/ e \notin DOMAIN routes
    BY <1>2, PrewarmKeeps DEF ResolveFetches
  <2>3. resolve' = [resolve EXCEPT ![r] = y]
    BY <2>1 DEF RoutesType
  <2>4. e \in DOMAIN routes' /\ e \in Nat
    BY <2>2
  <2>5. y \in Resolving /\ y.route = e /\ y.stale = x.stale /\ y.at = place
    BY <1>1, <2>4 DEF Resolving
  <2>6. place = "read" => e \notin x.stale
    BY <1>1, <2>1, <2>2
  <2> HIDE DEF y
  <2>7. resolve' \in [Resolvers -> Resolving]
    BY <2>3, <2>5 DEF RoutesType
  <2>8. \A q \in Resolvers : resolve'[q] = IF q = r THEN y ELSE resolve[q]
    BY <2>3 DEF RoutesType
  <2>9. \A i \in DOMAIN routes : Stale(i) => Stale(i)'
    BY <1>1, <2>2 DEF Stale, Done
  <2>10. \A i \in DOMAIN routes : Gone(i) => Gone(i)'
    <3> SUFFICES ASSUME NEW i \in DOMAIN routes, Gone(i) PROVE Gone(i)'
      OBVIOUS
    <3>1. e # i
      BY <2>2 DEF Gone
    <3>2. \A q \in Resolvers : resolve'[q].route # i
      BY <2>5, <2>8, <3>1 DEF Gone
    <3> QED
      BY <3>1, <3>2 DEF Gone
  <2>11. \A q \in Resolvers :
             \/ resolve'[q] = resolve[q]
             \/ /\ resolve'[q].stale \subseteq DOMAIN routes
                /\ \A i \in resolve'[q].stale : Stale(i) \/ Gone(i)
                /\ resolve'[q].at = "again" => entry' \notin resolve'[q].stale
                /\ resolve'[q].at \in {"read", "reading"} =>
                       resolve'[q].route \notin resolve'[q].stale
                /\ resolve'[q].at \in {"fetched", "read", "stale", "reading"} =>
                       resolve'[q].route \in DOMAIN routes'
    BY <1>1, <2>5, <2>4, <2>6, <2>8
  <2> QED
    BY <1>1, <2>2, <2>7, <2>9, <2>10, <2>11, ResolversKeep
<1>3. CASE ResolveChecks(r)
  <2>1. PICK place \in {"stale", "read"} :
            /\ resolve' = [resolve EXCEPT ![r].at = place]
            /\ place = "read" => ~Stale(x.route)
            /\ x.at = "fetched"
    BY <1>3 DEF ResolveChecks
  <2> DEFINE y == [x EXCEPT !.at = place]
  <2>2. resolve' = [resolve EXCEPT ![r] = y] /\ UNCHANGED <<routes, entry>>
    BY <1>3, <2>1 DEF ResolveChecks
  <2>3. y \in Resolving /\ y.route = x.route /\ y.stale = x.stale /\ y.at = place
    BY <1>1 DEF Resolving
  <2>4. ~Gone(x.route)
    BY DEF Gone
  <2>5. place = "read" => x.route \notin x.stale
    BY <1>1, <2>1, <2>4
  <2> HIDE DEF y
  <2> QED
    BY <1>1, <2>1, <2>2, <2>3, <2>5, ResolverPut
<1>4. CASE ResolveInvalidates(r)
  <2> DEFINE y == [x EXCEPT !.at = "again", !.route = 0]
  <2>1. resolve' = [resolve EXCEPT ![r] = y] /\ InvalidateBluetoothRoute(entry, Resolvers \ {r})
    BY <1>4 DEF ResolveInvalidates, RoutesType
  <2>2. y \in Resolving /\ y.route = 0 /\ y.stale = x.stale /\ y.at = "again"
    BY <1>1 DEF Resolving
  <2>3. /\ routes' \in Seq(Routes) /\ entry' = 0 /\ DOMAIN routes' = DOMAIN routes
        /\ \A i \in DOMAIN routes :
               \/ routes'[i] = routes[i]
               \/ i = entry /\ \A q \in Resolvers \ {r} : resolve[q].route # i
    BY <2>1, InvalidateKeeps
  <2> HIDE DEF y
  <2>4. resolve' \in [Resolvers -> Resolving]
    BY <2>1, <2>2 DEF RoutesType
  <2>5. \A q \in Resolvers : resolve'[q] = IF q = r THEN y ELSE resolve[q]
    BY <2>1 DEF RoutesType
  <2>6. 0 \notin DOMAIN routes /\ 0 \in 0..Len(routes')
    BY <2>3 DEF RoutesType
  <2>7. ASSUME NEW i \in DOMAIN routes, Gone(i) PROVE Gone(i)'
    BY <2>2, <2>3, <2>5, <2>6, <2>7 DEF Gone
  <2>8. ASSUME NEW i \in DOMAIN routes, Stale(i) PROVE Stale(i)' \/ Gone(i)'
    <3>1. CASE routes'[i] = routes[i]
      BY <1>1, <2>8, <3>1 DEF Stale, Done
    <3>2. CASE i = entry /\ \A q \in Resolvers \ {r} : resolve[q].route # i
      BY <2>2, <2>3, <2>5, <2>6, <3>2 DEF Gone
    <3> QED
      BY <2>3, <3>1, <3>2
  <2>9. \A q \in Resolvers :
             \/ resolve'[q] = resolve[q]
             \/ /\ resolve'[q].stale \subseteq DOMAIN routes
                /\ \A i \in resolve'[q].stale : Stale(i) \/ Gone(i)
                /\ resolve'[q].at = "again" => entry' \notin resolve'[q].stale
                /\ resolve'[q].at \in {"read", "reading"} =>
                       resolve'[q].route \notin resolve'[q].stale
                /\ resolve'[q].at \in {"fetched", "read", "stale", "reading"} =>
                       resolve'[q].route \in DOMAIN routes'
    BY <1>1, <2>2, <2>3, <2>5, <2>6
  <2> QED
    BY <1>1, <2>3, <2>4, <2>6, <2>7, <2>8, <2>9, ResolversKeep
<1>5. CASE ResolveReads(r)
  <2> DEFINE y == [x EXCEPT !.at = "reading"]
  <2>1. resolve' = [resolve EXCEPT ![r] = y] /\ UNCHANGED <<routes, entry>> /\ x.at = "read"
    BY <1>5 DEF ResolveReads
  <2>2. y \in Resolving /\ y.route = x.route /\ y.stale = x.stale /\ y.at = "reading"
    BY <1>1 DEF Resolving
  <2> HIDE DEF y
  <2> QED
    BY <1>1, <2>1, <2>2, ResolverPut
<1>6. CASE ResolveReturns(r)
  <2>1. PICK found \in Adapters \cup {None, "failed"} \cup Outcomes :
            resolve' = [resolve EXCEPT ![r].at = "over", ![r].result = found]
    <3>1. routes[x.route] \in Routes
      BY <1>1, <1>6 DEF ResolveReturns, RoutesType
    <3>2. routes[x.route].adapter \in Adapters \cup {None}
      BY <3>1 DEF Routes
    <3>3. waits[RouteWait(r)].at \in Outcomes
      BY <1>6 DEF ResolveReturns, HasOutcome
    <3> QED
      BY <1>6, <3>2, <3>3 DEF ResolveReturns
  <2> DEFINE y == [x EXCEPT !.at = "over", !.result = found]
  <2>2. resolve' = [resolve EXCEPT ![r] = y] /\ UNCHANGED <<routes, entry>>
    BY <1>6, <2>1 DEF ResolveReturns, RoutesType
  <2>3. y \in Resolving /\ y.route = x.route /\ y.stale = x.stale /\ y.at = "over"
    BY <1>1 DEF Resolving
  <2> HIDE DEF y
  <2> QED
    BY <1>1, <2>2, <2>3, ResolverPut
<1> QED
  BY <1>2, <1>3, <1>4, <1>5, <1>6 DEF ResolveStep

LEMMA RoutingKeeps ==
  ASSUME RoutesType, StaleInv, Routing PROVE RoutesType' /\ StaleInv'
<1>1. ASSUME NEW i \in DOMAIN routes, Lookup(i) PROVE RoutesType' /\ StaleInv'
  BY <1>1, LookupKeeps
<1>2. ASSUME NEW r \in Resolvers, ResolveStep(r) PROVE RoutesType' /\ StaleInv'
  BY <1>2, ResolveKeeps
<1>3. CASE RowShown
  <2>1. UNCHANGED <<present, resolve>> /\ PrewarmBluetoothRoute
    BY <1>3 DEF RowShown
  <2>2. resolve' \in [Resolvers -> Resolving] /\ \A q \in Resolvers : resolve'[q] = resolve[q]
    BY <2>1 DEF RoutesType
  <2>3. /\ routes' \in Seq(Routes) /\ entry' \in 0..Len(routes')
        /\ DOMAIN routes \subseteq DOMAIN routes'
        /\ \A i \in DOMAIN routes : routes'[i] = routes[i]
        /\ entry' = entry \/ entry' \notin DOMAIN routes
    BY <2>1, PrewarmKeeps
  <2>4. \A i \in DOMAIN routes : Stale(i) => Stale(i)'
    BY <2>1, <2>3 DEF Stale, Done
  <2>5. \A i \in DOMAIN routes : Gone(i) => Gone(i)'
    BY <2>1, <2>3 DEF Gone
  <2> QED
    BY <2>1, <2>2, <2>3, <2>4, <2>5, ResolversKeep
<1>4. CASE RowRemoved
  <2>1. UNCHANGED <<present, resolve>> /\ InvalidateBluetoothRoute(entry, Resolvers)
    BY <1>4 DEF RowRemoved
  <2>2. resolve' \in [Resolvers -> Resolving] /\ \A q \in Resolvers : resolve'[q] = resolve[q]
    BY <2>1 DEF RoutesType
  <2>3. /\ routes' \in Seq(Routes) /\ entry' = 0 /\ DOMAIN routes' = DOMAIN routes
        /\ \A i \in DOMAIN routes :
               \/ routes'[i] = routes[i]
               \/ i = entry /\ \A q \in Resolvers : resolve[q].route # i
    BY <2>1, InvalidateKeeps
  <2>4. 0 \notin DOMAIN routes /\ 0 \in 0..Len(routes')
    BY <2>3 DEF RoutesType
  <2>5. \A i \in DOMAIN routes : Gone(i) => Gone(i)'
    BY <2>1, <2>3, <2>4 DEF Gone
  <2>6. ASSUME NEW i \in DOMAIN routes, Stale(i) PROVE Stale(i)' \/ Gone(i)'
    <3>1. CASE routes'[i] = routes[i]
      BY <2>1, <2>6, <3>1 DEF Stale, Done
    <3>2. CASE i = entry /\ \A q \in Resolvers : resolve[q].route # i
      BY <2>1, <2>3, <2>4, <3>2 DEF Gone
    <3> QED
      BY <2>3, <3>1, <3>2
  <2> QED
    BY <2>1, <2>2, <2>3, <2>4, <2>5, <2>6, ResolversKeep
<1>5. ASSUME NEW a \in Adapters, AdapterChanges(a) PROVE RoutesType' /\ StaleInv'
  <2>1. /\ UNCHANGED <<routes, entry>>
        /\ present' = IF a \in present THEN present \ {a} ELSE present \cup {a}
        /\ resolve' = [r \in Resolvers |-> [resolve[r] EXCEPT !.stale =
                          {i \in @ : routes[i].failed \/ routes[i].instance # a}]]
    BY <1>5 DEF AdapterChanges
  <2>2. ASSUME NEW r \in Resolvers
        PROVE  /\ resolve'[r] \in Resolving
               /\ resolve'[r].at = resolve[r].at /\ resolve'[r].route = resolve[r].route
               /\ resolve'[r].stale =
                      {i \in resolve[r].stale : routes[i].failed \/ routes[i].instance # a}
    <3>1. resolve[r] \in Resolving
      BY DEF RoutesType
    <3> DEFINE rest == {i \in resolve[r].stale : routes[i].failed \/ routes[i].instance # a}
    <3>2. rest \in SUBSET Nat
      BY <3>1 DEF Resolving
    <3>3. resolve'[r] = [resolve[r] EXCEPT !.stale = rest]
      BY <2>1
    <3> HIDE DEF rest
    <3>4. /\ resolve'[r] \in Resolving /\ resolve'[r].at = resolve[r].at
          /\ resolve'[r].route = resolve[r].route /\ resolve'[r].stale = rest
      BY <3>1, <3>2, <3>3 DEF Resolving
    <3> QED
      BY <3>4 DEF rest
  <2>3. resolve' = [r \in Resolvers |-> resolve'[r]]
    BY <2>1
  <2>4. resolve' \in [Resolvers -> Resolving]
    BY <2>2, <2>3
  <2>5. present' \subseteq Adapters
    BY <2>1 DEF RoutesType
  <2>6. RoutesType'
    BY <2>1, <2>2, <2>4, <2>5 DEF RoutesType
  <2>7. \A i : Gone(i) => Gone(i)'
    BY <2>1, <2>2 DEF Gone
  <2>8. \A i : Stale(i) /\ (routes[i].failed \/ routes[i].instance # a) => Stale(i)'
    BY <2>1 DEF Stale, Done
  <2>9. StaleInv'
    BY <2>1, <2>2, <2>7, <2>8 DEF StaleInv
  <2> QED
    BY <2>6, <2>9
<1> QED
  BY <1>1, <1>2, <1>3, <1>4, <1>5 DEF Routing

LEMMA RoutesStep ==
  ASSUME RoutesType, StaleInv, [Next]_vars PROVE RoutesType' /\ StaleInv'
<1>1. CASE UNCHANGED routingVars
  <2>1. \A i : (Stale(i)' <=> Stale(i)) /\ (Gone(i)' <=> Gone(i))
    BY <1>1 DEF routingVars, Stale, Done, Gone
  <2> QED
    BY <1>1, <2>1 DEF routingVars, RoutesType, StaleInv
<1>2. CASE Routing
  BY <1>2, RoutingKeeps
<1>3. DOMAIN routes \subseteq Nat
  BY DEF RoutesType
<1>4. CASE FindsRadio
  <2>1. CASE UNCHANGED resolve
    BY <1>1, <1>4, <2>1 DEF FindsRadio, routingVars
  <2>2. CASE resolve' = [resolve EXCEPT ![recovery] = Posted]
    <3> PICK x : x = Posted
      OBVIOUS
    <3>1. x \in Resolving /\ x.route = 0 /\ x.at = "posted"
          /\ x.stale = {i \in DOMAIN routes : Stale(i)}
      <4> DEFINE stale == {i \in DOMAIN routes : Stale(i)}
      <4>1. stale \in SUBSET Nat
        BY <1>3
      <4> HIDE DEF stale
      <4>2. x = [at |-> "posted", route |-> 0, result |-> None, stale |-> stale]
        BY DEF Posted, NoResolve, stale
      <4>3. x \in Resolving /\ x.route = 0 /\ x.at = "posted" /\ x.stale = stale
        BY <4>1, <4>2 DEF Resolving
      <4> QED
        BY <4>3 DEF stale
    <3>2. x.stale \subseteq DOMAIN routes /\ \A i \in x.stale : Stale(i)
      BY <3>1
    <3> QED
      BY <1>4, <2>2, <3>1, <3>2, ResolverPut DEF FindsRadio
  <2> QED
    BY <1>4, <2>1, <2>2 DEF FindsRadio
<1>5. CASE RadioFound
  <2>1. CASE UNCHANGED resolve
    BY <1>1, <1>5, <2>1 DEF RadioFound, routingVars
  <2>2. CASE resolve' = [resolve EXCEPT ![recovery] = NoResolve]
    <3> PICK x : x = NoResolve
      OBVIOUS
    <3>1. x \in Resolving /\ x.route = 0 /\ x.at = "idle" /\ x.stale = {}
      BY DEF NoResolve, Resolving
    <3>2. x.stale \subseteq DOMAIN routes /\ \A i \in x.stale : Stale(i)
      BY <3>1
    <3> QED
      BY <1>5, <2>2, <3>1, <3>2, ResolverPut DEF RadioFound
  <2> QED
    BY <1>5, <2>1, <2>2 DEF RadioFound
<1>6. CASE Begins \/ WaitsForTasks \/ TasksAwaited \/ Publishes \/ RequestsAccess
           \/ AccessAwaited \/ ReadsState
  BY <1>1, <1>6 DEF Begins, WaitsForTasks, TasksAwaited, Publishes, RequestsAccess,
     AccessAwaited, ReadsState
<1>7. CASE TurnsOff \/ OffAnswered \/ WatchesForOff \/ OffWatched \/ CleansUp \/ TurnsOn
           \/ OnAnswered \/ WatchesForOn \/ OnWatched
  BY <1>1, <1>7 DEF TurnsOff, OffAnswered, WatchesForOff, OffWatched, CleansUp, TurnsOn,
     OnAnswered, WatchesForOn, OnWatched
<1>8. CASE WatchEnds \/ HandlerRuns \/ WaitsOn \/ Cancels \/ TaskEnds \/ AccessAnswered
           \/ UNCHANGED vars
  BY <1>1, <1>8 DEF WatchEnds, HandlerRuns, WaitsOn, Cancels, TaskEnds, AccessAnswered, vars
<1>9. ASSUME NEW i \in DOMAIN requests, RequestStep(i) \/ RadioTurns(i)
      PROVE  UNCHANGED routingVars
  BY <1>9 DEF RequestStep, RadioTurns
<1> QED
  BY <1>1, <1>2, <1>4, <1>5, <1>6, <1>7, <1>8, <1>9, NextCases DEF Outside

\* A resolver never reads a route that was of no use when it began: neither the
\* failure of a look-up nor an adapter that is gone is remembered, for any number of
\* resolvers, look-ups and adapters (BluetoothRouting.hpp:166).
THEOREM RoutesStayFresh == Spec => []RoutesAreFresh
<1>1. Init => RoutesType /\ StaleInv
  <2> SUFFICES ASSUME Init PROVE RoutesType /\ StaleInv
    OBVIOUS
  <2>1. /\ present = Adapters /\ routes = <<>> /\ entry = 0
        /\ resolve = [r \in Resolvers |-> NoResolve]
    BY DEF Init, RoutingInit
  <2>2. NoResolve \in Resolving /\ NoResolve.at = "idle" /\ NoResolve.stale = {}
    BY DEF NoResolve, Resolving
  <2> QED
    BY <2>1, <2>2 DEF RoutesType, StaleInv
<1>2. RoutesType /\ StaleInv /\ [Next]_vars => (RoutesType /\ StaleInv)'
  BY RoutesStep
<1>3. StaleInv => RoutesAreFresh
  BY DEF StaleInv, RoutesAreFresh
<1> QED
  BY <1>1, <1>2, <1>3, PTL DEF Spec

=============================================================================
