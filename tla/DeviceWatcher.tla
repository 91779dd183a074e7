---------------------------- MODULE DeviceWatcher ----------------------------
(***************************************************************************)
(* The device list: DeviceWatcher.hpp with UpsertDeviceRow and             *)
(* RemoveDeviceRow of DeviceListUi.hpp, before shutdown.                   *)
(*                                                                         *)
(* Two sources feed the list: the events of a watcher, which the system    *)
(* may stop, and reconciliations, which enumerate the devices              *)
(* asynchronously.  Both run their handlers on the UI thread; events of    *)
(* the watcher are posted to it in order, and nothing orders them with     *)
(* the result of an enumeration.  Events that arrive while a Bluetooth     *)
(* recovery runs are only noted.                                           *)
(*                                                                         *)
(* ConnectionFlow models the connection core; here it appears by what the  *)
(* list sees of it, the stage of each device.  Between the queue and its   *)
(* session, and between a failed session and its retry, a request is in    *)
(* neither: `dispatched' and `returned' are these moments.                 *)
(***************************************************************************)
EXTENDS Integers, Sequences

CONSTANTS
    Devices,
    Remembered,     \* desiredDevices as LoadSettings leaves it
    MaxChanges,     \* bound: how often a device comes or goes
    MaxWatchers,    \* bound: watchers created
    MaxRecoveries,  \* bound: Bluetooth recoveries
    MaxPosted,      \* bound: watcher events on their way
    Faults,         \* what may fail: "create", "start" or "enumerate"
    LateSnapshots   \* whether devices may come and go while the result of an
                    \* enumeration is on its way

ASSUME WatcherAssumption ==
    /\ Remembered \subseteq Devices
    /\ {MaxChanges, MaxWatchers, MaxRecoveries, MaxPosted} \subseteq Nat
    /\ Faults \subseteq {"create", "start", "enumerate"}
    /\ LateSnapshots \in BOOLEAN

NoWatcher == 0

Stages == {"idle", "queued", "dispatched", "attempting", "returned", "connected"}

EventKinds == {"Added", "Removed", "Updated", "EnumerationCompleted", "Stopped"}

VARIABLES
    present,     \* the devices that are discoverable
    changes,     \* how often that changed
    lapsed,      \* history: something happened that the code does not make up for
    created,     \* how many watchers were created; the last one is the newest
    watcher,     \* g_deviceWatcher: the number of a watcher, or NoWatcher
    watching,    \* the system keeps the newest watcher going
    seen,        \* devices the newest watcher has reported present
    enumerated,  \* the newest watcher has reported EnumerationCompleted
    posted,      \* watcher events on their way to the UI thread
    restart,     \* watcherRestartScheduled
    recoveries,  \* how many recoveries began
    inProgress,  \* bluetooth.inProgress
    stage,       \* per device: idle, connectionQueue, in flight or sessions
    carries,     \* devices whose request or session has a DeviceInformation
    desired,     \* desiredDevices
    suppressed,  \* suppressedAutoReconnects
    pendingAuto, \* pendingAutoReconnects
    rows,        \* g_deviceRows
    discovered,  \* g_discoveredDevices
    recon,       \* where ReconcileDevicesAsync waits, or "off"
    found,       \* the devices its enumeration returned
    reconPending \* reconciliationPending

worldVars   == <<present, changes, lapsed>>
systemVars  == <<created, watching, seen, enumerated>>
watcherVars == <<systemVars, watcher, restart>>
recoverVars == <<recoveries, inProgress>>
flowVars    == <<stage, carries, desired, suppressed>>
listVars    == <<rows, discovered>>
reconVars   == <<recon, found, reconPending>>
vars == <<worldVars, watcherVars, posted, recoverVars, flowVars, pendingAuto, listVars,
          reconVars>>

-----------------------------------------------------------------------------
(* The list *)

\* Has a session or a queued request.
Active(d) == stage[d] \in {"queued", "attempting", "connected"}
ActiveDevices == {d \in Devices : Active(d)}

\* UpsertDeviceRow, then MaybeQueuePendingReconnect, for every device of ds.
AutoQueued(ds) == {d \in ds \cap pendingAuto : ~Active(d) /\ d \notin suppressed}

QueueAutomatic(ds) ==
    /\ stage' = [d \in Devices |-> IF d \in ds THEN "queued" ELSE stage[d]]
    /\ carries' = carries \cup ds

\* RemoveDeviceRow removes those of ds that have a row and are not active.
Removable(ds) == (ds \cap rows) \ ActiveDevices

Rearmed(ds) == (ds \cap desired) \ suppressed

\* ScheduleDeviceReconciliation, which starts the loop or leaves a note.
Schedule(blocked) ==
    IF blocked \/ recon # "off"
    THEN reconPending' = TRUE /\ UNCHANGED <<recon, found>>
    ELSE reconPending' = FALSE /\ recon' = "enumerating" /\ UNCHANGED found

-----------------------------------------------------------------------------
(* Reconciliation *)

\* Something happened that is not made up for.  Bound: the world rests after that.
Lapses == lapsed' = TRUE /\ changes' = MaxChanges /\ recoveries' = MaxRecoveries

\* FindAllAsync completes; its result has yet to reach the UI thread.
Enumerated ==
    /\ recon = "enumerating"
    /\ found' = present
    /\ recon' = "enumerated"
    /\ UNCHANGED <<worldVars, watcherVars, posted, recoverVars, flowVars, pendingAuto,
                   listVars, reconPending>>

EnumerationFails ==
    /\ "enumerate" \in Faults
    /\ recon = "enumerating"
    /\ recon' = "tail"
    /\ Lapses
    /\ UNCHANGED <<present, watcherVars, posted, inProgress, flowVars, pendingAuto,
                   listVars, found, reconPending>>

\* A recovery began meanwhile; the result is dropped.
Deferred ==
    /\ recon = "enumerated" /\ inProgress
    /\ reconPending' = TRUE
    /\ recon' = "tail"
    /\ UNCHANGED <<worldVars, watcherVars, posted, recoverVars, flowVars, pendingAuto,
                   listVars, found>>

\* The devices found are added, those of the list that were not are removed;
\* a remembered device that is gone may reconnect when it comes back.
Reconcile ==
    /\ recon = "enumerated" /\ ~inProgress
    /\ LET auto  == AutoQueued(found)
           stale == Removable(discovered \ found)
       IN  /\ QueueAutomatic(auto)
           /\ rows' = (rows \cup found) \ stale
           /\ discovered' = (discovered \cup found) \ stale
           /\ pendingAuto' = (pendingAuto \ auto) \cup Rearmed(stale)
    /\ recon' = IF reconPending THEN "enumerating" ELSE "tail"
    /\ reconPending' = FALSE
    /\ UNCHANGED <<worldVars, watcherVars, posted, recoverVars, desired, suppressed, found>>

ReconciliationEnds ==
    /\ recon = "tail"
    /\ IF reconPending /\ ~inProgress
       THEN reconPending' = FALSE /\ recon' = "enumerating"
       ELSE recon' = "off" /\ UNCHANGED reconPending
    /\ UNCHANGED <<worldVars, watcherVars, posted, recoverVars, flowVars, pendingAuto,
                   listVars, found>>

-----------------------------------------------------------------------------
(* The watcher: what the system does *)

Event(kind, d) == [watcher |-> created, kind |-> kind, dev |-> d]

Post(e) == Len(posted) < MaxPosted /\ posted' = Append(posted, e)

\* The initial enumeration of the newest watcher.
ReportAdded(d) ==
    /\ watching /\ d \in present \ seen
    /\ seen' = seen \cup {d}
    /\ Post(Event("Added", d))
    /\ UNCHANGED <<worldVars, created, watching, enumerated, watcher, restart, recoverVars,
                   flowVars, pendingAuto, listVars, reconVars>>

ReportEnumerated ==
    /\ watching /\ ~enumerated /\ seen = present
    /\ enumerated' = TRUE
    /\ \E d \in Devices : Post(Event("EnumerationCompleted", d))
    /\ UNCHANGED <<worldVars, created, watching, seen, watcher, restart, recoverVars,
                   flowVars, pendingAuto, listVars, reconVars>>

\* Every change from then on is an event of its own.
Appear(d) ==
    /\ d \notin present /\ changes < MaxChanges
    /\ LateSnapshots \/ recon # "enumerated"
    /\ IF recon = "enumerated" THEN Lapses
       ELSE changes' = changes + 1 /\ UNCHANGED <<lapsed, recoveries>>
    /\ present' = present \cup {d}
    /\ IF watching
       THEN Post(Event("Added", d)) /\ seen' = seen \cup {d}
       ELSE UNCHANGED <<posted, seen>>
    /\ UNCHANGED <<created, watching, enumerated, watcher, restart, inProgress, flowVars,
                   pendingAuto, listVars, reconVars>>

Vanish(d) ==
    /\ d \in present /\ changes < MaxChanges
    /\ LateSnapshots \/ recon # "enumerated"
    /\ IF recon = "enumerated" THEN Lapses
       ELSE changes' = changes + 1 /\ UNCHANGED <<lapsed, recoveries>>
    /\ present' = present \ {d}
    /\ IF watching /\ d \in seen
       THEN Post(Event("Removed", d)) /\ seen' = seen \ {d}
       ELSE UNCHANGED <<posted, seen>>
    /\ UNCHANGED <<created, watching, enumerated, watcher, restart, inProgress, flowVars,
                   pendingAuto, listVars, reconVars>>

ReportUpdated(d) ==
    /\ watching /\ d \in seen
    /\ Post(Event("Updated", d))
    /\ UNCHANGED <<worldVars, watcherVars, recoverVars, flowVars, pendingAuto, listVars,
                   reconVars>>

\* The system stops the watcher, with its radio for example.
ReportStopped ==
    /\ watching /\ created < MaxWatchers /\ ~lapsed
    /\ watching' = FALSE
    /\ \E d \in Devices : Post(Event("Stopped", d))
    /\ UNCHANGED <<worldVars, created, seen, enumerated, watcher, restart, recoverVars,
                   flowVars, pendingAuto, listVars, reconVars>>

-----------------------------------------------------------------------------
(* The watcher: handlers on the UI thread *)

\* The handlers ignore a sender that is not the present watcher.  A watcher posts
\* nothing after Stopped and is replaced after that was handled, so none is
\* (NoStrayEvent of DeviceWatcherProofs).
Takes(kind) ==
    /\ posted # <<>>
    /\ Head(posted).watcher = watcher
    /\ Head(posted).kind = kind
    /\ posted' = Tail(posted)

\* During a recovery, an event about a device only leaves a note.
HandleDuringRecovery ==
    /\ inProgress
    /\ Takes("Added") \/ Takes("Removed") \/ Takes("Updated")
    /\ reconPending' = TRUE
    /\ UNCHANGED <<worldVars, watcherVars, recoverVars, flowVars, pendingAuto, listVars,
                   recon, found>>

HandleAdded ==
    /\ ~inProgress /\ Takes("Added")
    /\ LET d    == Head(posted).dev
           auto == AutoQueued({d})
       IN  /\ rows' = rows \cup {d}
           /\ discovered' = discovered \cup {d}
           /\ QueueAutomatic(auto)
           /\ pendingAuto' = pendingAuto \ auto
    /\ UNCHANGED <<worldVars, watcherVars, recoverVars, desired, suppressed, reconVars>>

\* The row of an active device stays; only a note is left.
HandleRemoved ==
    /\ ~inProgress /\ Takes("Removed")
    /\ LET d    == Head(posted).dev
           gone == Removable({d})
       IN  IF Active(d)
           THEN /\ discovered' = discovered \ {d}
                /\ reconPending' = TRUE
                /\ UNCHANGED <<rows, pendingAuto>>
           ELSE /\ rows' = rows \ gone
                /\ discovered' = discovered \ gone
                /\ pendingAuto' = pendingAuto \cup Rearmed(gone)
                /\ UNCHANGED reconPending
    /\ UNCHANGED <<worldVars, watcherVars, recoverVars, flowVars, recon, found>>

HandleUpdated ==
    /\ ~inProgress /\ Takes("Updated")
    /\ IF Head(posted).dev \in discovered THEN UNCHANGED reconVars ELSE Schedule(FALSE)
    /\ UNCHANGED <<worldVars, watcherVars, recoverVars, flowVars, pendingAuto, listVars>>

HandleEnumerated ==
    /\ Takes("EnumerationCompleted")
    /\ Schedule(inProgress)
    /\ UNCHANGED <<worldVars, watcherVars, recoverVars, flowVars, pendingAuto, listVars>>

HandleStopped ==
    /\ Takes("Stopped")
    /\ restart' = TRUE
    /\ UNCHANGED <<worldVars, systemVars, watcher, recoverVars, flowVars, pendingAuto,
                   listVars, reconVars>>

Watches ==
    /\ created' = created + 1
    /\ watcher' = created + 1
    /\ watching' = TRUE
    /\ seen' = {} /\ enumerated' = FALSE
    /\ UNCHANGED <<changes, lapsed, recoveries>>

\* No watcher is left; `created' counts the one that could not start.
StartThrows ==
    /\ "start" \in Faults /\ created + 1 < MaxWatchers
    /\ created' = created + 1
    /\ UNCHANGED <<changes, lapsed, recoveries>>
    /\ watcher' = NoWatcher
    /\ watching' = FALSE
    /\ seen' = {} /\ enumerated' = FALSE

\* The exception ends RestartDeviceWatcherAfterDelay; nothing is scheduled.
CreateThrows ==
    /\ "create" \in Faults
    /\ Lapses
    /\ watcher' = NoWatcher
    /\ watching' = FALSE
    /\ UNCHANGED <<created, seen, enumerated>>

\* Mutant: watcherRestartScheduled is cleared after StartDeviceWatcher, which
\* then does not schedule another restart.
RestartAfterDelayMut ==
    /\ restart /\ ~inProgress
    /\ Watches \/ StartThrows \/ CreateThrows
    /\ restart' = FALSE
    /\ UNCHANGED <<present, posted, inProgress, flowVars, pendingAuto, listVars,
                   reconVars>>

\* RestartDeviceWatcherAfterDelay and StartDeviceWatcher, once the delay is over
\* and no recovery runs.
RestartAfterDelay ==
    /\ restart /\ ~inProgress
    /\ \/ Watches /\ restart' = FALSE
       \/ StartThrows /\ restart' = TRUE
       \/ CreateThrows /\ restart' = FALSE
    /\ UNCHANGED <<present, posted, inProgress, flowVars, pendingAuto, listVars,
                   reconVars>>

-----------------------------------------------------------------------------
(* The connection flow, as far as the list sees it *)

InFlight == {d \in Devices : stage[d] \in {"dispatched", "attempting", "returned"}}

\* Quick Connect needs the DeviceInformation that the list keeps.
QuickConnect(d) ==
    /\ d \in rows \cap discovered /\ ~Active(d)
    /\ stage' = [stage EXCEPT ![d] = "queued"]
    /\ carries' = carries \cup {d}
    /\ suppressed' = suppressed \ {d}
    /\ pendingAuto' = pendingAuto \ {d}
    /\ UNCHANGED <<worldVars, watcherVars, posted, recoverVars, desired, listVars,
                   reconVars>>

\* Force Connect does without; for a connected device it is `No sound'.
ForceConnect(d) ==
    /\ d \in rows /\ stage[d] # "attempting"
    /\ stage' = [stage EXCEPT ![d] = "queued"]
    /\ carries' = IF stage[d] = "queued" THEN carries ELSE carries \ {d}
    /\ suppressed' = suppressed \ {d}
    /\ pendingAuto' = pendingAuto \ {d}
    /\ UNCHANGED <<worldVars, watcherVars, posted, recoverVars, desired, listVars,
                   reconVars>>

DisconnectDevice(d) ==
    /\ d \in rows /\ Active(d)
    /\ stage' = [stage EXCEPT ![d] = "idle"]
    /\ desired' = desired \ {d}
    /\ pendingAuto' = pendingAuto \ {d}
    /\ Schedule(inProgress)
    /\ UNCHANGED <<worldVars, watcherVars, posted, recoverVars, carries, suppressed,
                   listVars>>

\* The worker takes a request from the queue.
Dispatch(d) ==
    /\ stage[d] = "queued" /\ ~inProgress /\ InFlight = {}
    /\ stage' = [stage EXCEPT ![d] = "dispatched"]
    /\ UNCHANGED <<worldVars, watcherVars, posted, recoverVars, carries, desired,
                   suppressed, pendingAuto, listVars, reconVars>>

\* Mutant: the row that was removed since the dispatch is not put back.
BeginAttemptMut(d) ==
    /\ stage[d] = "dispatched"
    /\ stage' = [stage EXCEPT ![d] = "attempting"]
    /\ UNCHANGED <<worldVars, watcherVars, posted, recoverVars, carries, desired,
                   suppressed, pendingAuto, listVars, reconVars>>

\* ConnectDeviceAsync creates the session, with UpsertDeviceRow if it can.
BeginAttempt(d) ==
    /\ stage[d] = "dispatched"
    /\ stage' = [stage EXCEPT ![d] = "attempting"]
    /\ rows' = rows \cup ({d} \cap carries)
    /\ discovered' = discovered \cup ({d} \cap carries)
    /\ UNCHANGED <<worldVars, watcherVars, posted, recoverVars, carries, desired,
                   suppressed, pendingAuto, reconVars>>

\* The lookup finds the device, or the snapshot of the request serves.
LookupEnds(d) ==
    /\ stage[d] = "attempting" /\ ~inProgress
    /\ d \in present \cup carries
    /\ carries' = carries \cup {d}
    /\ rows' = rows \cup {d}
    /\ discovered' = discovered \cup {d}
    /\ UNCHANGED <<worldVars, watcherVars, posted, recoverVars, stage, desired, suppressed,
                   pendingAuto, reconVars>>

Connects(d) ==
    /\ stage[d] = "attempting" /\ ~inProgress
    /\ stage' = [stage EXCEPT ![d] = "connected"]
    /\ desired' = desired \cup {d}
    /\ pendingAuto' = pendingAuto \ {d}
    /\ UNCHANGED <<worldVars, watcherVars, posted, recoverVars, carries, suppressed,
                   listVars, reconVars>>

\* The session goes, with a reconciliation; the worker has yet to hear of it.
AttemptFails(d) ==
    /\ stage[d] = "attempting" /\ ~inProgress
    /\ stage' = [stage EXCEPT ![d] = "returned"]
    /\ Schedule(FALSE)
    /\ UNCHANGED <<worldVars, watcherVars, posted, recoverVars, carries, desired,
                   suppressed, pendingAuto, listVars>>

\* The worker queues a retry without a DeviceInformation, or gives up.  An
\* attempt that threw has its session closed here, without a reconciliation.
AttemptConcluded(d) ==
    /\ stage[d] = "returned" \/ (stage[d] \in {"dispatched", "attempting"} /\ ~inProgress)
    /\ \/ /\ stage' = [stage EXCEPT ![d] = "queued"]
          /\ pendingAuto' = pendingAuto \ {d}
       \/ /\ stage' = [stage EXCEPT ![d] = "idle"]
          /\ UNCHANGED pendingAuto
    /\ carries' = carries \ {d}
    /\ UNCHANGED <<worldVars, watcherVars, posted, recoverVars, desired, suppressed,
                   listVars, reconVars>>

\* HandleConnectionClosed; the remote end closes the connection.
RemoteCloses(d) ==
    /\ stage[d] = "connected"
    /\ stage' = [stage EXCEPT ![d] = "idle"]
    /\ suppressed' = IF inProgress THEN suppressed ELSE suppressed \cup {d}
    /\ pendingAuto' = pendingAuto \ {d}
    /\ Schedule(inProgress)
    /\ UNCHANGED <<worldVars, watcherVars, posted, recoverVars, carries, desired, listVars>>

\* EnsureBluetoothReady, for the attempt in flight: of one of these devices, or of one
\* beyond Devices.  Bound: the latter only while one of these is connected.
BeginRecovery ==
    /\ \E d \in Devices :
          stage[d] = "attempting" \/ (stage[d] = "connected" /\ InFlight = {})
    /\ ~inProgress /\ recoveries < MaxRecoveries
    /\ inProgress' = TRUE
    /\ recoveries' = recoveries + 1
    /\ UNCHANGED <<worldVars, watcherVars, posted, flowVars, pendingAuto, listVars,
                   reconVars>>

\* A forced recovery closes the connected sessions before it requests Off.
RecoveryClosesSessions ==
    /\ inProgress
    /\ \E d \in Devices : stage[d] = "connected"
    /\ stage' = [d \in Devices |-> IF stage[d] = "connected" THEN "idle" ELSE stage[d]]
    /\ UNCHANGED <<worldVars, watcherVars, posted, recoverVars, carries, desired,
                   suppressed, pendingAuto, listVars, reconVars>>

\* Mutant: a reconciliation that ended during the recovery is not made up for.
EndRecoveryMut ==
    /\ inProgress
    /\ inProgress' = FALSE
    /\ UNCHANGED <<worldVars, watcherVars, posted, recoveries, flowVars, pendingAuto,
                   listVars, reconVars>>

EndRecovery ==
    /\ inProgress
    /\ inProgress' = FALSE
    /\ Schedule(FALSE)
    /\ UNCHANGED <<worldVars, watcherVars, posted, recoveries, flowVars, pendingAuto,
                   listVars>>

-----------------------------------------------------------------------------

\* After SetupFlyouts and QueueRememberedDevices; StartDeviceWatcher may have
\* failed to start the watcher.
Init ==
    /\ present \in SUBSET Devices /\ changes = 0 /\ lapsed = FALSE
    /\ created = 1
    /\ \/ watcher = 1 /\ watching = TRUE /\ restart = FALSE
       \/ "start" \in Faults /\ watcher = NoWatcher /\ watching = FALSE /\ restart = TRUE
    /\ seen = {} /\ enumerated = FALSE
    /\ posted = <<>>
    /\ recoveries = 0 /\ inProgress = FALSE
    /\ stage = [d \in Devices |-> "idle"]
    /\ carries = {}
    /\ desired = Remembered /\ suppressed = {} /\ pendingAuto = Remembered
    /\ rows = {} /\ discovered = {}
    /\ recon = "off" /\ found = {} /\ reconPending = FALSE

Reports == ReportEnumerated \/ \E d \in Devices : ReportAdded(d)

System ==
    \/ ReportStopped
    \/ \E d \in Devices : ReportUpdated(d) \/ Appear(d) \/ Vanish(d)

Handlers ==
    \/ HandleDuringRecovery \/ HandleAdded \/ HandleRemoved
    \/ HandleUpdated \/ HandleEnumerated \/ HandleStopped

Reconciliation ==
    Enumerated \/ EnumerationFails \/ Deferred \/ Reconcile \/ ReconciliationEnds

Flow ==
    \/ BeginRecovery \/ RecoveryClosesSessions
    \/ \E d \in Devices :
          \/ QuickConnect(d) \/ ForceConnect(d) \/ DisconnectDevice(d) \/ Dispatch(d)
          \/ BeginAttempt(d) \/ LookupEnds(d) \/ Connects(d) \/ AttemptFails(d)
          \/ AttemptConcluded(d) \/ RemoteCloses(d)

Next == Reports \/ System \/ Handlers \/ Reconciliation \/ RestartAfterDelay \/ Flow
            \/ EndRecovery

Spec == Init /\ [][Next]_vars

\* The initial enumeration ends, posted work runs, asynchronous operations
\* complete, delays elapse and a recovery ends, each of its waits being bounded.
FairSpec ==
    /\ Spec
    /\ WF_vars(Reports) /\ WF_vars(Handlers) /\ WF_vars(Reconciliation)
    /\ WF_vars(RestartAfterDelay) /\ WF_vars(EndRecovery)

-----------------------------------------------------------------------------
(* Properties *)

\* Every variable has its type, and a device that the list knows has a row.
TypeOK ==
    /\ present \subseteq Devices /\ changes \in 0..MaxChanges
    /\ created \in 1..MaxWatchers /\ watcher \in 0..created
    /\ watching \in BOOLEAN /\ seen \subseteq Devices /\ enumerated \in BOOLEAN
    /\ restart \in BOOLEAN /\ lapsed \in BOOLEAN
    /\ recoveries \in 0..MaxRecoveries /\ inProgress \in BOOLEAN
    /\ stage \in [Devices -> Stages]
    /\ {carries, desired, suppressed, pendingAuto} \subseteq SUBSET Devices
    /\ {rows, found} \subseteq SUBSET Devices /\ discovered \subseteq rows
    /\ Len(posted) <= MaxPosted
    /\ \A i \in DOMAIN posted : posted[i] \in
          [watcher: 1..created, kind: EventKinds, dev: Devices]
    /\ recon \in {"off", "enumerating", "enumerated", "tail"}
    /\ reconPending \in BOOLEAN

\* A device that is queued, being connected or connected has a row to act on, from
\* the request's DeviceInformation on (DeviceListUi.hpp, RemoveDeviceRow).  A removal
\* or a reconciliation may take the row while the request is on its way from the
\* queue to its session, in neither of them; ConnectDeviceAsync puts it back.
BusyRowStands == \A d \in ActiveDevices \cap carries : d \in rows

\* The list gets to hold every discoverable device (README.md, Features), unless an
\* enumeration failed or was overtaken, or no watcher could be created.
PresentIsListed == <>[](lapsed \/ present \subseteq rows \cap discovered)

\* A reconciliation leaves no row of a device that it did not find and that has
\* neither a session nor a queued request (DeviceListUi.hpp, RemoveDeviceRow).
ReconciliationRemovesAbsent ==
    [][Reconcile => rows' \ found \subseteq {d \in Devices : Active(d)}]_vars

\* A watcher that the system stopped is replaced by one that runs, unless none could
\* be created.
WatcherComesBack == ~watching ~> (watching \/ lapsed)

=============================================================================
