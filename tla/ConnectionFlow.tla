--------------------------- MODULE ConnectionFlow ---------------------------
(***************************************************************************)
(* The connection core of Aulay: ConnectionFlow.hpp, the entry point of    *)
(* BluetoothRecovery.hpp and the handlers of DeviceListUi.hpp and          *)
(* DeviceWatcher.hpp that reach them.                                      *)
(*                                                                         *)
(* All of this code runs on one UI thread.  What lies between two          *)
(* `co_await's is atomic; at each `co_await' the thread may run any other  *)
(* handler.  The variable `worker' names the await at which the coroutine  *)
(* pair ProcessConnectionQueue / ConnectDeviceAsync (with                  *)
(* EnsureBluetoothReady inlined) is suspended, and an action is what it    *)
(* does from there to the next await.  A bounded wait ends by completion,  *)
(* by its deadline or by cancellation; deadlines carry no clock, so a wait *)
(* may time out at any moment.                                             *)
(***************************************************************************)
EXTENDS Integers, Sequences, FiniteSets

CONSTANTS
    Devices,        \* the audio sources, by device id
    Conns,          \* identities of AudioPlaybackConnection objects
    None,           \* a null pointer, an absent map entry
    MaxGen,         \* bound: how often each device's generation is bumped
    MaxCloses,      \* bound: background closes of a device that may pile up
    Remembered,     \* desiredDevices as LoadSettings leaves it
    Roaming         \* devices the watcher may report gone again

Modes      == {"Automatic", "Quick", "Forced"}
Strategies == {"Direct", "RestartBluetooth"}
Phases     == {"RecoveringBluetooth", "Starting", "Opening",
               "WaitingForOpened", "Connected"}

\* BluetoothRecoveryResult, up to what CanRetryConnection tells apart: Denied
\* stands for AccessDenied, TurnOffDenied and TurnOnDenied, Failed for the
\* radio being unavailable and for every timeout or unexpected failure.
RecoveryResults == {"NotRequired", "Success", "Denied", "Cancelled", "Failed"}

\* ConnectionAttemptResult, up to what CanRetryConnection tells apart: Denied
\* is DeniedBySystem, Failed every other unsuccessful result.
AttemptResults == {"Success", "Cancelled", "Denied", "Failed"}

\* notBefore of a queued request: "now" is the zero time_point of a fresh
\* request, "later" a retry whose delay runs, "due" a retry whose delay is over.
Requests ==
    [gen: Nat, mode: Modes, strategy: Strategies, prepareFirst: BOOLEAN,
     preparations: 0..2, prepResult: RecoveryResults, device: BOOLEAN,
     notBefore: {"now", "later", "due"}]

Sessions == [gen: Nat, phase: Phases, conn: Conns \cup {None}]

\* The request in flight, popped from the queue, with the results so far.
Jobs == [dev: Devices, req: Requests, result: AttemptResults]

\* A link object whose StateChanged handler was registered by a session.
Links == [dev: Devices, gen: Nat, open: BOOLEAN]

\* One CloseSessionInBackground call with the audio-flow task it signals.
\* worker: the task has a thread that still has to finish after the close.
Closings == [conn: Conns \cup {None}, worker: BOOLEAN, closed: BOOLEAN]

ASSUME FlowAssumption ==
    /\ None \notin Devices
    /\ None \notin Conns
    /\ None \notin Requests
    /\ None \notin Sessions
    /\ None \notin Jobs
    /\ None \notin Links
    /\ MaxGen \in [Devices -> Nat]
    /\ MaxCloses \in Nat \ {0}
    /\ Remembered \subseteq Devices
    /\ Roaming \subseteq Devices

VARIABLES
    shut,        \* shutdownRequested and how far FinishShutdownWhenReady got
    gen,         \* connectGenerations
    queue,       \* connectionQueue, at most one request per device
    queueChanged,\* connectionQueueChanged, a manual-reset event
    sessions,    \* sessions
    links,       \* connection objects with their registered handler and state
    callbacks,   \* HandleConnectionClosed bodies posted to the dispatcher
    closing,     \* per device: chain of background closes, oldest first
    verifying,   \* devices whose Connected session has a live audio-flow task
    creation,    \* per device: state of its entry in connectionCreations
    suppressed,  \* suppressedAutoReconnects
    pendingAuto, \* pendingAutoReconnects
    deferred,    \* deferredBluetoothRecovery
    prepared,    \* preparedDevices
    desired,     \* desiredDevices
    rows,        \* g_deviceRows
    discovered,  \* g_discoveredDevices
    worker,      \* where the worker coroutine waits; "idle" when not running
    job,         \* the request in flight
    inProgress,  \* bluetooth.inProgress
    awaited,     \* devices whose tasks EnsureBluetoothReady collected
    radio,       \* power state of the adapter
    remoteEnded, \* history: sessions ended by the remote, until the next click
    reopened     \* history: devices whose link reopened during this recovery

intentVars == <<suppressed, pendingAuto, deferred, prepared, desired, remoteEnded>>
listVars   == <<rows, discovered>>
queueVars  == <<gen, queue, queueChanged>>
linkVars   == <<sessions, links, closing, verifying>>
driverVars == <<callbacks, creation>>
radioVars  == <<inProgress, awaited, radio, reopened>>
vars == <<shut, queueVars, linkVars, driverVars, intentVars, listVars,
          worker, job, radioVars>>

stopping == shut # "running"     \* IsStopping()

-----------------------------------------------------------------------------
(* Sessions and their end *)

ConnectedDevices ==
    {d \in Devices : sessions[d] # None /\ sessions[d].phase = "Connected"}

Streaming(d) ==
    d \in ConnectedDevices /\ sessions[d].conn # None
                           /\ links[sessions[d].conn] # None
                           /\ links[sessions[d].conn].open

HasConnectedSessions == \E d \in Devices : Streaming(d)

\* CloseConnectionSession for every device of ds (each has a session).  The
\* session disappears at once; its handler is revoked and its link closed by
\* CloseSessionInBackground after the device's earlier closes.
CloseSessions(ds, skipCleanup) ==
    LET cleans(d) == d \in ConnectedDevices /\ ~skipCleanup /\ ~stopping /\ ~inProgress
    IN  /\ sessions' = [d \in Devices |-> IF d \in ds THEN None ELSE sessions[d]]
        /\ verifying' = verifying \ ds
        /\ closing' = [d \in Devices |->
              IF d \in ds
              THEN Append(closing[d], [conn   |-> sessions[d].conn,
                                       worker |-> d \in verifying \/ cleans(d),
                                       closed |-> FALSE])
              ELSE closing[d]]
        /\ UNCHANGED links

\* RevokeConnectionHandler and Close in the background, then SignalClosed.
CloseReturns(d) ==
    /\ closing[d] # <<>>
    /\ LET c == Head(closing[d])
       IN  /\ ~c.closed
           /\ links' = IF c.conn = None THEN links
                       ELSE [links EXCEPT ![c.conn] = None]
           /\ closing' = [closing EXCEPT ![d] =
                 IF c.worker THEN <<[c EXCEPT !.closed = TRUE]>> \o Tail(@)
                             ELSE Tail(@)]
    /\ UNCHANGED <<shut, queueVars, sessions, verifying, driverVars, intentVars,
                   listVars, worker, job, radioVars>>

\* The audio-flow thread of the oldest close ends: after its endpoint cleanup,
\* or early when COM or the endpoint fails.
FlowWorkerEnds(d) ==
    /\ closing[d] # <<>>
    /\ LET c == Head(closing[d])
       IN  /\ c.worker
           /\ closing' = [closing EXCEPT ![d] =
                 IF c.closed THEN Tail(@)
                             ELSE <<[c EXCEPT !.worker = FALSE]>> \o Tail(@)]
    /\ UNCHANGED <<shut, queueVars, sessions, links, verifying, driverVars,
                   intentVars, listVars, worker, job, radioVars>>

\* The verification thread of a Connected session fails on its own.
VerificationFails(d) ==
    /\ d \in verifying
    /\ verifying' = verifying \ {d}
    /\ UNCHANGED <<shut, queueVars, sessions, links, closing, driverVars, intentVars,
                   listVars, worker, job, radioVars>>

\* Mutant: a pending close of the device is overlooked.
TaskFinishedMut(d) == d \notin verifying

\* WaitFinished of the device's current audio-flow task would not suspend.
TaskFinished(d) == closing[d] = <<>> /\ d \notin verifying

-----------------------------------------------------------------------------
(* The request queue *)

InitialStrategy(mode, afterRemoteClose, prepareFirst) ==
    IF prepareFirst \/ mode = "Forced" \/ (mode = "Quick" /\ afterRemoteClose)
    THEN "RestartBluetooth" ELSE "Direct"

FreshRequest(d, mode) ==
    [gen |-> gen[d] + 1, mode |-> mode,
     strategy |-> InitialStrategy(mode, d \in deferred, d \notin prepared),
     prepareFirst |-> d \notin prepared, preparations |-> 0,
     prepResult |-> "NotRequired",
     device |-> mode # "Forced" \/ (queue[d] # None /\ queue[d].device),
     notBefore |-> "now"]

\* QueueConnectionInternal without an existing attempt, from the point where no
\* session of d is left: a new request, or a queued one updated in place, and a
\* worker if none runs.  Force Connect alone comes without a DeviceInformation.
PushRequest(d, mode) ==
    /\ gen[d] < MaxGen[d]
    /\ IF mode = "Automatic"
       THEN UNCHANGED <<suppressed, remoteEnded>>
       ELSE /\ suppressed' = suppressed \ {d}
            /\ remoteEnded' = remoteEnded \ {d}
    /\ pendingAuto' = pendingAuto \ {d}
    /\ queue' = [queue EXCEPT ![d] = FreshRequest(d, mode)]
    /\ gen' = [gen EXCEPT ![d] = @ + 1]
    /\ queueChanged' = TRUE
    /\ worker' = IF worker = "idle" THEN "loop" ELSE worker
    /\ UNCHANGED <<deferred, prepared, desired>>

\* Click on Quick Connect.
QuickConnect(d) ==
    /\ ~stopping /\ d \in rows \cap discovered
    /\ sessions[d] = None /\ queue[d] = None
    /\ PushRequest(d, "Quick")
    /\ UNCHANGED <<shut, linkVars, driverVars, listVars, job, radioVars>>

\* Click on Force Connect, or on No sound for a Connected session, which
\* PrepareForcedConnection closes first.
ForceConnect(d) ==
    /\ ~stopping /\ d \in rows
    /\ IF sessions[d] = None THEN UNCHANGED linkVars
       ELSE d \in ConnectedDevices /\ CloseSessions({d}, TRUE)
    /\ PushRequest(d, "Forced")
    /\ UNCHANGED <<shut, driverVars, listVars, job, radioVars>>

\* Click on Disconnect or Cancel.
DisconnectDevice(d) ==
    /\ ~stopping /\ d \in rows
    /\ sessions[d] # None \/ queue[d] # None
    /\ gen[d] < MaxGen[d]
    /\ gen' = [gen EXCEPT ![d] = @ + 1]
    /\ queue' = [queue EXCEPT ![d] = None]
    /\ queueChanged' = TRUE
    /\ pendingAuto' = pendingAuto \ {d}
    /\ desired' = desired \ {d}
    /\ IF sessions[d] = None THEN UNCHANGED linkVars ELSE CloseSessions({d}, FALSE)
    /\ UNCHANGED <<shut, driverVars, suppressed, deferred, prepared, remoteEnded,
                   listVars, worker, job, radioVars>>

\* A retry's delay runs out.
DelayElapses(d) ==
    /\ queue[d] # None /\ queue[d].notBefore = "later"
    /\ queue' = [queue EXCEPT ![d].notBefore = "due"]
    /\ UNCHANGED <<shut, gen, queueChanged, linkVars, driverVars, intentVars,
                   listVars, worker, job, radioVars>>

-----------------------------------------------------------------------------
(* The device list *)

\* Mutant: the sleeping worker is not told that the retry is due.
UpsertRowMut(d) ==
    /\ rows' = rows \cup {d}
    /\ discovered' = discovered \cup {d}
    /\ queue' = IF d \notin discovered /\ queue[d] # None
                THEN [queue EXCEPT ![d].notBefore = "now"] ELSE queue
    /\ UNCHANGED queueChanged

\* UpsertDeviceRow: a device that was not present makes its retry due at once.
UpsertRow(d) ==
    /\ rows' = rows \cup {d}
    /\ discovered' = discovered \cup {d}
    /\ queue' = IF d \notin discovered /\ queue[d] # None
                THEN [queue EXCEPT ![d].notBefore = "now"] ELSE queue
    /\ queueChanged' = (queueChanged \/ d \notin discovered)

\* MaybeQueuePendingReconnect, up to the early returns of QueueConnectionInternal.
ReconnectsOnSight(d) ==
    /\ d \in pendingAuto
    /\ sessions[d] = None /\ queue[d] = None
    /\ d \notin suppressed

\* The watcher, or a reconciliation, reports d.
DeviceAdded(d) ==
    /\ ~stopping /\ ~inProgress
    /\ IF ReconnectsOnSight(d)
       THEN /\ rows' = rows \cup {d}
            /\ discovered' = discovered \cup {d}
            /\ PushRequest(d, "Automatic")
       ELSE /\ UpsertRow(d)
            /\ UNCHANGED <<gen, worker, intentVars>>
    /\ UNCHANGED <<shut, linkVars, driverVars, job, radioVars>>

\* The watcher reports d gone, or a reconciliation no longer finds it.  An
\* absent remembered device is armed for a new automatic attempt.
DeviceRemoved(d) ==
    /\ ~stopping /\ ~inProgress /\ d \in rows \cap Roaming
    /\ discovered' = discovered \ {d}
    /\ IF sessions[d] # None \/ queue[d] # None
       THEN UNCHANGED <<rows, pendingAuto>>
       ELSE /\ rows' = rows \ {d}
            /\ pendingAuto' = IF d \in desired \ suppressed
                              THEN pendingAuto \cup {d} ELSE pendingAuto
    /\ UNCHANGED <<shut, queueVars, linkVars, driverVars, suppressed, deferred,
                   prepared, desired, remoteEnded, worker, job, radioVars>>

-----------------------------------------------------------------------------
(* The attempt in flight: vocabulary *)

Dev == job.dev
Req == job.req

\* IsCurrentConnectionSession for the attempt's own session.  The attempt's
\* cancellation token is requested exactly when that session is closed.
Current == sessions[Dev] # None /\ sessions[Dev].gen = Req.gen
Lost    == ~Current \/ stopping

CloseOwn == IF Current THEN CloseSessions({Dev}, FALSE) ELSE UNCHANGED linkVars

\* Why an attempt whose session is not current any more ends.
AbortCode == IF stopping \/ gen[Dev] # Req.gen THEN "Cancelled" ELSE "Failed"

\* co_return of ConnectDeviceAsync.
AttemptEnds(result) == /\ worker' = "attempted"
                       /\ job' = [job EXCEPT !.result = result]

\* The try block of ConnectDeviceAsync is left with a result.
AttemptResult(result) == /\ worker' = "final"
                         /\ job' = [job EXCEPT !.result = result]

OwnLinkOpen == links[sessions[Dev].conn].open

-----------------------------------------------------------------------------
(* ProcessConnectionQueue: choosing a request *)

Queued == {d \in Devices : queue[d] # None}
At(when) == {d \in Queued : queue[d].notBefore = when}

\* FindNextConnectionRequest: the earliest notBefore.
NextRequests == IF At("now") # {} THEN At("now") ELSE At("due")

LeaveLoop ==
    /\ worker = "loop" /\ (Queued = {} \/ stopping)
    /\ worker' = "tail"
    /\ UNCHANGED <<shut, queueVars, linkVars, driverVars, intentVars, listVars, job,
                   radioVars>>

\* Every queued request is a retry whose delay still runs.
AwaitRetry ==
    /\ worker = "loop" /\ Queued # {} /\ ~stopping
    /\ NextRequests = {}
    /\ queueChanged' = FALSE
    /\ worker' = "waitDue"
    /\ UNCHANGED <<shut, gen, queue, linkVars, driverVars, intentVars, listVars, job,
                   radioVars>>

WakeForQueue ==
    /\ worker = "waitDue" /\ (queueChanged \/ At("due") # {})
    /\ worker' = "loop"
    /\ UNCHANGED <<shut, queueVars, linkVars, driverVars, intentVars, listVars, job,
                   radioVars>>

\* A stale request is discarded and the loop goes on.
Dispatch(d) ==
    /\ worker = "loop" /\ ~stopping /\ d \in NextRequests
    /\ queueChanged' = FALSE
    /\ queue' = [queue EXCEPT ![d] = None]
    /\ IF queue[d].gen # gen[d] \/ sessions[d] # None
       THEN UNCHANGED <<worker, job>>
       ELSE /\ worker' = "begin"
            /\ job' = [dev |-> d, req |-> queue[d], result |-> "Failed"]
    /\ UNCHANGED <<shut, gen, linkVars, driverVars, intentVars, listVars, radioVars>>

-----------------------------------------------------------------------------
(* ConnectDeviceAsync up to the end of the Bluetooth preparation *)

BeginCancelled ==
    /\ worker = "begin"
    /\ stopping \/ gen[Dev] # Req.gen \/ sessions[Dev] # None
    /\ AttemptEnds("Cancelled")
    /\ UNCHANGED <<shut, queueVars, linkVars, driverVars, intentVars, listVars,
                   radioVars>>

\* The driver still works on an earlier creation for this device.
BeginUnavailable ==
    /\ worker = "begin"
    /\ ~stopping /\ gen[Dev] = Req.gen /\ sessions[Dev] = None
    /\ creation[Dev] # "none"
    /\ AttemptEnds("Failed")
    /\ UNCHANGED <<shut, queueVars, linkVars, driverVars, intentVars, listVars,
                   radioVars>>

BeginAttempt ==
    /\ worker = "begin"
    /\ ~stopping /\ gen[Dev] = Req.gen /\ sessions[Dev] = None
    /\ creation[Dev] = "none"
    /\ IF Req.device THEN UpsertRow(Dev)
                     ELSE UNCHANGED <<listVars, queue, queueChanged>>
    /\ sessions' = [sessions EXCEPT ![Dev] =
          [gen |-> Req.gen, conn |-> None,
           phase |-> IF Req.strategy = "Direct" THEN "Starting"
                                                ELSE "RecoveringBluetooth"]]
    /\ worker' = "waitPrevious"
    /\ UNCHANGED <<shut, gen, links, closing, verifying, driverVars, intentVars, job,
                   radioVars>>

\* The previous connection's audio-flow task is finished; its cleanup is over.
\* A requested preparation invalidates the earlier one before it starts.
PreviousFinished ==
    /\ worker = "waitPrevious" /\ TaskFinished(Dev)
    /\ \/ /\ Lost
          /\ AttemptEnds("Cancelled")
          /\ UNCHANGED prepared
       \/ /\ ~Lost /\ Req.strategy = "Direct"
          /\ worker' = "prepared"
          /\ UNCHANGED <<job, prepared>>
       \/ /\ ~Lost /\ Req.strategy = "RestartBluetooth"
          /\ prepared' = prepared \ {Dev}
          /\ job' = [job EXCEPT !.req.preparations = @ + 1]
          /\ worker' = "ensure"
    /\ UNCHANGED <<shut, queueVars, linkVars, driverVars, suppressed, pendingAuto,
                   deferred, desired, remoteEnded, listVars, radioVars>>

\* Mutant: the wait ignores the cancellation of the attempt.
PreviousTimesOutMut ==
    /\ worker = "waitPrevious"
    /\ ~TaskFinished(Dev) /\ Len(closing[Dev]) < MaxCloses
    /\ worker' = "threw"
    /\ UNCHANGED <<shut, queueVars, linkVars, driverVars, intentVars, listVars, job,
                   radioVars>>

\* The wait for it meets its cancellation, or the attempt's deadline.  The next
\* attempts do the same while a Close hangs, so MaxCloses bounds the chain.
PreviousTimesOut ==
    /\ worker = "waitPrevious"
    /\ ~Current \/ (~TaskFinished(Dev) /\ Len(closing[Dev]) < MaxCloses)
    /\ worker' = "threw"
    /\ UNCHANGED <<shut, queueVars, linkVars, driverVars, intentVars, listVars, job,
                   radioVars>>

-----------------------------------------------------------------------------
(* EnsureBluetoothReady *)

\* forcedReset, after ++preparationAttempts: the first preparation of a forced
\* request may end the sessions of other devices.
ForcedReset == Req.mode = "Forced" /\ Req.preparations = 1

\* Mutant: a successful reset does not change the strategy of the retries.
PreparationReturnsMut(r) ==
    /\ worker' = "prepared"
    /\ job' = [job EXCEPT !.req.prepResult = r]

\* EnsureBluetoothReady returns r and ConnectDeviceAsync records it in the
\* request, which survives retries.
PreparationReturns(r) ==
    /\ worker' = "prepared"
    /\ job' = [job EXCEPT !.req.prepResult = r,
                          !.req.strategy = IF r \in {"Success", "NotRequired"}
                                           THEN "Direct" ELSE @]

\* Another device streams: its session is protected and no reset happens.
EnsureProtects ==
    /\ worker = "ensure" /\ HasConnectedSessions /\ ~ForcedReset
    /\ PreparationReturns("NotRequired")
    /\ UNCHANGED <<shut, queueVars, linkVars, driverVars, intentVars, listVars,
                   radioVars>>

EnsureStopped ==
    /\ worker = "ensure" /\ (ForcedReset \/ ~HasConnectedSessions) /\ stopping
    /\ PreparationReturns("Failed")
    /\ UNCHANGED <<shut, queueVars, linkVars, driverVars, intentVars, listVars,
                   radioVars>>

\* Mutant: the reset does not look for other devices' sessions.
EnsureStartsMut ==
    /\ worker = "ensure" /\ ~stopping
    /\ inProgress' = TRUE
    /\ worker' = "findRadio"
    /\ UNCHANGED <<shut, queueVars, linkVars, driverVars, intentVars, listVars, job,
                   awaited, radio, reopened>>

EnsureStarts ==
    /\ worker = "ensure" /\ (ForcedReset \/ ~HasConnectedSessions) /\ ~stopping
    /\ inProgress' = TRUE
    /\ worker' = "findRadio"
    /\ UNCHANGED <<shut, queueVars, linkVars, driverVars, intentVars, listVars, job,
                   awaited, radio, reopened>>

\* The radio is resolved; a forced reset closes every Connected session, then
\* the audio-flow tasks known at this moment are waited for.
RadioFound ==
    /\ worker = "findRadio" /\ Current
    /\ LET closes == IF ForcedReset THEN ConnectedDevices ELSE {}
       IN  /\ CloseSessions(closes, FALSE)
           /\ awaited' = {d \in Devices : d \in closes \/ ~TaskFinished(d)}
    /\ worker' = "waitTasks"
    /\ UNCHANGED <<shut, queueVars, driverVars, intentVars, listVars, job, inProgress,
                   radio, reopened>>

RecoveryFails(pc, results) ==
    /\ worker = pc
    /\ \E r \in results : job' = [job EXCEPT !.req.prepResult = r]
    /\ worker' = "recovered"
    /\ UNCHANGED <<shut, queueVars, linkVars, driverVars, intentVars, listVars,
                   radioVars>>

RadioNotFound == RecoveryFails("findRadio", {"Failed", "Denied", "Cancelled"})
TasksTimeOut  == RecoveryFails("waitTasks", {"Failed", "Cancelled"})

TasksFinished ==
    /\ worker = "waitTasks" /\ \A d \in awaited : TaskFinished(d)
    /\ worker' = "transaction"
    /\ UNCHANGED <<shut, queueVars, linkVars, driverVars, intentVars, listVars, job,
                   radioVars>>

\* RunBluetoothRecoveryTransaction: Off is requested, or was already the state.
RadioTurnsOff ==
    /\ worker = "transaction" /\ Current
    /\ radio' = "off"
    /\ worker' = "restore"
    /\ UNCHANGED <<shut, queueVars, linkVars, driverVars, intentVars, listVars, job,
                   inProgress, awaited, reopened>>

\* Access or Off denied, no radio, deadline or cancellation before Off.
TransactionRefused == RecoveryFails("transaction", {"Failed", "Denied", "Cancelled"})

\* The compensating On is confirmed, whatever became of the first half.
RadioRestored ==
    /\ worker = "restore"
    /\ radio' = "on"
    /\ \E r \in {"Success", "Failed", "Cancelled"} :
          job' = [job EXCEPT !.req.prepResult = r]
    /\ worker' = "recovered"
    /\ UNCHANGED <<shut, queueVars, linkVars, driverVars, intentVars, listVars,
                   inProgress, awaited, reopened>>

RestoreFails == RecoveryFails("restore", {"Failed", "Denied"})

RecoveryDone ==
    /\ worker = "recovered"
    /\ IF Req.prepResult = "Success"
       THEN /\ deferred' = deferred \ {Dev}
            /\ prepared' = prepared \cup {Dev}
       ELSE UNCHANGED <<deferred, prepared>>
    /\ inProgress' = FALSE
    /\ awaited' = {}
    /\ reopened' = {}
    /\ PreparationReturns(Req.prepResult)
    /\ UNCHANGED <<shut, queueVars, linkVars, driverVars, suppressed, pendingAuto,
                   desired, remoteEnded, listVars, radio>>

-----------------------------------------------------------------------------
(* ConnectDeviceAsync: opening the link *)

\* prepResult stands for the local recoveryResult here.  They differ for a retry
\* that prepares nothing: it keeps the earlier Success, has no device, and looks
\* the device up in either case.
PreparedLost ==
    /\ worker = "prepared" /\ Lost
    /\ CloseOwn
    /\ AttemptEnds("Cancelled")
    /\ UNCHANGED <<shut, queueVars, driverVars, intentVars, listVars, radioVars>>

PreparationFailed ==
    /\ worker = "prepared" /\ ~Lost
    /\ Req.prepResult \notin {"Success", "NotRequired"}
    /\ CloseOwn
    /\ AttemptEnds(IF Req.prepResult = "Cancelled" THEN "Cancelled" ELSE "Failed")
    /\ UNCHANGED <<shut, queueVars, driverVars, intentVars, listVars, radioVars>>

\* The session starts with the (re-)resolved device, if there is one, and its
\* connection object is created on the pool, unless the deadline has passed.
StartCreation(hasDevice) ==
    /\ IF hasDevice THEN UpsertRow(Dev)
                    ELSE UNCHANGED <<listVars, queue, queueChanged>>
    /\ sessions' = [sessions EXCEPT ![Dev].phase = "Starting"]
    /\ \/ /\ creation' = [creation EXCEPT ![Dev] = "running"]
          /\ worker' = "create"
          /\ UNCHANGED job
       \/ /\ AttemptResult("Failed")
          /\ UNCHANGED creation
    /\ UNCHANGED <<gen, links, callbacks, closing, verifying>>

\* A reset, or a request without a device, looks the device up again.
PreparedOk ==
    /\ worker = "prepared" /\ ~Lost
    /\ Req.prepResult \in {"Success", "NotRequired"}
    /\ IF Req.prepResult = "Success" \/ ~Req.device
       THEN /\ worker' = "lookup"
            /\ UNCHANGED <<queueVars, linkVars, driverVars, listVars, job>>
       ELSE StartCreation(TRUE)
    /\ UNCHANGED <<shut, intentVars, radioVars>>

LookupEnds ==
    /\ worker = "lookup"
    /\ IF Lost
       THEN /\ CloseOwn
            /\ AttemptEnds("Cancelled")
            /\ UNCHANGED <<queueVars, driverVars, listVars>>
       ELSE \E found \in BOOLEAN : StartCreation(found \/ Req.device)
    /\ UNCHANGED <<shut, intentVars, radioVars>>

\* Deadline or cancellation, outside the try block of ConnectDeviceAsync.
LookupThrows ==
    /\ worker = "lookup"
    /\ worker' = "threw"
    /\ UNCHANGED <<shut, queueVars, linkVars, driverVars, intentVars, listVars, job,
                   radioVars>>

FreeConns ==
    {c \in Conns : /\ links[c] = None
                   /\ \A cb \in callbacks : cb.conn # c}

\* Abandon without a look at the result.
CreateLost ==
    /\ worker = "create" /\ creation[Dev] = "ready" /\ Lost
    /\ creation' = [creation EXCEPT ![Dev] = "released"]
    /\ AttemptEnds("Cancelled")
    /\ UNCHANGED <<shut, queueVars, linkVars, callbacks, intentVars, listVars,
                   radioVars>>

CreateTaken(c) ==
    /\ worker = "create" /\ creation[Dev] = "ready" /\ ~Lost
    /\ c \in FreeConns
    /\ creation' = [creation EXCEPT ![Dev] = "released"]
    /\ links' = [links EXCEPT ![c] = [dev |-> Dev, gen |-> Req.gen, open |-> FALSE]]
    /\ sessions' = [sessions EXCEPT ![Dev].conn = c]
    /\ worker' = "start"
    /\ UNCHANGED <<shut, queueVars, callbacks, closing, verifying, intentVars,
                   listVars, job, radioVars>>

\* No connection object, a creation error, the deadline or a cancellation.
CreateFails ==
    /\ worker = "create"
    /\ creation' = [creation EXCEPT ![Dev] = "released"]
    /\ \E r \in {"Failed", "Denied", "Cancelled"} : AttemptResult(r)
    /\ UNCHANGED <<shut, queueVars, linkVars, callbacks, intentVars, listVars,
                   radioVars>>

\* StartAsync returned; OpenAsync is requested.
StartDone ==
    /\ worker = "start"
    /\ IF Lost
       THEN CloseOwn /\ AttemptEnds(AbortCode)
       ELSE /\ sessions' = [sessions EXCEPT ![Dev].phase = "Opening"]
            /\ worker' = "open"
            /\ UNCHANGED <<links, closing, verifying, job>>
    /\ UNCHANGED <<shut, queueVars, driverVars, intentVars, listVars, radioVars>>

\* OpenAsync returned Success; the link may or may not be open by now.
OpenDone ==
    /\ worker = "open"
    /\ IF Lost
       THEN CloseOwn /\ AttemptEnds(AbortCode)
       ELSE /\ sessions' = [sessions EXCEPT ![Dev].phase = "WaitingForOpened"]
            /\ IF OwnLinkOpen THEN AttemptResult("Success")
               ELSE worker' = "waitOpened" /\ UNCHANGED job
            /\ UNCHANGED <<links, closing, verifying>>
    /\ UNCHANGED <<shut, queueVars, driverVars, intentVars, listVars, radioVars>>

\* StartAsync or OpenAsync failed, threw, was cancelled or met the deadline.
StepFails(pc) ==
    /\ worker = pc
    /\ \E r \in {"Failed", "Denied", "Cancelled"} : AttemptResult(r)
    /\ UNCHANGED <<shut, queueVars, linkVars, driverVars, intentVars, listVars,
                   radioVars>>

StartFails == StepFails("start")
OpenFails  == StepFails("open")

\* openedSignal or its 1.5 s are over; the state is read again.
OpenedWaitEnds ==
    /\ worker = "waitOpened"
    /\ IF Lost
       THEN CloseOwn /\ AttemptEnds("Cancelled")
       ELSE /\ AttemptResult(IF OwnLinkOpen THEN "Success" ELSE "Failed")
            /\ UNCHANGED linkVars
    /\ UNCHANGED <<shut, queueVars, driverVars, intentVars, listVars, radioVars>>

FinalLost ==
    /\ worker = "final" /\ Lost
    /\ CloseOwn
    /\ AttemptEnds(AbortCode)
    /\ UNCHANGED <<shut, queueVars, driverVars, intentVars, listVars, radioVars>>

\* Mutant: the state is not read again before the commit.
CommitConnectedMut ==
    /\ worker = "final" /\ ~Lost
    /\ job.result = "Success"
    /\ sessions' = [sessions EXCEPT ![Dev].phase = "Connected"]
    /\ verifying' = IF Req.mode # "Automatic" \/ Req.prepareFirst
                    THEN verifying \cup {Dev} ELSE verifying
    /\ desired' = desired \cup {Dev}
    /\ pendingAuto' = pendingAuto \ {Dev}
    /\ AttemptEnds("Success")
    /\ UNCHANGED <<shut, queueVars, links, closing, driverVars, suppressed, deferred,
                   prepared, remoteEnded, listVars, radioVars>>

\* Success is committed only on a link that is still open after the last hop.
\* A click, or the start-up reconnect, gets its frames verified.
CommitConnected ==
    /\ worker = "final" /\ ~Lost
    /\ job.result = "Success" /\ OwnLinkOpen
    /\ sessions' = [sessions EXCEPT ![Dev].phase = "Connected"]
    /\ verifying' = IF Req.mode # "Automatic" \/ Req.prepareFirst
                    THEN verifying \cup {Dev} ELSE verifying
    /\ desired' = desired \cup {Dev}
    /\ pendingAuto' = pendingAuto \ {Dev}
    /\ AttemptEnds("Success")
    /\ UNCHANGED <<shut, queueVars, links, closing, driverVars, suppressed, deferred,
                   prepared, remoteEnded, listVars, radioVars>>

FinalFailed ==
    /\ worker = "final" /\ ~Lost
    /\ job.result = "Success" => ~OwnLinkOpen
    /\ CloseOwn
    /\ AttemptEnds(IF job.result = "Success" THEN "Failed" ELSE job.result)
    /\ UNCHANGED <<shut, queueVars, driverVars, intentVars, listVars, radioVars>>

-----------------------------------------------------------------------------
(* ProcessConnectionQueue: after the attempt *)

CanRetry(req, result) ==
    /\ result \notin {"Success", "Cancelled", "Denied"}
    /\ \/ req.strategy # "RestartBluetooth"
       \/ req.preparations < 2 /\ req.prepResult \notin {"Denied", "Cancelled"}

\* Mutant: an overtaken attempt is retried.
RequeuesMut(result) ==
    /\ CanRetry(Req, result)
    /\ ~stopping
    /\ queue[Dev] = None /\ sessions'[Dev] = None
    /\ Req.mode = "Automatic" => Dev \notin suppressed

\* The retry of the same generation goes back to the queue, with its delay.
Requeues(result) ==
    /\ CanRetry(Req, result)
    /\ ~stopping /\ gen[Dev] = Req.gen
    /\ queue[Dev] = None /\ sessions'[Dev] = None
    /\ Req.mode = "Automatic" => Dev \notin suppressed

Conclude(result) ==
    /\ IF Requeues(result)
       THEN /\ queue' = [queue EXCEPT ![Dev] =
                  [Req EXCEPT !.notBefore = "later", !.device = FALSE]]
            /\ queueChanged' = TRUE
            /\ pendingAuto' = pendingAuto \ {Dev}
            /\ suppressed' = IF Req.mode = "Automatic" THEN suppressed
                                                       ELSE suppressed \ {Dev}
       ELSE UNCHANGED <<queue, queueChanged, pendingAuto, suppressed>>
    /\ worker' = "loop"
    /\ job' = None
    /\ UNCHANGED <<shut, gen, driverVars, deferred, prepared, desired, remoteEnded,
                   listVars, radioVars>>

AttemptReturned ==
    /\ worker = "attempted"
    /\ UNCHANGED linkVars
    /\ Conclude(job.result)

\* Mutant: the placeholder session stays.
AttemptThrewMut ==
    /\ worker = "threw"
    /\ UNCHANGED linkVars
    /\ Conclude(IF stopping \/ gen[Dev] # Req.gen THEN "Cancelled" ELSE "Failed")

\* An exception left ConnectDeviceAsync; its placeholder session is released.
AttemptThrew ==
    /\ worker = "threw"
    /\ CloseOwn
    /\ Conclude(IF stopping \/ gen[Dev] # Req.gen THEN "Cancelled" ELSE "Failed")

\* Mutant: the worker stops without a last look at the queue.
WorkerTailMut ==
    /\ worker = "tail"
    /\ worker' = "idle"
    /\ UNCHANGED <<shut, queueVars, linkVars, driverVars, intentVars, listVars, job,
                   radioVars>>

\* The worker clears its flag, or goes on with what was queued meanwhile.
WorkerTail ==
    /\ worker = "tail"
    /\ worker' = IF Queued # {} /\ ~stopping THEN "loop" ELSE "idle"
    /\ UNCHANGED <<shut, queueVars, linkVars, driverVars, intentVars, listVars, job,
                   radioVars>>

-----------------------------------------------------------------------------
(* The driver: creations, link state changes and their callbacks *)

CreationReady(d) ==
    /\ creation[d] = "running"
    /\ creation' = [creation EXCEPT ![d] = "ready"]
    /\ UNCHANGED <<shut, queueVars, linkVars, callbacks, intentVars, listVars, worker,
                   job, radioVars>>

\* The pool thread is done with a creation that was taken or abandoned.
CreationFinishes(d) ==
    /\ creation[d] = "released"
    /\ creation' = [creation EXCEPT ![d] = "none"]
    /\ UNCHANGED <<shut, queueVars, linkVars, callbacks, intentVars, listVars, worker,
                   job, radioVars>>

LinkOpens(c) ==
    /\ links[c] # None /\ ~links[c].open /\ radio = "on"
    /\ LET s == sessions[links[c].dev]
       IN  /\ s # None /\ s.conn = c
           /\ s.phase \in {"Opening", "WaitingForOpened", "Connected"}
    /\ links' = [links EXCEPT ![c].open = TRUE]
    /\ reopened' = IF inProgress THEN reopened \cup {links[c].dev} ELSE reopened
    /\ UNCHANGED <<shut, queueVars, sessions, closing, verifying, driverVars,
                   intentVars, listVars, worker, job, inProgress, awaited, radio>>

\* The link closes and its handler, still registered, posts to the dispatcher.
LinkCloses(c) ==
    /\ links[c] # None /\ links[c].open
    /\ links' = [links EXCEPT ![c].open = FALSE]
    /\ callbacks' = IF stopping THEN callbacks
                    ELSE callbacks \cup
                         {[dev |-> links[c].dev, gen |-> links[c].gen, conn |-> c]}
    /\ UNCHANGED <<shut, queueVars, sessions, closing, verifying, creation,
                   intentVars, listVars, worker, job, radioVars>>

\* Mutant: the link's state is not read when the callback runs.
ActsOnClosedMut(cb) ==
    /\ ~stopping
    /\ sessions[cb.dev] # None
    /\ sessions[cb.dev].gen = cb.gen
    /\ sessions[cb.dev].conn = cb.conn
    /\ sessions[cb.dev].phase = "Connected"

\* The posted body of HandleConnectionClosed: it may be late in every respect.
ActsOnClosed(cb) ==
    /\ ~stopping
    /\ sessions[cb.dev] # None
    /\ sessions[cb.dev].gen = cb.gen
    /\ sessions[cb.dev].conn = cb.conn
    /\ ~links[cb.conn].open
    /\ sessions[cb.dev].phase = "Connected"

\* Mutant: a remote close does not suppress automatic reconnects.
HandleConnectionClosedMut(cb) ==
    /\ cb \in callbacks
    /\ callbacks' = callbacks \ {cb}
    /\ IF ActsOnClosed(cb)
       THEN /\ deferred' = IF inProgress THEN deferred ELSE deferred \cup {cb.dev}
            /\ pendingAuto' = pendingAuto \ {cb.dev}
            /\ remoteEnded' = remoteEnded \cup {cb.dev}
            /\ CloseSessions({cb.dev}, TRUE)
       ELSE UNCHANGED <<deferred, pendingAuto, remoteEnded, linkVars>>
    /\ UNCHANGED <<shut, queueVars, creation, suppressed, prepared, desired, listVars,
                   worker, job, radioVars>>

HandleConnectionClosed(cb) ==
    /\ cb \in callbacks
    /\ callbacks' = callbacks \ {cb}
    /\ IF ActsOnClosed(cb)
       THEN /\ IF inProgress THEN UNCHANGED <<suppressed, deferred>>
               ELSE /\ suppressed' = suppressed \cup {cb.dev}
                    /\ deferred' = deferred \cup {cb.dev}
            /\ pendingAuto' = pendingAuto \ {cb.dev}
            /\ remoteEnded' = remoteEnded \cup {cb.dev}
            /\ CloseSessions({cb.dev}, TRUE)
       ELSE UNCHANGED <<suppressed, deferred, pendingAuto, remoteEnded, linkVars>>
    /\ UNCHANGED <<shut, queueVars, creation, prepared, desired, listVars, worker,
                   job, radioVars>>

-----------------------------------------------------------------------------
(* Shutdown *)

BeginShutdown ==
    /\ ~stopping
    /\ shut' = "stopping"
    /\ queue' = [d \in Devices |-> None]
    /\ queueChanged' = TRUE
    /\ gen' = [d \in Devices |-> gen[d] + 1]
    /\ CloseSessions({d \in Devices : sessions[d] # None}, TRUE)
    /\ UNCHANGED <<driverVars, intentVars, listVars, worker, job, radioVars>>

\* FinishShutdownWhenReady: recovery and worker are over, the audio-flow tasks
\* are drained or their 5 s are up, and the window is destroyed.
ShutdownDrained ==
    /\ shut = "stopping" /\ ~inProgress /\ worker = "idle"
    /\ shut' = "drained"
    /\ UNCHANGED <<queueVars, linkVars, driverVars, intentVars, listVars, worker, job,
                   radioVars>>

-----------------------------------------------------------------------------

\* After LoadSettings and the first WM_CONNECTDEVICE, before the watcher reports
\* anything, with reconnectEnabled set.
Init ==
    /\ shut = "running"
    /\ gen = [d \in Devices |-> 0]
    /\ queue = [d \in Devices |-> None]
    /\ queueChanged = FALSE
    /\ sessions = [d \in Devices |-> None]
    /\ links = [c \in Conns |-> None]
    /\ callbacks = {}
    /\ closing = [d \in Devices |-> <<>>]
    /\ verifying = {}
    /\ creation = [d \in Devices |-> "none"]
    /\ suppressed = {} /\ deferred = {} /\ prepared = {} /\ remoteEnded = {}
    /\ desired = Remembered /\ pendingAuto = Remembered
    /\ rows = {} /\ discovered = {}
    /\ worker = "idle" /\ job = None
    /\ inProgress = FALSE /\ awaited = {} /\ radio = "on" /\ reopened = {}

Choose  == LeaveLoop \/ AwaitRetry \/ WakeForQueue
Begin   == BeginCancelled \/ BeginUnavailable \/ BeginAttempt
           \/ PreviousFinished \/ PreviousTimesOut
Prepare == EnsureProtects \/ EnsureStopped \/ EnsureStarts
           \/ RadioFound \/ RadioNotFound \/ TasksFinished \/ TasksTimeOut
           \/ RadioTurnsOff \/ TransactionRefused \/ RadioRestored
           \/ RestoreFails \/ RecoveryDone
Open    == PreparedLost \/ PreparationFailed \/ PreparedOk
           \/ LookupEnds \/ LookupThrows
           \/ CreateLost \/ CreateFails \/ (\E c \in Conns : CreateTaken(c))
           \/ StartDone \/ StartFails \/ OpenDone \/ OpenFails \/ OpenedWaitEnds
Finish  == FinalLost \/ CommitConnected \/ FinalFailed
           \/ AttemptReturned \/ AttemptThrew \/ WorkerTail

WorkerStep == Choose \/ Begin \/ Prepare \/ Open \/ Finish

UserOrList ==
    \E d \in Devices : \/ QuickConnect(d) \/ ForceConnect(d) \/ DisconnectDevice(d)
                       \/ DeviceAdded(d) \/ DeviceRemoved(d)

Background ==
    \/ \E d \in Devices : \/ CloseReturns(d) \/ FlowWorkerEnds(d)
                          \/ VerificationFails(d) \/ DelayElapses(d)
                          \/ CreationReady(d) \/ CreationFinishes(d)
    \/ \E c \in Conns : LinkOpens(c) \/ LinkCloses(c)

Next ==
    \/ WorkerStep
    \/ \E d \in Devices : Dispatch(d)
    \/ UserOrList
    \/ Background
    \/ \E cb \in callbacks : HandleConnectionClosed(cb)
    \/ BeginShutdown
    \/ ShutdownDrained

Spec == Init /\ [][Next]_vars

-----------------------------------------------------------------------------
(* Fairness *)

\* The UI dispatcher runs every posted continuation and callback, and every
\* await of the worker is bounded by a deadline.  Nothing is assumed of which
\* request is dispatched, nor of the driver: a Close may hang.
DispatcherFairness ==
    /\ WF_vars(WorkerStep \/ \E d \in Devices : Dispatch(d))
    /\ \A c \in Conns :
          WF_vars(\E cb \in callbacks : cb.conn = c /\ HandleConnectionClosed(cb))
    /\ WF_vars(ShutdownDrained)

\* In addition background closes return and audio-flow threads end.  The code
\* needs it for no attempt to end; the bound MaxCloses does.
CloseFairness == \A d \in Devices : WF_vars(CloseReturns(d)) /\ WF_vars(FlowWorkerEnds(d))

DispatcherFairSpec == Spec /\ DispatcherFairness
FairSpec == DispatcherFairSpec /\ CloseFairness

-----------------------------------------------------------------------------
(* Properties *)

RecoveryPcs == {"findRadio", "waitTasks", "transaction", "restore", "recovered"}
SessionPcs  == RecoveryPcs \cup {"waitPrevious", "ensure", "prepared", "lookup",
                                 "create", "start", "open", "waitOpened", "final",
                                 "threw"}
JobPcs      == SessionPcs \cup {"begin", "attempted"}
WorkerPcs   == JobPcs \cup {"idle", "loop", "waitDue", "tail"}

Callbacks == [dev: Devices, gen: Nat, conn: Conns]

\* Every variable has its type.
TypeOK ==
    /\ shut \in {"running", "stopping", "drained"}
    /\ gen \in [Devices -> Nat]
    /\ queue \in [Devices -> Requests \cup {None}]
    /\ queueChanged \in BOOLEAN
    /\ sessions \in [Devices -> Sessions \cup {None}]
    /\ links \in [Conns -> Links \cup {None}]
    /\ callbacks \in SUBSET Callbacks
    /\ closing \in [Devices -> Seq(Closings)]
    /\ verifying \in SUBSET Devices
    /\ creation \in [Devices -> {"none", "running", "ready", "released"}]
    /\ suppressed \in SUBSET Devices /\ pendingAuto \in SUBSET Devices
    /\ deferred \in SUBSET Devices /\ prepared \in SUBSET Devices
    /\ desired \in SUBSET Devices /\ remoteEnded \in SUBSET Devices
    /\ rows \in SUBSET Devices /\ discovered \in SUBSET Devices
    /\ worker \in WorkerPcs
    /\ job \in Jobs \cup {None}
    /\ inProgress \in BOOLEAN
    /\ awaited \in SUBSET Devices
    /\ reopened \in SUBSET Devices
    /\ radio \in {"on", "off"}

\* A session that is not Connected belongs to the attempt in flight, with the
\* same generation: no early return, exception or cancellation leaves a
\* placeholder behind that would keep its row busy (ConnectionFlow.hpp:818).
NoOrphanSession ==
    \A d \in Devices : sessions[d] # None /\ sessions[d].phase # "Connected" =>
        worker \in SessionPcs /\ Dev = d /\ Req.gen = sessions[d].gen

\* There is one live chain of attempts per device: a queued request carries the
\* device's current generation, finds no session in its way, is not shadowed by
\* an attempt of the same generation, and has a worker to serve it.
SingleLiveChain ==
    \A d \in Queued :
        /\ ~stopping
        /\ queue[d].gen = gen[d]
        /\ sessions[d] = None
        /\ worker # "idle"
        /\ worker \in JobPcs /\ Dev = d => Req.gen < gen[d]

\* No wake-up is lost: a worker that sleeps until the next retry is due has not
\* missed a fresh request (ConnectionFlow.hpp:778).
NoLostWake == worker = "waitDue" /\ ~queueChanged => At("now") = {}

\* A device's new link is not touched while an earlier link, or the cleanup of
\* its endpoint, is still pending (ConnectionFlow.hpp:258).
LinksAreSerialized ==
    \A d \in Devices : sessions[d] # None /\ sessions[d].conn # None =>
        closing[d] = <<>>

\* What ConnectDeviceAsync and the closes in the background promise per device: a
\* session gets its link only when all that earlier sessions left behind is over.
ChainSession(d) ==
    IF sessions[d] = None THEN "none"
    ELSE IF sessions[d].conn = None THEN "attempt" ELSE "linked"

Chain(d) == INSTANCE CloseChain WITH session <- ChainSession(d), pending <- Len(closing[d])

\* Sessions and closes of each device are such a chain, whatever else goes on: no
\* link is created beside an earlier one or its cleanup (ConnectionFlow.hpp:258), no
\* session ends without a close, and each close is over once.
ImplementsCloseChain ==
    /\ \A d \in Devices : Chain(d)!Init
    /\ [][\A d \in Devices : [Chain(d)!Next]_(Chain(d)!vars)]_vars

\* After the remote ended a session, no automatic request reclaims playback
\* until the user clicks Quick Connect or Force Connect (README.md, Features;
\* Aulay.h:202).
RemoteEndPausesReconnect ==
    \A d \in remoteEnded : queue[d] # None => queue[d].mode # "Automatic"

\* The adapter is not switched off under a session that streams, although the
\* sessions are looked at only once, several awaits earlier (README.md, Features;
\* BluetoothRecovery.hpp:206).  What the code cannot hold is a link that the
\* remote reopens after that look; a forced reset spares not even that one, it
\* has closed every Connected session before.
ResetSparesStreams ==
    [][radio = "on" /\ radio' = "off" =>
          \A d \in Devices : Streaming(d) => d \in reopened /\ ~ForcedReset]_vars

\* A request gets at most two resets, and none after a successful one, however
\* often its connection is retried (README.md, Force Connect).
ResetsAreBounded ==
    [][radio = "on" /\ radio' = "off" =>
          Req.preparations <= 2 /\ Req.prepResult # "Success"]_vars

\* A session whose link is open ends only because the user clicked on its
\* device, the application exits, or a forced request resets the adapter: never
\* through a late callback or an attempt that no longer owns it.
StreamEndsByIntent ==
    [][\A d \in Devices : Streaming(d) /\ sessions'[d] # sessions[d] =>
          gen'[d] # gen[d] \/ (worker = "findRadio" /\ ForcedReset)]_vars

\* An attempt that the user, the remote or shutdown overtook never commits.
CommitsAreCurrent ==
    [][\A d \in Devices : d \notin ConnectedDevices /\ d \in ConnectedDevices' =>
          /\ ~stopping /\ Req.gen = gen[d] /\ queue[d] = None
          /\ links[sessions'[d].conn].open]_vars

\* Shutdown completes, whatever the driver does with pending closes.
ShutdownCompletes == stopping ~> shut = "drained"

\* A session whose link has closed is retired unless the link reopens.
ClosedLinkRetired ==
    \A c \in Conns :
        (\E d \in ConnectedDevices : sessions[d].conn = c /\ ~links[c].open)
        ~> ~(\E d \in ConnectedDevices : sessions[d].conn = c /\ ~links[c].open)

\* A fresh request is taken up or withdrawn.
FreshRequestServed ==
    \A d \in Devices : (d \in At("now")) ~> (d \notin At("now"))

\* An attempt settles: its session becomes Connected or disappears, provided
\* that closes return.
AttemptSettles ==
    CloseFairness =>
        \A d \in Devices :
            (sessions[d] # None /\ d \notin ConnectedDevices)
            ~> (sessions[d] = None \/ d \in ConnectedDevices)

=============================================================================
