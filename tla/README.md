# A TLA+ model of Aulay

Aulay is a Windows tray program that turns the PC into a Bluetooth speaker: it
opens A2DP sink connections to the phones the user picks, resets the Bluetooth
adapter when that is needed to do so, and keeps a list of devices and a file of
preferences up to date. Almost all of it runs as C++/WinRT coroutines on one UI
thread. What is hard about it is not parallelism but interleaving: at every
`co_await` any click, device event, link callback or shutdown may come in, and
the code behind the await must not trust what it knew before.

This directory holds TLA+ modules of that logic, the TLC configurations that
check them, and proofs for TLAPS. `PROJECT.json` ties every definition to the
source lines it stands for, every property to a run, and lists the hazards the
properties are for.

    tlc -workers 2 -config ConnectionFlow_one.cfg MCConnectionFlow
    tlc -workers 2 -config SettingsSave.cfg SettingsSave
    tlc -workers 2 -config BluetoothRecovery.cfg BluetoothRecovery
    tlapm ConnectionFlowProofs.tla
    tlapm BluetoothRecoveryProofs.tla

## The system

| Component | Source | State | Operations | Model |
| --- | --- | --- | --- | --- |
| Connection flow | `ConnectionFlow.hpp`, `ConnectionState.hpp` | `sessions`, `connectionQueue`, `connectGenerations`, `queueChanged` event, remembered / suppressed / prepared / deferred device sets | clicks (quick, forced, disconnect), queue worker, one attempt (prepare, look up, create, start, open, commit), retry with back-off, remote close, background close, shutdown | `ConnectionFlow` implements `CloseChain`; `ConnectionFlowProofs`, `ConnectionLinksProofs` |
| Connection creation | `ConnectionCreation.hpp` | a shared `State` per driver call: connection, error, abandoned, claimed, events | `Run` on a pool thread, `Take` and `Abandon` on the UI thread | `ConnectionCreation` implements `CreationSlot`; `ConnectionCreationProofs` |
| Bluetooth recovery | `BluetoothRecovery.hpp` | `bluetooth.inProgress`, the radio | `EnsureBluetoothReady`, off/on transaction, compensation | `BluetoothRecovery` implements `RadioCycle`; its entry and exit in `ConnectionFlow`; `BluetoothRecoveryProofs` |
| Audio flow | `AudioFlowRecovery.hpp`, `AudioFlowPolicy.hpp` | a task per session, its thread, the capture endpoint | verify frames, repair the endpoint once, clean up after close | `AudioFlow` implements `CloseChain`; the life of one session's task also in `ConnectionFlow`; `AudioFlowProofs` |
| Device list | `DeviceWatcher.hpp`, `DeviceListUi.hpp` | watcher, rows, discovered devices, reconciliation and restart flags | watcher events, reconciliation, restart with back-off | `DeviceWatcher`; the parts that reach the queue also in `ConnectionFlow`; `DeviceWatcherProofs` |
| Settings | `SettingsSave.hpp`, `SettingsUtil.hpp` | pending snapshot, worker flags, active store, two files | queue a snapshot, write it, fall back to the other store, drain at shutdown, load | `SettingsSave`; `SettingsSaveProofs` |
| Async primitives | `AsyncUtil.hpp`, `ConnectionTiming.hpp` | event and status of one wait | bounded, cancellable waits; retry delay | `AsyncWait`, composed into `BluetoothRecovery`; elsewhere waits that end in any way; `BluetoothRecoveryProofs` |
| Background log | `BackgroundLog.hpp`, `Diagnostics.hpp`, `DiagnosticSampling.hpp` | bounded queue, drop counters, thread | push, write, stop | `BackgroundLog`, composed into `Diagnostics`; `DiagnosticsProofs` |
| Bluetooth routing | `BluetoothRouting.hpp` | cache of routes from device to adapter | look up, resolve, invalidate | `BluetoothRouting`, composed into `BluetoothRecovery`; `BluetoothRecoveryProofs` |
| Application shell | `Aulay.cpp`, `Aulay.h` | `shutdownRequested` | begin and finish shutdown | actions of `ConnectionFlow`, `AudioFlow`, `SettingsSave` and, for its end, `Diagnostics` |
| Tray panel | `TrayPanel.hpp` | flyout, hooks, menus | presentation; the exit prompt | its saved choice in `SettingsSave` |
| Debug audio monitor | `DebugAudioMonitor.hpp`, `DebugAudioDiagnostics.hpp` | event queue, loss counters, journal | push from audio callbacks, write the journal, stop | `DebugAudioMonitor`, composed into `Diagnostics` |
| Utilities, translation, build, tests | `Util.hpp`, `I18n.hpp`, ... | none | stateless | not modelled |

How the parts interact:

* Clicks, watcher events and the start-up list call `PushConnectionRequest`, which
  bumps the *generation* of the device, replaces its queued request and sets the
  event. One worker coroutine at a time takes ready requests and runs one
  attempt at a time; retries go back to the queue with a time before which they
  are not ready.
* An attempt first waits for the previous audio-flow task of the device, then
  for `EnsureBluetoothReady`, which may close *every* session and switch the
  adapter off and on, then for the driver. After every wait it looks its session
  up again and compares generations.
* A session is closed by removing it at once and closing its link, revoking its
  handler and cleaning the endpoint in the background, device by device in order.
* A driver call to create a connection cannot be interrupted. Its result is
  shared with the attempt by a `State` object that either side may outlive.
* The watcher runs beside all this; while a recovery runs its events are noted
  only, and a *reconciliation* (a fresh enumeration) makes up for them.
* A recovery runs on the UI thread, but its route is looked up and its radio
  requests are made on pool threads; each of its waits shares a small state
  object with a completion handler, a timer and the cancellation.
* `RecordDiagnostic` on any thread feeds two queues with a worker each: the
  audio monitor and the log. Neither may hold up its callers or the exit.
* Shutdown sets a flag, clears the queue, closes sessions and then polls until
  recovery, worker, audio tasks and settings drain are done; at last it stops
  the two diagnostic workers, one after the other.

What is hard here is in `PROJECT.json` under `hazards`: state read before an
await and used after it; callbacks of links that are gone; two request chains
for one device; wake-ups lost between `Reset` and wait; driver calls that return
late or never; a recovery for one device that harms another; the process killed
between writes to two stores; enumeration results older than the list; a request
to the radio that was given up and takes effect nevertheless; routes to adapters
that are gone; queues that are full while their worker ends.

## Conventions

* A variable stands for the field named in its comment. `worker` (and `at`,
  `recon`, `thread`) name the await at which a coroutine is suspended; an action
  is everything the code does from one await to the next, and its name is that
  of the function or of what has just ended.
* Deadlines carry no clock. A bounded wait ends by its completion, its deadline
  or by cancellation, each possible at any time. A retry delay is `later` until
  the action `DelayElapses` makes it `due`.
* `Resume` after `resume_foreground` is always posted (C++/WinRT 2.0.200602.3,
  `packages.config`): code after it runs as a later action of the UI thread, also
  when the caller was on that thread already. This is why `Dispatch` (the
  worker takes a request) and `BeginAttempt` (its session exists) are two actions.
* Results are kept only up to what later code tells apart (`RecoveryResults`,
  `AttemptResults`). The snapshot of preferences is the number of the change it
  includes.
* Variables marked *history* are not in the code; no guard of an action that
  models code reads them.
* Operators named `...Mut` are deliberate mistakes, each next to the
  definition it alters. They are not part of any specification; `PROJECT.json`
  pairs each with the property that has to fail when it takes that place.

## Modules

### ConnectionFlow

The core. `sessions`, `queue`, `gen`, `queueChanged` are the fields of
`ConnectionState`; `closing` is the chain of background closes of each device;
`links` holds the connection objects that have a handler, with whether the
remote has them open; `callbacks` holds the `HandleConnectionClosed` bodies
posted to the UI thread. `worker` and `job` stand for the coroutine pair
`ProcessConnectionQueue` / `ConnectDeviceAsync` with `EnsureBluetoothReady`
inlined.

| Actions | Code |
| --- | --- |
| `QuickConnect`, `ForceConnect`, `DisconnectDevice` | the click handlers, with `PushConnectionRequest` and `CloseConnectionSession` |
| `DeviceAdded`, `DeviceRemoved` | the watcher's handlers as far as they reach the queue |
| `Dispatch`, `Choose`, `AttemptReturned`, `AttemptThrew`, `WorkerTail` | `ProcessConnectionQueue` |
| `Begin`, `Open`, `Finish` (disjunctions of one action per await) | `ConnectDeviceAsync` |
| `Prepare` | `EnsureBluetoothReady`; the off/on transaction is one await for the Off and one for the restored radio, each with any result (in detail: `BluetoothRecovery`) |
| `CloseReturns`, `FlowWorkerEnds`, `VerificationFails` | `CloseSessionInBackground` and the audio-flow thread |
| `CreationReady`, `CreationFinishes` | the slot of `CreationSlot`, as the environment |
| `LinkOpens`, `LinkCloses`, `HandleConnectionClosed` | the link's `StateChanged` event and the posted handler |
| `BeginShutdown`, `ShutdownDrained` | `BeginShutdown`, `FinishShutdownWhenReady` |

Properties, all about several steps of several actors:

* `NoOrphanSession`: a session that is not `Connected` belongs to the attempt in
  flight and has its generation. Otherwise its row would stay busy for ever.
* `SingleLiveChain`: a queued request has the current generation, no session in
  its way, no attempt of the same generation and a worker to serve it.
* `NoLostWake`: a worker that sleeps until the next retry has not missed a
  fresh request.
* `ImplementsCloseChain`: for every device, its sessions and closes implement
  `CloseChain` (below). This contains `LinksAreSerialized`: no new link is made
  while an older link of the device, or the cleanup of its endpoint, is pending.
* `RemoteEndPausesReconnect`: after a remote close no automatic request is made
  before the next click.
* `ResetsAreBounded`: at most two adapter resets for a request, none after a
  success.
* `ResetSparesStreams`: no reset under a stream, although streams are looked at
  several awaits before the Off. The one exception the code leaves is a link that
  its remote reopens after the recovery began (history variable `reopened`); a
  forced reset, which closes every Connected session itself, has not even that.
* `StreamEndsByIntent`: a streaming session ends only by a click on its device,
  by shutdown or by the reset of a forced request.
* `CommitsAreCurrent`: no overtaken attempt becomes `Connected`.
* Liveness: `ShutdownCompletes`, `ClosedLinkRetired`, `AttemptSettles`,
  `FreshRequestServed`.

### CloseChain

What `ConnectDeviceAsync` and `CloseConnectionSession` promise each other per
device, in four actions: a session `Begins`, `Links` only when nothing of earlier
sessions is pending, `Ends` and thereby adds one pending close, and a close is
`Over` once. Two detailed modules implement it: `ConnectionFlow`, where `closing[d]`
is what is pending (`Chain(d)`), and `AudioFlow`, where it is the number of stopped
tasks that `WaitFinished` would still wait for. It is the common ground on which
`ConnectionFlow` reduces a task to a record of `closing`.

### ConnectionCreation and CreationSlot

`ConnectionCreation` has `Run` (a pool thread), `Take` and `Abandon` (the UI
thread) for one device and any number of successive creations. What one side
does under the mutex of `State` is one action. The driver is `DriverReturns`,
with an object or an error, and nothing makes it return. `CreationSlot` is the
abstract specification: a slot that is free, running, ready or released. The run
checks that `ConnectionCreation` implements it (`ImplementsSlot`); the four
states are those of `creation[d]` in `ConnectionFlow`. `NoOverlap`,
`ClosedOnce`, `NoneForgotten` and `SlotIsFreed` are what the code has to
guarantee about driver objects.

### SettingsSave

`QueueSaveSettings`, `SaveSettingsWorker`, `FlushPendingSettings`, the fallback
from the portable to the LocalAppData store, and the start of the process.
`ProcessEnds` kills it at any point, also between the write and the bookkeeping
after it. `confirmed` is the newest snapshot whose write was reported. A write
is atomic (the code writes a temporary file and renames it) and the later of two
writes has the later time stamp; stores are readable at start.

* `SavedIsFound`: what a reported save wrote is what the next start loads,
  whichever store it went to and whenever the process was killed.
* `DrainReportIsTrue`: the drain reports success only for preferences that are
  found again.
* `SnapshotsAreSaved`: a queued snapshot is taken up by a worker, as long as the
  program neither stops nor is killed.

### DeviceWatcher

Watcher events travel in order through `posted` to the handlers; an enumeration
is a snapshot `found` that nothing orders with them. `stage` abstracts the
connection flow to what the list reads of it: `queued` (in `connectionQueue`),
`attempting` and `connected` (in `sessions`), and `dispatched` / `returned`, the
two moments in which a request is in neither. `carries` says whether a request
or session holds a `DeviceInformation`, since only such a request adds a row when
its attempt begins; the look-up provides one later. A recovery belongs to the
attempt of a device in `Devices`, or to that of a device beyond them while one
of these is connected: the sessions it closes are what the list sees of it.
After a fault the code does not make up for (`lapsed`, below), the world rests.

* `BusyRowStands`: a device that is queued, being connected or connected has its
  row, from the `DeviceInformation` of its request or session on. A removal or a
  reconciliation may take the row while the request is `dispatched`, in neither
  queue nor sessions; `ConnectDeviceAsync` puts it back.
* `PresentIsListed`: when nothing is under way any more, every discoverable
  device has a row, unless the run lapsed.
* `WatcherComesBack`: a watcher that was stopped, or could not be started, is
  replaced.

### AudioFlow

All audio-flow tasks of one device: their threads (`tasks`, with `at`, the call or
wait a thread has reached), the background closes (`closers`) that wait for each
other through `predecessor`, the map entry `g_audioFlowTasks` (`latest`), the policy
of the verification and whether the capture endpoint is `visible`. Sessions are
reduced to what starts, stops and waits for tasks.

| Actions | Code |
| --- | --- |
| `BeginAttempt`, `PreviousFinished`, `LinkOpens`, `Connects`, `AttemptFails`, `Disconnects` | the steps of `ConnectDeviceAsync` and the calls of `CloseConnectionSession` |
| `CloseReturns` | `CloseSessionInBackground` |
| `ThreadStarts`, `Verifies`, `Observes`, `TimePasses`, `ThreadFails`, `SeesClosed` | `Run`, with `RecoveryPolicy::Observe` as the function `Observe` |
| `CycleChecks` ... `Restores` | `Cycle`, one action per call that reads or changes the endpoint; any call may fail, any deadline pass |
| `BeginShutdown`, `ProcessExits` | shutdown, with a drain that is complete or timed out |

* `ExitRestores`: the endpoint is hidden only during a cycle, and after a complete
  drain not at all, unless Windows refused the last call that should show it.
* `CyclesSpareLinks`: no two tasks work on the endpoint, none beside a newer link,
  no cleanup before the close of its own link.
* `LatestStandsForAll`: an attempt waits for the latest task only; this is enough
  because no earlier one is alive then.
* `NoCircularWait`: the waits without a deadline (a task for its close, a close for
  the task before it, which may be its own) never form a circle.
* `ImplementsCloseChain`: sessions and tasks implement `CloseChain`.
* `SilenceProven`: a repair needs half a second without a gap in which every
  observation is silent, and there is one repair per session.

### BluetoothRecovery, with AsyncWait, BluetoothRouting and RadioCycle

`EnsureBluetoothReady` from the moment it decided to reset the adapter, down to
the request to the driver. Three modules are composed:

* `AsyncWait` is one call of `AwaitBounded`: `CheckDeadline`, `Register` (at the
  cancellation, under its mutex), `Attach` (of the completion handler), `Resumes`
  (of the kernel wait, by event or timer) and `Request` (of a cancellation). On
  a pool thread these interleave with the end of the operation and with the
  cancellation; a wait on the UI thread is put to sleep in one step (`Asleep`).
* `BluetoothRouting` is the cache of routes: `RowShown` / `RowRemoved` (prewarm,
  invalidate), `Lookup` (`PopulateBluetoothRoute`: ancestors, adapters, choice by
  `SelectAdapter`, radio), and `ResolveStep` (`ResolveBluetoothRadio`, one action
  for each section of the cache's mutex). A route is an object: the cache may drop
  it while a look-up fills it and a reader waits for it. Adapters come and go.
* `BluetoothRecovery` adds the coroutine on the UI thread and the radio. A call of
  `SetRadioStateInBackground` is an entry of `requests`, which is issued by a
  pool thread, answered by the driver or not, takes effect (`RadioTurns`) before
  or after its answer, or after everybody gave it up, or never.

| Actions | Code |
| --- | --- |
| `Begins`, `FindsRadio`, `RadioFound`, `WaitsForTasks`, `TasksAwaited`, `Publishes` | `EnsureBluetoothReady` |
| `RequestsAccess`, `AccessAwaited`, `ReadsState`, `TurnsOff`, `OffAnswered`, `WatchesForOff`, `OffWatched` | the primary phase of `RunBluetoothRecoveryTransaction` |
| `CleansUp`, `TurnsOn`, `OnAnswered`, `WatchesForOn`, `OnWatched` | its cleanup, which no cancellation interrupts |
| `WatchEnds`, `HandlerRuns` | `WaitForRadioState` and its `StateChanged` handler |
| `RequestStep`, `RadioTurns`, `AdapterChanges` | pool thread, driver, plugs |
| `Cancels` | `AsyncCancellation::Request` by a click or the shutdown |

* `WakesAreKept`: no wait sleeps over a completion or a cancellation that came
  while it was being set up.
* `RoutesAreFresh`: a resolver never reads a route that had failed, or whose
  adapter was gone, before it began.
* `SuccessMeansCycled`: a recovery that reports success saw a radio that really
  was off and on again, whatever answers, states and callbacks said.
* `RadioRestored`: a radio that was turned off is on when all is over, provided
  the requests to turn it on took effect.
* `RecoveryEnds`: a recovery ends although the driver never answers.
* `ImplementsRadioCycle`: the coroutine implements `RadioCycle`, the promise in five
  lines: once asked to turn off, the radio is asked to turn on before the recovery
  ends; success needs both confirmed, in that order. The mapping takes the phase
  from the flags of the transaction and the place of the coroutine.

### Diagnostics, with BackgroundLog and DebugAudioMonitor

* `BackgroundLog`: `Push` (accepted, refused for want of room, or ignored after
  `Stop`), the worker's sections of the mutex (`Sleeps`, `Takes`), its output
  (`Writes`, `WriteFails`, `Closes`) and a disk that hangs.
* `DebugAudioMonitor`: `Enqueue` and `Contended` (the `try_lock` of an audio
  callback), `StopDebugAudioMonitor`, and `Run` by what it does to the queue:
  `TakesEvents`, `WritesEvent`, `ReportsLoss`, `Judges`, `MonitorEnds`.
* `Diagnostics` composes both: `RecordDiagnostic` tells first the monitor and then,
  in a section of its own, the log; `AsksFinalAudio` to `Quits` are the end of
  `FinishShutdownWhenReady`, `ShutdownApplication` and `FinishDiagnosticShutdown`.

Properties: `LogAccounted` (every entry is written in order, pending or in the
worker's hands; every refusal is reported or counted; a worker that ended without
an error left nothing), `JournalIsWhole` (a journal that says `queue-drained=true`
lacks nothing), `LogKeepsUp` (nothing is slept over), `ShutdownQuits` (neither
worker can keep the program from exiting).

## Runs

Times are with two workers. Deadlock checking is off everywhere: the program may
exit, and the bounds may stop everything.

| Run | Instance | States | Shows |
| --- | --- | --- | --- |
| `ConnectionFlow_one` | 1 device, 2 links, 3 generations, 2 closes, remembered, leaves the list | 1.03 M | all safety properties but `ResetSparesStreams`, and the refinement of `CloseChain` for the device |
| `ConnectionFlow_ends` | 1 device, 1 link, 3 generations, fairness of the dispatcher only | 52 k | `ShutdownCompletes`, `ClosedLinkRetired`, `AttemptSettles` |
| `ConnectionFlow_served` | 2 devices, 1 link, all fairness | 375 k | `FreshRequestServed`: a device that retries for ever does not starve the other; `ResetSparesStreams`: the devices that share an adapter leave each other's streams alone |
| `ConnectionFlow_pause` | 2 devices | | violation, below |
| `ConnectionCreation` | 4 creations | 22 k | all properties and the refinement |
| `SettingsSave` | 4 changes, 3 starts, all faults | 113 k | all properties but `DrainCommits` |
| `SettingsSave_drain` | 2 changes, no fault | | violation, below |
| `DeviceWatcher` | 1 device that comes and goes twice, 3 watchers, 1 recovery, every fault, late enumerations | 582 k | all properties but `ReconciliationRemovesAbsent` |
| `DeviceWatcher_absent` | 1 device, 1 change, no fault | | violation, below |
| `AudioFlow` | 3 sessions, 3 tasks, 3 ticks | 618 k | all properties and the refinement of `CloseChain` |
| `BluetoothRecovery` | 1 recovery, 2 adapters, 2 routes, 1 plug or unplug | 469 k | all properties and the refinement |
| `Diagnostics` | log of 2 entries and 3 bytes, monitor queue of 1, 3 records, 1 snapshot, 1 callback | 489 k | all properties |

### Bounds, and why they are enough

* `MaxGen` limits how often the user or the list bumps a generation; it is a
  guard of the actions that bump it. Three generations are an attempt in flight,
  the request that overtakes it and one that overtakes that; the code compares a
  generation with the current one only, so a fourth adds no new comparison.
  Retries keep their generation and are not bounded.
* `MaxCloses` limits background closes of one device that may be pending at once.
  With one, the wait for the previous task is exercised; with two, also the order
  among them. An attempt that starts while a close hangs times out and adds a
  placeholder to the chain, which without a bound would grow for ever.
* `Conns`: identities are reused after the close of the old object, and a callback
  of the old link may still be posted then, so two per device suffice to confuse
  an old link with a new one. They are symmetric. Liveness runs use no symmetry.
* `MaxChanges`, `MaxStarts`: snapshot, a newer one behind its write, the final
  one, and one more in a second run; three starts write both stores in both
  orders.
* `MaxWatchers` 3: one that stops, one that fails to start or stops again, and one
  that works. `MaxRecoveries` 1: the flags do not distinguish the first recovery
  from a later one. `MaxPosted` 2: an event and the one it overtakes.
  `MaxChanges` 2: appears and vanishes, in either order. One device: rows of
  different devices do not interact, except through a recovery for another
  device, which is an action of its own; it needs a connected device and an idle
  worker, as it shows in nothing else.
* `BluetoothRecovery`: two adapters are what `SelectAdapter` needs to refuse a
  guess; only `Home` may start switched off, since nothing reads the state of the
  other one before it is chosen. Two look-ups are a route and the one that
  replaces it, one plug is an adapter that vanishes or a second one that appears
  late. Look-ups and cache rest while a transaction runs (`RoutingRuns`), which
  reads neither. One recovery is enough for each property; two in a row, which
  let a request of the first take effect in the second, were checked once for
  the safety properties (2.04 M states).
* `Diagnostics`: two entries and three bytes make either limit the tighter one;
  a queue of one makes every snapshot in it overfull. When both workers live,
  one record and the calls of the shutdown are left to be made: the two queues
  share nothing but a caller. With one of them missing all calls are made.

* `MaxSessions`, `MaxTasks` 3 of `AudioFlow`: a task, its successor and one that
  overtakes that; the third is the first whose chain of predecessors has an inner
  link. `MaxTick` 3: one tick is `maxObservationGapMs`, a silence takes two, and
  one more lets an interrupted silence begin again.

### Fairness, and why the code justifies it

* `DispatcherFairness`: the worker's step is enabled continuously once its await
  may end, because every await there is bounded by a deadline and continuations
  are posted to a dispatcher that runs them; posted callbacks run; the shutdown
  poll is a timer. Which request is dispatched is left open. Nothing is assumed
  of the driver, the user, the remote or the watcher.
* `CloseFairness` (a background `Close` returns, an audio-flow thread ends) is an
  assumption on the driver. `AttemptSettles` is stated under it and
  `FreshRequestServed` is checked with it, only because `MaxCloses` would
  otherwise stop the chain of placeholders described above. `ShutdownCompletes`
  and `ClosedLinkRetired` hold without it.
* `ConnectionCreation`: pool threads run, the driver may keep one for ever;
  `SlotIsFreed` is therefore stated for a creation whose driver call is over.
* `SettingsSave`: writes return, continuations run, the user closes the error box.
* `DeviceWatcher`: the initial enumeration of a watcher ends, posted work runs,
  `FindAllAsync` completes, delays elapse, and a recovery ends since each of its
  waits is bounded.
* `BluetoothRecovery`: the dispatcher runs what is posted to it, and the wait of
  the coroutine ends by its timer. Nothing is assumed of driver, look-ups, pool
  threads or audio tasks: `RecoveryEnds` says that their silence is survived.
* `Diagnostics`: the steps of the shutdown, each bounded by a deadline, and the
  thread of the log as long as its disk answers. Nothing of the monitor.

## Findings

The three violation runs show where the code does not do what the repository says
of it. Each line is quoted in `PROJECT.json`.

* `ConnectionFlow_pause`: a remote close during *any* recovery, also one that
  belongs to another device, is not recorded as a pause; the remembered device is
  reconnected when the watcher reports it again (`ConnectionFlow.hpp:193`,
  `README.md:21`). With one device the property holds.
* `SettingsSave_drain`: the worker has left its loop but not yet run its tail when
  shutdown queues the final snapshot; the tail does not start it again while
  `IsStopping()`, so the snapshot is lost although no write failed
  (`SettingsSave.hpp:90`). The drain reports a failure, so `DrainReportIsTrue` holds.
* `DeviceWatcher_absent`: a removal while the device is busy takes it from
  `g_discoveredDevices` only; reconciliation looks there for what to remove, so the
  row stays (`DeviceWatcher.hpp:174`, `DeviceListUi.hpp:365`).

`RadioRestored` is checked under an assumption which is a constant of the module and
fails without it: `InOrder = TRUE`, requests for a radio take effect in the order in
which they were made, or not at all. The code issues the compensating On while an
Off that timed out may still be on its way (`BluetoothRecovery.hpp:130`), and only
the driver can order them.

`PresentIsListed` excepts runs that *lapsed*. Three things are not made up for
by the code, and the property fails after each of them: a device that comes or
goes while the result of an enumeration is on its way, which that result
overrules (`DeviceWatcher.hpp:39`); a failure of the one enumeration that has to
make up for swallowed events (`:52`); and an exception of `CreateWatcher` in a
scheduled restart (`:304`). `lapsed` is set by these steps alone, so every other
run keeps the promise, also when they are possible but do not happen.
`BusyRowStands` has no such exception.

Limits of the code that no run states:

* The check for streams (`BluetoothRecovery.hpp:206`) is not repeated before the Off.
  A session that is `Connected`, with its link closed and the callback still on its
  way, does not count as a stream; when its remote reopens the link, an unforced reset
  cuts it off. `ResetSparesStreams` names this case and excludes every other.
* A removal between `ProcessConnectionQueue` taking a request and
  `ConnectDeviceAsync` making the session finds neither and removes the row
  (`DeviceListUi.hpp:367`), as does one between the end of an attempt and its retry.
  A forced request or a retry has no `DeviceInformation` to put the row back. It is
  then queued, resets the adapter and, when the look-up finds nothing, opens and
  connects without a row, so that there is nothing to cancel it with, although the
  comment at `DeviceListUi.hpp:364` has it "Keep an actionable row while a session is
  opening or connected". `BusyRowStands` therefore begins with the
  `DeviceInformation`.
* When the process ends inside a cycle, by a kill or after the 5 s of the drain, the
  endpoint stays disabled, and the next `Cycle` returns `S_FALSE` for a disabled
  endpoint without showing it (`AudioFlowRecovery.hpp:235`).
* With a single adapter `SelectBluetoothAdapterIndex` takes it also when no
  ancestor of the device matches (`BluetoothRouting.hpp:34`), although the comment
  above it speaks of an exact match (`:20`). `SelectAdapter` models the code.
* A route that was fetched is not looked at again: if its adapter is unplugged
  while a resolver waits for it, the recovery runs into the missing radio and
  fails with an error, as `ReadsState` and `Watches` have it.
* A second caller would join a recovery in progress
  (`BluetoothRecovery.hpp:215-220`); with one worker there is none.
* An output of the log that throws ends its worker; entries that are accepted
  between that and the end of its thread stay pending, and errors of single
  writes to the file are dropped by the output (`Diagnostics.hpp`). `LogAccounted`
  counts what is handed over as written and claims completeness only without
  errors. Events that audio callbacks lose after the last report of the monitor
  are in no report; `JournalIsWhole` is about refusals by a full queue.

## Proofs

Eight modules prove every safety property of the passing runs, for every value of
the constants that satisfies the named assumption of the module (`FlowAssumption`,
`CreationAssumption`, ...: null is none of the values, bounds are naturals). Two
theorems assume more: `RadioIsRestored` that requests take effect in order, `RemoteEndPauses` that there is
a single device; the code guarantees no more than that (see Findings). Each
proof goes the same way: a strengthening that is inductive, one lemma or step per
action, and the property as its consequence. The invariants were checked with TLC
before they were proved.

Some theorems state what no run lists: `TypeOK` and `LinksAreSerialized` of
`ConnectionFlow`, and safety properties that liveness properties of the runs rest on
(last column, in brackets).

| Module | Theorems | Property |
| --- | --- | --- |
| `ConnectionFlowProofs` | `TypeCorrect`, `NoOrphans`, `OneChain`, `WakesUp` | `TypeOK`, `NoOrphanSession`, `SingleLiveChain`, `NoLostWake` |
| `ConnectionLinksProofs` | `LinksSerialized`, `ResetsBounded`, `StreamsEndByIntent`, `CommitsCurrent`, `ResetsSpareStreams` | `LinksAreSerialized`, `ResetsAreBounded`, `StreamEndsByIntent`, `CommitsAreCurrent`, `ResetSparesStreams` |
| | `SuppressedDevicesRest`, `ClicksEndSuppression`, `RemoteEndPauses` | `PausedAtRest`, `SuppressionEndsByClick`, `RemoteEndPausesReconnect` |
| | `CloseChainImplemented`, `UsesSlots` | `ImplementsCloseChain`; every device's creations follow `CreationSlot` |
| | `ClosuresNoticed`, `ExitsAreFinal` | `ClosuresAreNoticed` (`ClosedLinkRetired`), `ExitIsFinal` |
| `ConnectionCreationProofs` | `NoOverlapHolds`, `ClosedOnceHolds`, `NoneForgottenHolds`, `SlotImplemented` | `NoOverlap`, `ClosedOnce`, `NoneForgotten`, `ImplementsSlot` |
| `BluetoothRecoveryProofs` | `SuccessIsCycle`, `RadioIsRestored`, `RecoveryImplementsCycle`, `WakesHold`, `RoutesStayFresh` | `SuccessMeansCycled`, `RadioRestored`, `ImplementsRadioCycle`, `WakesAreKept`, `RoutesAreFresh` |
| `AudioFlowProofs` | `ExitRestoresHolds`, `CyclesSpareLinksHold`, `LatestStandsForAllHolds`, `NoCircularWaitHolds`, `SilenceProvenHolds`, `CloseChainImplemented` | `ExitRestores`, `CyclesSpareLinks`, `LatestStandsForAll`, `NoCircularWait`, `SilenceProven`, `ImplementsCloseChain` |
| `DeviceWatcherProofs` | `BusyRowsStand`, `EventsAreOfWatcher`, `StopsAreNoticed`, `ListIsComplete` | `BusyRowStands`; only newest watcher heard; (`WatcherComesBack`); `ListedWhenQuiet` (`PresentIsListed`) |
| `SettingsSaveProofs` | `SavedFound`, `DrainReportTrue`, `ChangesAreCarried`, `FilesOnlyAdvance` | `SavedIsFound`, `DrainReportIsTrue`, `ChangesAreOnTheirWay` (`SnapshotsAreSaved`), `FilesNeverGoBack` |
| `DiagnosticsProofs` | `LogAccountedFor`, `JournalWhole`, `QueueKeepsLimits`, `SleepsOnlyIdle` | `LogAccounted`, `JournalIsWhole`, the limits of the queue, `NothingSleptOver` (`LogKeepsUp`) |

### ConnectionFlowProofs and ConnectionLinksProofs

`TypeOK` is not inductive: which fields of `job` and `sessions[Dev]` an await may
use depends on where the worker is, which is `JobShape`. `TypeInv` is both.
The three safety properties are not inductive either. That no attempt of an older
generation harms a session depends on four facts that the code never states, which
are the other conjuncts of `ChainInv`:

* `ClosedAtShutdown`: once stopping, queue and sessions are empty.
* `SessionGenerations`: a session's generation is the current one of its device.
* `AttemptGeneration`: the attempt in flight is not ahead of the current one.
* `OwnSessionOpens`: while the attempt owns the session, it is not `Connected`.

`TypeInv /\ ChainInv` is inductive (`InvariantHolds`). `TypeStep` and
`ChainStep` have one lemma per group of actions (`TypeBegin`, `ChainBegin`, ...)
and one step per action; lemmas about the helpers (`CloseSessions`,
`PushRequest`, `UpsertRow`, `StartCreation`, `Conclude`) are stated once. Actions
that leave queue, generations and sessions alone are covered by `ChainFrame`,
those that bump generations by `ChainBump`, those of the attempt by `ChainAttempt`.

The second module adds two strengthenings. `SerialInv`: from the moment the wait for
the previous task is over until the attempt ends, nothing of an earlier link of its
device is pending, and before the driver's answer its session has no link.
`ResetInv`: a request that asks for a reset has not had a successful one. Nearly
every action only keeps, moves or ends sessions and keeps the attempt in flight;
this is said once (`Undisturbed`, `WorkerKept`) and the invariant and both action
properties about streams follow from it. The actions that do more have
lemmas of their own.

`ResetsSpareStreams` rests on `QuietInv`, which carries the check for streams over the
awaits between it and the Off: what streams was reopened since. For a forced reset
it carries more, that no session is `Connected` at all once they were closed; a
closed link of one that is could still reopen. It needs `OwnerInv`: a connection
object belongs to the session that holds it or to the first pending close of its
device, so that a link which opens cannot be the one of another, connected session. `Effects`
sorts all actions by what they do to sessions, links and closes.

The rest of the module is about four more questions.

* *Does a remote close pause?* `PausedAtRest` says that a suppressed device has no
  queued request, is not armed for an automatic one and that an attempt in flight for
  it is either overtaken or already committed, so that it cannot be retried. It
  needs `SoleInv` (an attempt has no other session of its device beside it) and holds
  for any number of devices, as does `ClicksEndSuppression`. What a second device can
  do is prevent the suppression itself, when its recovery swallows the remote close;
  `RemoteEndPauses` therefore assumes one device. With one, `RecoveryInv` leaves
  only the device's own recovery, which begins after its session ended, and
  `EndedInv` (what the remote ended is suppressed) is inductive.
* *Do the two abstractions fit?* `UsesSlots` shows every device's use of
  `connectionCreations` to follow `CreationSlot`, which `SlotImplemented` shows the
  threads of `ConnectionCreation` to provide; `SlotInv` says that a creation nobody
  took or gave up has an attempt waiting for it. `CloseChainImplemented` follows from
  `SerialInv`, one lemma per effect of `Effects`.
* *Is a closed link noticed?* `ClosuresAreNoticed`: a Connected session streams, or
  the callback with its generation and its link is on its way. `HandlerInv` says that
  the handler is registered with the generation of the session that holds the link,
  `LinkedInv` that an attempt past its creation has a link, and `OwnerInv` that no
  other link is confused with it.
* *Is the exit final?* `ExitIsFinal`: once drained, no late callback, list event or
  retry starts anything.

### ConnectionCreationProofs

The invariant says where the object of each `State` is: published, in the local
of `Run`, held by the session, or closed, and never in two of these places
(`Whereabouts`); `Progress` ties the flags to the place of the thread, `AttemptInv`
the attempt to its entry. `SlotImplemented` is the safety part of the refinement,
which is all that `CreationSlot` specifies.

### BluetoothRecoveryProofs

Three invariants that do not depend on one another:

* `PhaseInv` is about the transaction and the radios, and leaves waits and routes
  unconstrained: whatever they answer, and when, success is a cycle and the
  coroutine implements `RadioCycle`. `PlaceInv` says which flags of the
  transaction go with which place, `CycleInv` that what was seen of the radio is
  true of it. `RadioIsRestored` needs `RequestInv` as well: each Off has a later On
  unless it is the last request of a transaction that has yet to make it, and
  a radio is what its latest effective request made it. It assumes `InOrder`.
* `WaitInv` is about the waits: while one is being attached or sleeps, either the
  cancellation knows it or its event is set.
* `StaleInv` is about the routes: a route that was of no use when a resolver began
  stays so, or nothing leads to it any more.

### AudioFlowProofs

The tasks of a device form a chain: the earlier ones are finished, then at most one
has a live thread, and each later one is stopped and still to be closed
(`OrderInv`). `CloserInv` says what each pending close waits for, `SessionInv` and
`LinkInv` relate task, map entry and link. `LatestStandsForAll` and
`CyclesSpareLinks` follow, and so does `NoCircularWait`: of the first task that is
unfinished, either the thread or the pending close can go on. That there is a first
one is part of the invariant, since it would need induction otherwise. `EndpointInv` gives
`ExitRestores`; `PolicyInv`, with `SilenceInv` about what the policy remembers,
gives `SilenceProven` for any gap and any length of silence.

`CloseChainImplemented` counts the stopped tasks that are not finished. A step adds
one of them (the end of a session), takes one away (its thread ends, or its close
returns, whichever is later) or leaves them alone, by the theorems about
cardinalities; a link opens only when there is none
(`AllFinished`).

### DeviceWatcherProofs

`EventInv`: every event on its way is of the present watcher, which is the newest,
and nothing follows its `Stopped`. `WatchInv`: a watcher runs, or a restart is
scheduled, or its `Stopped` is the last event, unless the run lapsed. So the
comparison of senders in the handlers never fails (`EventsAreOfWatcher`), and no
stop goes unnoticed (`StopsAreNoticed`), which is the safety half of
`WatcherComesBack`.

`BusyRowsStand` needs only the types beside it. Two steps take rows, and neither that of
an active device; a device becomes active by a click on its row, with the row of a list
event or an enumeration, with the `DeviceInformation` that `BeginAttempt` makes a row of,
or without one (a retry).

`ListIsComplete` is the core of `PresentIsListed`: if the run did not lapse, nothing
is under way and the watcher has enumerated, every discoverable device has its row.
`ListInv` accounts for each device the watcher has reported (`Accounted`): an event
that adds it is on its way, or it is listed, or an enumeration is `Due`, and a
removal on its way is followed by an addition. An enumeration on its way back shows
what is present, as any change meanwhile is a lapse.

### SettingsSaveProofs

Numbers of snapshots grow along their way: what the next start would find is at
most what is being written, that at most what is pending, that at most the
present preferences (`OrderInv`). A file just written is the newest of both stores
(`PlaceInv`), hence found. `DrainInv` says where the last snapshot is while the
drain waits. The same invariant gives `FilesNeverGoBack`, with every fault and kill,
and `ChangesAreOnTheirWay`: a pending snapshot has a worker, and where nothing can
fail (`Faults = FALSE`) the latest change is pending, in hand or on disk.

### DiagnosticsProofs

The two queues share nothing but a caller. `StepSplits` shows that each step of the
composition is a step of the log, or none, and a step of the monitor, or none;
`LogInv` and `MonitorInv` are then proved separately. `Accounts` is the balance of
the log: accepted is written, then in hand, then pending, and refused is reported,
in hand or counted. `SnapshotsOwed` and `ObserverInv` are the same for the
monitor, where lemmas count the snapshots among the events of the queue.
`NothingSleptOver` needs no strengthening: each push and the stop wake the worker,
and it goes to sleep only after a look at an empty queue.

### Only model-checked

* All liveness: fairness and `ENABLED` are outside this prover. These are
  `ShutdownCompletes`, `ClosedLinkRetired`, `AttemptSettles`, `FreshRequestServed`,
  `SlotIsFreed`, `SnapshotsAreSaved`, `PresentIsListed`, `WatcherComesBack`,
  `RecoveryEnds`, `LogKeepsUp`, `ShutdownQuits`. For five of them the table above
  names the safety property they rest on, in brackets.
* That `ConnectionFlow` with the detailed creations and tasks in place of their
  abstractions is the whole program: `CreationSlot` and `CloseChain` are implemented
  on both sides, but their composition is not a module.

## Not modelled

* Time values: deadlines, delays, back-off and the 5 s limit on draining audio
  tasks are "may elapse at any time". The grace window after a radio transition
  only delays.
* Status texts, tooltips, row layout, flyouts, hooks, menus and translation.
* JSON parsing and validation of settings, rotation and encoding of logs, what the
  audio monitor samples of endpoints and sessions and its bundles of marked files:
  text that nothing reads back.
* How an endpoint is found and captured: an iteration of a verification ends with
  any observation.
* Calls of the system that throw where the code catches and goes on: `State()` of a
  closed sender (`ConnectionFlow.hpp:175`, where the event counts as it is) or of an
  established session (`ConnectionState.hpp:355`, taken to stream), `resume_background` or
  `resume_on_signal` of a creation (`ConnectionCreation.hpp:62`), `Close` of a link, which
  counts as closed either way, and the allocation of an entry in `BackgroundLog::Push` and
  the audio monitor's `Push`. Failing waits and look-ups of a recovery are one failure,
  whatever their code (`BluetoothRecovery.hpp:270`), and a batch of the log of which
  only a part was written is counted as not written.
* The fall-back to the other settings file when the preferred one does not parse
  (`SettingsUtil.hpp:121`).
* The window procedure, start-up, and everything in `Util.hpp` and `I18n.hpp`: one
  step each, without state.

## Plan

Done: `ConnectionFlow`, `ConnectionCreation` with `CreationSlot`, `SettingsSave`,
`DeviceWatcher`, `AudioFlow`, `BluetoothRecovery` with `AsyncWait`, `BluetoothRouting` and
`RadioCycle`, `Diagnostics` with `BackgroundLog` and `DebugAudioMonitor`, their runs, and
the proofs above, with `CloseChain`. Left, the most useful first:

1. The safety halves of the remaining liveness properties: that an attempt, a
   recovery or a shutdown that has not ended has a step to take, whatever the driver
   does (`AttemptSettles`, `RecoveryEnds`, `ShutdownCompletes`).
2. What the device list and the connection flow assume of one another, as an abstract
   module that both implement.
3. The flyout of `TrayPanel.hpp`: it opens and closes between clicks and reads the
   list while the watcher changes it.
