------------------------- MODULE DeviceWatcherProofs -------------------------
(***************************************************************************)
(* Safety proofs for DeviceWatcher, for any devices, faults and bounds.    *)
(* The handlers of the watcher compare their sender with the present       *)
(* watcher; the invariant shows that they never see another one, and that  *)
(* a watcher the system stopped is always on its way to be replaced.  The  *)
(* last part shows that the list is complete whenever nothing is under way *)
(* that could make it so.                                                  *)
(***************************************************************************)
EXTENDS DeviceWatcher, TLAPS

Events == [watcher: Nat, kind: EventKinds, dev: Devices]

\* What the lists and the events hold.
ListType ==
    /\ present \subseteq Devices /\ found \subseteq Devices
    /\ rows \subseteq Devices /\ discovered \subseteq Devices
    /\ carries \subseteq Devices
    /\ posted \in Seq(Events) /\ created \in Nat

\* Every event is of the present watcher, which is the newest one, and nothing
\* follows its Stopped.
EventInv ==
    \A i \in DOMAIN posted :
        /\ posted[i].watcher = watcher /\ watcher = created
        /\ posted[i].kind = "Stopped" => ~watching /\ i = Len(posted)

\* A watcher runs, or is to be started, or its Stopped is the last of the events.
WatchInv ==
    /\ watching => ~restart /\ watcher = created
    /\ restart => posted = <<>>
    /\ ~watching /\ ~lapsed =>
           restart \/ (posted # <<>> /\ posted[Len(posted)].kind = "Stopped")

\* No handler sees an event of a watcher that was replaced.
NoStrayEvent == \A i \in DOMAIN posted : posted[i].watcher = watcher

\* A stopped watcher is noticed, or was.
StopIsNoticed ==
    ~watching /\ ~lapsed =>
        restart \/ \E i \in DOMAIN posted :
                       posted[i].kind = "Stopped" /\ posted[i].watcher = watcher

IInv == ListType /\ EventInv /\ WatchInv

USE WatcherAssumption
USE DEF worldVars, systemVars, watcherVars, recoverVars, flowVars, listVars, reconVars

-----------------------------------------------------------------------------
(* What steps do to the events *)

\* Steps that leave the watcher and its events alone.
LEMMA WatcherUntouched ==
  ASSUME EventInv, WatchInv, UNCHANGED <<created, watcher, watching, restart, posted, lapsed>>
  PROVE  EventInv' /\ WatchInv'
  BY DEF EventInv, WatchInv

\* The newest watcher posts an event, which may be its last.
LEMMA PostKeeps ==
  ASSUME ListType, EventInv, WatchInv, NEW kind \in EventKinds, NEW d \in Devices,
         watching, Post(Event(kind, d)), UNCHANGED <<created, watcher, restart>>,
         watching' <=> kind # "Stopped"
  PROVE  posted' \in Seq(Events) /\ EventInv' /\ WatchInv'
<1> PICK e : e = Event(kind, d)
  OBVIOUS
<1>1. e \in Events /\ e.watcher = created /\ e.kind = kind
  BY DEF ListType, Event, Events
<1>2. posted' = Append(posted, e) /\ posted \in Seq(Events)
  BY DEF Post, ListType
<1>3. /\ posted' \in Seq(Events) /\ Len(posted') = Len(posted) + 1
      /\ DOMAIN posted' = 1..(Len(posted) + 1) /\ DOMAIN posted = 1..Len(posted)
      /\ Len(posted) \in Nat
      /\ posted'[Len(posted) + 1] = e
      /\ \A i \in DOMAIN posted : posted'[i] = posted[i]
  BY <1>1, <1>2
<1>4. ~restart /\ watcher = created
  BY DEF WatchInv
<1>5. EventInv'
  <2> SUFFICES ASSUME NEW i \in DOMAIN posted'
               PROVE  /\ posted'[i].watcher = created
                      /\ posted'[i].kind = "Stopped" => kind = "Stopped" /\ i = Len(posted')
    BY <1>4 DEF EventInv
  <2>1. CASE i = Len(posted) + 1
    BY <1>1, <1>3, <2>1
  <2>2. CASE i \in DOMAIN posted
    <3>1. posted[i].watcher = created /\ posted[i].kind # "Stopped"
      BY <1>4, <2>2 DEF EventInv
    <3> QED
      BY <1>3, <2>2, <3>1
  <2> QED
    BY <1>3, <2>1, <2>2
<1>6. posted' # <<>>
  BY <1>3
<1>7. WatchInv'
  BY <1>1, <1>3, <1>4, <1>6 DEF WatchInv
<1> QED
  BY <1>3, <1>5, <1>7

\* A handler takes the first event.
LEMMA TakeKeeps ==
  ASSUME ListType, EventInv, WatchInv, NEW kind, Takes(kind),
         UNCHANGED <<created, watcher, watching, lapsed>>,
         restart' <=> (restart \/ kind = "Stopped")
  PROVE  /\ posted' \in Seq(Events) /\ EventInv' /\ WatchInv'
         /\ Head(posted).dev \in Devices
<1>1. posted \in Seq(Events) /\ posted # <<>> /\ posted' = Tail(posted)
      /\ Head(posted).kind = kind
  BY DEF ListType, Takes
<1>2. /\ posted' \in Seq(Events) /\ Head(posted) = posted[1] /\ Head(posted) \in Events
      /\ Len(posted) \in Nat \ {0} /\ Len(posted') = Len(posted) - 1
      /\ DOMAIN posted = 1..Len(posted) /\ DOMAIN posted' = 1..(Len(posted) - 1)
      /\ \A i \in DOMAIN posted' : posted'[i] = posted[i + 1]
  BY <1>1
<1>3. ASSUME NEW i \in DOMAIN posted'
      PROVE  /\ posted'[i].watcher = watcher /\ watcher = created
             /\ posted'[i].kind = "Stopped" => ~watching /\ i = Len(posted')
  <2>1. i + 1 \in DOMAIN posted /\ posted'[i] = posted[i + 1]
    BY <1>2
  <2>2. /\ posted[i + 1].watcher = watcher /\ watcher = created
        /\ posted[i + 1].kind = "Stopped" => ~watching /\ i + 1 = Len(posted)
    BY <2>1 DEF EventInv
  <2> QED
    BY <1>2, <2>1, <2>2
<1>4. EventInv'
  BY <1>3 DEF EventInv
<1>5. ~restart
  BY <1>1 DEF WatchInv
<1>6. CASE kind = "Stopped"
  <2>1. ~watching /\ Len(posted) = 1
    BY <1>1, <1>2, <1>6 DEF EventInv
  <2>2. posted' = <<>>
    BY <1>2, <2>1
  <2> QED
    BY <1>2, <1>4, <1>6, <2>1, <2>2 DEF WatchInv, Events
<1>7. CASE kind # "Stopped"
  <2>1. ASSUME ~watching, ~lapsed
        PROVE  posted' # <<>> /\ posted'[Len(posted')].kind = "Stopped"
    <3>1. posted[Len(posted)].kind = "Stopped"
      BY <1>5, <2>1 DEF WatchInv
    <3>2. Len(posted) # 1
      BY <1>1, <1>2, <1>7, <3>1
    <3> QED
      BY <1>2, <3>1, <3>2
  <2>2. watching' => ~restart' /\ watcher' = created'
    BY <1>5, <1>7 DEF WatchInv
  <2>3. ~restart'
    BY <1>5, <1>7
  <2>4. WatchInv'
    BY <2>1, <2>2, <2>3 DEF WatchInv
  <2> QED
    BY <1>2, <1>4, <2>4 DEF Events
<1> QED
  BY <1>6, <1>7

\* The watcher is replaced, or cannot be.
LEMMA RestartKeeps ==
  ASSUME ListType, EventInv, WatchInv, RestartAfterDelay
  PROVE  created' \in Nat /\ EventInv' /\ WatchInv'
<1>1. posted' = <<>> /\ restart
  BY DEF RestartAfterDelay, WatchInv
<1>2. EventInv'
  BY <1>1 DEF EventInv
<1>3. CASE Watches /\ restart' = FALSE
  BY <1>1, <1>2, <1>3 DEF Watches, WatchInv, ListType
<1>4. CASE StartThrows /\ restart' = TRUE
  BY <1>1, <1>2, <1>4 DEF StartThrows, WatchInv, ListType
<1>5. CASE CreateThrows /\ restart' = FALSE
  BY <1>1, <1>2, <1>5 DEF CreateThrows, Lapses, WatchInv, ListType
<1> QED
  BY <1>3, <1>4, <1>5 DEF RestartAfterDelay

-----------------------------------------------------------------------------
(* The invariant *)

LEMMA InitInv == Init => IInv
  BY DEF Init, IInv, ListType, EventInv, WatchInv, NoWatcher

LEMMA IInvStep == ASSUME IInv, [Next]_vars PROVE IInv'
<1> USE DEF IInv
<1>1. ListType /\ EventInv /\ WatchInv
  OBVIOUS
<1> DEFINE Still == UNCHANGED <<created, watcher, watching, restart, posted, lapsed>>
           Lists == /\ present' \subseteq Devices /\ found' \subseteq Devices
                    /\ rows' \subseteq Devices /\ discovered' \subseteq Devices
                    /\ carries' \subseteq Devices
<1>2. ASSUME Still, Lists PROVE IInv'
  BY <1>1, <1>2, WatcherUntouched DEF ListType
<1>3. ASSUME posted' \in Seq(Events), EventInv', WatchInv', created' \in Nat, Lists PROVE IInv'
  BY <1>3 DEF ListType
<1>4. CASE UNCHANGED vars
  BY <1>1, <1>2, <1>4 DEF vars, ListType
<1>5. CASE Reports
  <2>1. CASE ReportEnumerated
    <3>1. PICK d \in Devices : Post(Event("EnumerationCompleted", d))
      BY <2>1 DEF ReportEnumerated
    <3>2. Lists /\ created' \in Nat /\ watching /\ watching'
          /\ UNCHANGED <<created, watcher, restart>>
      BY <1>1, <2>1 DEF ReportEnumerated, ListType
    <3>3. "EnumerationCompleted" \in EventKinds
      BY DEF EventKinds
    <3> QED
      BY <1>1, <1>3, <3>1, <3>2, <3>3, PostKeeps
  <2>2. ASSUME NEW d \in Devices, ReportAdded(d) PROVE IInv'
    <3>2. Lists /\ created' \in Nat /\ watching /\ watching' /\ Post(Event("Added", d))
          /\ UNCHANGED <<created, watcher, restart>>
      BY <1>1, <2>2 DEF ReportAdded, ListType
    <3>3. "Added" \in EventKinds
      BY DEF EventKinds
    <3> QED
      BY <1>1, <1>3, <3>2, <3>3, PostKeeps
  <2> QED
    BY <1>5, <2>1, <2>2 DEF Reports
<1>6. CASE System
  <2>1. CASE ReportStopped
    <3>1. PICK d \in Devices : Post(Event("Stopped", d))
      BY <2>1 DEF ReportStopped
    <3>2. Lists /\ created' \in Nat /\ watching /\ watching' = FALSE
          /\ UNCHANGED <<created, watcher, restart>>
      BY <1>1, <2>1 DEF ReportStopped, ListType
    <3>3. "Stopped" \in EventKinds
      BY DEF EventKinds
    <3> QED
      BY <1>1, <1>3, <3>1, <3>2, <3>3, PostKeeps
  <2>2. ASSUME NEW d \in Devices, ReportUpdated(d) PROVE IInv'
    <3>2. Lists /\ created' \in Nat /\ watching /\ watching' /\ Post(Event("Updated", d))
          /\ UNCHANGED <<created, watcher, restart>>
      BY <1>1, <2>2 DEF ReportUpdated, ListType
    <3>3. "Updated" \in EventKinds
      BY DEF EventKinds
    <3> QED
      BY <1>1, <1>3, <3>2, <3>3, PostKeeps
  <2>3. ASSUME NEW d \in Devices, Appear(d) \/ Vanish(d) PROVE IInv'
    <3>1. Lists /\ created' \in Nat /\ UNCHANGED <<created, watcher, watching, restart>>
          /\ (lapsed => lapsed')
      BY <1>1, <2>3 DEF Appear, Vanish, Lapses, ListType
    <3>2. CASE UNCHANGED posted
      BY <1>1, <1>3, <3>1, <3>2 DEF ListType, EventInv, WatchInv
    <3>3. CASE watching /\ \E kind \in {"Added", "Removed"} : Post(Event(kind, d))
      <4>1. PICK kind \in EventKinds \ {"Stopped"} : Post(Event(kind, d))
        BY <3>3 DEF EventKinds
      <4> QED
        BY <1>1, <1>3, <3>1, <3>3, <4>1, PostKeeps
    <3> QED
      BY <2>3, <3>2, <3>3 DEF Appear, Vanish
  <2> QED
    BY <1>6, <2>1, <2>2, <2>3 DEF System
<1>7. CASE Handlers
  <2>1. CASE HandleDuringRecovery
    <3>1. PICK kind \in {"Added", "Removed", "Updated"} : Takes(kind)
      BY <2>1 DEF HandleDuringRecovery
    <3>2. Lists /\ created' \in Nat /\ UNCHANGED <<created, watcher, watching, lapsed, restart>>
      BY <1>1, <2>1 DEF HandleDuringRecovery, ListType
    <3> QED
      BY <1>1, <1>3, <3>1, <3>2, TakeKeeps
  <2>2. CASE HandleAdded
    <3>1. Takes("Added") /\ UNCHANGED <<created, watcher, watching, lapsed, restart>>
      BY <2>2 DEF HandleAdded
    <3>2. posted' \in Seq(Events) /\ EventInv' /\ WatchInv' /\ Head(posted).dev \in Devices
      BY <1>1, <3>1, TakeKeeps
    <3>3. Lists
      BY <1>1, <2>2, <3>2 DEF HandleAdded, ListType, QueueAutomatic, AutoQueued
    <3> QED
      BY <1>1, <1>3, <3>1, <3>2, <3>3 DEF ListType
  <2>3. CASE HandleRemoved
    <3>1. Takes("Removed") /\ UNCHANGED <<created, watcher, watching, lapsed, restart>>
      BY <2>3 DEF HandleRemoved
    <3>2. Lists
      BY <1>1, <2>3 DEF HandleRemoved, ListType
    <3> QED
      BY <1>1, <1>3, <3>1, <3>2, TakeKeeps DEF ListType
  <2>4. CASE HandleUpdated
    <3>1. Takes("Updated") /\ UNCHANGED <<created, watcher, watching, lapsed, restart>>
      BY <2>4 DEF HandleUpdated
    <3>2. Lists
      BY <1>1, <2>4 DEF HandleUpdated, ListType, Schedule
    <3> QED
      BY <1>1, <1>3, <3>1, <3>2, TakeKeeps DEF ListType
  <2>5. CASE HandleEnumerated
    <3>1. Takes("EnumerationCompleted")
          /\ UNCHANGED <<created, watcher, watching, lapsed, restart>>
      BY <2>5 DEF HandleEnumerated
    <3>2. Lists
      BY <1>1, <2>5 DEF HandleEnumerated, ListType, Schedule
    <3> QED
      BY <1>1, <1>3, <3>1, <3>2, TakeKeeps DEF ListType
  <2>6. CASE HandleStopped
    <3>1. Takes("Stopped") /\ UNCHANGED <<created, watcher, watching, lapsed>> /\ restart'
      BY <2>6 DEF HandleStopped
    <3>2. Lists
      BY <1>1, <2>6 DEF HandleStopped, ListType
    <3> QED
      BY <1>1, <1>3, <3>1, <3>2, TakeKeeps DEF ListType
  <2> QED
    BY <1>7, <2>1, <2>2, <2>3, <2>4, <2>5, <2>6 DEF Handlers
<1>8. CASE Reconciliation
  <2>1. CASE EnumerationFails
    <3>1. UNCHANGED <<created, watcher, watching, restart, posted>> /\ lapsed' = TRUE /\ Lists
      BY <1>1, <2>1 DEF EnumerationFails, Lapses, ListType
    <3> QED
      BY <1>1, <1>3, <3>1 DEF ListType, EventInv, WatchInv
  <2>2. CASE Enumerated \/ Deferred \/ ReconciliationEnds
    <3>1. Still /\ Lists
      BY <1>1, <2>2 DEF Enumerated, Deferred, ReconciliationEnds, ListType
    <3> QED
      BY <1>2, <3>1
  <2>3. CASE Reconcile
    <3>1. Still
      BY <2>3 DEF Reconcile
    <3>2. Lists
      BY <1>1, <2>3 DEF Reconcile, ListType, QueueAutomatic, AutoQueued
    <3> QED
      BY <1>2, <3>1, <3>2
  <2> QED
    BY <1>8, <2>1, <2>2, <2>3 DEF Reconciliation
<1>9. CASE RestartAfterDelay
  <2>1. posted' = posted /\ Lists
    BY <1>1, <1>9 DEF RestartAfterDelay, ListType
  <2> QED
    BY <1>1, <1>3, <1>9, <2>1, RestartKeeps DEF ListType
<1>10. CASE Flow
  <2>1. CASE BeginRecovery \/ RecoveryClosesSessions
    <3>1. Still /\ Lists
      BY <1>1, <2>1 DEF BeginRecovery, RecoveryClosesSessions, ListType
    <3> QED
      BY <1>2, <3>1
  <2>2. ASSUME NEW d \in Devices,
               \/ QuickConnect(d) \/ ForceConnect(d) \/ DisconnectDevice(d) \/ Dispatch(d)
               \/ BeginAttempt(d)
        PROVE  IInv'
    <3>1. Still
      BY <2>2 DEF QuickConnect, ForceConnect, DisconnectDevice, Dispatch, BeginAttempt
    <3>2. Lists
      BY <1>1, <2>2 DEF QuickConnect, ForceConnect, DisconnectDevice, Dispatch, BeginAttempt,
         ListType, Schedule
    <3> QED
      BY <1>2, <3>1, <3>2
  <2>3. ASSUME NEW d \in Devices,
               \/ LookupEnds(d) \/ Connects(d) \/ AttemptFails(d)
               \/ AttemptConcluded(d) \/ RemoteCloses(d)
        PROVE  IInv'
    <3>1. Still
      BY <2>3 DEF LookupEnds, Connects, AttemptFails, AttemptConcluded, RemoteCloses
    <3>2. Lists
      BY <1>1, <2>3 DEF LookupEnds, Connects, AttemptFails, AttemptConcluded, RemoteCloses,
         ListType, Schedule
    <3> QED
      BY <1>2, <3>1, <3>2
  <2> QED
    BY <1>10, <2>1, <2>2, <2>3 DEF Flow
<1>11. CASE EndRecovery
  <2>1. Still /\ Lists
    BY <1>1, <1>11 DEF EndRecovery, ListType, Schedule
  <2> QED
    BY <1>2, <2>1
<1> QED
  BY <1>4, <1>5, <1>6, <1>7, <1>8, <1>9, <1>10, <1>11 DEF Next

LEMMA IInvHolds == Spec => []IInv
  BY InitInv, IInvStep, PTL DEF Spec

-----------------------------------------------------------------------------
(* The theorems *)

\* The handlers never see an event of a watcher that was replaced, although they
\* check for it, whatever fails to start (OnDeviceAdded and its siblings,
\* DeviceWatcher.hpp:142).
THEOREM EventsAreOfWatcher == Spec => []NoStrayEvent
<1>1. IInv => NoStrayEvent
  BY DEF IInv, EventInv, NoStrayEvent
<1> QED
  BY <1>1, IInvHolds, PTL

\* A watcher that the system stopped has its restart scheduled, or its Stopped is yet
\* to be handled, unless none could be created (DeviceWatcher.hpp:258).
THEOREM StopsAreNoticed == Spec => []StopIsNoticed
<1>1. IInv => StopIsNoticed
  <2> SUFFICES ASSUME IInv, ~watching, ~lapsed, ~restart
               PROVE  \E i \in DOMAIN posted :
                          posted[i].kind = "Stopped" /\ posted[i].watcher = watcher
    BY DEF StopIsNoticed
  <2>1. posted # <<>> /\ posted[Len(posted)].kind = "Stopped" /\ posted \in Seq(Events)
    BY DEF IInv, WatchInv, ListType
  <2>2. Len(posted) \in DOMAIN posted
    BY <2>1
  <2> QED
    BY <2>1, <2>2 DEF IInv, EventInv
<1> QED
  BY <1>1, IInvHolds, PTL

\* Rows are taken by two steps only, and by neither from a device that is active.
RowInv == stage \in [Devices -> Stages] /\ BusyRowStands

LEMMA RowStep ==
  ASSUME ListType, RowInv, [Next]_vars
  PROVE  RowInv'
<1> USE DEF RowInv
<1>1. /\ stage \in [Devices -> Stages] /\ BusyRowStands /\ rows \subseteq Devices
      /\ \A kind \in {"idle", "queued", "dispatched", "attempting", "connected", "returned"} :
            kind \in Stages
  BY DEF ListType, Stages
\* What is queued now had a row before, or its row came with it.
<1>2. ASSUME NEW ds, ds \subseteq rows', QueueAutomatic(ds),
             \A d \in ActiveDevices : d \in rows => d \in rows'
      PROVE  RowInv'
  <2>1. stage' \in [Devices -> Stages]
    BY <1>1, <1>2 DEF QueueAutomatic
  <2>2. ASSUME NEW d \in Devices, Active(d)', d \in carries' PROVE d \in rows'
    <3>1. CASE d \in ds
      BY <1>2, <3>1
    <3>2. CASE d \notin ds
      <4>1. Active(d) /\ d \in carries
        BY <1>2, <2>2, <3>2 DEF QueueAutomatic, Active
      <4> QED
        BY <1>1, <1>2, <4>1 DEF BusyRowStands, ActiveDevices
    <3> QED
      BY <3>1, <3>2
  <2> QED
    BY <2>1, <2>2 DEF BusyRowStands, ActiveDevices
\* A step of the flow: no row goes, and only d can get busy or a DeviceInformation.
<1>3. ASSUME NEW d \in Devices, NEW s \in Stages, stage' = [stage EXCEPT ![d] = s],
             rows \subseteq rows', \A b \in Devices \ {d} : b \in carries' => b \in carries,
             Active(d)' /\ d \in carries' => d \in rows' \/ (Active(d) /\ d \in carries)
      PROVE  RowInv'
  <2>1. stage' \in [Devices -> Stages]
    BY <1>1, <1>3
  <2>2. ASSUME NEW b \in Devices, Active(b)', b \in carries' PROVE b \in rows'
    <3>1. CASE b = d
      BY <1>1, <1>3, <2>2, <3>1 DEF BusyRowStands, ActiveDevices
    <3>2. CASE b # d
      <4>1. Active(b) /\ b \in carries
        BY <1>1, <1>3, <2>2, <3>2 DEF Active
      <4> QED
        BY <1>1, <1>3, <4>1 DEF BusyRowStands, ActiveDevices
    <3> QED
      BY <3>1, <3>2
  <2> QED
    BY <2>1, <2>2 DEF BusyRowStands, ActiveDevices
<1>4. ASSUME UNCHANGED <<stage, carries>>, \A d \in ActiveDevices : d \in rows => d \in rows'
      PROVE  RowInv'
  BY <1>1, <1>4 DEF BusyRowStands, ActiveDevices, Active
<1>5. CASE UNCHANGED vars
  BY <1>4, <1>5 DEF vars
<1>6. CASE Reports \/ System \/ RestartAfterDelay \/ EndRecovery
  <2>1. UNCHANGED <<rows, stage, carries>>
    BY <1>6 DEF Reports, System, RestartAfterDelay, EndRecovery, ReportEnumerated,
       ReportAdded, ReportStopped, ReportUpdated, Appear, Vanish
  <2> QED
    BY <1>4, <2>1
<1>7. CASE Handlers
  <2>1. CASE HandleAdded
    <3>1. PICK d : /\ rows' = rows \cup {d}
                   /\ QueueAutomatic(AutoQueued({d}))
      BY <2>1 DEF HandleAdded
    <3>2. AutoQueued({d}) \subseteq rows'
      BY <3>1 DEF AutoQueued
    <3> QED
      BY <1>2, <3>1, <3>2
  <2>2. CASE HandleRemoved
    <3>1. /\ UNCHANGED <<stage, carries>>
          /\ \A d \in ActiveDevices : d \in rows => d \in rows'
      BY <2>2 DEF HandleRemoved, Removable
    <3> QED
      BY <1>4, <3>1
  <2>3. CASE Handlers /\ ~HandleAdded /\ ~HandleRemoved
    <3>1. UNCHANGED <<rows, stage, carries>>
      BY <2>3 DEF Handlers, HandleDuringRecovery, HandleUpdated, HandleEnumerated,
         HandleStopped
    <3> QED
      BY <1>4, <3>1
  <2> QED
    BY <1>7, <2>1, <2>2, <2>3
<1>8. CASE Reconciliation
  <2>1. CASE Reconcile
    <3>1. /\ QueueAutomatic(AutoQueued(found))
          /\ rows' = (rows \cup found) \ Removable(discovered \ found)
      BY <2>1 DEF Reconcile
    <3>2. /\ AutoQueued(found) \subseteq rows'
          /\ \A d \in ActiveDevices : d \in rows => d \in rows'
      BY <3>1 DEF AutoQueued, Removable
    <3> QED
      BY <1>2, <3>1, <3>2
  <2>2. CASE Reconciliation /\ ~Reconcile
    <3>1. UNCHANGED <<rows, stage, carries>>
      BY <2>2 DEF Reconciliation, Enumerated, EnumerationFails, Deferred, ReconciliationEnds
    <3> QED
      BY <1>4, <3>1
  <2> QED
    BY <1>8, <2>1, <2>2
<1>9. CASE Flow
  <2>1. CASE BeginRecovery
    BY <1>4, <2>1 DEF BeginRecovery
  <2>2. CASE RecoveryClosesSessions
    <3>1. /\ UNCHANGED <<rows, carries>> /\ stage' \in [Devices -> Stages]
          /\ \A d \in Devices : Active(d)' => Active(d)
      BY <1>1, <2>2 DEF RecoveryClosesSessions, Active
    <3> QED
      BY <1>1, <3>1 DEF BusyRowStands, ActiveDevices
  <2>3. ASSUME NEW d \in Devices, QuickConnect(d) \/ ForceConnect(d) PROVE RowInv'
    <3>1. /\ stage' = [stage EXCEPT ![d] = "queued"] /\ d \in rows /\ rows' = rows
          /\ \A b \in Devices \ {d} : b \in carries' => b \in carries
      BY <2>3 DEF QuickConnect, ForceConnect
    <3> QED
      BY <1>1, <1>3, <3>1
  <2>4. ASSUME NEW d \in Devices, DisconnectDevice(d) \/ RemoteCloses(d) PROVE RowInv'
    <3>1. stage' = [stage EXCEPT ![d] = "idle"] /\ UNCHANGED <<rows, carries>>
      BY <2>4 DEF DisconnectDevice, RemoteCloses
    <3>2. ~Active(d)'
      BY <1>1, <3>1 DEF Active
    <3> QED
      BY <1>1, <1>3, <3>1, <3>2
  <2>5. ASSUME NEW d \in Devices, Dispatch(d) \/ AttemptFails(d) PROVE RowInv'
    <3>1. PICK s \in {"dispatched", "returned"} : stage' = [stage EXCEPT ![d] = s]
      BY <2>5 DEF Dispatch, AttemptFails
    <3>2. UNCHANGED <<rows, carries>> /\ ~Active(d)'
      BY <1>1, <2>5, <3>1 DEF Dispatch, AttemptFails, Active
    <3> QED
      BY <1>1, <1>3, <3>1, <3>2
  <2>6. ASSUME NEW d \in Devices, BeginAttempt(d) PROVE RowInv'
    <3>1. /\ stage' = [stage EXCEPT ![d] = "attempting"] /\ carries' = carries
          /\ rows' = rows \cup ({d} \cap carries)
      BY <2>6 DEF BeginAttempt
    <3> QED
      BY <1>1, <1>3, <3>1
  <2>7. ASSUME NEW d \in Devices, LookupEnds(d) PROVE RowInv'
    <3>1. stage' = stage /\ carries' = carries \cup {d} /\ rows' = rows \cup {d}
      BY <2>7 DEF LookupEnds
    <3> QED
      BY <1>1, <3>1 DEF BusyRowStands, ActiveDevices, Active
  <2>8. ASSUME NEW d \in Devices, Connects(d) PROVE RowInv'
    <3>1. /\ stage' = [stage EXCEPT ![d] = "connected"] /\ UNCHANGED <<rows, carries>>
          /\ Active(d)
      BY <2>8 DEF Connects, Active
    <3> QED
      BY <1>1, <1>3, <3>1
  <2>9. ASSUME NEW d \in Devices, AttemptConcluded(d) PROVE RowInv'
    <3>1. /\ \E s \in {"queued", "idle"} : stage' = [stage EXCEPT ![d] = s]
          /\ rows' = rows /\ carries' = carries \ {d}
      BY <2>9 DEF AttemptConcluded
    <3> QED
      BY <1>1, <1>3, <3>1
  <2> QED
    BY <1>9, <2>1, <2>2, <2>3, <2>4, <2>5, <2>6, <2>7, <2>8, <2>9 DEF Flow
<1> QED
  BY <1>5, <1>6, <1>7, <1>8, <1>9 DEF Next

\* A device that is queued, being connected or connected has a row once its request or
\* session has a DeviceInformation, whatever the watcher removes and reconciliations
\* drop while the request is in neither queue nor sessions (RemoveDeviceRow,
\* DeviceListUi.hpp:367; ConnectDeviceAsync, ConnectionFlow.hpp:238).
THEOREM BusyRowsStand == Spec => []BusyRowStands
<1>1. Init => RowInv
  BY DEF Init, RowInv, BusyRowStands, Stages
<1>2. IInv /\ RowInv /\ [Next]_vars => RowInv'
  BY RowStep DEF IInv
<1>3. RowInv => BusyRowStands
  BY DEF RowInv
<1> QED
  BY <1>1, <1>2, <1>3, IInvHolds, PTL DEF Spec

-----------------------------------------------------------------------------
(* The list gets complete *)

Tells(kind, d, i) == posted[i].kind = kind /\ posted[i].dev = d

Listed(d) == d \in rows \cap discovered

\* An enumeration is under way, or is to be made when the recovery ends or the
\* present loop does.
Due == inProgress \/ (recon # "off" /\ (recon = "tail" => reconPending))

\* A device that the watcher reported is in the list or gets into it, and no event
\* on its way takes it out of it for good.
Accounted(d) ==
    /\ \A i \in DOMAIN posted : Tells("Removed", d, i) =>
           \E j \in DOMAIN posted : j > i /\ Tells("Added", d, j)
    /\ \/ \E i \in DOMAIN posted : Tells("Added", d, i)
       \/ Listed(d)
       \/ Due

SnapshotInv == recon = "enumerated" => found = present
SeenInv     == watching /\ enumerated => seen = present
AccountInv  == watching => \A d \in present \cap seen : Accounted(d)

\* Unless something happened that the code does not make up for.
ListInv == ~lapsed => SnapshotInv /\ SeenInv /\ AccountInv

\* Once the watcher has enumerated, and no event, enumeration or recovery is under
\* way, the list holds every discoverable device.
ListedWhenQuiet ==
    ~lapsed /\ watching /\ enumerated /\ posted = <<>> /\ recon = "off" /\ ~inProgress =>
        present \subseteq rows \cap discovered

\* A step that leaves the events alone, and devices in the list.
LEMMA ListStays ==
  ASSUME ListInv, UNCHANGED <<present, watching, posted, seen, enumerated>>, lapsed => lapsed',
         recon' = "enumerated" => found' = present,
         \A d \in present : Listed(d) => Listed(d)',
         Due => Due' \/ \A d \in present : Listed(d)'
  PROVE  ListInv'
<1> SUFFICES ASSUME ~lapsed' PROVE SnapshotInv' /\ SeenInv' /\ AccountInv'
  BY DEF ListInv
<1>1. SnapshotInv /\ SeenInv /\ AccountInv
  BY DEF ListInv
<1>2. SnapshotInv' /\ SeenInv'
  BY <1>1 DEF SnapshotInv, SeenInv
<1>3. \A d \in present \cap seen : watching /\ Accounted(d) => Accounted(d)'
  BY DEF Accounted, Tells
<1>4. AccountInv'
  BY <1>1, <1>3 DEF AccountInv
<1> QED
  BY <1>2, <1>4

\* The watcher posts an event: about a device that is new to it, one that has gone,
\* or none of both.
LEMMA ListPosts ==
  ASSUME ListType, ListInv, lapsed => lapsed', watching,
         NEW kind \in EventKinds, NEW d \in Devices, Post(Event(kind, d)),
         UNCHANGED <<rows, discovered, inProgress, recon, reconPending, found>>,
         kind = "Added" => present' = present \cup {d} /\ seen' = seen \cup {d},
         kind = "Removed" => present' = present \ {d} /\ seen' = seen \ {d},
         kind \notin {"Added", "Removed"} => UNCHANGED <<present, seen>>,
         enumerated' => enumerated \/ seen = present,
         kind = "EnumerationCompleted" \/ UNCHANGED enumerated,
         recon = "enumerated" => lapsed' \/ present' = present
  PROVE  ListInv'
<1> SUFFICES ASSUME ~lapsed' PROVE SnapshotInv' /\ SeenInv' /\ AccountInv'
  BY DEF ListInv
<1>1. SnapshotInv /\ SeenInv /\ AccountInv
  BY DEF ListInv
<1> DEFINE e == Event(kind, d)
<1>n. PICK n : n = Len(posted)
  OBVIOUS
<1>2. e.kind = kind /\ e.dev = d /\ e.watcher = created /\ e \in Events
  BY DEF Event, Events, ListType
<1> HIDE DEF e
<1>3. /\ posted' = Append(posted, e) /\ posted \in Seq(Events)
      /\ n \in Nat /\ DOMAIN posted = 1..n
  BY <1>n DEF Post, ListType, e
<1>4. /\ DOMAIN posted' = 1..(n + 1) /\ posted'[n + 1] = e
      /\ \A i \in 1..n : posted'[i] = posted[i]
  BY <1>2, <1>3
<1>5. SnapshotInv'
  BY <1>1 DEF SnapshotInv
<1>6. SeenInv'
  BY <1>1 DEF SeenInv
<1>7. ASSUME NEW b \in present' \cap seen' PROVE Accounted(b)'
  <2>1. CASE kind = "Added" /\ b = d
    <3>1. Tells("Added", b, n + 1)' /\ n + 1 \in DOMAIN posted'
      BY <1>2, <1>3, <1>4, <2>1 DEF Tells
    <3>2. \A i \in DOMAIN posted' : Tells("Removed", b, i)' => i < n + 1
      BY <1>2, <1>3, <1>4, <2>1 DEF Tells
    <3> QED
      BY <3>1, <3>2 DEF Accounted
  <2>2. CASE ~(kind = "Added" /\ b = d)
    <3>1. b \in present \cap seen /\ ~(kind = "Removed" /\ b = d)
      BY <2>2
    <3>2. Accounted(b)
      BY <1>1, <3>1 DEF AccountInv
    <3>3. \A i \in 1..n : /\ Tells("Added", b, i)' = Tells("Added", b, i)
                          /\ Tells("Removed", b, i)' = Tells("Removed", b, i)
      BY <1>4 DEF Tells
    <3>4. ~Tells("Removed", b, n + 1)'
      BY <1>2, <1>4, <3>1 DEF Tells
    <3>5. \A i \in DOMAIN posted' : i \in 1..n \/ i = n + 1
      BY <1>3, <1>4
    <3>6. 1..n \subseteq DOMAIN posted'
      BY <1>3, <1>4
    <3>7. ASSUME NEW i \in DOMAIN posted', Tells("Removed", b, i)'
          PROVE  \E j \in DOMAIN posted' : j > i /\ Tells("Added", b, j)'
      BY <1>3, <3>2, <3>3, <3>4, <3>5, <3>6, <3>7 DEF Accounted
    <3>8. (\E i \in DOMAIN posted' : Tells("Added", b, i)') \/ Listed(b)' \/ Due'
      BY <1>3, <3>2, <3>3, <3>6 DEF Accounted, Listed, Due
    <3> QED
      BY <3>7, <3>8 DEF Accounted
  <2> QED
    BY <2>1, <2>2
<1>8. AccountInv'
  BY <1>7 DEF AccountInv
<1> QED
  BY <1>5, <1>6, <1>8

\* A handler takes the first event.  Only a Removed takes its device from the list.
LEMMA ListTakes ==
  ASSUME ListType, ListInv, NEW kind, Takes(kind), NEW d, d = Head(posted).dev,
         UNCHANGED <<present, seen, watching, enumerated, lapsed, found>>,
         recon' = "enumerated" => recon = "enumerated",
         Due => Due',
         kind = "Added" => Listed(d)' \/ Due',
         \A b \in present : Listed(b) =>
             Listed(b)' \/ (kind = "Removed" /\ b = d)
  PROVE  ListInv'
<1> SUFFICES ASSUME ~lapsed' PROVE SnapshotInv' /\ SeenInv' /\ AccountInv'
  BY DEF ListInv
<1>1. SnapshotInv /\ SeenInv /\ AccountInv
  BY DEF ListInv
<1>n. PICK n : n = Len(posted)
  OBVIOUS
<1>2. posted \in Seq(Events) /\ posted # <<>> /\ posted' = Tail(posted) /\ Head(posted).kind = kind
  BY DEF ListType, Takes
<1>3. /\ n \in Nat /\ n > 0 /\ DOMAIN posted = 1..n /\ DOMAIN posted' = 1..(n - 1)
      /\ Head(posted) = posted[1]
      /\ \A i \in 1..(n - 1) : posted'[i] = posted[i + 1]
  BY <1>2, <1>n
<1>4. SnapshotInv' /\ SeenInv'
  BY <1>1 DEF SnapshotInv, SeenInv
<1>5. ASSUME NEW b \in present \cap seen, watching PROVE Accounted(b)'
  <2>1. Accounted(b)
    BY <1>1, <1>5 DEF AccountInv
  <2>2. \A i \in 1..(n - 1) : /\ Tells("Added", b, i)' = Tells("Added", b, i + 1)
                              /\ Tells("Removed", b, i)' = Tells("Removed", b, i + 1)
    BY <1>3 DEF Tells
  <2>3. \A j \in DOMAIN posted : j > 1 => j - 1 \in DOMAIN posted' /\ (j - 1) + 1 = j
    BY <1>3
  <2>4. ASSUME NEW j \in DOMAIN posted, j > 1, Tells("Added", b, j)
        PROVE  Tells("Added", b, j - 1)' /\ j - 1 \in DOMAIN posted'
    BY <1>3, <2>2, <2>3, <2>4
  <2>5. ASSUME NEW i \in DOMAIN posted', Tells("Removed", b, i)'
        PROVE  \E j \in DOMAIN posted' : j > i /\ Tells("Added", b, j)'
    <3>1. PICK k : k = i + 1
      OBVIOUS
    <3>2. i \in 1..(n - 1) /\ k \in DOMAIN posted /\ i \in Nat /\ i > 0
      BY <1>3, <3>1
    <3>3. Tells("Removed", b, k)
      BY <2>2, <2>5, <3>1, <3>2
    <3>4. PICK j \in DOMAIN posted : j > k /\ Tells("Added", b, j)
      BY <2>1, <3>2, <3>3 DEF Accounted
    <3>5. j > 1 /\ j - 1 > i
      BY <1>3, <3>1, <3>2, <3>4
    <3> QED
      BY <2>4, <3>4, <3>5
  <2> DEFINE AddedLater == \E i \in DOMAIN posted' : Tells("Added", b, i)'
  <2>6. AddedLater \/ Listed(b)' \/ Due'
    <3>1. ASSUME NEW i \in DOMAIN posted, Tells("Added", b, i)
          PROVE  AddedLater \/ Listed(b)' \/ Due'
      <4>1. CASE i > 1
        BY <2>4, <3>1, <4>1
      <4>2. CASE i = 1
        <5>1. kind = "Added" /\ b = d
          BY <1>2, <1>3, <3>1, <4>2 DEF Tells
        <5> QED
          BY <5>1
      <4> QED
        BY <1>3, <4>1, <4>2
    <3>2. CASE Listed(b) /\ ~Listed(b)'
      <4>1. Tells("Removed", b, 1) /\ 1 \in DOMAIN posted
        BY <1>2, <1>3, <3>2 DEF Tells
      <4>2. PICK j \in DOMAIN posted : j > 1 /\ Tells("Added", b, j)
        BY <2>1, <4>1 DEF Accounted
      <4> QED
        BY <2>4, <4>2
    <3> QED
      BY <2>1, <3>1, <3>2 DEF Accounted
  <2> QED
    BY <2>5, <2>6 DEF Accounted
<1>6. AccountInv'
  BY <1>5 DEF AccountInv
<1> QED
  BY <1>4, <1>6

\* What follows ScheduleDeviceReconciliation.
LEMMA Scheduled ==
  ASSUME NEW blocked \in BOOLEAN, Schedule(blocked), inProgress' = inProgress
  PROVE  /\ ~blocked => Due'
         /\ Due => Due'
         /\ recon' = "enumerated" => recon = "enumerated" /\ found' = found
  BY DEF Schedule, Due

\* The steps, by what they do to the events and the list.
LEMMA ListStep ==
  ASSUME IInv, ListInv, [Next]_vars
  PROVE  ListInv'
<1>1. ListType
  BY DEF IInv
<1>2. CASE UNCHANGED vars
  <2>1. UNCHANGED <<present, watching, posted, seen, enumerated, lapsed, rows, discovered,
                    recon, found, reconPending, inProgress>>
    BY <1>2 DEF vars
  <2> QED
    BY <2>1 DEF ListInv, SnapshotInv, SeenInv, AccountInv, Accounted, Tells, Listed, Due
<1>3. CASE Reports
  <2>1. CASE ReportEnumerated
    <3>1. PICK d \in Devices : Post(Event("EnumerationCompleted", d))
      BY <2>1 DEF ReportEnumerated
    <3> QED
      BY <1>1, <2>1, <3>1, ListPosts DEF ReportEnumerated, EventKinds
  <2>2. ASSUME NEW d \in Devices, ReportAdded(d) PROVE ListInv'
    <3>1. present' = present \cup {d}
      BY <2>2 DEF ReportAdded
    <3> QED
      BY <1>1, <2>2, <3>1, ListPosts DEF ReportAdded, EventKinds
  <2> QED
    BY <1>3, <2>1, <2>2 DEF Reports
<1>4. CASE System
  <2>1. CASE ReportStopped
    BY <2>1 DEF ReportStopped, ListInv, SnapshotInv, SeenInv, AccountInv
  <2>2. ASSUME NEW d \in Devices, ReportUpdated(d) PROVE ListInv'
    BY <1>1, <2>2, ListPosts DEF ReportUpdated, EventKinds
  <2>3. ASSUME NEW d \in Devices, Appear(d) PROVE ListInv'
    <3>1. (recon = "enumerated" => lapsed') /\ (lapsed => lapsed')
      BY <2>3 DEF Appear, Lapses
    <3>2. CASE watching
      BY <1>1, <2>3, <3>1, <3>2, ListPosts DEF Appear, EventKinds
    <3>3. CASE ~watching
      BY <2>3, <3>1, <3>3 DEF Appear, ListInv, SnapshotInv, SeenInv, AccountInv
    <3> QED
      BY <3>2, <3>3
  <2>4. ASSUME NEW d \in Devices, Vanish(d) PROVE ListInv'
    <3>1. (recon = "enumerated" => lapsed') /\ (lapsed => lapsed')
      BY <2>4 DEF Vanish, Lapses
    <3>2. CASE watching /\ d \in seen
      BY <1>1, <2>4, <3>1, <3>2, ListPosts DEF Vanish, EventKinds
    <3>3. CASE ~watching
      BY <2>4, <3>1, <3>3 DEF Vanish, ListInv, SnapshotInv, SeenInv, AccountInv
    <3>4. CASE watching /\ d \notin seen
      <4>1. /\ present' = present \ {d} /\ watching'
            /\ UNCHANGED <<seen, posted, rows, discovered, inProgress, recon, reconPending,
                           found, enumerated>>
        BY <2>4, <3>4 DEF Vanish
      <4>2. \A b \in present' : Accounted(b) => Accounted(b)'
        BY <4>1 DEF Accounted, Tells, Listed, Due
      <4>3. lapsed' \/ (SnapshotInv => SnapshotInv')
        BY <3>1, <4>1 DEF SnapshotInv
      <4>4. enumerated => ~SeenInv
        BY <2>4, <3>4 DEF SeenInv, Vanish
      <4> QED
        BY <3>1, <3>4, <4>1, <4>2, <4>3, <4>4 DEF ListInv, SeenInv, AccountInv
    <3> QED
      BY <3>2, <3>3, <3>4
  <2> QED
    BY <1>4, <2>1, <2>2, <2>3, <2>4 DEF System
<1>5. CASE Handlers
  <2> PICK d : d = Head(posted).dev
    OBVIOUS
  <2>1. CASE HandleDuringRecovery
    <3>1. PICK kind : Takes(kind)
      BY <2>1 DEF HandleDuringRecovery
    <3>2. Due' /\ (\A b : Listed(b)' = Listed(b))
      BY <2>1 DEF HandleDuringRecovery, Due, Listed
    <3> QED
      BY <1>1, <2>1, <3>1, <3>2, ListTakes DEF HandleDuringRecovery
  <2>2. CASE HandleAdded
    <3>1. Takes("Added")
      BY <2>2 DEF HandleAdded
    <3>2. Listed(d)' /\ (\A b : Listed(b) => Listed(b)') /\ (Due => Due')
      BY <2>2 DEF HandleAdded, Listed, Due
    <3> QED
      BY <1>1, <2>2, <3>1, <3>2, ListTakes DEF HandleAdded
  <2>3. CASE HandleRemoved
    <3>1. Takes("Removed")
      BY <2>3 DEF HandleRemoved
    <3>2. Due => Due'
      BY <2>3 DEF HandleRemoved, Due
    <3>3. \A b : Listed(b) /\ b # d => Listed(b)'
      BY <2>3 DEF HandleRemoved, Listed, Removable
    <3> QED
      BY <1>1, <2>3, <3>1, <3>2, <3>3, ListTakes DEF HandleRemoved
  <2>4. CASE HandleUpdated
    <3>1. Takes("Updated")
      BY <2>4 DEF HandleUpdated
    <3>2. (Due => Due') /\ (recon' = "enumerated" => recon = "enumerated") /\ UNCHANGED found
      BY <2>4, Scheduled DEF HandleUpdated, Due, Schedule
    <3>3. \A b : Listed(b)' = Listed(b)
      BY <2>4 DEF HandleUpdated, Listed
    <3> QED
      BY <1>1, <2>4, <3>1, <3>2, <3>3, ListTakes DEF HandleUpdated
  <2>5. CASE HandleEnumerated
    <3>1. Takes("EnumerationCompleted")
      BY <2>5 DEF HandleEnumerated
    <3>2. (Due => Due') /\ (recon' = "enumerated" => recon = "enumerated") /\ UNCHANGED found
      BY <2>5 DEF HandleEnumerated, Due, Schedule
    <3>3. \A b : Listed(b)' = Listed(b)
      BY <2>5 DEF HandleEnumerated, Listed
    <3> QED
      BY <1>1, <2>5, <3>1, <3>2, <3>3, ListTakes DEF HandleEnumerated
  <2>6. CASE HandleStopped
    <3>1. Takes("Stopped")
      BY <2>6 DEF HandleStopped
    <3>2. (Due => Due') /\ (\A b : Listed(b)' = Listed(b))
      BY <2>6 DEF HandleStopped, Due, Listed
    <3> QED
      BY <1>1, <2>6, <3>1, <3>2, ListTakes DEF HandleStopped
  <2> QED
    BY <1>5, <2>1, <2>2, <2>3, <2>4, <2>5, <2>6 DEF Handlers
<1>6. CASE Reconciliation
  <2>1. CASE EnumerationFails
    BY <2>1 DEF EnumerationFails, Lapses, ListInv
  <2>2. CASE Enumerated
    <3>1. Due' /\ found' = present /\ (\A b : Listed(b)' = Listed(b))
      BY <2>2 DEF Enumerated, Due, Listed
    <3> QED
      BY <2>2, <3>1, ListStays DEF Enumerated
  <2>3. CASE Deferred
    <3>1. Due' /\ (\A b : Listed(b)' = Listed(b)) /\ recon' # "enumerated"
      BY <2>3 DEF Deferred, Due, Listed
    <3> QED
      BY <2>3, <3>1, ListStays DEF Deferred
  <2>4. CASE Reconcile
    <3>1. lapsed \/ found = present
      BY <2>4 DEF Reconcile, ListInv, SnapshotInv
    <3>2. found = present => \A b \in present : Listed(b)'
      BY <2>4 DEF Reconcile, Listed, Removable
    <3>3. recon' # "enumerated"
      BY <2>4 DEF Reconcile
    <3>4. CASE lapsed
      BY <2>4, <3>4 DEF Reconcile, ListInv
    <3>5. CASE found = present
      BY <2>4, <3>2, <3>3, <3>5, ListStays DEF Reconcile
    <3> QED
      BY <3>1, <3>4, <3>5
  <2>5. CASE ReconciliationEnds
    <3>1. (Due => Due') /\ recon' # "enumerated" /\ (\A b : Listed(b)' = Listed(b))
      BY <2>5 DEF ReconciliationEnds, Due, Listed
    <3> QED
      BY <2>5, <3>1, ListStays DEF ReconciliationEnds
  <2> QED
    BY <1>6, <2>1, <2>2, <2>3, <2>4, <2>5 DEF Reconciliation
<1>7. CASE RestartAfterDelay
  <2>1. UNCHANGED <<present, recon, found>>
    BY <1>7 DEF RestartAfterDelay
  <2>2. CASE Watches
    BY <2>1, <2>2 DEF Watches, ListInv, SnapshotInv, SeenInv, AccountInv
  <2>3. CASE StartThrows
    BY <2>1, <2>3 DEF StartThrows, ListInv, SnapshotInv, SeenInv, AccountInv
  <2>4. CASE CreateThrows
    BY <2>4 DEF CreateThrows, Lapses, ListInv
  <2> QED
    BY <1>7, <2>2, <2>3, <2>4 DEF RestartAfterDelay
<1>8. CASE Flow \/ EndRecovery
  <2>1. /\ UNCHANGED <<present, watching, posted, seen, enumerated, lapsed>>
        /\ rows \subseteq rows' /\ discovered \subseteq discovered'
    BY <1>8 DEF Flow, BeginRecovery, RecoveryClosesSessions, QuickConnect, ForceConnect,
       DisconnectDevice, Dispatch, BeginAttempt, LookupEnds, Connects, AttemptFails,
       AttemptConcluded, RemoteCloses, EndRecovery
  <2>2. \/ UNCHANGED reconVars /\ (inProgress => inProgress')
        \/ Schedule(inProgress) /\ UNCHANGED inProgress
        \/ Schedule(FALSE)
    <3>1. CASE EndRecovery
      BY <3>1 DEF EndRecovery
    <3>2. CASE BeginRecovery \/ RecoveryClosesSessions
      BY <3>2 DEF BeginRecovery, RecoveryClosesSessions
    <3>3. ASSUME NEW d \in Devices, DisconnectDevice(d) \/ AttemptFails(d) \/ RemoteCloses(d)
          PROVE  (Schedule(inProgress) /\ UNCHANGED inProgress) \/ Schedule(FALSE)
      BY <3>3 DEF DisconnectDevice, AttemptFails, RemoteCloses
    <3>4. ASSUME NEW d \in Devices,
                 \/ QuickConnect(d) \/ ForceConnect(d) \/ Dispatch(d) \/ BeginAttempt(d)
                 \/ LookupEnds(d) \/ Connects(d) \/ AttemptConcluded(d)
          PROVE  UNCHANGED reconVars /\ (inProgress => inProgress')
      BY <3>4 DEF QuickConnect, ForceConnect, Dispatch, BeginAttempt, LookupEnds, Connects,
         AttemptConcluded
    <3> QED
      BY <1>8, <3>1, <3>2, <3>3, <3>4 DEF Flow
  <2>3. /\ Due => Due'
        /\ recon' = "enumerated" => recon = "enumerated" /\ found' = found
    BY <2>2 DEF Schedule, Due
  <2>4. \A b : Listed(b) => Listed(b)'
    BY <2>1 DEF Listed
  <2>5. lapsed \/ (recon' = "enumerated" => found' = present)
    BY <2>3 DEF ListInv, SnapshotInv
  <2> QED
    BY <2>1, <2>3, <2>4, <2>5, ListStays DEF ListInv
<1> QED
  BY <1>2, <1>3, <1>4, <1>5, <1>6, <1>7, <1>8 DEF Next

\* Whenever nothing is under way, the list holds every discoverable device, with events
\* swallowed by recoveries, watchers that stop or cannot start, and enumerations in any
\* order; the excepted runs are those in which an enumeration failed or was overtaken,
\* or no watcher could be created (README.md, Features; DeviceWatcher.hpp).
THEOREM ListIsComplete == Spec => []ListedWhenQuiet
<1>1. Init => ListInv
  BY DEF Init, ListInv, SnapshotInv, SeenInv, AccountInv
<1>2. IInv /\ ListInv /\ [Next]_vars => ListInv'
  BY ListStep
<1>3. IInv /\ ListInv => ListedWhenQuiet
  <2> SUFFICES ASSUME IInv, ListInv, ~lapsed, watching, enumerated, posted = <<>>,
                      recon = "off", ~inProgress, NEW d \in present
               PROVE  d \in rows \cap discovered
    BY DEF ListedWhenQuiet
  <2>1. Accounted(d) /\ ~Due
    BY DEF ListInv, SeenInv, AccountInv, Due
  <2>2. DOMAIN posted = {}
    OBVIOUS
  <2> QED
    BY <2>1, <2>2 DEF Accounted, Listed
<1> QED
  BY <1>1, <1>2, <1>3, IInvHolds, PTL DEF Spec

=============================================================================
