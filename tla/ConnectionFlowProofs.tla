------------------------ MODULE ConnectionFlowProofs ------------------------
(***************************************************************************)
(* Safety proofs for ConnectionFlow.  The invariant is proved in layers:   *)
(* TypeInv is inductive by itself; ChainInv is inductive relative to it.   *)
(***************************************************************************)
EXTENDS ConnectionFlow, TLAPS

\* A request that still asks for a reset has one left.
Preparable(req) == req.strategy = "RestartBluetooth" => req.preparations < 2

\* There is a request in flight exactly while the worker holds one, and a
\* request that will be prepared has preparations left.
JobShape ==
    /\ worker \in JobPcs <=> job # None
    /\ \A d \in Queued : Preparable(queue[d])
    /\ worker \in {"begin", "waitPrevious"} => Preparable(Req)

TypeInv == TypeOK /\ JobShape

\* Nothing is left to serve once shutdown has begun.
ClosedAtShutdown ==
    stopping => \A d \in Devices : sessions[d] = None /\ queue[d] = None

\* A session carries its device's current generation: whoever bumps the
\* generation has closed the session, or found none.
SessionGenerations ==
    \A d \in Devices : sessions[d] # None => sessions[d].gen = gen[d]

\* The request in flight is the device's latest, or an older one.
AttemptGeneration == worker \in JobPcs => Req.gen <= gen[Dev]

\* The attempt in flight never finds its own session Connected.
OwnSessionOpens == worker \in SessionPcs /\ Current => sessions[Dev].phase # "Connected"

ChainInv == /\ ClosedAtShutdown /\ SessionGenerations /\ AttemptGeneration
            /\ OwnSessionOpens /\ NoOrphanSession /\ SingleLiveChain /\ NoLostWake

-----------------------------------------------------------------------------
(* Updates of records, once and for all *)

USE FlowAssumption
USE DEF queueVars, linkVars, driverVars, intentVars, listVars, radioVars

\* The updates of the request in flight keep its type.
LEMMA JobUpdates ==
    ASSUME NEW j \in Jobs
    PROVE  /\ \A r \in AttemptResults : [j EXCEPT !.result = r] \in Jobs
           /\ \A r \in RecoveryResults : [j EXCEPT !.req.prepResult = r] \in Jobs
           /\ j.req.preparations < 2 => [j EXCEPT !.req.preparations = @ + 1] \in Jobs
  BY DEF Jobs, Requests

\* The updates of a session keep its type.
LEMMA SessionUpdates ==
    ASSUME sessions \in [Devices -> Sessions \cup {None}],
           NEW d \in Devices, sessions[d] # None
    PROVE  /\ \A p \in Phases : [sessions EXCEPT ![d].phase = p]
                                   \in [Devices -> Sessions \cup {None}]
           /\ \A c \in Conns : [sessions EXCEPT ![d].conn = c]
                                   \in [Devices -> Sessions \cup {None}]
  BY DEF Sessions

\* The updates of a queued request keep its type and its use of preparations.
LEMMA QueueUpdates ==
    ASSUME queue \in [Devices -> Requests \cup {None}],
           \A e \in Queued : Preparable(queue[e]),
           NEW d \in Devices, queue[d] # None, NEW w \in {"now", "later", "due"},
           queue' = [queue EXCEPT ![d].notBefore = w]
    PROVE  /\ queue' \in [Devices -> Requests \cup {None}]
           /\ \A e \in Queued' : Preparable(queue'[e])
  BY DEF Requests, Queued, Preparable

\* What CloseSessions does to the variables it changes.
LEMMA CloseSessionsType ==
    ASSUME TypeOK, NEW ds \in SUBSET Devices, NEW skip \in BOOLEAN,
           \A d \in ds : sessions[d] # None,
           CloseSessions(ds, skip)
    PROVE  /\ sessions' \in [Devices -> Sessions \cup {None}]
           /\ verifying' \in SUBSET Devices
           /\ closing' \in [Devices -> Seq(Closings)]
           /\ links' = links
           /\ \A d \in Devices : sessions'[d] = IF d \in ds THEN None ELSE sessions[d]
           /\ \A d \in Devices : d \notin ds => closing'[d] = closing[d]
  <1> DEFINE cl(d) == [conn   |-> sessions[d].conn,
                       worker |-> d \in verifying \/
                                  (d \in ConnectedDevices /\ ~skip /\ ~stopping /\ ~inProgress),
                       closed |-> FALSE]
  <1>1. \A d \in ds : cl(d) \in Closings
    BY DEF TypeOK, Sessions, Closings
  <1>2. closing' = [d \in Devices |-> IF d \in ds THEN Append(closing[d], cl(d)) ELSE closing[d]]
    BY DEF CloseSessions
  <1> HIDE DEF cl
  <1>3. closing' \in [Devices -> Seq(Closings)]
    BY <1>1, <1>2 DEF TypeOK
  <1>4. /\ sessions' = [d \in Devices |-> IF d \in ds THEN None ELSE sessions[d]]
        /\ verifying' = verifying \ ds
        /\ links' = links
    BY DEF CloseSessions
  <1>5. \A d \in Devices : d \notin ds => closing'[d] = closing[d]
    BY <1>2
  <1> QED BY <1>3, <1>4, <1>5 DEF TypeOK

\* CloseOwn, for the request in flight.
LEMMA CloseOwnType ==
    ASSUME TypeOK, job \in Jobs, CloseOwn
    PROVE  /\ sessions' \in [Devices -> Sessions \cup {None}]
           /\ verifying' \in SUBSET Devices
           /\ closing' \in [Devices -> Seq(Closings)]
           /\ links' = links
           /\ \A d \in Devices : sessions'[d] =
                 IF d = Dev /\ Current THEN None ELSE sessions[d]
           /\ \A d \in Devices : d # Dev \/ ~Current => closing'[d] = closing[d]
  <1>1. Dev \in Devices
    BY DEF Jobs, Dev
  <1>2. CASE Current
    <2>1. {Dev} \in SUBSET Devices /\ \A d \in {Dev} : sessions[d] # None
      BY <1>1, <1>2 DEF Current
    <2>2. CloseSessions({Dev}, FALSE)
      BY <1>2 DEF CloseOwn
    <2> HIDE DEF CloseSessions, Dev
    <2>3. /\ sessions' \in [Devices -> Sessions \cup {None}]
          /\ verifying' \in SUBSET Devices
          /\ closing' \in [Devices -> Seq(Closings)]
          /\ links' = links
          /\ \A d \in Devices : sessions'[d] = IF d \in {Dev} THEN None ELSE sessions[d]
          /\ \A d \in Devices : d \notin {Dev} => closing'[d] = closing[d]
      BY <2>1, <2>2, CloseSessionsType
    <2> QED BY <1>2, <2>3
  <1>3. CASE ~Current
    BY <1>3 DEF CloseOwn, TypeOK
  <1> QED BY <1>2, <1>3

\* A fresh request.
LEMMA PushRequestType ==
    ASSUME TypeInv, NEW d \in Devices, NEW m \in Modes,
           PushRequest(d, m)
    PROVE  /\ queue' \in [Devices -> Requests \cup {None}]
           /\ gen' \in [Devices -> Nat]
           /\ queueChanged' = TRUE
           /\ suppressed' \in SUBSET Devices
           /\ remoteEnded' \in SUBSET Devices
           /\ pendingAuto' \in SUBSET Devices
           /\ UNCHANGED <<deferred, prepared, desired>>
           /\ worker' = IF worker = "idle" THEN "loop" ELSE worker
           /\ \A e \in Queued' : Preparable(queue'[e])
           /\ gen'[d] = gen[d] + 1 /\ queue'[d] # None /\ queue'[d].gen = gen'[d]
           /\ queue'[d].prepResult = "NotRequired"
           /\ \A e \in Devices : e # d => gen'[e] = gen[e] /\ queue'[e] = queue[e]
  <1> DEFINE r == FreshRequest(d, m)
  <1>1. queue[d] # None => queue[d].device \in BOOLEAN
    BY DEF TypeInv, TypeOK, Requests
  <1>2. r \in Requests
    BY <1>1 DEF TypeInv, TypeOK, Requests, FreshRequest, InitialStrategy, Strategies,
                RecoveryResults
  <1>3. r.preparations = 0 /\ r.prepResult = "NotRequired" /\ r.gen = gen[d] + 1
    BY DEF FreshRequest
  <1>4. queue' = [queue EXCEPT ![d] = r]
    BY DEF PushRequest
  <1>5. gen' = [gen EXCEPT ![d] = gen[d] + 1] /\ gen[d] \in Nat
    BY DEF PushRequest, TypeInv, TypeOK
  <1>6. r # None
    BY <1>2
  <1> HIDE DEF r
  <1>7. \A e \in Queued' : Preparable(queue'[e])
    BY <1>3, <1>4 DEF TypeInv, TypeOK, JobShape, Queued, Preparable
  <1> QED
    BY <1>2, <1>3, <1>4, <1>5, <1>6, <1>7 DEF PushRequest, TypeInv, TypeOK

\* A row that appears.
LEMMA UpsertRowType ==
    ASSUME TypeInv, NEW d \in Devices, UpsertRow(d)
    PROVE  /\ queue' \in [Devices -> Requests \cup {None}]
           /\ \A e \in Queued' : Preparable(queue'[e])
           /\ queueChanged' \in BOOLEAN
           /\ rows' \in SUBSET Devices /\ discovered' \in SUBSET Devices
  <1>1. CASE d \notin discovered /\ queue[d] # None
    <2>1. queue' = [queue EXCEPT ![d].notBefore = "now"]
      BY <1>1 DEF UpsertRow
    <2>2. /\ queue' \in [Devices -> Requests \cup {None}]
          /\ \A e \in Queued' : Preparable(queue'[e])
      BY <1>1, <2>1, QueueUpdates DEF TypeInv, TypeOK, JobShape
    <2> QED BY <2>2 DEF UpsertRow, TypeInv, TypeOK
  <1>2. CASE ~(d \notin discovered /\ queue[d] # None)
    BY <1>2 DEF UpsertRow, TypeInv, TypeOK, JobShape, Queued
  <1> QED BY <1>1, <1>2

-----------------------------------------------------------------------------
(* Type correctness *)

\* The request in flight exists.
LEMMA InFlight ==
    ASSUME TypeInv, worker \in JobPcs
    PROVE  job \in Jobs /\ Dev \in Devices /\ Req \in Requests
  BY DEF TypeInv, TypeOK, JobShape, Jobs, Dev, Req

restVars == <<shut, queueVars, linkVars, driverVars, intentVars, listVars, radioVars>>

\* A step of the worker that changes nothing but its place and its job.
LEMMA JobStep ==
    ASSUME TypeInv, UNCHANGED restVars, job' \in Jobs,
           worker' \in JobPcs \ {"begin", "waitPrevious"}
    PROVE  TypeInv'
  BY DEF TypeInv, TypeOK, JobShape, restVars, Queued, JobPcs, SessionPcs, RecoveryPcs,
         WorkerPcs

LEMMA InitType == Init => TypeInv
  <1> SUFFICES ASSUME Init PROVE TypeInv
    OBVIOUS
  <1>1. closing \in [Devices -> Seq(Closings)]
    BY DEF Init
  <1> QED
    BY <1>1 DEF Init, TypeInv, TypeOK, JobShape, Queued, JobPcs, SessionPcs, RecoveryPcs,
                WorkerPcs

\* A step that pushes a request and leaves the rest typed.
LEMMA PushRequestStep ==
    ASSUME TypeInv, NEW d \in Devices, NEW m \in Modes,
           PushRequest(d, m),
           UNCHANGED <<shut, driverVars, job, radioVars, links>>,
           rows' \in SUBSET Devices, discovered' \in SUBSET Devices,
           sessions' \in [Devices -> Sessions \cup {None}],
           verifying' \in SUBSET Devices,
           closing' \in [Devices -> Seq(Closings)]
    PROVE  TypeInv'
  <1>1. queue' \in [Devices -> Requests \cup {None}] /\ gen' \in [Devices -> Nat]
    BY PushRequestType
  <1>2. /\ queueChanged' = TRUE
        /\ suppressed' \in SUBSET Devices
        /\ remoteEnded' \in SUBSET Devices
        /\ pendingAuto' \in SUBSET Devices
    BY PushRequestType
  <1>3. UNCHANGED <<deferred, prepared, desired>>
    BY PushRequestType
  <1>4. worker' = IF worker = "idle" THEN "loop" ELSE worker
    BY PushRequestType
  <1>5. \A e \in Queued' : Preparable(queue'[e])
    BY PushRequestType
  <1>6. worker' \in WorkerPcs
    BY <1>4 DEF TypeInv, TypeOK, WorkerPcs
  <1>7. TypeOK'
    BY <1>1, <1>2, <1>3, <1>6 DEF TypeInv, TypeOK
  <1>8. JobShape'
    BY <1>4, <1>5 DEF TypeInv, JobShape, JobPcs, SessionPcs, RecoveryPcs, Req
  <1> QED BY <1>7, <1>8 DEF TypeInv

\* What the user and the device list do.
LEMMA TypeUserOrList == ASSUME TypeInv, UserOrList PROVE TypeInv'
  <1>1. PICK d \in Devices : \/ QuickConnect(d) \/ ForceConnect(d) \/ DisconnectDevice(d)
                             \/ DeviceAdded(d) \/ DeviceRemoved(d)
    BY DEF UserOrList
  <1>3. CASE QuickConnect(d)
    BY <1>3, PushRequestStep DEF QuickConnect, Modes, TypeInv, TypeOK
  <1>4. CASE ForceConnect(d)
    <2>1. PushRequest(d, "Forced") /\ UNCHANGED <<shut, driverVars, job, radioVars, listVars>>
      BY <1>4 DEF ForceConnect
    <2>2. /\ sessions' \in [Devices -> Sessions \cup {None}]
          /\ verifying' \in SUBSET Devices
          /\ closing' \in [Devices -> Seq(Closings)]
          /\ links' = links
      <3>1. CASE sessions[d] = None
        BY <1>4, <3>1 DEF ForceConnect, TypeInv, TypeOK
      <3>2. CASE sessions[d] # None
        <4>1. CloseSessions({d}, TRUE)
          BY <1>4, <3>2 DEF ForceConnect
        <4> QED
          BY <4>1, <3>2, CloseSessionsType DEF TypeInv
      <3> QED BY <3>1, <3>2
    <2> QED
      BY <2>1, <2>2, PushRequestStep DEF Modes, TypeInv, TypeOK
  <1>5. CASE DisconnectDevice(d)
    <2>1. /\ sessions' \in [Devices -> Sessions \cup {None}]
          /\ verifying' \in SUBSET Devices
          /\ closing' \in [Devices -> Seq(Closings)]
          /\ links' = links
      <3>1. CASE sessions[d] = None
        BY <1>5, <3>1 DEF DisconnectDevice, TypeInv, TypeOK
      <3>2. CASE sessions[d] # None
        <4>1. CloseSessions({d}, FALSE)
          BY <1>5, <3>2 DEF DisconnectDevice
        <4> QED
          BY <4>1, <3>2, CloseSessionsType DEF TypeInv
      <3> QED BY <3>1, <3>2
    <2>2a. /\ gen' \in [Devices -> Nat] /\ queue' \in [Devices -> Requests \cup {None}]
      BY <1>5 DEF DisconnectDevice, TypeInv, TypeOK
    <2>2b. /\ UNCHANGED <<shut, driverVars, suppressed, deferred, prepared, remoteEnded,
                          listVars, worker, job, radioVars>>
           /\ queueChanged' = TRUE
           /\ pendingAuto' = pendingAuto \ {d}
           /\ desired' = desired \ {d}
      BY <1>5 DEF DisconnectDevice
    <2>2. TypeOK'
      BY <2>1, <2>2a, <2>2b DEF TypeInv, TypeOK
    <2>3. JobShape'
      BY <1>5 DEF DisconnectDevice, TypeInv, TypeOK, JobShape, Queued, Req
    <2> QED BY <2>2, <2>3 DEF TypeInv
  <1>6. CASE DeviceAdded(d)
    <2>1. CASE ReconnectsOnSight(d)
      BY <1>6, <2>1, PushRequestStep DEF DeviceAdded, Modes, TypeInv, TypeOK
    <2>2. CASE ~ReconnectsOnSight(d)
      <3>1. UpsertRow(d)
        BY <1>6, <2>2 DEF DeviceAdded
      <3> HIDE DEF UpsertRow
      <3> QED
        BY <1>6, <2>2, <3>1, UpsertRowType DEF DeviceAdded, TypeInv, TypeOK, JobShape, Req
    <2> QED BY <2>1, <2>2
  <1>7. CASE DeviceRemoved(d)
    BY <1>7 DEF DeviceRemoved, TypeInv, TypeOK, JobShape, Queued, Req
  <1> QED BY <1>1, <1>3, <1>4, <1>5, <1>6, <1>7

\* The pool, the driver and the remote.
LEMMA TypeBackground == ASSUME TypeInv, Background PROVE TypeInv'
  <1>1. ASSUME NEW d \in Devices, CloseReturns(d) PROVE TypeInv'
    <2> DEFINE c == Head(closing[d])
    <2>1. /\ closing[d] \in Seq(Closings) /\ closing[d] # <<>>
          /\ links \in [Conns -> Links \cup {None}]
          /\ closing \in [Devices -> Seq(Closings)]
      BY <1>1 DEF TypeInv, TypeOK, CloseReturns
    <2>2. c \in Closings /\ Tail(closing[d]) \in Seq(Closings)
      BY <2>1
    <2>3. [c EXCEPT !.closed = TRUE] \in Closings
      BY <2>2 DEF Closings
    <2>4. c.conn # None => c.conn \in Conns
      BY <2>2 DEF Closings
    <2>5. /\ links' = IF c.conn = None THEN links ELSE [links EXCEPT ![c.conn] = None]
          /\ closing' = [closing EXCEPT ![d] =
                 IF c.worker THEN <<[c EXCEPT !.closed = TRUE]>> \o Tail(@) ELSE Tail(@)]
      BY <1>1 DEF CloseReturns
    <2> HIDE DEF c
    <2>6. closing' \in [Devices -> Seq(Closings)]
      BY <2>1, <2>2, <2>3, <2>5
    <2>7. links' \in [Conns -> Links \cup {None}]
      BY <2>1, <2>4, <2>5
    <2> QED
      BY <1>1, <2>6, <2>7 DEF CloseReturns, TypeInv, TypeOK, JobShape, Queued, Req
  <1>2. ASSUME NEW d \in Devices, FlowWorkerEnds(d) PROVE TypeInv'
    <2> DEFINE c == Head(closing[d])
    <2>1. /\ closing[d] \in Seq(Closings) /\ closing[d] # <<>>
          /\ closing \in [Devices -> Seq(Closings)]
      BY <1>2 DEF TypeInv, TypeOK, FlowWorkerEnds
    <2>2. c \in Closings /\ Tail(closing[d]) \in Seq(Closings)
      BY <2>1
    <2>3. [c EXCEPT !.worker = FALSE] \in Closings
      BY <2>2 DEF Closings
    <2>4. closing' = [closing EXCEPT ![d] =
                 IF c.closed THEN Tail(@) ELSE <<[c EXCEPT !.worker = FALSE]>> \o Tail(@)]
      BY <1>2 DEF FlowWorkerEnds
    <2> HIDE DEF c
    <2>5. closing' \in [Devices -> Seq(Closings)]
      BY <2>1, <2>2, <2>3, <2>4
    <2> QED
      BY <1>2, <2>5 DEF FlowWorkerEnds, TypeInv, TypeOK, JobShape, Queued, Req
  <1>3. ASSUME NEW d \in Devices, VerificationFails(d) PROVE TypeInv'
    BY <1>3 DEF VerificationFails, TypeInv, TypeOK, JobShape, Queued, Req
  <1>4. ASSUME NEW d \in Devices, DelayElapses(d) PROVE TypeInv'
    <2>1. /\ queue' \in [Devices -> Requests \cup {None}]
          /\ \A e \in Queued' : Preparable(queue'[e])
      BY <1>4, QueueUpdates DEF DelayElapses, TypeInv, TypeOK, JobShape
    <2> QED
      BY <1>4, <2>1 DEF DelayElapses, TypeInv, TypeOK, JobShape, Req
  <1>5. ASSUME NEW d \in Devices, CreationReady(d) \/ CreationFinishes(d) PROVE TypeInv'
    BY <1>5 DEF CreationReady, CreationFinishes, TypeInv, TypeOK, JobShape, Queued, Req
  <1>6. ASSUME NEW c \in Conns, LinkOpens(c) \/ LinkCloses(c) PROVE TypeInv'
    <2>1. links[c] \in Links
      BY <1>6 DEF LinkOpens, LinkCloses, TypeInv, TypeOK
    <2>2. \A b \in BOOLEAN : [links[c] EXCEPT !.open = b] \in Links
      BY <2>1 DEF Links
    <2>3. \E b \in BOOLEAN : links' = [links EXCEPT ![c] = [links[c] EXCEPT !.open = b]]
      BY <1>6 DEF LinkOpens, LinkCloses
    <2>4. links' \in [Conns -> Links \cup {None}]
      BY <2>2, <2>3 DEF TypeInv, TypeOK
    <2>5. callbacks' \in SUBSET Callbacks
      BY <1>6, <2>1 DEF LinkOpens, LinkCloses, Links, Callbacks, TypeInv, TypeOK
    <2>6. reopened' \in SUBSET Devices
      BY <1>6, <2>1 DEF LinkOpens, LinkCloses, Links, TypeInv, TypeOK
    <2> QED
      BY <1>6, <2>4, <2>5, <2>6 DEF LinkOpens, LinkCloses, TypeInv, TypeOK, JobShape, Queued,
         Req
  <1> QED BY <1>1, <1>2, <1>3, <1>4, <1>5, <1>6 DEF Background

\* CloseOwn, followed by the end of the attempt.
LEMMA CloseOwnStep ==
    ASSUME TypeInv, worker \in JobPcs, CloseOwn, NEW r \in AttemptResults, AttemptEnds(r),
           UNCHANGED <<shut, queueVars, driverVars, intentVars, listVars, radioVars>>
    PROVE  TypeInv'
  <1>1. job \in Jobs
    BY InFlight
  <1>2. job' \in Jobs
    BY <1>1, JobUpdates DEF AttemptEnds
  <1>3. /\ sessions' \in [Devices -> Sessions \cup {None}]
        /\ verifying' \in SUBSET Devices
        /\ closing' \in [Devices -> Seq(Closings)]
        /\ links' = links
    BY <1>1, CloseOwnType DEF TypeInv
  <1>4. worker' = "attempted"
    BY DEF AttemptEnds
  <1>5. TypeOK'
    BY <1>2, <1>3, <1>4 DEF TypeInv, TypeOK, WorkerPcs, JobPcs
  <1>6. JobShape'
    BY <1>2, <1>4 DEF TypeInv, JobShape, Queued, JobPcs
  <1> QED BY <1>5, <1>6 DEF TypeInv

\* The creation of the connection object starts.
LEMMA StartCreationStep ==
    ASSUME TypeInv, worker \in {"prepared", "lookup"}, Current, NEW h \in {0, 1},
           StartCreation(h = 1), UNCHANGED <<shut, intentVars, radioVars>>
    PROVE  TypeInv'
  <1>1. job \in Jobs /\ Dev \in Devices
    BY InFlight DEF JobPcs, SessionPcs
  <1>2. /\ queue' \in [Devices -> Requests \cup {None}]
        /\ \A e \in Queued' : Preparable(queue'[e])
        /\ queueChanged' \in BOOLEAN
        /\ rows' \in SUBSET Devices /\ discovered' \in SUBSET Devices
    <2>1. CASE h = 1
      <3>1. UpsertRow(Dev)
        BY <2>1 DEF StartCreation
      <3> QED BY <1>1, <3>1, UpsertRowType
    <2>2. CASE h # 1
      <3>1. UNCHANGED <<rows, discovered, queue, queueChanged>>
        BY <2>2 DEF StartCreation
      <3> QED BY <3>1 DEF TypeInv, TypeOK, JobShape, Queued
    <2> QED BY <2>1, <2>2
  <1>3. sessions' \in [Devices -> Sessions \cup {None}]
    BY <1>1, SessionUpdates DEF StartCreation, Current, Phases, TypeInv, TypeOK
  <1>4. job' \in Jobs
    BY <1>1, JobUpdates DEF StartCreation, AttemptResult, AttemptResults
  <1>5. /\ creation' \in [Devices -> {"none", "running", "ready", "released"}]
        /\ worker' \in {"create", "final"}
        /\ UNCHANGED <<gen, links, callbacks, closing, verifying>>
    <2>1. \/ creation' = [creation EXCEPT ![Dev] = "running"] /\ worker' = "create"
          \/ creation' = creation /\ worker' = "final"
      BY DEF StartCreation, AttemptResult
    <2>2. UNCHANGED <<gen, links, callbacks, closing, verifying>>
      BY DEF StartCreation
    <2>3. creation \in [Devices -> {"none", "running", "ready", "released"}]
      BY DEF TypeInv, TypeOK
    <2>4. creation' \in [Devices -> {"none", "running", "ready", "released"}]
      BY <1>1, <2>1, <2>3
    <2> QED BY <2>1, <2>2, <2>4
  <1>6. TypeOK'
    BY <1>2, <1>3, <1>4, <1>5 DEF TypeInv, TypeOK, WorkerPcs, JobPcs, SessionPcs
  <1>7. JobShape'
    BY <1>2, <1>4, <1>5 DEF JobShape, JobPcs, SessionPcs
  <1> QED BY <1>6, <1>7 DEF TypeInv

\* The end of an attempt, with or without a retry.
LEMMA ConcludeStep ==
    ASSUME TypeInv, worker \in JobPcs, NEW r \in AttemptResults, Conclude(r),
           sessions' \in [Devices -> Sessions \cup {None}],
           verifying' \in SUBSET Devices,
           closing' \in [Devices -> Seq(Closings)],
           links' = links
    PROVE  TypeInv'
  <1> DEFINE retry == [Req EXCEPT !.notBefore = "later", !.device = FALSE]
  <1>1. Req \in Requests /\ Dev \in Devices
    BY InFlight
  <1>2. retry \in Requests /\ (Preparable(Req) => Preparable(retry))
    BY <1>1 DEF Requests, Preparable
  <1>3. CanRetry(Req, r) => Preparable(Req)
    BY DEF CanRetry, Preparable
  <1>4. /\ queue' \in [Devices -> Requests \cup {None}]
        /\ \A e \in Queued' : Preparable(queue'[e])
    <2>1. CASE Requeues(r)
      <3>1. queue' = [queue EXCEPT ![Dev] = retry] /\ Preparable(retry)
        BY <1>2, <1>3, <2>1 DEF Conclude, Requeues
      <3> HIDE DEF retry
      <3> QED BY <1>1, <1>2, <3>1 DEF TypeInv, TypeOK, JobShape, Queued
    <2>2. CASE ~Requeues(r)
      BY <2>2 DEF Conclude, TypeInv, TypeOK, JobShape, Queued
    <2> QED BY <2>1, <2>2
  <1>5. /\ worker' = "loop" /\ job' = None
        /\ UNCHANGED <<shut, gen, driverVars, deferred, prepared, desired, remoteEnded,
                       listVars, radioVars>>
    BY DEF Conclude
  <1>6. /\ queueChanged' \in BOOLEAN
        /\ pendingAuto' \in SUBSET Devices /\ suppressed' \in SUBSET Devices
    BY DEF Conclude, TypeInv, TypeOK
  <1>7. TypeOK'
    BY <1>4, <1>5, <1>6 DEF TypeInv, TypeOK, WorkerPcs
  <1>8. JobShape'
    BY <1>4, <1>5 DEF JobShape, JobPcs, SessionPcs, RecoveryPcs
  <1> QED BY <1>7, <1>8 DEF TypeInv

LEMMA TypeChoose == ASSUME TypeInv, Choose PROVE TypeInv'
  <1>1. worker \notin JobPcs /\ worker' \in {"tail", "waitDue", "loop"} /\ queueChanged' \in BOOLEAN
        /\ UNCHANGED <<shut, gen, queue, linkVars, driverVars, intentVars, listVars, job, radioVars>>
    BY DEF Choose, LeaveLoop, AwaitRetry, WakeForQueue, JobPcs, SessionPcs, RecoveryPcs,
           TypeInv, TypeOK
  <1>2. TypeOK'
    BY <1>1 DEF TypeInv, TypeOK, WorkerPcs
  <1>3. JobShape'
    BY <1>1 DEF TypeInv, JobShape, Queued, JobPcs, SessionPcs, RecoveryPcs
  <1> QED BY <1>2, <1>3 DEF TypeInv

LEMMA TypeDispatch == ASSUME TypeInv, NEW d \in Devices, Dispatch(d) PROVE TypeInv'
  <1>1. queue[d] \in Requests /\ Preparable(queue[d])
    BY DEF Dispatch, NextRequests, At, Queued, TypeInv, TypeOK, JobShape
  <1>2. queue' \in [Devices -> Requests \cup {None}] /\ Queued' \subseteq Queued
        /\ \A e \in Queued' : queue'[e] = queue[e]
    BY DEF Dispatch, TypeInv, TypeOK, Queued
  <1>3. CASE worker' = "begin" /\ job' = [dev |-> d, req |-> queue[d], result |-> "Failed"]
    <2>1. job' \in Jobs /\ job'.req = queue[d]
      BY <1>1, <1>3 DEF Jobs, AttemptResults
    <2>2. TypeOK'
      BY <1>2, <1>3, <2>1 DEF Dispatch, TypeInv, TypeOK, WorkerPcs, JobPcs
    <2>3. JobShape'
      BY <1>1, <1>2, <1>3, <2>1 DEF TypeInv, JobShape, JobPcs, Req
    <2> QED BY <2>2, <2>3 DEF TypeInv
  <1>4. CASE UNCHANGED <<worker, job>>
    <2>1. TypeOK'
      BY <1>2, <1>4 DEF Dispatch, TypeInv, TypeOK
    <2>2. JobShape'
      BY <1>2, <1>4 DEF TypeInv, JobShape, Req
    <2> QED BY <2>1, <2>2 DEF TypeInv
  <1> QED BY <1>3, <1>4 DEF Dispatch

LEMMA TypeBegin == ASSUME TypeInv, Begin PROVE TypeInv'
  <1>1. /\ job \in Jobs /\ Dev \in Devices /\ Req \in Requests
        /\ worker \in {"begin", "waitPrevious"}
    BY InFlight DEF Begin, BeginCancelled, BeginUnavailable, BeginAttempt, PreviousFinished,
                    PreviousTimesOut, JobPcs, SessionPcs
  <1>2. CASE BeginCancelled \/ BeginUnavailable
    <2>1. job' \in Jobs
      BY <1>1, <1>2, JobUpdates DEF BeginCancelled, BeginUnavailable, AttemptEnds,
         AttemptResults
    <2> QED
      BY <1>2, <2>1, JobStep DEF BeginCancelled, BeginUnavailable, AttemptEnds, restVars,
         JobPcs
  <1>3. CASE BeginAttempt
    <2>1. /\ queue' \in [Devices -> Requests \cup {None}]
          /\ \A e \in Queued' : Preparable(queue'[e])
          /\ queueChanged' \in BOOLEAN
          /\ rows' \in SUBSET Devices /\ discovered' \in SUBSET Devices
      <3>1. CASE Req.device
        BY <1>1, <1>3, <3>1, UpsertRowType DEF BeginAttempt
      <3>2. CASE ~Req.device
        BY <1>3, <3>2 DEF BeginAttempt, TypeInv, TypeOK, JobShape, Queued
      <3> QED BY <3>1, <3>2
    <2>2. \A p \in Phases : [gen |-> Req.gen, conn |-> None, phase |-> p] \in Sessions
      BY <1>1 DEF Requests, Sessions
    <2>3. sessions' \in [Devices -> Sessions \cup {None}]
      BY <1>1, <1>3, <2>2 DEF BeginAttempt, Phases, TypeInv, TypeOK
    <2>4. /\ worker = "begin" /\ worker' = "waitPrevious"
          /\ UNCHANGED <<shut, gen, links, closing, verifying, driverVars, intentVars, job,
                         radioVars>>
      BY <1>3 DEF BeginAttempt
    <2>5. TypeOK'
      BY <2>1, <2>3, <2>4 DEF TypeInv, TypeOK, WorkerPcs, JobPcs, SessionPcs
    <2>6. JobShape'
      BY <2>1, <2>4 DEF TypeInv, JobShape, JobPcs, SessionPcs, Req
    <2> QED BY <2>5, <2>6 DEF TypeInv
  <1>4. CASE PreviousFinished
    <2>1. job' \in Jobs
      BY <1>1, <1>4, JobUpdates DEF PreviousFinished, AttemptEnds, AttemptResults, TypeInv,
         JobShape, Preparable, Req
    <2>2. worker' \in {"attempted", "prepared", "ensure"} /\ prepared' \in SUBSET Devices
          /\ UNCHANGED <<shut, queueVars, linkVars, driverVars, suppressed, pendingAuto,
                         deferred, desired, remoteEnded, listVars, radioVars>>
      BY <1>4 DEF PreviousFinished, AttemptEnds, TypeInv, TypeOK
    <2>3. TypeOK'
      BY <2>1, <2>2 DEF TypeInv, TypeOK, WorkerPcs, JobPcs, SessionPcs
    <2>4. JobShape'
      BY <2>1, <2>2 DEF TypeInv, JobShape, Queued, JobPcs, SessionPcs
    <2> QED BY <2>3, <2>4 DEF TypeInv
  <1>5. CASE PreviousTimesOut
    BY <1>1, <1>5, JobStep DEF PreviousTimesOut, restVars, JobPcs, SessionPcs
  <1> QED BY <1>2, <1>3, <1>4, <1>5 DEF Begin

LEMMA TypePrepare == ASSUME TypeInv, Prepare PROVE TypeInv'
  <1>1. /\ job \in Jobs /\ Dev \in Devices
        /\ worker \in RecoveryPcs \cup {"ensure"}
    BY InFlight DEF Prepare, EnsureProtects, EnsureStopped, EnsureStarts, RadioFound,
       RadioNotFound, TasksFinished, TasksTimeOut, RadioTurnsOff, TransactionRefused,
       RadioRestored, RestoreFails, RecoveryDone, RecoveryFails, JobPcs, SessionPcs, RecoveryPcs
  <1>2. ASSUME NEW r \in RecoveryResults, PreparationReturns(r)
        PROVE  job' \in Jobs /\ worker' = "prepared"
    BY <1>1, <1>2 DEF Jobs, Requests, PreparationReturns, Strategies
  <1>3. CASE EnsureProtects \/ EnsureStopped
    <2>1. job' \in Jobs /\ worker' = "prepared"
      BY <1>2, <1>3 DEF EnsureProtects, EnsureStopped, RecoveryResults
    <2> QED
      BY <1>3, <2>1, JobStep DEF EnsureProtects, EnsureStopped, restVars, JobPcs, SessionPcs
  <1>4. ASSUME NEW pc \in RecoveryPcs, NEW R \in SUBSET RecoveryResults, RecoveryFails(pc, R)
        PROVE  TypeInv'
    <2>1. PICK r \in RecoveryResults : job' = [job EXCEPT !.req.prepResult = r]
      BY <1>4 DEF RecoveryFails
    <2>2. job' \in Jobs
      BY <1>1, <2>1, JobUpdates
    <2>3. worker' = "recovered" /\ UNCHANGED restVars
      BY <1>4 DEF RecoveryFails, restVars
    <2> QED BY <2>2, <2>3, JobStep DEF JobPcs, SessionPcs, RecoveryPcs
  <1>5. CASE RadioNotFound \/ TasksTimeOut \/ TransactionRefused \/ RestoreFails
    <2> HIDE DEF RecoveryFails
    <2> QED
      BY <1>4, <1>5 DEF RadioNotFound, TasksTimeOut, TransactionRefused, RestoreFails,
         RecoveryPcs, RecoveryResults
  <1>6. CASE TasksFinished
    BY <1>1, <1>6, JobStep DEF TasksFinished, restVars, JobPcs, SessionPcs, RecoveryPcs
  <1>7. CASE EnsureStarts \/ RadioTurnsOff
    <2>1. /\ inProgress' \in BOOLEAN /\ radio' \in {"on", "off"}
          /\ worker' \in {"findRadio", "restore"}
          /\ UNCHANGED <<shut, queueVars, linkVars, driverVars, intentVars, listVars, job,
                         awaited, reopened>>
      BY <1>7 DEF EnsureStarts, RadioTurnsOff, TypeInv, TypeOK
    <2>2. TypeOK'
      BY <2>1 DEF TypeInv, TypeOK, WorkerPcs, JobPcs, SessionPcs, RecoveryPcs
    <2>3. JobShape'
      BY <1>1, <2>1 DEF TypeInv, JobShape, Queued, JobPcs, SessionPcs, RecoveryPcs
    <2> QED BY <2>2, <2>3 DEF TypeInv
  <1>8. CASE RadioFound
    <2> DEFINE closes == IF ForcedReset THEN ConnectedDevices ELSE {}
    <2>1. closes \in SUBSET Devices /\ \A d \in closes : sessions[d] # None
      BY DEF ConnectedDevices
    <2>2. /\ CloseSessions(closes, FALSE)
          /\ awaited' = {d \in Devices : d \in closes \/ ~TaskFinished(d)}
          /\ worker' = "waitTasks"
          /\ UNCHANGED <<shut, queueVars, driverVars, intentVars, listVars, job, inProgress,
                         radio, reopened>>
      BY <1>8 DEF RadioFound
    <2> HIDE DEF closes
    <2>3. /\ sessions' \in [Devices -> Sessions \cup {None}]
          /\ verifying' \in SUBSET Devices
          /\ closing' \in [Devices -> Seq(Closings)]
          /\ links' = links
      BY <2>1, <2>2, CloseSessionsType DEF TypeInv
    <2>4. TypeOK'
      BY <2>2, <2>3 DEF TypeInv, TypeOK, WorkerPcs, JobPcs, SessionPcs, RecoveryPcs
    <2>5. JobShape'
      BY <1>1, <2>2 DEF TypeInv, JobShape, Queued, JobPcs, SessionPcs, RecoveryPcs
    <2> QED BY <2>4, <2>5 DEF TypeInv
  <1>9. CASE RadioRestored
    <2>1. job' \in Jobs
      BY <1>1, <1>9, JobUpdates DEF RadioRestored, RecoveryResults
    <2>2. /\ radio' = "on" /\ worker' = "recovered"
          /\ UNCHANGED <<shut, queueVars, linkVars, driverVars, intentVars, listVars,
                         inProgress, awaited, reopened>>
      BY <1>9 DEF RadioRestored
    <2>3. TypeOK'
      BY <2>1, <2>2 DEF TypeInv, TypeOK, WorkerPcs, JobPcs, SessionPcs, RecoveryPcs
    <2>4. JobShape'
      BY <2>1, <2>2 DEF TypeInv, JobShape, Queued, JobPcs, SessionPcs, RecoveryPcs
    <2> QED BY <2>3, <2>4 DEF TypeInv
  <1>10. CASE RecoveryDone
    <2>1. job' \in Jobs /\ worker' = "prepared"
      BY <1>1, <1>2, <1>10 DEF RecoveryDone, Req, Jobs, Requests
    <2>2. /\ deferred' \in SUBSET Devices /\ prepared' \in SUBSET Devices
          /\ inProgress' = FALSE /\ awaited' = {} /\ reopened' = {}
          /\ UNCHANGED <<shut, queueVars, linkVars, driverVars, suppressed, pendingAuto,
                         desired, remoteEnded, listVars, radio>>
      BY <1>1, <1>10 DEF RecoveryDone, TypeInv, TypeOK
    <2>3. TypeOK'
      BY <2>1, <2>2 DEF TypeInv, TypeOK, WorkerPcs, JobPcs, SessionPcs
    <2>4. JobShape'
      BY <2>1, <2>2 DEF TypeInv, JobShape, Queued, JobPcs, SessionPcs
    <2> QED BY <2>3, <2>4 DEF TypeInv
  <1> QED BY <1>3, <1>5, <1>6, <1>7, <1>8, <1>9, <1>10 DEF Prepare

LEMMA TypeOpen == ASSUME TypeInv, Open PROVE TypeInv'
  <1>1. /\ job \in Jobs /\ Dev \in Devices /\ Req \in Requests
        /\ worker \in {"prepared", "lookup", "create", "start", "open", "waitOpened"}
    BY InFlight DEF Open, PreparedLost, PreparationFailed, PreparedOk, LookupEnds,
       LookupThrows, CreateLost, CreateTaken, CreateFails, StartDone, StartFails, OpenDone,
       OpenFails, StepFails, OpenedWaitEnds, JobPcs, SessionPcs
  <1>2. worker \in JobPcs
    BY <1>1 DEF JobPcs, SessionPcs
  <1>3. CASE PreparedLost \/ PreparationFailed
    <2>1. /\ CloseOwn
          /\ AttemptEnds("Cancelled") \/ AttemptEnds("Failed")
          /\ UNCHANGED <<shut, queueVars, driverVars, intentVars, listVars, radioVars>>
      BY <1>3 DEF PreparedLost, PreparationFailed
    <2> QED BY <1>2, <2>1, CloseOwnStep DEF AttemptResults
  <1>4. CASE PreparedOk
    <2>1. CASE StartCreation(TRUE) /\ UNCHANGED <<shut, intentVars, radioVars>>
      <3>1. StartCreation(1 = 1)
        BY <2>1
      <3> HIDE DEF StartCreation
      <3> QED BY <1>1, <1>4, <2>1, <3>1, StartCreationStep DEF PreparedOk, Lost
    <2>2. CASE worker' = "lookup" /\ UNCHANGED <<job, shut, queueVars, linkVars, driverVars,
                                                 listVars, intentVars, radioVars>>
      BY <1>1, <2>2, JobStep DEF restVars, JobPcs, SessionPcs
    <2> QED BY <1>4, <2>1, <2>2 DEF PreparedOk
  <1>5. CASE LookupEnds
    <2>1. CASE Lost
      <3>1. /\ CloseOwn /\ AttemptEnds("Cancelled")
            /\ UNCHANGED <<shut, queueVars, driverVars, intentVars, listVars, radioVars>>
        BY <1>5, <2>1 DEF LookupEnds
      <3> QED BY <1>2, <3>1, CloseOwnStep DEF AttemptResults
    <2>2. CASE ~Lost
      <3>1. UNCHANGED <<shut, intentVars, radioVars>> /\ worker = "lookup" /\ Current
        BY <1>5, <2>2 DEF LookupEnds, Lost
      <3>2. StartCreation(1 = 1) \/ StartCreation(0 = 1)
        <4>1. PICK found \in BOOLEAN : StartCreation(found \/ Req.device)
          BY <1>5, <2>2 DEF LookupEnds
        <4>2. CASE found \/ Req.device
          BY <4>1, <4>2 DEF StartCreation
        <4>3. CASE ~(found \/ Req.device)
          BY <4>1, <4>3 DEF StartCreation
        <4> QED BY <4>2, <4>3
      <3> QED BY <3>1, <3>2, StartCreationStep
    <2> QED BY <2>1, <2>2
  <1>6. CASE LookupThrows
    BY <1>1, <1>6, JobStep DEF LookupThrows, restVars, JobPcs, SessionPcs
  <1>7. ASSUME job' \in Jobs, worker' \in {"attempted", "final"},
               creation' \in [Devices -> {"none", "running", "ready", "released"}],
               UNCHANGED <<shut, queueVars, linkVars, callbacks, intentVars, listVars,
                           radioVars>>
        PROVE  TypeInv'
    <2>1. TypeOK'
      BY <1>7 DEF TypeInv, TypeOK, WorkerPcs, JobPcs, SessionPcs
    <2>2. JobShape'
      BY <1>7 DEF TypeInv, JobShape, Queued, JobPcs, SessionPcs
    <2> QED BY <2>1, <2>2 DEF TypeInv
  <1>8. CASE CreateLost \/ CreateFails
    <2>1. job' \in Jobs
      BY <1>1, <1>8, JobUpdates DEF CreateLost, CreateFails, AttemptEnds, AttemptResult,
         AttemptResults
    <2>2. /\ creation' = [creation EXCEPT ![Dev] = "released"]
          /\ worker' \in {"attempted", "final"}
          /\ UNCHANGED <<shut, queueVars, linkVars, callbacks, intentVars, listVars, radioVars>>
      BY <1>8 DEF CreateLost, CreateFails, AttemptEnds, AttemptResult
    <2>3. creation \in [Devices -> {"none", "running", "ready", "released"}]
      BY DEF TypeInv, TypeOK
    <2>4. creation' \in [Devices -> {"none", "running", "ready", "released"}]
      BY <1>1, <2>2, <2>3
    <2> QED BY <1>7, <2>1, <2>2, <2>4
  <1>9. ASSUME NEW c \in Conns, CreateTaken(c) PROVE TypeInv'
    <2>1. [dev |-> Dev, gen |-> Req.gen, open |-> FALSE] \in Links
      BY <1>1 DEF Links, Requests
    <2>2. /\ creation' = [creation EXCEPT ![Dev] = "released"]
          /\ links' = [links EXCEPT ![c] = [dev |-> Dev, gen |-> Req.gen, open |-> FALSE]]
          /\ sessions' = [sessions EXCEPT ![Dev].conn = c]
          /\ worker' = "start" /\ sessions[Dev] # None
          /\ UNCHANGED <<shut, queueVars, callbacks, closing, verifying, intentVars,
                         listVars, job, radioVars>>
      BY <1>9 DEF CreateTaken, Lost, Current
    <2>3. sessions' \in [Devices -> Sessions \cup {None}]
      BY <1>1, <2>2, SessionUpdates DEF TypeInv, TypeOK
    <2>4. creation' \in [Devices -> {"none", "running", "ready", "released"}]
      <3>1. creation \in [Devices -> {"none", "running", "ready", "released"}]
        BY DEF TypeInv, TypeOK
      <3> QED BY <1>1, <2>2, <3>1
    <2>5. links' \in [Conns -> Links \cup {None}]
      BY <2>1, <2>2 DEF TypeInv, TypeOK
    <2>6. TypeOK'
      BY <1>1, <2>2, <2>3, <2>4, <2>5 DEF TypeInv, TypeOK, WorkerPcs, JobPcs, SessionPcs
    <2>7. JobShape'
      BY <1>1, <2>2 DEF TypeInv, JobShape, Queued, JobPcs, SessionPcs
    <2> QED BY <2>6, <2>7 DEF TypeInv
  <1>10. CASE StartFails \/ OpenFails
    <2>1. job' \in Jobs
      BY <1>1, <1>10, JobUpdates DEF StartFails, OpenFails, StepFails, AttemptResult,
         AttemptResults
    <2> QED
      BY <1>10, <2>1, JobStep DEF StartFails, OpenFails, StepFails, AttemptResult, restVars,
         JobPcs, SessionPcs
  <1>11. CASE StartDone \/ OpenDone
    <2>1. CASE Lost
      <3>1. /\ CloseOwn /\ AttemptEnds(AbortCode)
            /\ UNCHANGED <<shut, queueVars, driverVars, intentVars, listVars, radioVars>>
        BY <1>11, <2>1 DEF StartDone, OpenDone
      <3> QED BY <1>2, <3>1, CloseOwnStep DEF AttemptResults, AbortCode
    <2>2. CASE ~Lost
      <3>1. sessions[Dev] # None
        BY <2>2 DEF Lost, Current
      <3>2. /\ \/ sessions' = [sessions EXCEPT ![Dev].phase = "Opening"]
               \/ sessions' = [sessions EXCEPT ![Dev].phase = "WaitingForOpened"]
            /\ \/ worker' \in {"open", "waitOpened"} /\ UNCHANGED job
               \/ AttemptResult("Success")
            /\ UNCHANGED <<shut, queueVars, links, closing, verifying, driverVars, intentVars,
                           listVars, radioVars>>
        BY <1>11, <2>2 DEF StartDone, OpenDone
      <3>3. sessions' \in [Devices -> Sessions \cup {None}]
        <4>1. \A p \in Phases : [sessions EXCEPT ![Dev].phase = p]
                                   \in [Devices -> Sessions \cup {None}]
          BY <1>1, <3>1, SessionUpdates DEF TypeInv, TypeOK
        <4> QED BY <3>2, <4>1 DEF Phases
      <3>4. job' \in Jobs /\ worker' \in {"open", "waitOpened", "final"}
        BY <1>1, <3>2, JobUpdates DEF AttemptResult, AttemptResults
      <3>5. TypeOK'
        BY <3>2, <3>3, <3>4 DEF TypeInv, TypeOK, WorkerPcs, JobPcs, SessionPcs
      <3>6. JobShape'
        BY <3>2, <3>4 DEF TypeInv, JobShape, Queued, JobPcs, SessionPcs
      <3> QED BY <3>5, <3>6 DEF TypeInv
    <2> QED BY <2>1, <2>2
  <1>12. CASE OpenedWaitEnds
    <2>1. CASE Lost
      <3>1. /\ CloseOwn /\ AttemptEnds("Cancelled")
            /\ UNCHANGED <<shut, queueVars, driverVars, intentVars, listVars, radioVars>>
        BY <1>12, <2>1 DEF OpenedWaitEnds
      <3> QED BY <1>2, <3>1, CloseOwnStep DEF AttemptResults
    <2>2. CASE ~Lost
      <3>1. /\ AttemptResult("Success") \/ AttemptResult("Failed")
            /\ UNCHANGED restVars
        BY <1>12, <2>2 DEF OpenedWaitEnds, restVars
      <3>2. job' \in Jobs
        BY <1>1, <3>1, JobUpdates DEF AttemptResult, AttemptResults
      <3> QED BY <3>1, <3>2, JobStep DEF AttemptResult, JobPcs, SessionPcs
    <2> QED BY <2>1, <2>2
  <1> QED
    BY <1>3, <1>4, <1>5, <1>6, <1>8, <1>9, <1>10, <1>11, <1>12 DEF Open

LEMMA TypeFinish == ASSUME TypeInv, Finish PROVE TypeInv'
  <1>1. CASE worker \in JobPcs
    <2>1. job \in Jobs /\ Dev \in Devices /\ Req \in Requests
      BY <1>1, InFlight
    <2>2. CASE FinalLost
      <3>1. /\ CloseOwn /\ AttemptEnds(AbortCode)
            /\ UNCHANGED <<shut, queueVars, driverVars, intentVars, listVars, radioVars>>
        BY <2>2 DEF FinalLost
      <3> QED BY <1>1, <3>1, CloseOwnStep DEF AttemptResults, AbortCode
    <2>3. CASE FinalFailed
      <3>1. /\ CloseOwn
            /\ AttemptEnds(IF job.result = "Success" THEN "Failed" ELSE job.result)
            /\ UNCHANGED <<shut, queueVars, driverVars, intentVars, listVars, radioVars>>
        BY <2>3 DEF FinalFailed
      <3>2. (IF job.result = "Success" THEN "Failed" ELSE job.result) \in AttemptResults
        BY <2>1 DEF Jobs, AttemptResults
      <3> QED BY <1>1, <3>1, <3>2, CloseOwnStep
    <2>4. CASE CommitConnected
      <3>1. /\ sessions' = [sessions EXCEPT ![Dev].phase = "Connected"]
            /\ sessions[Dev] # None
            /\ AttemptEnds("Success")
            /\ UNCHANGED <<shut, queueVars, links, closing, driverVars, suppressed, deferred,
                           prepared, remoteEnded, listVars, radioVars>>
        BY <2>4 DEF CommitConnected, Lost, Current
      <3>2. /\ verifying' \in SUBSET Devices
            /\ desired' \in SUBSET Devices /\ pendingAuto' \in SUBSET Devices
        BY <2>1, <2>4 DEF CommitConnected, TypeInv, TypeOK
      <3>3. sessions' \in [Devices -> Sessions \cup {None}]
        BY <2>1, <3>1, SessionUpdates DEF Phases, TypeInv, TypeOK
      <3>4. job' \in Jobs /\ worker' = "attempted"
        BY <2>1, <3>1, JobUpdates DEF AttemptEnds, AttemptResults
      <3>5. TypeOK'
        BY <3>1, <3>2, <3>3, <3>4 DEF TypeInv, TypeOK, WorkerPcs, JobPcs
      <3>6. JobShape'
        BY <3>1, <3>4 DEF TypeInv, JobShape, Queued, JobPcs
      <3> QED BY <3>5, <3>6 DEF TypeInv
    <2>5. CASE AttemptReturned
      <3>1. Conclude(job.result) /\ UNCHANGED linkVars /\ job.result \in AttemptResults
        BY <2>1, <2>5 DEF AttemptReturned, Jobs
      <3> HIDE DEF Conclude
      <3> QED BY <1>1, <3>1, ConcludeStep DEF TypeInv, TypeOK
    <2>6. CASE AttemptThrew
      <3> DEFINE r == IF stopping \/ gen[Dev] # Req.gen THEN "Cancelled" ELSE "Failed"
      <3>1. Conclude(r) /\ CloseOwn /\ r \in AttemptResults
        BY <2>6 DEF AttemptThrew, AttemptResults
      <3>2. /\ sessions' \in [Devices -> Sessions \cup {None}]
            /\ verifying' \in SUBSET Devices
            /\ closing' \in [Devices -> Seq(Closings)]
            /\ links' = links
        BY <2>1, <3>1, CloseOwnType DEF TypeInv
      <3> HIDE DEF r
      <3> QED BY <1>1, <3>1, <3>2, ConcludeStep
    <2>7. ~WorkerTail
      BY <1>1 DEF WorkerTail, JobPcs, SessionPcs, RecoveryPcs
    <2> QED BY <2>2, <2>3, <2>4, <2>5, <2>6, <2>7 DEF Finish
  <1>2. CASE worker \notin JobPcs
    <2>1. WorkerTail
      BY <1>2 DEF Finish, FinalLost, CommitConnected, FinalFailed, AttemptReturned,
         AttemptThrew, JobPcs, SessionPcs
    <2>2. worker' \in {"loop", "idle"}
          /\ UNCHANGED <<shut, queueVars, linkVars, driverVars, intentVars, listVars, job,
                         radioVars>>
      BY <2>1 DEF WorkerTail
    <2>3. TypeOK'
      BY <2>2 DEF TypeInv, TypeOK, WorkerPcs
    <2>4. JobShape'
      BY <1>2, <2>2 DEF TypeInv, JobShape, Queued, JobPcs, SessionPcs, RecoveryPcs
    <2> QED BY <2>3, <2>4 DEF TypeInv
  <1> QED BY <1>1, <1>2

\* Callbacks and shutdown.
LEMMA TypeOther ==
    ASSUME TypeInv,
           (\E cb \in callbacks : HandleConnectionClosed(cb)) \/ BeginShutdown \/ ShutdownDrained
    PROVE  TypeInv'
  <1>1. ASSUME NEW cb \in callbacks, HandleConnectionClosed(cb) PROVE TypeInv'
    <2>1. cb.dev \in Devices /\ callbacks' \in SUBSET Callbacks
      BY <1>1 DEF HandleConnectionClosed, TypeInv, TypeOK, Callbacks
    <2>2. /\ sessions' \in [Devices -> Sessions \cup {None}]
          /\ verifying' \in SUBSET Devices
          /\ closing' \in [Devices -> Seq(Closings)]
          /\ links' = links
      <3>1. CASE ActsOnClosed(cb)
        <4>1. CloseSessions({cb.dev}, TRUE) /\ sessions[cb.dev] # None
          BY <1>1, <3>1 DEF HandleConnectionClosed, ActsOnClosed
        <4>2. {cb.dev} \in SUBSET Devices /\ \A d \in {cb.dev} : sessions[d] # None
          BY <2>1, <4>1
        <4> QED BY <4>1, <4>2, CloseSessionsType DEF TypeInv
      <3>2. CASE ~ActsOnClosed(cb)
        BY <1>1, <3>2 DEF HandleConnectionClosed, TypeInv, TypeOK
      <3> QED BY <3>1, <3>2
    <2>3. /\ suppressed' \in SUBSET Devices /\ deferred' \in SUBSET Devices
          /\ pendingAuto' \in SUBSET Devices /\ remoteEnded' \in SUBSET Devices
      BY <1>1, <2>1 DEF HandleConnectionClosed, TypeInv, TypeOK
    <2>4. UNCHANGED <<shut, queueVars, creation, prepared, desired, listVars, worker, job,
                      radioVars>>
      BY <1>1 DEF HandleConnectionClosed
    <2>5. TypeOK'
      BY <2>1, <2>2, <2>3, <2>4 DEF TypeInv, TypeOK
    <2>6. JobShape'
      BY <2>4 DEF TypeInv, JobShape, Queued, Req
    <2> QED BY <2>5, <2>6 DEF TypeInv
  <1>2. CASE BeginShutdown
    <2> DEFINE ds == {d \in Devices : sessions[d] # None}
    <2>1. /\ CloseSessions(ds, TRUE) /\ shut' = "stopping" /\ queueChanged' = TRUE
          /\ queue' = [d \in Devices |-> None] /\ gen' = [d \in Devices |-> gen[d] + 1]
          /\ UNCHANGED <<driverVars, intentVars, listVars, worker, job, radioVars>>
      BY <1>2 DEF BeginShutdown
    <2>2. ds \in SUBSET Devices /\ \A d \in ds : sessions[d] # None
      OBVIOUS
    <2> HIDE DEF ds
    <2>3. /\ sessions' \in [Devices -> Sessions \cup {None}]
          /\ verifying' \in SUBSET Devices
          /\ closing' \in [Devices -> Seq(Closings)]
          /\ links' = links
      BY <2>1, <2>2, CloseSessionsType DEF TypeInv
    <2>4. gen' \in [Devices -> Nat] /\ queue' \in [Devices -> Requests \cup {None}]
      BY <2>1 DEF TypeInv, TypeOK
    <2>5. TypeOK'
      BY <2>1, <2>3, <2>4 DEF TypeInv, TypeOK
    <2>6. JobShape'
      BY <2>1 DEF TypeInv, JobShape, Queued, Req
    <2> QED BY <2>5, <2>6 DEF TypeInv
  <1>3. CASE ShutdownDrained
    BY <1>3 DEF ShutdownDrained, TypeInv, TypeOK, JobShape, Queued, Req
  <1> QED BY <1>1, <1>2, <1>3

LEMMA TypeStep == TypeInv /\ [Next]_vars => TypeInv'
  <1> SUFFICES ASSUME TypeInv, [Next]_vars PROVE TypeInv'
    OBVIOUS
  <1>1. CASE WorkerStep
    BY <1>1, TypeChoose, TypeBegin, TypePrepare, TypeOpen, TypeFinish DEF WorkerStep
  <1>2. CASE UNCHANGED vars
    BY <1>2 DEF vars, TypeInv, TypeOK, JobShape, Queued, Req
  <1> QED
    BY <1>1, <1>2, TypeDispatch, TypeUserOrList, TypeBackground, TypeOther DEF Next

\* Every variable keeps its type, and a request never prepares more than twice.
THEOREM TypeCorrect == Spec => []TypeOK
  <1>1. TypeInv => TypeOK
    BY DEF TypeInv
  <1> QED BY InitType, TypeStep, <1>1, PTL DEF Spec

-----------------------------------------------------------------------------
(* One live chain of attempts per device *)

\* The queue holds the same requests, whatever became of their delays.
SameQueue ==
    \A e \in Devices : /\ queue'[e] = None <=> queue[e] = None
                       /\ queue[e] # None => queue'[e].gen = queue[e].gen

\* A step of the attempt in flight: it may change or close its own session, and
\* close sessions of other devices.
LEMMA ChainAttempt ==
    ASSUME TypeInv, TypeInv', ChainInv,
           worker \in SessionPcs, worker' \in SessionPcs \cup {"attempted"},
           UNCHANGED <<shut, gen>>, job'.dev = job.dev, job'.req.gen = job.req.gen,
           SameQueue,
           \A d \in Devices \ {Dev} : sessions'[d] \in {sessions[d], None},
           \/ sessions'[Dev] \in {sessions[Dev], None}
           \/ Current /\ sessions'[Dev] # None /\ sessions'[Dev].gen = sessions[Dev].gen
                      /\ (sessions'[Dev].phase = "Connected" => worker' = "attempted"),
           worker' = "attempted" => sessions'[Dev] = None \/ sessions'[Dev].phase = "Connected"
    PROVE  ChainInv'
  <1>1. /\ worker \in JobPcs /\ Dev \in Devices /\ Dev' = Dev /\ Req'.gen = Req.gen
        /\ worker' \in JobPcs /\ worker' \notin {"idle", "waitDue"}
    BY InFlight DEF JobPcs, SessionPcs, RecoveryPcs, Dev, Req
  <1>2. stopping' = stopping
    BY DEF stopping
  <1>3. ClosedAtShutdown'
    BY <1>1, <1>2 DEF ChainInv, ClosedAtShutdown, SameQueue, Current
  <1>4. SessionGenerations'
    BY <1>1 DEF ChainInv, SessionGenerations, Current
  <1>5. AttemptGeneration'
    BY <1>1 DEF ChainInv, AttemptGeneration
  <1>6. OwnSessionOpens'
    BY <1>1 DEF ChainInv, OwnSessionOpens, Current, SessionPcs, RecoveryPcs
  <1>7. NoOrphanSession'
    BY <1>1 DEF ChainInv, NoOrphanSession, Current
  <1>8. SingleLiveChain'
    BY <1>1, <1>2 DEF ChainInv, SingleLiveChain, SameQueue, Queued, Current
  <1>9. NoLostWake'
    BY <1>1 DEF NoLostWake
  <1> QED BY <1>3, <1>4, <1>5, <1>6, <1>7, <1>8, <1>9 DEF ChainInv

\* A step that neither the worker nor the user takes: it may close sessions.
LEMMA ChainFrame ==
    ASSUME TypeInv, TypeInv', ChainInv, NoLostWake', UNCHANGED <<shut, gen, worker, job>>,
           SameQueue, \A d \in Devices : sessions'[d] \in {sessions[d], None}
    PROVE  ChainInv'
  <1>1. stopping' = stopping /\ Dev' = Dev /\ Req' = Req
    BY DEF stopping, Dev, Req
  <1>2. ClosedAtShutdown'
    BY <1>1 DEF ChainInv, ClosedAtShutdown, SameQueue
  <1>3. SessionGenerations' /\ AttemptGeneration' /\ NoOrphanSession'
    BY <1>1 DEF ChainInv, SessionGenerations, AttemptGeneration, NoOrphanSession
  <1>4. OwnSessionOpens'
    <2>1. worker \in SessionPcs => Dev \in Devices
      BY InFlight DEF JobPcs
    <2> QED BY <1>1, <2>1 DEF ChainInv, OwnSessionOpens, Current
  <1>5. SingleLiveChain'
    BY <1>1 DEF ChainInv, SingleLiveChain, SameQueue, Queued
  <1> QED BY <1>2, <1>3, <1>4, <1>5 DEF ChainInv

\* A step that starts a new generation of d.
LEMMA ChainBump ==
    ASSUME TypeInv, TypeInv', ChainInv, NEW d \in Devices, ~stopping,
           UNCHANGED <<shut, job>>, queueChanged' = TRUE,
           sessions'[d] = None, gen'[d] = gen[d] + 1,
           queue'[d] = None \/ queue'[d].gen = gen'[d],
           \A e \in Devices \ {d} :
               sessions'[e] = sessions[e] /\ gen'[e] = gen[e] /\ queue'[e] = queue[e],
           worker' = worker \/ (worker = "idle" /\ worker' = "loop"),
           queue'[d] # None => worker' # "idle"
    PROVE  ChainInv'
  <1>1. /\ stopping' = stopping /\ Dev' = Dev /\ Req' = Req
        /\ worker' \in JobPcs => worker \in JobPcs /\ worker' = worker
        /\ worker' \in SessionPcs <=> worker \in SessionPcs
    BY DEF stopping, Dev, Req, JobPcs, SessionPcs, RecoveryPcs
  <1>2. worker \in JobPcs => Dev \in Devices /\ Req.gen \in Nat
    BY InFlight DEF Requests
  <1>3. gen \in [Devices -> Nat]
    BY DEF TypeInv, TypeOK
  <1>4. ClosedAtShutdown'
    BY <1>1 DEF ClosedAtShutdown
  <1>5. SessionGenerations'
    BY DEF ChainInv, SessionGenerations
  <1>6. AttemptGeneration'
    BY <1>1, <1>2, <1>3 DEF ChainInv, AttemptGeneration
  <1>7. OwnSessionOpens'
    BY <1>1, <1>2 DEF ChainInv, OwnSessionOpens, Current, JobPcs
  <1>8. NoOrphanSession'
    BY <1>1 DEF ChainInv, NoOrphanSession
  <1>9. SingleLiveChain'
    <2> SUFFICES ASSUME NEW e \in Queued' PROVE
            /\ ~stopping' /\ queue'[e].gen = gen'[e] /\ sessions'[e] = None
            /\ worker' # "idle" /\ (worker' \in JobPcs /\ Dev' = e => Req'.gen < gen'[e])
      BY DEF SingleLiveChain
    <2>1. e \in Devices /\ queue'[e] # None
      BY DEF Queued
    <2>2. CASE e = d
      BY <1>1, <1>2, <1>3, <2>1, <2>2 DEF ChainInv, AttemptGeneration
    <2>3. CASE e # d
      BY <1>1, <2>1, <2>3 DEF ChainInv, SingleLiveChain, Queued
    <2> QED BY <2>2, <2>3
  <1>10. NoLostWake'
    BY DEF NoLostWake
  <1> QED BY <1>4, <1>5, <1>6, <1>7, <1>8, <1>9, <1>10 DEF ChainInv

LEMMA InitChain == Init => ChainInv
  BY DEF Init, ChainInv, ClosedAtShutdown, SessionGenerations, AttemptGeneration,
         OwnSessionOpens, NoOrphanSession, SingleLiveChain, NoLostWake, Queued, JobPcs,
         SessionPcs, RecoveryPcs, stopping

\* An attempt that lost its session has none left that is not Connected.
LEMMA LostSession ==
    ASSUME TypeInv, ChainInv, worker \in SessionPcs, Lost
    PROVE  sessions[Dev] = None \/ (sessions[Dev].phase = "Connected" /\ ~Current)
  <1>1. Dev \in Devices
    BY InFlight DEF JobPcs
  <1> QED
    BY <1>1 DEF ChainInv, ClosedAtShutdown, NoOrphanSession, OwnSessionOpens, Lost, Current

\* UpsertRow changes no more than delays.
LEMMA UpsertRowQueue ==
    ASSUME TypeInv, NEW d \in Devices, UpsertRow(d)
    PROVE  /\ SameQueue
           /\ queueChanged => queueChanged'
           /\ queue' # queue => queueChanged'
  <1>1. CASE d \notin discovered /\ queue[d] # None
    <2>1. queue' = [queue EXCEPT ![d] = [queue[d] EXCEPT !.notBefore = "now"]]
      BY <1>1 DEF UpsertRow
    <2>2. queue[d] \in Requests
      BY <1>1 DEF TypeInv, TypeOK
    <2>3. [queue[d] EXCEPT !.notBefore = "now"].gen = queue[d].gen
          /\ [queue[d] EXCEPT !.notBefore = "now"] # None
      BY <2>2 DEF Requests
    <2>4. queueChanged' = TRUE
      BY <1>1 DEF UpsertRow
    <2> QED BY <1>1, <2>1, <2>3, <2>4 DEF SameQueue, TypeInv, TypeOK
  <1>2. CASE ~(d \notin discovered /\ queue[d] # None)
    BY <1>2 DEF UpsertRow, SameQueue
  <1> QED BY <1>1, <1>2

\* CloseSessions of one device.
LEMMA CloseOne ==
    ASSUME TypeOK, NEW d \in Devices, NEW skip \in BOOLEAN, sessions[d] # None,
           CloseSessions({d}, skip)
    PROVE  sessions'[d] = None /\ \A e \in Devices \ {d} : sessions'[e] = sessions[e]
  BY DEF CloseSessions, TypeOK

LEMMA ChainUserOrList == ASSUME TypeInv, TypeInv', ChainInv, UserOrList PROVE ChainInv'
  <1>1. PICK d \in Devices : \/ QuickConnect(d) \/ ForceConnect(d) \/ DisconnectDevice(d)
                             \/ DeviceAdded(d) \/ DeviceRemoved(d)
    BY DEF UserOrList
  <1>2. ASSUME NEW m \in Modes, PushRequest(d, m), ~stopping, UNCHANGED <<shut, job>>,
               sessions'[d] = None, \A e \in Devices \ {d} : sessions'[e] = sessions[e]
        PROVE  ChainInv'
    <2>1. /\ queueChanged' = TRUE
          /\ worker' = IF worker = "idle" THEN "loop" ELSE worker
          /\ gen'[d] = gen[d] + 1 /\ queue'[d].gen = gen'[d]
          /\ \A e \in Devices : e # d => gen'[e] = gen[e] /\ queue'[e] = queue[e]
      BY <1>2, PushRequestType
    <2> QED BY <1>2, <2>1, ChainBump
  <1>3. CASE QuickConnect(d)
    BY <1>2, <1>3 DEF QuickConnect, Modes
  <1>4. CASE ForceConnect(d)
    <2>1. PushRequest(d, "Forced") /\ ~stopping /\ UNCHANGED <<shut, job>>
      BY <1>4 DEF ForceConnect
    <2>2. sessions'[d] = None /\ \A e \in Devices \ {d} : sessions'[e] = sessions[e]
      <3>1. CASE sessions[d] = None
        BY <1>4, <3>1 DEF ForceConnect
      <3>2. CASE sessions[d] # None
        <4>1. CloseSessions({d}, TRUE)
          BY <1>4, <3>2 DEF ForceConnect
        <4> QED BY <4>1, <3>2, CloseOne DEF TypeInv
      <3> QED BY <3>1, <3>2
    <2> QED BY <1>2, <2>1, <2>2 DEF Modes
  <1>5. CASE DisconnectDevice(d)
    <2>1. sessions'[d] = None /\ \A e \in Devices \ {d} : sessions'[e] = sessions[e]
      <3>1. CASE sessions[d] = None
        BY <1>5, <3>1 DEF DisconnectDevice
      <3>2. CASE sessions[d] # None
        <4>1. CloseSessions({d}, FALSE)
          BY <1>5, <3>2 DEF DisconnectDevice
        <4> QED BY <4>1, <3>2, CloseOne DEF TypeInv
      <3> QED BY <3>1, <3>2
    <2>2. /\ ~stopping /\ UNCHANGED <<shut, job, worker>> /\ queueChanged' = TRUE
          /\ gen'[d] = gen[d] + 1 /\ queue'[d] = None
          /\ \A e \in Devices \ {d} : gen'[e] = gen[e] /\ queue'[e] = queue[e]
      BY <1>5 DEF DisconnectDevice, TypeInv, TypeOK
    <2> QED BY <2>1, <2>2, ChainBump
  <1>6. CASE DeviceAdded(d)
    <2>1. CASE ReconnectsOnSight(d)
      BY <1>2, <1>6, <2>1 DEF DeviceAdded, ReconnectsOnSight, Modes
    <2>2. CASE ~ReconnectsOnSight(d)
      <3>1. UpsertRow(d) /\ UNCHANGED <<shut, gen, worker, job, sessions>>
        BY <1>6, <2>2 DEF DeviceAdded
      <3> HIDE DEF UpsertRow
      <3>2. /\ SameQueue
            /\ queueChanged => queueChanged'
            /\ queue' # queue => queueChanged'
        BY <3>1, UpsertRowQueue
      <3>3. NoLostWake'
        BY <3>1, <3>2 DEF ChainInv, NoLostWake, At, Queued
      <3> QED BY <3>1, <3>2, <3>3, ChainFrame
    <2> QED BY <2>1, <2>2
  <1>7. CASE DeviceRemoved(d)
    <2>1. UNCHANGED <<shut, queueVars, sessions, worker, job>>
      BY <1>7 DEF DeviceRemoved
    <2>2. NoLostWake' /\ SameQueue
      BY <2>1 DEF ChainInv, NoLostWake, At, Queued, SameQueue
    <2> QED BY <2>1, <2>2, ChainFrame
  <1> QED BY <1>1, <1>3, <1>4, <1>5, <1>6, <1>7

LEMMA ChainBackground ==
    ASSUME TypeInv, TypeInv', ChainInv,
           Background \/ ShutdownDrained \/ \E cb \in callbacks : HandleConnectionClosed(cb)
    PROVE  ChainInv'
  <1>1. ASSUME UNCHANGED <<queueVars, worker, job, shut>>,
               \A d \in Devices : sessions'[d] \in {sessions[d], None}
        PROVE  ChainInv'
    <2>1. NoLostWake' /\ SameQueue
      BY <1>1 DEF ChainInv, NoLostWake, At, Queued, SameQueue
    <2> QED BY <1>1, <2>1, ChainFrame
  <1>2. ASSUME NEW d \in Devices, DelayElapses(d) PROVE ChainInv'
    <2>1. /\ queue' = [queue EXCEPT ![d] = [queue[d] EXCEPT !.notBefore = "due"]]
          /\ queue[d] # None
          /\ UNCHANGED <<shut, gen, queueChanged, sessions, worker, job>>
      BY <1>2 DEF DelayElapses
    <2>2. queue[d] \in Requests
      BY <2>1 DEF TypeInv, TypeOK
    <2> DEFINE r == [queue[d] EXCEPT !.notBefore = "due"]
    <2>3. r.gen = queue[d].gen /\ r.notBefore = "due" /\ r # None
      BY <2>2 DEF Requests
    <2> HIDE DEF r
    <2>4a. queue' = [queue EXCEPT ![d] = r] /\ queue \in [Devices -> Requests \cup {None}]
      BY <2>1 DEF r, TypeInv, TypeOK
    <2>4b. SameQueue
      BY <2>1, <2>3, <2>4a DEF SameQueue
    <2>4c. At("now")' \subseteq At("now")
      BY <2>3, <2>4a DEF At, Queued
    <2>4. SameQueue /\ At("now")' \subseteq At("now")
      BY <2>4b, <2>4c
    <2>5. NoLostWake'
      BY <2>1, <2>4 DEF ChainInv, NoLostWake
    <2> QED BY <2>1, <2>4, <2>5, ChainFrame
  <1>3. ASSUME NEW d \in Devices,
               \/ CloseReturns(d) \/ FlowWorkerEnds(d) \/ VerificationFails(d)
               \/ CreationReady(d) \/ CreationFinishes(d)
        PROVE  ChainInv'
    BY <1>1, <1>3 DEF CloseReturns, FlowWorkerEnds, VerificationFails, CreationReady,
       CreationFinishes
  <1>4. ASSUME NEW c \in Conns, LinkOpens(c) \/ LinkCloses(c) PROVE ChainInv'
    BY <1>1, <1>4 DEF LinkOpens, LinkCloses
  <1>5. CASE ShutdownDrained
    <2>1. /\ shut = "stopping" /\ shut' = "drained" /\ worker = "idle"
          /\ UNCHANGED <<queueVars, sessions, worker, job>>
      BY <1>5 DEF ShutdownDrained
    <2> QED
      BY <2>1 DEF ChainInv, ClosedAtShutdown, SessionGenerations, AttemptGeneration,
         OwnSessionOpens, NoOrphanSession, SingleLiveChain, NoLostWake, At, Queued, stopping,
         JobPcs, SessionPcs, RecoveryPcs
  <1>6. ASSUME NEW cb \in callbacks, HandleConnectionClosed(cb) PROVE ChainInv'
    <2>1. UNCHANGED <<queueVars, worker, job, shut>>
      BY <1>6 DEF HandleConnectionClosed
    <2>2. \A d \in Devices : sessions'[d] \in {sessions[d], None}
      <3>1. CASE ActsOnClosed(cb)
        <4>1. CloseSessions({cb.dev}, TRUE) /\ sessions[cb.dev] # None
          BY <1>6, <3>1 DEF HandleConnectionClosed, ActsOnClosed
        <4>2. {cb.dev} \in SUBSET Devices /\ \A d \in {cb.dev} : sessions[d] # None
          BY <4>1 DEF TypeInv, TypeOK, Callbacks
        <4> QED BY <4>1, <4>2, CloseSessionsType DEF TypeInv
      <3>2. CASE ~ActsOnClosed(cb)
        BY <1>6, <3>2 DEF HandleConnectionClosed
      <3> QED BY <3>1, <3>2
    <2> QED BY <1>1, <2>1, <2>2
  <1> QED BY <1>2, <1>3, <1>4, <1>5, <1>6 DEF Background

LEMMA ChainShutdown == ASSUME TypeInv, TypeInv', ChainInv, BeginShutdown PROVE ChainInv'
  <1> DEFINE ds == {d \in Devices : sessions[d] # None}
  <1>1. /\ CloseSessions(ds, TRUE) /\ shut' = "stopping" /\ queueChanged' = TRUE
        /\ queue' = [d \in Devices |-> None] /\ gen' = [d \in Devices |-> gen[d] + 1]
        /\ UNCHANGED <<worker, job>>
    BY DEF BeginShutdown
  <1>2. ds \in SUBSET Devices /\ \A d \in ds : sessions[d] # None
    OBVIOUS
  <1>3. \A d \in Devices : sessions'[d] = IF d \in ds THEN None ELSE sessions[d]
    <2> HIDE DEF ds
    <2> QED BY <1>1, <1>2, CloseSessionsType DEF TypeInv
  <1>4. \A d \in Devices : sessions'[d] = None
    BY <1>3
  <1>5. ClosedAtShutdown' /\ SessionGenerations' /\ NoOrphanSession' /\ NoLostWake'
    BY <1>1, <1>4 DEF ClosedAtShutdown, SessionGenerations, NoOrphanSession, NoLostWake
  <1>6. SingleLiveChain'
    BY <1>1 DEF SingleLiveChain, Queued
  <1>7. AttemptGeneration'
    <2>1. worker \in JobPcs => Dev \in Devices /\ Req.gen \in Nat
      BY InFlight DEF Requests
    <2>2. \A d \in Devices : gen[d] \in Nat /\ gen'[d] = gen[d] + 1
      BY <1>1 DEF TypeInv, TypeOK
    <2> QED BY <1>1, <2>1, <2>2 DEF ChainInv, AttemptGeneration, Dev, Req
  <1>8. OwnSessionOpens'
    <2>1. worker \in SessionPcs => Dev \in Devices /\ Dev' = Dev
      BY <1>1, InFlight DEF JobPcs, Dev
    <2> QED BY <1>1, <1>4, <2>1 DEF OwnSessionOpens, Current
  <1> QED BY <1>5, <1>6, <1>7, <1>8 DEF ChainInv

LEMMA ChainChoose ==
    ASSUME TypeInv, TypeInv', ChainInv, Choose \/ WorkerTail PROVE ChainInv'
  <1>1. /\ worker \notin JobPcs /\ worker' \notin JobPcs
        /\ worker \notin SessionPcs /\ worker' \notin SessionPcs
        /\ UNCHANGED <<shut, gen, queue, sessions, job>>
    BY DEF Choose, LeaveLoop, AwaitRetry, WakeForQueue, WorkerTail, JobPcs, SessionPcs,
       RecoveryPcs
  <1>2. ClosedAtShutdown' /\ SessionGenerations' /\ AttemptGeneration' /\ OwnSessionOpens'
        /\ NoOrphanSession'
    BY <1>1 DEF ChainInv, ClosedAtShutdown, SessionGenerations, AttemptGeneration,
       OwnSessionOpens, NoOrphanSession, stopping
  <1>3. SingleLiveChain'
    <2>1. worker' = "idle" => Queued = {} \/ stopping
      BY DEF Choose, LeaveLoop, AwaitRetry, WakeForQueue, WorkerTail
    <2>2. Queued' = Queued /\ stopping' = stopping
      BY <1>1 DEF Queued, stopping
    <2> QED BY <1>1, <2>1, <2>2 DEF ChainInv, SingleLiveChain
  <1>4. NoLostWake'
    <2>1. worker' = "waitDue" => NextRequests = {}
      BY DEF Choose, LeaveLoop, AwaitRetry, WakeForQueue, WorkerTail
    <2>2. At("now")' = At("now")
      BY <1>1 DEF At, Queued
    <2> QED BY <2>1, <2>2 DEF NoLostWake, NextRequests
  <1> QED BY <1>2, <1>3, <1>4 DEF ChainInv

LEMMA ChainDispatch ==
    ASSUME TypeInv, TypeInv', ChainInv, NEW d \in Devices, Dispatch(d) PROVE ChainInv'
  <1>1. d \in Queued
    BY DEF Dispatch, NextRequests, At
  <1>2. /\ queue[d].gen = gen[d] /\ sessions[d] = None
        /\ worker' = "begin" /\ job'.dev = d /\ job'.req = queue[d]
        /\ UNCHANGED <<shut, gen, sessions>> /\ ~stopping
        /\ queue' = [queue EXCEPT ![d] = None]
        /\ worker = "loop"
    BY <1>1 DEF Dispatch, ChainInv, SingleLiveChain
  <1>3. /\ worker \notin SessionPcs /\ worker' \notin SessionPcs
        /\ stopping' = stopping /\ Dev' = d /\ Req'.gen = gen[d]
    BY <1>2 DEF SessionPcs, RecoveryPcs, stopping, Dev, Req
  <1>4. ClosedAtShutdown' /\ SessionGenerations' /\ OwnSessionOpens' /\ NoOrphanSession'
    BY <1>2, <1>3 DEF ChainInv, ClosedAtShutdown, SessionGenerations, OwnSessionOpens,
       NoOrphanSession
  <1>5. AttemptGeneration'
    BY <1>2, <1>3 DEF AttemptGeneration, TypeInv, TypeOK
  <1>6. SingleLiveChain'
    <2>1. \A e \in Queued' : e # d /\ e \in Queued /\ queue'[e] = queue[e]
      BY <1>2 DEF Queued, TypeInv, TypeOK
    <2> QED BY <1>2, <1>3, <2>1 DEF ChainInv, SingleLiveChain
  <1>7. NoLostWake'
    BY <1>2 DEF NoLostWake
  <1> QED BY <1>4, <1>5, <1>6, <1>7 DEF ChainInv

LEMMA ChainBegin == ASSUME TypeInv, TypeInv', ChainInv, Begin PROVE ChainInv'
  <1>1. /\ job \in Jobs /\ Dev \in Devices /\ Req \in Requests
        /\ worker \in {"begin", "waitPrevious"}
    BY InFlight DEF Begin, BeginCancelled, BeginUnavailable, BeginAttempt, PreviousFinished,
                    PreviousTimesOut, JobPcs, SessionPcs
  <1>2. CASE BeginCancelled \/ BeginUnavailable
    <2>1. /\ worker = "begin" /\ worker' = "attempted" /\ UNCHANGED <<shut, queueVars, sessions>>
          /\ Dev' = Dev /\ Req' = Req
      BY <1>1, <1>2 DEF BeginCancelled, BeginUnavailable, AttemptEnds, Jobs, Dev, Req
    <2>2. /\ worker \notin SessionPcs /\ worker' \notin SessionPcs
          /\ worker \in JobPcs /\ stopping' = stopping /\ Queued' = Queued
      BY <2>1 DEF JobPcs, SessionPcs, RecoveryPcs, stopping, Queued
    <2> QED
      BY <2>1, <2>2 DEF ChainInv, ClosedAtShutdown, SessionGenerations, AttemptGeneration,
         OwnSessionOpens, NoOrphanSession, SingleLiveChain, NoLostWake
  <1>3. CASE BeginAttempt
    <2>1. /\ worker = "begin" /\ worker' = "waitPrevious" /\ UNCHANGED <<shut, gen, job>>
          /\ ~stopping /\ gen[Dev] = Req.gen
      BY <1>3 DEF BeginAttempt
    <2>2. /\ sessions'[Dev] # None /\ sessions'[Dev].gen = Req.gen
          /\ sessions'[Dev].phase # "Connected"
          /\ \A d \in Devices \ {Dev} : sessions'[d] = sessions[d]
      <3>1. PICK p \in {"Starting", "RecoveringBluetooth"} :
              sessions' = [sessions EXCEPT ![Dev] = [gen |-> Req.gen, conn |-> None, phase |-> p]]
        BY <1>3 DEF BeginAttempt
      <3>2. \A p2 \in Phases : [gen |-> Req.gen, conn |-> None, phase |-> p2] \in Sessions
        BY <1>1 DEF Requests, Sessions
      <3>3. [gen |-> Req.gen, conn |-> None, phase |-> p] # None
        BY <3>2 DEF Phases
      <3> QED BY <1>1, <3>1, <3>3 DEF TypeInv, TypeOK
    <2>3. SameQueue
      <3>1. CASE Req.device
        BY <1>1, <1>3, <3>1, UpsertRowQueue DEF BeginAttempt
      <3>2. CASE ~Req.device
        BY <1>3, <3>2 DEF BeginAttempt, SameQueue
      <3> QED BY <3>1, <3>2
    <2>4. /\ worker \notin SessionPcs /\ worker' \in SessionPcs /\ worker \in JobPcs
          /\ worker' \in JobPcs /\ stopping' = stopping /\ Dev' = Dev /\ Req' = Req
      BY <2>1 DEF JobPcs, SessionPcs, RecoveryPcs, stopping, Dev, Req
    <2>5. ClosedAtShutdown' /\ SessionGenerations' /\ AttemptGeneration' /\ NoLostWake'
      BY <1>1, <2>1, <2>2, <2>4 DEF ChainInv, ClosedAtShutdown, SessionGenerations,
         AttemptGeneration, NoLostWake
    <2>6. OwnSessionOpens' /\ NoOrphanSession'
      BY <1>1, <2>2, <2>4 DEF ChainInv, OwnSessionOpens, NoOrphanSession
    <2>7. SingleLiveChain'
      <3>1. \A e \in Queued' : e \in Queued /\ queue'[e].gen = queue[e].gen
        BY <2>3 DEF SameQueue, Queued
      <3>2. \A e \in Queued : e # Dev
        BY <1>1, <2>1, <2>4 DEF ChainInv, SingleLiveChain, TypeInv, TypeOK
      <3> QED BY <2>1, <2>2, <2>4, <3>1, <3>2 DEF ChainInv, SingleLiveChain, Queued
    <2> QED BY <2>5, <2>6, <2>7 DEF ChainInv
  <1>4. CASE PreviousFinished
    <2>1. /\ worker = "waitPrevious" /\ UNCHANGED <<shut, queueVars, sessions>>
          /\ worker' \in {"attempted", "prepared", "ensure"}
          /\ worker' = "attempted" => Lost
      BY <1>4 DEF PreviousFinished, AttemptEnds
    <2>2. job'.dev = job.dev /\ job'.req.gen = job.req.gen
      BY <1>1, <1>4 DEF PreviousFinished, AttemptEnds, Jobs, Requests
    <2>3. worker' = "attempted" => sessions'[Dev] = None \/ sessions'[Dev].phase = "Connected"
      BY <2>1, LostSession DEF SessionPcs
    <2>4. SameQueue /\ worker \in SessionPcs /\ worker' \in SessionPcs \cup {"attempted"}
      BY <2>1 DEF SameQueue, SessionPcs
    <2> QED BY <1>1, <2>1, <2>2, <2>3, <2>4, ChainAttempt
  <1>5. CASE PreviousTimesOut
    <2>1. /\ worker = "waitPrevious" /\ UNCHANGED <<shut, queueVars, sessions, job>>
          /\ worker' = "threw"
      BY <1>5 DEF PreviousTimesOut
    <2>2. SameQueue /\ worker \in SessionPcs /\ worker' \in SessionPcs
      BY <2>1 DEF SameQueue, SessionPcs
    <2> QED BY <1>1, <2>1, <2>2, ChainAttempt
  <1> QED BY <1>2, <1>3, <1>4, <1>5 DEF Begin

\* What the preparation does to the request in flight and to the worker.
LEMMA PrepareAttempt ==
    ASSUME TypeInv, Prepare
    PROVE  /\ job \in Jobs /\ worker \in RecoveryPcs \cup {"ensure"}
           /\ worker' \in RecoveryPcs \cup {"prepared"} /\ UNCHANGED <<shut, queueVars>>
           /\ job'.dev = job.dev /\ job'.req.gen = job.req.gen
  <1>1. /\ job \in Jobs /\ worker \in RecoveryPcs \cup {"ensure"}
    BY InFlight DEF Prepare, EnsureProtects, EnsureStopped, EnsureStarts, RadioFound,
       RadioNotFound, TasksFinished, TasksTimeOut, RadioTurnsOff, TransactionRefused,
       RadioRestored, RestoreFails, RecoveryDone, RecoveryFails, JobPcs, SessionPcs, RecoveryPcs
  <1>2. /\ worker' \in RecoveryPcs \cup {"prepared"} /\ UNCHANGED <<shut, queueVars>>
    BY DEF Prepare, EnsureProtects, EnsureStopped, EnsureStarts, RadioFound,
       RadioNotFound, TasksFinished, TasksTimeOut, RadioTurnsOff, TransactionRefused,
       RadioRestored, RestoreFails, RecoveryDone, RecoveryFails, PreparationReturns, RecoveryPcs
  <1>3. job'.dev = job.dev /\ job'.req.gen = job.req.gen
    <2>1. CASE \E r \in RecoveryResults : job' = [job EXCEPT !.req.prepResult = r]
      BY <1>1, <2>1 DEF Jobs, Requests
    <2>2. CASE \E r \in RecoveryResults : PreparationReturns(r)
      <3>1. PICK r \in RecoveryResults, st \in Strategies :
               job' = [job EXCEPT !.req.prepResult = r, !.req.strategy = st]
        <4>1. job.req.strategy \in Strategies
          BY <1>1 DEF Jobs, Requests
        <4> QED BY <2>2, <4>1 DEF PreparationReturns, Strategies
      <3> QED BY <1>1, <3>1 DEF Jobs, Requests
    <2>3. CASE UNCHANGED job
      BY <2>3
    <2>4. Req.prepResult \in RecoveryResults
      BY <1>1 DEF Jobs, Requests, Req
    <2> QED
      BY <2>1, <2>2, <2>3, <2>4 DEF Prepare, EnsureProtects, EnsureStopped, EnsureStarts, RadioFound,
       RadioNotFound, TasksFinished, TasksTimeOut, RadioTurnsOff, TransactionRefused,
       RadioRestored, RestoreFails, RecoveryDone, RecoveryFails, RecoveryResults
  <1> QED BY <1>1, <1>2, <1>3

LEMMA ChainPrepare == ASSUME TypeInv, TypeInv', ChainInv, Prepare PROVE ChainInv'
  <1>1. /\ job \in Jobs /\ worker \in RecoveryPcs \cup {"ensure"}
    BY PrepareAttempt
  <1>2. /\ worker' \in RecoveryPcs \cup {"prepared"} /\ UNCHANGED <<shut, queueVars>>
    BY PrepareAttempt
  <1>3. job'.dev = job.dev /\ job'.req.gen = job.req.gen
    BY PrepareAttempt
  <1>4. /\ SameQueue /\ worker \in SessionPcs /\ worker' \in SessionPcs /\ worker' # "attempted"
    BY <1>1, <1>2 DEF SameQueue, SessionPcs, RecoveryPcs
  <1>5. \A d \in Devices : sessions'[d] \in {sessions[d], None}
    <2>1. CASE RadioFound
      <3> DEFINE closes == IF ForcedReset THEN ConnectedDevices ELSE {}
      <3>1. /\ closes \in SUBSET Devices /\ \A d \in closes : sessions[d] # None
            /\ CloseSessions(closes, FALSE)
        BY <2>1 DEF ConnectedDevices, RadioFound
      <3> HIDE DEF closes
      <3> QED BY <3>1, CloseSessionsType DEF TypeInv
    <2>2. CASE ~RadioFound
      <3>1. UNCHANGED sessions
        BY <2>2 DEF Prepare, EnsureProtects, EnsureStopped, EnsureStarts, RadioNotFound,
           TasksFinished, TasksTimeOut, RadioTurnsOff, TransactionRefused, RadioRestored,
           RestoreFails, RecoveryDone, RecoveryFails
      <3> QED BY <3>1
    <2> QED BY <2>1, <2>2
  <1>6. Dev \in Devices
    BY <1>1 DEF Jobs, Dev
  <1> QED BY <1>2, <1>3, <1>4, <1>5, <1>6, ChainAttempt

\* CloseOwn, followed by the end of the attempt.
LEMMA ChainCloseOwn ==
    ASSUME TypeInv, TypeInv', ChainInv, worker \in SessionPcs, CloseOwn,
           NEW r \in AttemptResults, AttemptEnds(r), UNCHANGED <<shut, queueVars>>
    PROVE  ChainInv'
  <1>1. job \in Jobs /\ Dev \in Devices
    BY InFlight DEF JobPcs
  <1>2. /\ worker' = "attempted" /\ job'.dev = job.dev /\ job'.req.gen = job.req.gen
        /\ SameQueue
    BY <1>1 DEF AttemptEnds, Jobs, SameQueue
  <1>3. \A d \in Devices : sessions'[d] = IF d = Dev /\ Current THEN None ELSE sessions[d]
    BY <1>1, CloseOwnType DEF TypeInv
  <1>4. ~Current => sessions[Dev] = None \/ sessions[Dev].phase = "Connected"
    BY LostSession DEF Lost
  <1> QED BY <1>1, <1>2, <1>3, <1>4, ChainAttempt

\* A step of the attempt that leaves its session alone and does not end it.
LEMMA ChainStay ==
    ASSUME TypeInv, TypeInv', ChainInv, worker \in SessionPcs, worker' \in SessionPcs,
           UNCHANGED <<shut, queueVars, sessions>>,
           UNCHANGED job \/ \E r : AttemptResult(r)
    PROVE  ChainInv'
  <1>1. job \in Jobs /\ Dev \in Devices
    BY InFlight DEF JobPcs
  <1>2. job'.dev = job.dev /\ job'.req.gen = job.req.gen /\ SameQueue
    BY <1>1 DEF AttemptResult, Jobs, SameQueue
  <1>3. worker' # "attempted"
    BY DEF SessionPcs, RecoveryPcs
  <1> QED BY <1>1, <1>2, <1>3, ChainAttempt

\* A step of the attempt that moves its session on.
LEMMA ChainMove ==
    ASSUME TypeInv, TypeInv', ChainInv, worker \in SessionPcs, worker' \in SessionPcs,
           UNCHANGED <<shut, gen>>, SameQueue, Current,
           UNCHANGED job \/ \E r : AttemptResult(r),
           \/ \E p \in Phases \ {"Connected"} : sessions' = [sessions EXCEPT ![Dev].phase = p]
           \/ \E c \in Conns : sessions' = [sessions EXCEPT ![Dev].conn = c]
    PROVE  ChainInv'
  <1>1. job \in Jobs /\ Dev \in Devices /\ sessions[Dev] \in Sessions
    BY InFlight DEF JobPcs, Current, TypeInv, TypeOK
  <1>2. job'.dev = job.dev /\ job'.req.gen = job.req.gen
    BY <1>1 DEF AttemptResult, Jobs
  <1>3. worker' # "attempted"
    BY DEF SessionPcs, RecoveryPcs
  <1>4. sessions[Dev].phase # "Connected"
    BY DEF ChainInv, OwnSessionOpens
  <1>5. \A d \in Devices \ {Dev} : sessions'[d] = sessions[d]
    BY <1>1 DEF TypeInv, TypeOK
  <1>6. /\ sessions'[Dev] \in Sessions /\ sessions'[Dev].gen = sessions[Dev].gen
        /\ sessions'[Dev].phase # "Connected"
    <2>1. sessions \in [Devices -> Sessions \cup {None}]
      BY DEF TypeInv, TypeOK
    <2>2. CASE \E p \in Phases \ {"Connected"} : sessions' = [sessions EXCEPT ![Dev].phase = p]
      BY <1>1, <2>1, <2>2 DEF Sessions
    <2>3. CASE \E c \in Conns : sessions' = [sessions EXCEPT ![Dev].conn = c]
      BY <1>1, <1>4, <2>1, <2>3 DEF Sessions
    <2> QED BY <2>2, <2>3
  <1>7. sessions'[Dev] # None
    BY <1>6
  <1> QED BY <1>1, <1>2, <1>3, <1>5, <1>6, <1>7, ChainAttempt

\* StartCreation, for the attempt whose session is current.
LEMMA ChainStartCreation ==
    ASSUME TypeInv, TypeInv', ChainInv, worker \in {"prepared", "lookup"}, Current,
           NEW h \in {0, 1}, StartCreation(h = 1), UNCHANGED shut
    PROVE  ChainInv'
  <1>1. Dev \in Devices
    BY InFlight DEF JobPcs, SessionPcs
  <1>2. SameQueue
    <2>1. CASE h = 1
      <3>1. UpsertRow(Dev)
        BY <2>1 DEF StartCreation
      <3> QED BY <1>1, <3>1, UpsertRowQueue
    <2>2. CASE h # 1
      BY <2>2 DEF StartCreation, SameQueue
    <2> QED BY <2>1, <2>2
  <1>3. /\ sessions' = [sessions EXCEPT ![Dev].phase = "Starting"]
        /\ worker' \in SessionPcs /\ UNCHANGED gen
        /\ UNCHANGED job \/ AttemptResult("Failed")
    BY DEF StartCreation, AttemptResult, SessionPcs
  <1>4. worker \in SessionPcs
    BY DEF SessionPcs
  <1> QED BY <1>2, <1>3, <1>4, ChainMove DEF Phases

LEMMA ChainOpen == ASSUME TypeInv, TypeInv', ChainInv, Open PROVE ChainInv'
  <1>1. worker \in {"prepared", "lookup", "create", "start", "open", "waitOpened"}
    BY DEF Open, PreparedLost, PreparationFailed, PreparedOk, LookupEnds,
       LookupThrows, CreateLost, CreateTaken, CreateFails, StartDone, StartFails, OpenDone,
       OpenFails, StepFails, OpenedWaitEnds
  <1>2. /\ worker \in SessionPcs /\ job \in Jobs /\ Dev \in Devices
    BY <1>1, InFlight DEF SessionPcs, JobPcs
  <1>3. CASE PreparedLost \/ PreparationFailed
    <2>1. UNCHANGED <<shut, queueVars>>
      BY <1>3 DEF PreparedLost, PreparationFailed
    <2>2. CloseOwn /\ (AttemptEnds("Cancelled") \/ AttemptEnds("Failed"))
      BY <1>3 DEF PreparedLost, PreparationFailed
    <2> QED BY <1>2, <2>1, <2>2, ChainCloseOwn DEF AttemptResults
  <1>4. CASE PreparedOk
    <2>1. CASE StartCreation(TRUE)
      <3>1. StartCreation(1 = 1) /\ UNCHANGED shut /\ Current
        BY <1>4, <2>1 DEF PreparedOk, Lost
      <3> HIDE DEF StartCreation
      <3> QED BY <1>1, <1>4, <3>1, ChainStartCreation DEF PreparedOk
    <2>2. CASE worker' = "lookup" /\ UNCHANGED <<queueVars, linkVars, job>>
      BY <1>2, <1>4, <2>2, ChainStay DEF PreparedOk, SessionPcs
    <2> QED BY <1>4, <2>1, <2>2 DEF PreparedOk
  <1>5. CASE LookupEnds
    <2>1. CASE Lost
      <3>1. CloseOwn /\ AttemptEnds("Cancelled") /\ UNCHANGED <<shut, queueVars>>
        BY <1>5, <2>1 DEF LookupEnds
      <3> QED BY <1>2, <3>1, ChainCloseOwn DEF AttemptResults
    <2>2. CASE ~Lost
      <3>1. UNCHANGED shut /\ worker = "lookup" /\ Current
        BY <1>5, <2>2 DEF LookupEnds, Lost
      <3>2. StartCreation(1 = 1) \/ StartCreation(0 = 1)
        <4>1. PICK found \in BOOLEAN : StartCreation(found \/ Req.device)
          BY <1>5, <2>2 DEF LookupEnds
        <4>2. CASE found \/ Req.device
          BY <4>1, <4>2 DEF StartCreation
        <4>3. CASE ~(found \/ Req.device)
          BY <4>1, <4>3 DEF StartCreation
        <4> QED BY <4>2, <4>3
      <3> QED BY <3>1, <3>2, ChainStartCreation
    <2> QED BY <2>1, <2>2
  <1>6. CASE LookupThrows
    BY <1>2, <1>6, ChainStay DEF LookupThrows, SessionPcs
  <1>7. CASE CreateLost
    <2>1. /\ AttemptEnds("Cancelled") /\ UNCHANGED <<shut, queueVars, sessions>> /\ Lost
      BY <1>7 DEF CreateLost
    <2>2. /\ worker' = "attempted" /\ job'.dev = job.dev /\ job'.req.gen = job.req.gen
          /\ SameQueue
      BY <1>2, <2>1 DEF AttemptEnds, Jobs, SameQueue
    <2>3. sessions[Dev] = None \/ sessions[Dev].phase = "Connected"
      BY <1>2, <2>1, LostSession
    <2> QED BY <1>2, <2>1, <2>2, <2>3, ChainAttempt
  <1>8. CASE CreateFails \/ StartFails \/ OpenFails
    <2>1. /\ UNCHANGED <<shut, queueVars, sessions>>
          /\ \E r : AttemptResult(r)
      BY <1>8 DEF CreateFails, StartFails, OpenFails, StepFails
    <2>2. worker' \in SessionPcs
      BY <2>1 DEF AttemptResult, SessionPcs
    <2> QED BY <1>2, <2>1, <2>2, ChainStay
  <1>9. ASSUME NEW c \in Conns, CreateTaken(c) PROVE ChainInv'
    <2>1. /\ sessions' = [sessions EXCEPT ![Dev].conn = c] /\ worker' = "start" /\ Current
          /\ UNCHANGED <<shut, queueVars, job>>
      BY <1>9 DEF CreateTaken, Lost
    <2>2. SameQueue /\ worker' \in SessionPcs
      BY <2>1 DEF SameQueue, SessionPcs
    <2> QED BY <1>2, <2>1, <2>2, ChainMove
  <1>10. CASE StartDone \/ OpenDone
    <2>1. CASE Lost
      <3>1. CloseOwn /\ AttemptEnds(AbortCode) /\ UNCHANGED <<shut, queueVars>>
        BY <1>10, <2>1 DEF StartDone, OpenDone
      <3> QED BY <1>2, <3>1, ChainCloseOwn DEF AttemptResults, AbortCode
    <2>2. CASE ~Lost
      <3>1. /\ \E p \in Phases \ {"Connected"} : sessions' = [sessions EXCEPT ![Dev].phase = p]
            /\ UNCHANGED <<shut, queueVars>> /\ Current
        BY <1>10, <2>2 DEF StartDone, OpenDone, Lost, Phases
      <3>2. /\ worker' \in {"open", "waitOpened", "final"}
            /\ UNCHANGED job \/ AttemptResult("Success")
        BY <1>10, <2>2 DEF StartDone, OpenDone, AttemptResult
      <3>3. SameQueue /\ worker' \in SessionPcs
        BY <3>1, <3>2 DEF SameQueue, SessionPcs
      <3> QED BY <1>2, <3>1, <3>2, <3>3, ChainMove
    <2> QED BY <2>1, <2>2
  <1>11. CASE OpenedWaitEnds
    <2>1. CASE Lost
      <3>1. CloseOwn /\ AttemptEnds("Cancelled") /\ UNCHANGED <<shut, queueVars>>
        BY <1>11, <2>1 DEF OpenedWaitEnds
      <3> QED BY <1>2, <3>1, ChainCloseOwn DEF AttemptResults
    <2>2. CASE ~Lost
      <3>1. /\ UNCHANGED <<shut, queueVars, sessions>>
            /\ \E r : AttemptResult(r)
        BY <1>11, <2>2 DEF OpenedWaitEnds
      <3>2. worker' \in SessionPcs
        BY <3>1 DEF AttemptResult, SessionPcs
      <3> QED BY <1>2, <3>1, <3>2, ChainStay
    <2> QED BY <2>1, <2>2
  <1> QED BY <1>3, <1>4, <1>5, <1>6, <1>7, <1>8, <1>9, <1>10, <1>11 DEF Open

\* Conclude puts back at most the request in flight, and only if it is current.
LEMMA ChainConclude ==
    ASSUME TypeInv, TypeInv', ChainInv, worker \in {"attempted", "threw"},
           NEW r \in AttemptResults, Conclude(r),
           \A d \in Devices : sessions'[d] \in {sessions[d], None},
           sessions'[Dev] = None \/ sessions'[Dev].phase = "Connected"
    PROVE  ChainInv'
  <1>1. /\ job \in Jobs /\ Dev \in Devices /\ Req \in Requests
    BY InFlight DEF JobPcs, SessionPcs
  <1>2. /\ worker' = "loop" /\ UNCHANGED <<shut, gen>>
    BY DEF Conclude
  <1>3. /\ worker' \notin JobPcs /\ worker' \notin SessionPcs /\ stopping' = stopping
        /\ worker \in JobPcs
    BY <1>2 DEF JobPcs, SessionPcs, RecoveryPcs, stopping
  <1>4. \A e \in Devices \ {Dev} : queue'[e] = queue[e]
    BY DEF Conclude, TypeInv, TypeOK
  <1>5. /\ UNCHANGED queue
        \/ /\ queue'[Dev].gen = gen[Dev] /\ sessions'[Dev] = None /\ ~stopping
    <2>1. CASE Requeues(r)
      <3> DEFINE retry == [Req EXCEPT !.notBefore = "later", !.device = FALSE]
      <3>1. retry.gen = Req.gen
        BY <1>1 DEF Requests
      <3>2. queue' = [queue EXCEPT ![Dev] = retry] /\ gen[Dev] = Req.gen /\ ~stopping
            /\ sessions'[Dev] = None
        BY <2>1 DEF Conclude, Requeues
      <3> HIDE DEF retry
      <3> QED BY <1>1, <3>1, <3>2 DEF TypeInv, TypeOK
    <2>2. CASE ~Requeues(r)
      BY <2>2 DEF Conclude
    <2> QED BY <2>1, <2>2
  <1>6. ClosedAtShutdown' /\ SessionGenerations' /\ AttemptGeneration' /\ OwnSessionOpens'
        /\ NoLostWake'
    BY <1>2, <1>3, <1>5 DEF ChainInv, ClosedAtShutdown, SessionGenerations, AttemptGeneration,
       OwnSessionOpens, NoLostWake
  <1>7. NoOrphanSession'
    BY <1>1, <1>3 DEF ChainInv, NoOrphanSession
  <1>8. SingleLiveChain'
    <2> SUFFICES ASSUME NEW e \in Queued' PROVE
            ~stopping /\ queue'[e].gen = gen[e] /\ sessions'[e] = None
      BY <1>2, <1>3 DEF SingleLiveChain
    <2>1. e \in Devices /\ queue'[e] # None
      BY DEF Queued
    <2> QED BY <1>4, <1>5, <2>1 DEF ChainInv, SingleLiveChain, Queued
  <1> QED BY <1>6, <1>7, <1>8 DEF ChainInv

LEMMA ChainFinish == ASSUME TypeInv, TypeInv', ChainInv, Finish PROVE ChainInv'
  <1>1. CASE FinalLost
    <2>1. CloseOwn /\ AttemptEnds(AbortCode) /\ UNCHANGED <<shut, queueVars>>
          /\ worker \in SessionPcs
      BY <1>1 DEF FinalLost, SessionPcs
    <2> QED BY <2>1, ChainCloseOwn DEF AttemptResults, AbortCode
  <1>2. CASE FinalFailed
    <2> DEFINE r == IF job.result = "Success" THEN "Failed" ELSE job.result
    <2>1. CloseOwn /\ AttemptEnds(r) /\ UNCHANGED <<shut, queueVars>>
          /\ worker \in SessionPcs
      BY <1>2 DEF FinalFailed, SessionPcs
    <2>2. r \in AttemptResults
      BY <2>1, InFlight DEF Jobs, AttemptResults, JobPcs
    <2> HIDE DEF r
    <2> QED BY <2>1, <2>2, ChainCloseOwn
  <1>3. CASE CommitConnected
    <2>1. /\ worker = "final" /\ Current /\ AttemptEnds("Success")
          /\ sessions' = [sessions EXCEPT ![Dev].phase = "Connected"]
          /\ UNCHANGED <<shut, queueVars>>
      BY <1>3 DEF CommitConnected, Lost
    <2>2. /\ worker \in SessionPcs /\ job \in Jobs /\ Dev \in Devices
          /\ sessions[Dev] \in Sessions
      BY <2>1, InFlight DEF SessionPcs, JobPcs, Current, TypeInv, TypeOK
    <2>3. /\ worker' = "attempted" /\ job'.dev = job.dev /\ job'.req.gen = job.req.gen
          /\ SameQueue
      BY <2>1, <2>2 DEF AttemptEnds, Jobs, SameQueue
    <2>4. /\ \A d \in Devices \ {Dev} : sessions'[d] = sessions[d]
          /\ sessions'[Dev] \in Sessions /\ sessions'[Dev].gen = sessions[Dev].gen
          /\ sessions'[Dev].phase = "Connected"
      <3>1. sessions \in [Devices -> Sessions \cup {None}]
        BY DEF TypeInv, TypeOK
      <3> QED BY <2>1, <2>2, <3>1 DEF Sessions, Phases
    <2>5. sessions'[Dev] # None
      BY <2>4
    <2> QED BY <2>1, <2>2, <2>3, <2>4, <2>5, ChainAttempt
  <1>4. CASE AttemptReturned
    <2>1. /\ worker = "attempted" /\ Conclude(job.result) /\ UNCHANGED sessions
      BY <1>4 DEF AttemptReturned
    <2>2. /\ job \in Jobs /\ Dev \in Devices /\ job.result \in AttemptResults
          /\ worker \notin SessionPcs
      BY <2>1, InFlight DEF Jobs, JobPcs, SessionPcs, RecoveryPcs
    <2>3. sessions[Dev] = None \/ sessions[Dev].phase = "Connected"
      BY <2>2 DEF ChainInv, NoOrphanSession
    <2> HIDE DEF Conclude
    <2> QED BY <2>1, <2>2, <2>3, ChainConclude
  <1>5. CASE AttemptThrew
    <2> DEFINE r == IF stopping \/ gen[Dev] # Req.gen THEN "Cancelled" ELSE "Failed"
    <2>1. /\ worker = "threw" /\ CloseOwn /\ Conclude(r) /\ r \in AttemptResults
      BY <1>5 DEF AttemptThrew, AttemptResults
    <2>2. /\ job \in Jobs /\ Dev \in Devices /\ worker \in SessionPcs
      BY <2>1, InFlight DEF JobPcs, SessionPcs
    <2>3. \A d \in Devices : sessions'[d] = IF d = Dev /\ Current THEN None ELSE sessions[d]
      BY <2>1, <2>2, CloseOwnType DEF TypeInv
    <2>4. ~Current => sessions[Dev] = None \/ sessions[Dev].phase = "Connected"
      BY <2>2, LostSession DEF Lost
    <2> HIDE DEF r
    <2> QED BY <2>1, <2>2, <2>3, <2>4, ChainConclude
  <1> QED BY <1>1, <1>2, <1>3, <1>4, <1>5, ChainChoose DEF Finish

LEMMA ChainStep == TypeInv /\ TypeInv' /\ ChainInv /\ [Next]_vars => ChainInv'
  <1> SUFFICES ASSUME TypeInv, TypeInv', ChainInv, [Next]_vars PROVE ChainInv'
    OBVIOUS
  <1>1. CASE WorkerStep
    BY <1>1, ChainChoose, ChainBegin, ChainPrepare, ChainOpen, ChainFinish DEF WorkerStep
  <1>2. CASE UNCHANGED vars
    <2>1. UNCHANGED <<queueVars, worker, job, shut, sessions>>
      BY <1>2 DEF vars
    <2>2. NoLostWake' /\ SameQueue
      BY <2>1 DEF ChainInv, NoLostWake, At, Queued, SameQueue
    <2> QED BY <2>1, <2>2, ChainFrame
  <1> QED
    BY <1>1, <1>2, ChainDispatch, ChainUserOrList, ChainBackground, ChainShutdown DEF Next

\* The proof's invariant holds of every behaviour.
LEMMA InvariantHolds == Spec => [](TypeInv /\ ChainInv)
  <1>1. Init => TypeInv /\ ChainInv
    BY InitType, InitChain
  <1>2. TypeInv /\ ChainInv /\ [Next]_vars => (TypeInv /\ ChainInv)'
    BY TypeStep, ChainStep
  <1> QED BY <1>1, <1>2, PTL DEF Spec

\* No attempt leaves a placeholder session behind (ConnectionFlow.hpp:818).
THEOREM NoOrphans == Spec => []NoOrphanSession
  <1>1. ChainInv => NoOrphanSession
    BY DEF ChainInv
  <1> QED BY InvariantHolds, <1>1, PTL

\* A device has one live chain of attempts, and a worker to serve it
\* (ConnectionFlow.hpp:657-749, 870-882).
THEOREM OneChain == Spec => []SingleLiveChain
  <1>1. ChainInv => SingleLiveChain
    BY DEF ChainInv
  <1> QED BY InvariantHolds, <1>1, PTL

\* The worker never sleeps on a fresh request (ConnectionFlow.hpp:771-797).
THEOREM WakesUp == Spec => []NoLostWake
  <1>1. ChainInv => NoLostWake
    BY DEF ChainInv
  <1> QED BY InvariantHolds, <1>1, PTL

=============================================================================
