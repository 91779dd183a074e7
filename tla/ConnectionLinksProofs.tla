------------------------ MODULE ConnectionLinksProofs ------------------------
(***************************************************************************)
(* What the chain of attempts of ConnectionFlowProofs means for links and  *)
(* for the adapter: a new link waits for the end of the earlier ones, a    *)
(* stream ends only on purpose, only a current attempt commits, resets of  *)
(* the adapter are bounded and find no stream, and a device that the       *)
(* remote disconnected rests until a click.  The flow is shown to          *)
(* implement CloseChain and, as its client, CreationSlot; and at the end,  *)
(* that a link that closes is always noticed and that the exit is final.   *)
(*                                                                         *)
(* Nearly every step keeps each session, moves it to another phase or ends *)
(* it, and keeps the attempt in flight (Undisturbed, WorkerKept); the      *)
(* three steps that do more have lemmas of their own.                      *)
(***************************************************************************)
EXTENDS ConnectionFlowProofs

\* Places of the worker at which its session has no connection object.
EarlyPcs == RecoveryPcs \cup {"waitPrevious", "ensure", "prepared", "lookup", "create",
                              "threw"}

\* While the attempt's session exists, nothing of an earlier link is pending.
SerialInv ==
    /\ LinksAreSerialized
    /\ worker \in SessionPcs \ {"waitPrevious", "threw"} /\ Current => closing[Dev] = <<>>
    /\ worker \in EarlyPcs /\ Current => sessions[Dev].conn = None

\* A request that asks for a reset has not had a successful one.
Unprepared(req) == req.strategy = "RestartBluetooth" => req.prepResult # "Success"

ResettingPcs == {"ensure", "findRadio", "waitTasks", "transaction"}

ResetInv ==
    /\ \A d \in Queued : Unprepared(queue[d])
    /\ worker \in JobPcs \ {"recovered"} => Unprepared(Req)
    /\ worker \in ResettingPcs => Req.strategy = "RestartBluetooth"

\* What a step does to the sessions.
OnPurpose(d) == gen'[d] # gen[d] \/ (worker = "findRadio" /\ ForcedReset)

EndsOnPurpose ==
    \A d \in Devices : Streaming(d) /\ sessions'[d] # sessions[d] => OnPurpose(d)

Undisturbed ==
    /\ EndsOnPurpose
    /\ \A d \in Devices : sessions'[d] # None =>
          /\ sessions[d] # None
          /\ sessions'[d].gen = sessions[d].gen /\ sessions'[d].conn = sessions[d].conn
          /\ closing[d] = <<>> => closing'[d] = <<>>

NoneCommitted == \A d \in Devices : d \in ConnectedDevices' => d \in ConnectedDevices

\* What it does to the attempt in flight.
WorkerKept ==
    worker' \in SessionPcs =>
        /\ worker \in SessionPcs /\ Dev' = Dev /\ Req'.gen = Req.gen
        /\ worker' \in EarlyPcs => worker \in EarlyPcs
        /\ worker \in {"waitPrevious", "threw"} => worker' \in {"waitPrevious", "threw"}

-----------------------------------------------------------------------------
(* Steps that leave sessions as they are, move one or end some *)

USE FlowAssumption
USE DEF queueVars, linkVars, driverVars, intentVars, listVars, radioVars

LEMMA SerialKept ==
  ASSUME TypeInv, SerialInv, Undisturbed, WorkerKept
  PROVE  SerialInv'
<1>1. LinksAreSerialized'
  BY DEF SerialInv, LinksAreSerialized, Undisturbed
<1>2. ASSUME worker' \in SessionPcs, Current'
      PROVE  /\ worker \in SessionPcs /\ Current /\ Dev' = Dev /\ Dev \in Devices
             /\ sessions'[Dev] # None
  BY <1>2, InFlight DEF WorkerKept, Undisturbed, Current, JobPcs
<1>3. (worker \in SessionPcs \ {"waitPrevious", "threw"} /\ Current => closing[Dev] = <<>>)'
  BY <1>2 DEF SerialInv, WorkerKept, Undisturbed
<1>4. (worker \in EarlyPcs /\ Current => sessions[Dev].conn = None)'
  <2>1. worker' \in EarlyPcs => worker' \in SessionPcs
    BY DEF EarlyPcs, SessionPcs
  <2> QED
    BY <1>2, <2>1 DEF SerialInv, WorkerKept, Undisturbed
<1> QED
  BY <1>1, <1>3, <1>4 DEF SerialInv

LEMMA SameSessions ==
  ASSUME UNCHANGED sessions, \A d \in Devices : closing[d] = <<>> => closing'[d] = <<>>
  PROVE  Undisturbed /\ NoneCommitted
  BY DEF Undisturbed, EndsOnPurpose, NoneCommitted, ConnectedDevices

LEMMA ClosedSessions ==
  ASSUME TypeOK, NEW ds \in SUBSET Devices, NEW skip \in BOOLEAN,
         \A d \in ds : sessions[d] # None, CloseSessions(ds, skip),
         \A d \in ds : Streaming(d) => OnPurpose(d)
  PROVE  Undisturbed /\ NoneCommitted
<1>1. /\ \A d \in Devices : sessions'[d] = IF d \in ds THEN None ELSE sessions[d]
      /\ \A d \in Devices : d \notin ds => closing'[d] = closing[d]
  BY CloseSessionsType
<1> QED
  BY <1>1 DEF Undisturbed, EndsOnPurpose, NoneCommitted, ConnectedDevices

\* The attempt in flight closes its own session, or moves it on.
LEMMA ClosedOwn ==
  ASSUME TypeInv, ChainInv, worker \in SessionPcs, CloseOwn
  PROVE  Undisturbed /\ NoneCommitted
<1>1. job \in Jobs
  BY InFlight DEF JobPcs
<1>2. /\ \A d \in Devices : sessions'[d] = IF d = Dev /\ Current THEN None ELSE sessions[d]
      /\ \A d \in Devices : d # Dev \/ ~Current => closing'[d] = closing[d]
  BY <1>1, CloseOwnType DEF TypeInv
<1>3. Current => ~Streaming(Dev)
  BY DEF ChainInv, OwnSessionOpens, Streaming, ConnectedDevices
<1> QED
  BY <1>2, <1>3 DEF Undisturbed, EndsOnPurpose, NoneCommitted, ConnectedDevices

LEMMA MovedOwn ==
  ASSUME TypeInv, ChainInv, worker \in SessionPcs, Current, UNCHANGED closing,
         NEW p \in Phases, sessions' = [sessions EXCEPT ![Dev].phase = p]
  PROVE  /\ Undisturbed /\ (p # "Connected" => NoneCommitted)
         /\ sessions'[Dev].conn = sessions[Dev].conn
         /\ \A d \in Devices : d \in ConnectedDevices' => d \in ConnectedDevices \/ d = Dev
<1>1. Dev \in Devices /\ sessions[Dev] \in Sessions
      /\ sessions \in [Devices -> Sessions \cup {None}]
  BY InFlight DEF JobPcs, Current, TypeInv, TypeOK
<1>2. /\ sessions'[Dev] = [sessions[Dev] EXCEPT !.phase = p]
      /\ \A d \in Devices : d # Dev => sessions'[d] = sessions[d]
  BY <1>1
<1>3. /\ sessions'[Dev] # None /\ sessions'[Dev].gen = sessions[Dev].gen
      /\ sessions'[Dev].conn = sessions[Dev].conn /\ sessions'[Dev].phase = p
  <2> DEFINE moved == [sessions[Dev] EXCEPT !.phase = p]
  <2>1. /\ moved \in Sessions /\ moved.gen = sessions[Dev].gen
        /\ moved.conn = sessions[Dev].conn /\ moved.phase = p
    BY <1>1 DEF Sessions
  <2>2. sessions'[Dev] = moved
    BY <1>2
  <2> HIDE DEF moved
  <2> QED
    BY <2>1, <2>2
<1>4. ~Streaming(Dev) /\ sessions[Dev] # None
  BY DEF ChainInv, OwnSessionOpens, Streaming, ConnectedDevices, Current
<1>5. Undisturbed
  BY <1>2, <1>3, <1>4 DEF Undisturbed, EndsOnPurpose
<1>6. \A d \in Devices : d # Dev => (d \in ConnectedDevices' <=> d \in ConnectedDevices)
  BY <1>2 DEF ConnectedDevices
<1>7. p # "Connected" => Dev \notin ConnectedDevices'
  BY <1>3 DEF ConnectedDevices
<1> QED
  BY <1>3, <1>5, <1>6, <1>7 DEF NoneCommitted

-----------------------------------------------------------------------------
(* The actions, by group *)

LEMMA LinksUserOrList ==
  ASSUME TypeInv, ChainInv, UserOrList
  PROVE  Undisturbed /\ NoneCommitted /\ WorkerKept
<1>1. PICK d \in Devices : \/ QuickConnect(d) \/ ForceConnect(d) \/ DisconnectDevice(d)
                           \/ DeviceAdded(d) \/ DeviceRemoved(d)
  BY DEF UserOrList
<1>2. UNCHANGED job /\ (worker' = worker \/ worker' = "loop")
  BY <1>1 DEF QuickConnect, ForceConnect, DisconnectDevice, DeviceAdded, DeviceRemoved,
     PushRequest
<1>3. WorkerKept
  BY <1>2 DEF WorkerKept, SessionPcs, RecoveryPcs, Dev, Req
<1>4. CASE UNCHANGED linkVars
  <2>1. UNCHANGED sessions /\ \A e \in Devices : closing[e] = <<>> => closing'[e] = <<>>
    BY <1>4
  <2> QED
    BY <1>3, <2>1, SameSessions
<1>5. ASSUME NEW skip \in BOOLEAN, CloseSessions({d}, skip), sessions[d] # None,
             gen' = [gen EXCEPT ![d] = gen[d] + 1]
      PROVE  Undisturbed /\ NoneCommitted
  <2>1. gen'[d] # gen[d]
    BY <1>5 DEF TypeInv, TypeOK
  <2>2. \A e \in {d} : sessions[e] # None /\ (Streaming(e) => OnPurpose(e))
    BY <1>5, <2>1 DEF OnPurpose
  <2> QED
    BY <1>5, <2>2, ClosedSessions DEF TypeInv
<1>6. CASE ForceConnect(d)
  <2>1. CASE sessions[d] = None
    BY <1>4, <1>6, <2>1 DEF ForceConnect
  <2>2. CASE sessions[d] # None
    BY <1>3, <1>5, <1>6, <2>2 DEF ForceConnect, PushRequest
  <2> QED
    BY <2>1, <2>2
<1>7. CASE DisconnectDevice(d)
  <2>1. CASE sessions[d] = None
    BY <1>4, <1>7, <2>1 DEF DisconnectDevice
  <2>2. CASE sessions[d] # None
    BY <1>3, <1>5, <1>7, <2>2 DEF DisconnectDevice
  <2> QED
    BY <2>1, <2>2
<1>8. CASE QuickConnect(d) \/ DeviceAdded(d) \/ DeviceRemoved(d)
  BY <1>4, <1>8 DEF QuickConnect, DeviceAdded, DeviceRemoved
<1> QED
  BY <1>1, <1>6, <1>7, <1>8

LEMMA LinksBackground ==
  ASSUME TypeInv, Background
  PROVE  Undisturbed /\ NoneCommitted /\ WorkerKept
<1> DEFINE Closed  == \A d \in Devices : closing[d] = <<>> => closing'[d] = <<>>
           Outside == UNCHANGED <<sessions, worker, job>>
<1>1. ASSUME NEW e \in Devices, CloseReturns(e) \/ FlowWorkerEnds(e)
      PROVE  Closed /\ Outside
  <2>1. closing[e] # <<>> /\ \A d \in Devices : d # e => closing'[d] = closing[d]
    BY <1>1 DEF CloseReturns, FlowWorkerEnds, TypeInv, TypeOK
  <2>2. Outside
    BY <1>1 DEF CloseReturns, FlowWorkerEnds
  <2> QED
    BY <2>1, <2>2
<1>2. ASSUME NEW e \in Devices, \/ VerificationFails(e) \/ DelayElapses(e)
                                \/ CreationReady(e) \/ CreationFinishes(e)
      PROVE  Closed /\ Outside
  BY <1>2 DEF VerificationFails, DelayElapses, CreationReady, CreationFinishes
<1>3. ASSUME NEW c \in Conns, LinkOpens(c) \/ LinkCloses(c)
      PROVE  Closed /\ Outside
  BY <1>3 DEF LinkOpens, LinkCloses
<1>4. Closed /\ Outside
  BY <1>1, <1>2, <1>3 DEF Background
<1>5. WorkerKept
  BY <1>4 DEF WorkerKept, Dev, Req
<1> QED
  BY <1>4, <1>5, SameSessions

\* A callback of a closed link acts on a session that does not stream.
LEMMA LinksCallback ==
  ASSUME TypeInv, NEW cb \in callbacks, HandleConnectionClosed(cb)
  PROVE  Undisturbed /\ NoneCommitted /\ WorkerKept
<1>1. UNCHANGED <<worker, job>> /\ cb.dev \in Devices
  BY DEF HandleConnectionClosed, TypeInv, TypeOK, Callbacks
<1>2. WorkerKept
  BY <1>1 DEF WorkerKept, Dev, Req
<1>3. CASE ~ActsOnClosed(cb)
  <2>1. UNCHANGED sessions /\ \A e \in Devices : closing[e] = <<>> => closing'[e] = <<>>
    BY <1>3 DEF HandleConnectionClosed
  <2> QED
    BY <1>2, <2>1, SameSessions
<1>4. CASE ActsOnClosed(cb)
  <2>1. CloseSessions({cb.dev}, TRUE) /\ sessions[cb.dev] # None
    BY <1>4 DEF HandleConnectionClosed, ActsOnClosed
  <2>2. ~Streaming(cb.dev)
    BY <1>4 DEF ActsOnClosed, Streaming
  <2>3. /\ {cb.dev} \in SUBSET Devices /\ TRUE \in BOOLEAN
        /\ \A d \in {cb.dev} : sessions[d] # None
        /\ \A d \in {cb.dev} : Streaming(d) => OnPurpose(d)
    BY <1>1, <2>1, <2>2
  <2>4. Undisturbed /\ NoneCommitted
    BY <2>1, <2>3, ClosedSessions DEF TypeInv
  <2> QED
    BY <1>2, <2>4
<1> QED
  BY <1>3, <1>4

LEMMA LinksShutdown ==
  ASSUME TypeInv, BeginShutdown
  PROVE  Undisturbed /\ NoneCommitted /\ WorkerKept
<1> DEFINE ds == {d \in Devices : sessions[d] # None}
<1>1. CloseSessions(ds, TRUE) /\ gen' = [d \in Devices |-> gen[d] + 1] /\ UNCHANGED <<worker, job>>
  BY DEF BeginShutdown
<1>2. \A d \in ds : sessions[d] # None /\ gen'[d] # gen[d]
  BY <1>1 DEF TypeInv, TypeOK
<1>3. \A d \in ds : Streaming(d) => OnPurpose(d)
  BY <1>2 DEF OnPurpose
<1>4. ds \in SUBSET Devices
  OBVIOUS
<1>5. WorkerKept
  BY <1>1 DEF WorkerKept, Dev, Req
<1> HIDE DEF ds
<1> QED
  BY <1>1, <1>2, <1>3, <1>4, <1>5, ClosedSessions DEF TypeInv

\* A step after which the worker holds no session.
LEMMA WorkerLeaves ==
  ASSUME worker' \notin SessionPcs
  PROVE  WorkerKept
  BY DEF WorkerKept

\* A step of the attempt from an await to a later one.
LEMMA WorkerMoves ==
  ASSUME TypeInv, worker \in SessionPcs \ {"waitPrevious", "threw"},
         UNCHANGED job \/ \E r : AttemptResult(r),
         worker' \in EarlyPcs => worker \in EarlyPcs
  PROVE  WorkerKept
<1>1. job \in Jobs
  BY InFlight DEF JobPcs
<1>2. Dev' = Dev /\ Req'.gen = Req.gen
  BY <1>1 DEF AttemptResult, Jobs, Dev, Req
<1> QED
  BY <1>2 DEF WorkerKept

LEMMA LinksIdle ==
  ASSUME Choose \/ WorkerTail \/ (\E d \in Devices : Dispatch(d))
         \/ BeginCancelled \/ BeginUnavailable
  PROVE  Undisturbed /\ NoneCommitted /\ WorkerKept
<1>1. UNCHANGED linkVars /\ worker' \in {"idle", "loop", "waitDue", "tail", "begin", "attempted"}
  BY DEF Choose, LeaveLoop, AwaitRetry, WakeForQueue, WorkerTail, Dispatch, BeginCancelled,
     BeginUnavailable, AttemptEnds
<1>2. WorkerKept
  BY <1>1, WorkerLeaves DEF SessionPcs, RecoveryPcs
<1>3. UNCHANGED sessions /\ \A e \in Devices : closing[e] = <<>> => closing'[e] = <<>>
  BY <1>1
<1> QED
  BY <1>2, <1>3, SameSessions

\* The wait for the end of the earlier connections is over, one way or another.
LEMMA LinksPrevious ==
  ASSUME TypeInv, SerialInv, PreviousFinished \/ PreviousTimesOut
  PROVE  EndsOnPurpose /\ NoneCommitted /\ SerialInv'
<1>1. /\ job \in Jobs /\ Dev \in Devices /\ worker = "waitPrevious" /\ UNCHANGED linkVars
  BY InFlight DEF PreviousFinished, PreviousTimesOut, JobPcs, SessionPcs
<1>2. UNCHANGED sessions /\ \A e \in Devices : closing[e] = <<>> => closing'[e] = <<>>
  BY <1>1
<1>3. Undisturbed /\ NoneCommitted
  BY <1>2, SameSessions
<1>4. CASE PreviousTimesOut
  <2>1. worker' = "threw" /\ UNCHANGED job
    BY <1>4 DEF PreviousTimesOut
  <2>2. WorkerKept
    BY <1>1, <2>1 DEF WorkerKept, SessionPcs, EarlyPcs, Dev, Req
  <2> QED
    BY <1>3, <2>2, SerialKept DEF Undisturbed
<1>5. CASE PreviousFinished
  <2>1. /\ worker' \in {"attempted", "prepared", "ensure"} /\ closing[Dev] = <<>>
    BY <1>5 DEF PreviousFinished, AttemptEnds, TaskFinished
  <2>2. Dev' = Dev /\ Req'.gen = Req.gen
    BY <1>1, <1>5 DEF PreviousFinished, AttemptEnds, Jobs, Requests, Dev, Req
  <2>3. Current' <=> Current
    BY <1>2, <2>2 DEF Current
  <2>4. LinksAreSerialized'
    BY <1>1 DEF SerialInv, LinksAreSerialized
  <2>5. (worker \in EarlyPcs /\ Current => sessions[Dev].conn = None)'
    BY <1>1, <1>2, <2>2, <2>3 DEF SerialInv, EarlyPcs
  <2>6. (worker \in SessionPcs \ {"waitPrevious", "threw"} /\ Current => closing[Dev] = <<>>)'
    BY <1>1, <2>1, <2>2
  <2> QED
    BY <1>3, <2>4, <2>5, <2>6 DEF SerialInv, Undisturbed
<1> QED
  BY <1>4, <1>5

\* The attempt starts: its session has no connection object yet.
LEMMA LinksBegin ==
  ASSUME TypeInv, SerialInv, BeginAttempt
  PROVE  EndsOnPurpose /\ NoneCommitted /\ SerialInv'
<1>1. /\ job \in Jobs /\ Dev \in Devices /\ Req \in Requests /\ sessions[Dev] = None
      /\ UNCHANGED <<closing, links, job>> /\ worker' = "waitPrevious"
  BY InFlight DEF BeginAttempt, JobPcs
<1>2. PICK p \in {"Starting", "RecoveringBluetooth"} :
        sessions' = [sessions EXCEPT ![Dev] = [gen |-> Req.gen, conn |-> None, phase |-> p]]
  BY DEF BeginAttempt
<1>3. /\ \A d \in Devices : d # Dev => sessions'[d] = sessions[d]
      /\ sessions'[Dev].conn = None /\ sessions'[Dev].phase # "Connected"
  BY <1>1, <1>2 DEF TypeInv, TypeOK
<1>4. Dev' = Dev
  BY <1>1 DEF Dev
<1>5. EndsOnPurpose /\ NoneCommitted
  BY <1>1, <1>3 DEF EndsOnPurpose, NoneCommitted, Streaming, ConnectedDevices
<1>6. LinksAreSerialized'
  BY <1>1, <1>3 DEF SerialInv, LinksAreSerialized
<1>7. (worker \in EarlyPcs /\ Current => sessions[Dev].conn = None)'
  BY <1>3, <1>4
<1> QED
  BY <1>1, <1>5, <1>6, <1>7 DEF SerialInv

\* A forced reset ends the streams of all devices, on purpose.
LEMMA LinksPrepare ==
  ASSUME TypeInv, Prepare
  PROVE  Undisturbed /\ NoneCommitted /\ WorkerKept
<1>1. /\ job \in Jobs /\ worker \in RecoveryPcs \cup {"ensure"}
      /\ worker' \in RecoveryPcs \cup {"prepared"}
      /\ job'.dev = job.dev /\ job'.req.gen = job.req.gen
  BY PrepareAttempt
<1>2. WorkerKept
  BY <1>1 DEF WorkerKept, SessionPcs, RecoveryPcs, EarlyPcs, Dev, Req
<1>3. CASE RadioFound
  <2> DEFINE closes == IF ForcedReset THEN ConnectedDevices ELSE {}
  <2>1. /\ closes \in SUBSET Devices /\ \A d \in closes : sessions[d] # None
        /\ CloseSessions(closes, FALSE)
        /\ \A d \in closes : Streaming(d) => OnPurpose(d)
    BY <1>3 DEF ConnectedDevices, RadioFound, OnPurpose
  <2> HIDE DEF closes
  <2>2. Undisturbed /\ NoneCommitted
    BY <2>1, ClosedSessions DEF TypeInv
  <2> QED
    BY <1>2, <2>2
<1>4. CASE ~RadioFound
  <2>1. UNCHANGED linkVars
    BY <1>4 DEF Prepare, EnsureProtects, EnsureStopped, EnsureStarts, RadioNotFound,
       TasksFinished, TasksTimeOut, RadioTurnsOff, TransactionRefused, RadioRestored,
       RestoreFails, RecoveryDone, RecoveryFails
  <2>2. UNCHANGED sessions /\ \A e \in Devices : closing[e] = <<>> => closing'[e] = <<>>
    BY <2>1
  <2> QED
    BY <1>2, <2>2, SameSessions
<1> QED
  BY <1>3, <1>4

\* The new session starts on its device.
LEMMA LinksStart ==
  ASSUME TypeInv, ChainInv, worker \in {"prepared", "lookup"}, Current,
         NEW h \in {0, 1}, StartCreation(h = 1)
  PROVE  Undisturbed /\ NoneCommitted /\ WorkerKept
<1>1. /\ sessions' = [sessions EXCEPT ![Dev].phase = "Starting"] /\ UNCHANGED closing
      /\ \/ worker' = "create" /\ UNCHANGED job
         \/ worker' = "final" /\ AttemptResult("Failed")
  BY DEF StartCreation, AttemptResult
<1>2. worker \in SessionPcs
  BY DEF SessionPcs
<1>3. Undisturbed /\ NoneCommitted
  BY <1>1, <1>2, MovedOwn DEF Phases
<1>4. WorkerKept
  BY <1>1, <1>2, WorkerMoves DEF EarlyPcs
<1> QED
  BY <1>3, <1>4

LEMMA LinksOpen ==
  ASSUME TypeInv, ChainInv, Open, ~\E c \in Conns : CreateTaken(c)
  PROVE  Undisturbed /\ NoneCommitted /\ WorkerKept
<1>1. worker \in {"prepared", "lookup", "create", "start", "open", "waitOpened"}
  BY DEF Open, PreparedLost, PreparationFailed, PreparedOk, LookupEnds,
     LookupThrows, CreateLost, CreateFails, StartDone, StartFails, OpenDone,
     OpenFails, StepFails, OpenedWaitEnds
<1>2. worker \in SessionPcs \ {"waitPrevious", "threw"}
  BY <1>1 DEF SessionPcs
<1>3. ASSUME CloseOwn, NEW r, AttemptEnds(r)
      PROVE  Undisturbed /\ NoneCommitted /\ WorkerKept
  <2>1. worker' \notin SessionPcs
    BY <1>3 DEF AttemptEnds, SessionPcs, RecoveryPcs
  <2> QED
    BY <1>2, <1>3, <2>1, WorkerLeaves, ClosedOwn
<1>4. ASSUME UNCHANGED linkVars, WorkerKept
      PROVE  Undisturbed /\ NoneCommitted /\ WorkerKept
  <2>1. UNCHANGED sessions /\ \A e \in Devices : closing[e] = <<>> => closing'[e] = <<>>
    BY <1>4
  <2> QED
    BY <1>4, <2>1, SameSessions
<1>5. CASE PreparedLost \/ PreparationFailed
  BY <1>3, <1>5 DEF PreparedLost, PreparationFailed
<1>6. CASE PreparedOk
  <2>1. CASE StartCreation(TRUE)
    <3>1. StartCreation(1 = 1) /\ Current
      BY <1>6, <2>1 DEF PreparedOk, Lost
    <3> HIDE DEF StartCreation
    <3> QED
      BY <1>6, <3>1, LinksStart DEF PreparedOk
  <2>2. CASE worker' = "lookup" /\ UNCHANGED <<linkVars, job>>
    <3>1. WorkerKept
      BY <1>2, <1>6, <2>2, WorkerMoves DEF PreparedOk, EarlyPcs
    <3> QED
      BY <1>4, <2>2, <3>1
  <2> QED
    BY <1>6, <2>1, <2>2 DEF PreparedOk
<1>7. CASE LookupEnds
  <2>1. CASE Lost
    BY <1>3, <1>7, <2>1 DEF LookupEnds
  <2>2. CASE ~Lost
    <3>1. worker = "lookup" /\ Current
      BY <1>7, <2>2 DEF LookupEnds, Lost
    <3>2. StartCreation(1 = 1) \/ StartCreation(0 = 1)
      <4>1. PICK found \in BOOLEAN : StartCreation(found \/ Req.device)
        BY <1>7, <2>2 DEF LookupEnds
      <4>2. CASE found \/ Req.device
        BY <4>1, <4>2 DEF StartCreation
      <4>3. CASE ~(found \/ Req.device)
        BY <4>1, <4>3 DEF StartCreation
      <4> QED
        BY <4>2, <4>3
    <3> QED
      BY <3>1, <3>2, LinksStart
  <2> QED
    BY <2>1, <2>2
<1>8. CASE LookupThrows
  <2>1. UNCHANGED <<linkVars, job>> /\ worker = "lookup"
    BY <1>8 DEF LookupThrows
  <2>2. WorkerKept
    BY <1>2, <2>1, WorkerMoves DEF EarlyPcs
  <2> QED
    BY <1>4, <2>1, <2>2
<1>9. CASE CreateLost
  <2>1. UNCHANGED linkVars /\ worker' \notin SessionPcs
    BY <1>9 DEF CreateLost, AttemptEnds, SessionPcs, RecoveryPcs
  <2> QED
    BY <1>4, <2>1, WorkerLeaves
<1>10. ASSUME UNCHANGED linkVars, NEW r, AttemptResult(r)
       PROVE  Undisturbed /\ NoneCommitted /\ WorkerKept
  <2>1. WorkerKept
    BY <1>2, <1>10, WorkerMoves DEF AttemptResult, EarlyPcs, RecoveryPcs
  <2> QED
    BY <1>4, <1>10, <2>1
<1>11. CASE CreateFails \/ StartFails \/ OpenFails
  BY <1>10, <1>11 DEF CreateFails, StartFails, OpenFails, StepFails
<1>12. CASE StartDone \/ OpenDone
  <2>1. CASE Lost
    BY <1>3, <1>12, <2>1 DEF StartDone, OpenDone
  <2>2. CASE ~Lost
    <3>1. PICK p \in Phases \ {"Connected"} : sessions' = [sessions EXCEPT ![Dev].phase = p]
      BY <1>12, <2>2 DEF StartDone, OpenDone, Phases
    <3>2. /\ Current /\ UNCHANGED closing
          /\ worker' \in {"open", "waitOpened", "final"}
          /\ UNCHANGED job \/ AttemptResult("Success")
      BY <1>12, <2>2 DEF StartDone, OpenDone, AttemptResult, Lost
    <3>3. WorkerKept
      BY <1>2, <3>2, WorkerMoves DEF EarlyPcs, RecoveryPcs
    <3>4. Undisturbed /\ NoneCommitted
      BY <1>2, <3>1, <3>2, MovedOwn
    <3> QED
      BY <3>3, <3>4
  <2> QED
    BY <2>1, <2>2
<1>13. CASE OpenedWaitEnds
  <2>1. CASE Lost
    BY <1>3, <1>13, <2>1 DEF OpenedWaitEnds
  <2>2. CASE ~Lost
    BY <1>10, <1>13, <2>2 DEF OpenedWaitEnds
  <2> QED
    BY <2>1, <2>2
<1> QED
  BY <1>5, <1>6, <1>7, <1>8, <1>9, <1>11, <1>12, <1>13 DEF Open

\* The session gets its connection object, and the device has no other.
LEMMA LinksTake ==
  ASSUME TypeInv, ChainInv, SerialInv, NEW c \in Conns, CreateTaken(c)
  PROVE  EndsOnPurpose /\ NoneCommitted /\ SerialInv'
<1>1. /\ Dev \in Devices /\ sessions[Dev] \in Sessions /\ worker \in SessionPcs
      /\ sessions \in [Devices -> Sessions \cup {None}]
      /\ UNCHANGED <<closing, job>> /\ worker = "create" /\ worker' = "start" /\ Current
      /\ sessions' = [sessions EXCEPT ![Dev].conn = c]
  BY InFlight DEF CreateTaken, Lost, Current, TypeInv, TypeOK, JobPcs, SessionPcs
<1>2. closing[Dev] = <<>> /\ sessions[Dev].phase # "Connected"
  BY <1>1 DEF SerialInv, ChainInv, OwnSessionOpens
<1>3. /\ \A d \in Devices : d # Dev => sessions'[d] = sessions[d]
      /\ sessions'[Dev].phase # "Connected"
  BY <1>1, <1>2 DEF Sessions
<1>4. EndsOnPurpose /\ NoneCommitted
  BY <1>2, <1>3 DEF EndsOnPurpose, NoneCommitted, Streaming, ConnectedDevices
<1>5. LinksAreSerialized'
  BY <1>1, <1>2, <1>3 DEF SerialInv, LinksAreSerialized
<1>6. Dev' = Dev /\ closing'[Dev] = <<>>
  BY <1>1, <1>2 DEF Dev
<1>7. worker' \notin EarlyPcs
  BY <1>1 DEF EarlyPcs, RecoveryPcs
<1> QED
  BY <1>4, <1>5, <1>6, <1>7 DEF SerialInv

\* A commit changes the phase of the attempt's session; the rest ends something.
LEMMA LinksFinish ==
  ASSUME TypeInv, ChainInv, Finish
  PROVE  Undisturbed /\ WorkerKept /\ (NoneCommitted \/ CommitConnected)
<1>1. CASE FinalLost \/ FinalFailed \/ AttemptThrew
  <2>1. CloseOwn /\ worker \in SessionPcs /\ worker' \notin SessionPcs
    BY <1>1 DEF FinalLost, FinalFailed, AttemptThrew, AttemptEnds, Conclude, SessionPcs,
       RecoveryPcs
  <2> QED
    BY <2>1, WorkerLeaves, ClosedOwn
<1>2. CASE CommitConnected
  <2>1. /\ worker \in SessionPcs /\ worker' \notin SessionPcs /\ Current /\ UNCHANGED closing
        /\ sessions' = [sessions EXCEPT ![Dev].phase = "Connected"]
    BY <1>2 DEF CommitConnected, AttemptEnds, Lost, SessionPcs, RecoveryPcs
  <2> QED
    BY <1>2, <2>1, WorkerLeaves, MovedOwn DEF Phases
<1>3. CASE AttemptReturned
  <2>1. UNCHANGED linkVars /\ worker' \notin SessionPcs
    BY <1>3 DEF AttemptReturned, Conclude, SessionPcs, RecoveryPcs
  <2>2. UNCHANGED sessions /\ \A e \in Devices : closing[e] = <<>> => closing'[e] = <<>>
    BY <2>1
  <2> QED
    BY <2>1, <2>2, WorkerLeaves, SameSessions
<1> QED
  BY <1>1, <1>2, <1>3, LinksIdle DEF Finish

LEMMA LinksStep ==
  ASSUME TypeInv, ChainInv, SerialInv, [Next]_vars
  PROVE  EndsOnPurpose /\ (NoneCommitted \/ CommitConnected) /\ SerialInv'
<1>1. ASSUME Undisturbed, WorkerKept
      PROVE  EndsOnPurpose /\ SerialInv'
  BY <1>1, SerialKept DEF Undisturbed
<1>2. CASE UNCHANGED vars \/ ShutdownDrained
  <2>1. UNCHANGED <<sessions, closing, worker, job>>
    BY <1>2 DEF vars, ShutdownDrained
  <2>2. WorkerKept
    BY <2>1 DEF WorkerKept, Dev, Req
  <2>3. UNCHANGED sessions /\ \A e \in Devices : closing[e] = <<>> => closing'[e] = <<>>
    BY <2>1
  <2> QED
    BY <1>1, <2>2, <2>3, SameSessions
<1>3. CASE Choose \/ \E d \in Devices : Dispatch(d)
  BY <1>1, <1>3, LinksIdle
<1>4. CASE Begin
  BY <1>1, <1>4, LinksIdle, LinksPrevious, LinksBegin DEF Begin
<1>5. CASE Prepare
  BY <1>1, <1>5, LinksPrepare
<1>6. CASE Open
  BY <1>1, <1>6, LinksOpen, LinksTake
<1>7. CASE Finish
  BY <1>1, <1>7, LinksFinish
<1>8. CASE UserOrList
  BY <1>1, <1>8, LinksUserOrList
<1>9. CASE Background
  BY <1>1, <1>9, LinksBackground
<1>10. CASE \E cb \in callbacks : HandleConnectionClosed(cb)
  BY <1>1, <1>10, LinksCallback
<1>11. CASE BeginShutdown
  BY <1>1, <1>11, LinksShutdown
<1> QED
  BY <1>2, <1>3, <1>4, <1>5, <1>6, <1>7, <1>8, <1>9, <1>10, <1>11 DEF Next, WorkerStep

-----------------------------------------------------------------------------
(* Resets *)

\* The queue holds requests it held before, or requests that may be prepared.
RequestsKept ==
    \A d \in Devices : queue'[d] # None =>
        \/ Unprepared(queue'[d])
        \/ /\ queue[d] # None /\ queue'[d].strategy = queue[d].strategy
           /\ queue'[d].prepResult = queue[d].prepResult

\* The request in flight is the same, or a new place asks nothing of it.
JobKept ==
    /\ worker' \in JobPcs \ {"recovered"} =>
           /\ worker \in JobPcs \ {"recovered"}
           /\ Req'.strategy = Req.strategy /\ Req'.prepResult = Req.prepResult
    /\ worker' \in ResettingPcs => worker \in ResettingPcs /\ Req'.strategy = Req.strategy

LEMMA RequestsStay ==
  ASSUME ResetInv, RequestsKept
  PROVE  \A d \in Queued' : Unprepared(queue'[d])
  BY DEF ResetInv, RequestsKept, Unprepared, Queued

LEMMA ResetKept ==
  ASSUME ResetInv, RequestsKept, JobKept
  PROVE  ResetInv'
<1>1. (\A d \in Queued : Unprepared(queue[d]))'
  BY RequestsStay
<1>2. (worker \in JobPcs \ {"recovered"} => Unprepared(Req))'
  BY DEF ResetInv, JobKept, Unprepared
<1>3. (worker \in ResettingPcs => Req.strategy = "RestartBluetooth")'
  BY DEF ResetInv, JobKept
<1> QED
  BY <1>1, <1>2, <1>3 DEF ResetInv

\* A delay that is over, or cut short, changes nothing else of the request.
LEMMA DelayKeeps ==
  ASSUME TypeInv, NEW d \in Devices, NEW w \in {"now", "due"},
         queue' = queue \/ (queue[d] # None /\ queue' = [queue EXCEPT ![d].notBefore = w])
  PROVE  RequestsKept
<1>1. CASE queue[d] # None /\ queue' = [queue EXCEPT ![d].notBefore = w]
  <2> DEFINE due == [queue[d] EXCEPT !.notBefore = w]
  <2>1. queue[d] \in Requests /\ queue \in [Devices -> Requests \cup {None}]
    BY <1>1 DEF TypeInv, TypeOK
  <2>2. due.strategy = queue[d].strategy /\ due.prepResult = queue[d].prepResult
    BY <2>1 DEF Requests
  <2>3. queue'[d] = due /\ \A e \in Devices : e # d => queue'[e] = queue[e]
    BY <1>1, <2>1
  <2> HIDE DEF due
  <2> QED
    BY <1>1, <2>2, <2>3 DEF RequestsKept
<1>2. CASE queue' = queue
  BY <1>2 DEF RequestsKept
<1> QED
  BY <1>1, <1>2

LEMMA UpsertRowKeeps ==
  ASSUME TypeInv, NEW d \in Devices, UpsertRow(d)
  PROVE  RequestsKept
<1>1. queue' = queue \/ (queue[d] # None /\ queue' = [queue EXCEPT ![d].notBefore = "now"])
  BY DEF UpsertRow
<1> QED
  BY <1>1, DelayKeeps

LEMMA PushKeeps ==
  ASSUME TypeInv, NEW d \in Devices, NEW m \in Modes, PushRequest(d, m)
  PROVE  RequestsKept
<1>1. queue'[d].prepResult = "NotRequired" /\ \A e \in Devices : e # d => queue'[e] = queue[e]
  BY PushRequestType
<1> QED
  BY <1>1 DEF RequestsKept, Unprepared

\* What is no step of the worker leaves the request in flight alone.
LEMMA ResetOutside ==
  ASSUME TypeInv, ResetInv,
         \/ UNCHANGED vars \/ ShutdownDrained \/ UserOrList \/ Background \/ BeginShutdown
         \/ \E cb \in callbacks : HandleConnectionClosed(cb)
  PROVE  ResetInv'
<1>1. ASSUME UNCHANGED job, worker' = worker \/ worker' = "loop"
      PROVE  JobKept
  BY <1>1 DEF JobKept, JobPcs, SessionPcs, RecoveryPcs, ResettingPcs, Req
<1>2. CASE \/ UNCHANGED vars \/ ShutdownDrained
           \/ \E cb \in callbacks : HandleConnectionClosed(cb)
  <2>1. UNCHANGED <<worker, job, queue>>
    BY <1>2 DEF vars, ShutdownDrained, HandleConnectionClosed
  <2> QED
    BY <1>1, <2>1, ResetKept DEF RequestsKept
<1>3. CASE BeginShutdown
  <2>1. UNCHANGED <<worker, job>> /\ RequestsKept
    BY <1>3 DEF BeginShutdown, RequestsKept
  <2> QED
    BY <1>1, <2>1, ResetKept
<1>4. CASE Background
  <2>1. UNCHANGED <<worker, job>> /\ RequestsKept
    <3>1. ASSUME NEW d \in Devices, DelayElapses(d)
          PROVE  UNCHANGED <<worker, job>> /\ RequestsKept
      BY <3>1, DelayKeeps DEF DelayElapses
    <3>2. ASSUME NEW d \in Devices, \/ CloseReturns(d) \/ FlowWorkerEnds(d)
                                    \/ VerificationFails(d)
          PROVE  UNCHANGED <<worker, job, queue>>
      BY <3>2 DEF CloseReturns, FlowWorkerEnds, VerificationFails
    <3>3. ASSUME NEW d \in Devices, CreationReady(d) \/ CreationFinishes(d)
          PROVE  UNCHANGED <<worker, job, queue>>
      BY <3>3 DEF CreationReady, CreationFinishes
    <3>4. ASSUME NEW c \in Conns, LinkOpens(c) \/ LinkCloses(c)
          PROVE  UNCHANGED <<worker, job, queue>>
      BY <3>4 DEF LinkOpens, LinkCloses
    <3>5. UNCHANGED queue => RequestsKept
      BY DEF RequestsKept
    <3> QED
      BY <1>4, <3>1, <3>2, <3>3, <3>4, <3>5 DEF Background
  <2> QED
    BY <1>1, <2>1, ResetKept
<1>5. CASE UserOrList
  <2>1. PICK d \in Devices : \/ QuickConnect(d) \/ ForceConnect(d) \/ DisconnectDevice(d)
                             \/ DeviceAdded(d) \/ DeviceRemoved(d)
    BY <1>5 DEF UserOrList
  <2>2. UNCHANGED job /\ (worker' = worker \/ worker' = "loop")
    BY <2>1 DEF QuickConnect, ForceConnect, DisconnectDevice, DeviceAdded, DeviceRemoved,
       PushRequest
  <2>3. CASE \E m \in Modes : PushRequest(d, m)
    BY <2>3, PushKeeps, <1>1, <2>2, ResetKept
  <2>4. CASE UpsertRow(d)
    BY <2>4, UpsertRowKeeps, <1>1, <2>2, ResetKept
  <2>5. CASE DisconnectDevice(d) \/ DeviceRemoved(d)
    <3>1. RequestsKept
      BY <2>5 DEF DisconnectDevice, DeviceRemoved, RequestsKept, TypeInv, TypeOK
    <3> QED
      BY <3>1, <1>1, <2>2, ResetKept
  <2>6. (QuickConnect(d) \/ ForceConnect(d) \/ DeviceAdded(d)) =>
            (\E m \in Modes : PushRequest(d, m)) \/ UpsertRow(d)
    BY DEF QuickConnect, ForceConnect, DeviceAdded, Modes
  <2> QED
    BY <2>1, <2>3, <2>4, <2>5, <2>6
<1> QED
  BY <1>2, <1>3, <1>4, <1>5

\* A step of the attempt that neither prepares nor records a preparation.
LEMMA ResultKeeps ==
  ASSUME TypeInv, ResetInv, RequestsKept, worker \in JobPcs \ {"recovered"},
         UNCHANGED job \/ \E r : AttemptEnds(r) \/ AttemptResult(r),
         worker' \notin ResettingPcs
  PROVE  ResetInv'
<1>1. job \in Jobs
  BY InFlight
<1>2. Req' = Req
  BY <1>1 DEF AttemptEnds, AttemptResult, Jobs, Req
<1>3. JobKept
  BY <1>2 DEF JobKept
<1> QED
  BY <1>3, ResetKept

LEMMA ResetChoose ==
  ASSUME TypeInv, ResetInv, Choose \/ WorkerTail
  PROVE  ResetInv'
<1>1. UNCHANGED queue /\ worker' \in {"idle", "loop", "waitDue", "tail"}
  BY DEF Choose, LeaveLoop, AwaitRetry, WakeForQueue, WorkerTail
<1>2. RequestsKept /\ JobKept
  BY <1>1 DEF RequestsKept, JobKept, JobPcs, SessionPcs, RecoveryPcs, ResettingPcs
<1> QED
  BY <1>2, ResetKept

\* The request that is dispatched comes from the queue.
LEMMA ResetDispatch ==
  ASSUME TypeInv, ResetInv, NEW d \in Devices, Dispatch(d)
  PROVE  ResetInv'
<1>1. RequestsKept
  BY DEF Dispatch, RequestsKept, TypeInv, TypeOK
<1>2. queue[d] # None
  BY DEF Dispatch, NextRequests, At, Queued
<1>3. CASE UNCHANGED <<worker, job>>
  <2>1. JobKept
    BY <1>3 DEF Dispatch, JobKept, JobPcs, SessionPcs, RecoveryPcs, ResettingPcs
  <2> QED
    BY <1>1, <2>1, ResetKept
<1>4. CASE worker' = "begin" /\ job' = [dev |-> d, req |-> queue[d], result |-> "Failed"]
  <2>1. Unprepared(Req)'
    BY <1>2, <1>4 DEF ResetInv, Queued, Req, Unprepared
  <2>2. worker' \notin ResettingPcs /\ \A e \in Queued' : Unprepared(queue'[e])
    BY <1>1, <1>4, RequestsStay DEF ResettingPcs
  <2> QED
    BY <2>1, <2>2 DEF ResetInv
<1> QED
  BY <1>3, <1>4 DEF Dispatch

LEMMA ResetBegin ==
  ASSUME TypeInv, ResetInv, Begin
  PROVE  ResetInv'
<1>1. /\ worker \in JobPcs \ {"recovered"} /\ job \in Jobs /\ Dev \in Devices
  BY InFlight DEF Begin, BeginCancelled, BeginUnavailable, BeginAttempt, PreviousFinished,
     PreviousTimesOut, JobPcs, SessionPcs
<1>2. RequestsKept
  <2>1. UNCHANGED queue \/ UpsertRow(Dev)
    BY DEF Begin, BeginCancelled, BeginUnavailable, BeginAttempt, PreviousFinished,
       PreviousTimesOut
  <2> QED
    BY <1>1, <2>1, UpsertRowKeeps DEF RequestsKept
<1>3. CASE worker' = "ensure"
  <2>1. /\ Req.strategy = "RestartBluetooth"
        /\ job' = [job EXCEPT !.req.preparations = @ + 1] /\ worker = "waitPrevious"
    BY <1>3 DEF Begin, BeginCancelled, BeginUnavailable, BeginAttempt, PreviousFinished,
       PreviousTimesOut, AttemptEnds
  <2>2. Req'.strategy = Req.strategy /\ Req'.prepResult = Req.prepResult
    BY <1>1, <2>1 DEF Jobs, Requests, Req
  <2>3. Unprepared(Req)'
    BY <1>1, <2>2 DEF ResetInv, Unprepared
  <2>4. \A d \in Queued' : Unprepared(queue'[d])
    BY <1>2, RequestsStay
  <2> QED
    BY <2>1, <2>2, <2>3, <2>4 DEF ResetInv
<1>4. CASE worker' # "ensure"
  <2>1. /\ worker' \in {"attempted", "waitPrevious", "prepared", "threw"}
        /\ UNCHANGED job \/ \E r : AttemptEnds(r)
    BY <1>4 DEF Begin, BeginCancelled, BeginUnavailable, BeginAttempt, PreviousFinished,
       PreviousTimesOut, AttemptEnds
  <2> QED
    BY <1>1, <1>2, <2>1, ResultKeeps DEF ResettingPcs
<1> QED
  BY <1>3, <1>4

\* A successful reset ends the wish for one.
LEMMA ResetPrepare ==
  ASSUME TypeInv, ResetInv, Prepare
  PROVE  ResetInv'
<1>1. job \in Jobs /\ worker \in RecoveryPcs \cup {"ensure"} /\ UNCHANGED queue
  BY PrepareAttempt
<1>2. \A d \in Queued' : Unprepared(queue'[d])
  BY <1>1, RequestsStay DEF RequestsKept
<1>3. ASSUME NEW r, PreparationReturns(r)
      PROVE  ResetInv'
  <2>1. /\ r \in {"Success", "NotRequired"} => Req'.strategy = "Direct"
        /\ Req'.prepResult = r
    BY <1>1, <1>3 DEF PreparationReturns, Jobs, Requests, Req
  <2>2. Unprepared(Req)'
    BY <2>1 DEF Unprepared
  <2>3. worker' \notin ResettingPcs
    BY <1>3 DEF PreparationReturns, ResettingPcs
  <2> QED
    BY <1>2, <2>2, <2>3 DEF ResetInv
<1>4. ASSUME worker' = "recovered"
      PROVE  ResetInv'
  BY <1>2, <1>4 DEF ResetInv, ResettingPcs
<1>5. ASSUME UNCHANGED job, worker \in ResettingPcs,
             worker' \in {"findRadio", "waitTasks", "transaction", "restore"}
      PROVE  ResetInv'
  <2>1. worker \in JobPcs \ {"recovered"}
    BY <1>5 DEF ResettingPcs, JobPcs, SessionPcs, RecoveryPcs
  <2>2. JobKept /\ RequestsKept
    BY <1>1, <1>5, <2>1 DEF JobKept, RequestsKept, Req
  <2> QED
    BY <2>2, ResetKept
<1>6. CASE EnsureProtects \/ EnsureStopped \/ RecoveryDone
  BY <1>3, <1>6 DEF EnsureProtects, EnsureStopped, RecoveryDone
<1>7. CASE \/ RadioNotFound \/ TasksTimeOut \/ TransactionRefused
           \/ RadioRestored \/ RestoreFails
  BY <1>4, <1>7 DEF RadioNotFound, TasksTimeOut, TransactionRefused, RadioRestored,
     RestoreFails, RecoveryFails
<1>8. CASE EnsureStarts \/ RadioFound \/ TasksFinished \/ RadioTurnsOff
  BY <1>5, <1>8 DEF EnsureStarts, RadioFound, TasksFinished, RadioTurnsOff, ResettingPcs
<1> QED
  BY <1>6, <1>7, <1>8 DEF Prepare

LEMMA ResetOpen ==
  ASSUME TypeInv, ResetInv, Open
  PROVE  ResetInv'
<1>1. worker \in {"prepared", "lookup", "create", "start", "open", "waitOpened"}
  BY DEF Open, PreparedLost, PreparationFailed, PreparedOk, LookupEnds,
     LookupThrows, CreateLost, CreateTaken, CreateFails, StartDone, StartFails, OpenDone,
     OpenFails, StepFails, OpenedWaitEnds
<1>2. worker \in JobPcs \ {"recovered"} /\ Dev \in Devices
  BY <1>1, InFlight DEF JobPcs, SessionPcs
<1>3. UNCHANGED queue \/ UpsertRow(Dev)
  BY DEF Open, PreparedLost, PreparationFailed, PreparedOk, LookupEnds,
     LookupThrows, CreateLost, CreateTaken, CreateFails, StartDone, StartFails, OpenDone,
     OpenFails, StepFails, OpenedWaitEnds, StartCreation
<1>4. RequestsKept
  BY <1>2, <1>3, UpsertRowKeeps DEF RequestsKept
<1>5. worker' \in {"attempted", "final", "lookup", "create", "threw", "start", "open",
                   "waitOpened"}
  BY DEF Open, PreparedLost, PreparationFailed, PreparedOk, LookupEnds,
     LookupThrows, CreateLost, CreateTaken, CreateFails, StartDone, StartFails, OpenDone,
     OpenFails, StepFails, OpenedWaitEnds, StartCreation, AttemptEnds, AttemptResult
<1>6. UNCHANGED job \/ \E r : AttemptEnds(r) \/ AttemptResult(r)
  BY DEF Open, PreparedLost, PreparationFailed, PreparedOk, LookupEnds,
     LookupThrows, CreateLost, CreateTaken, CreateFails, StartDone, StartFails, OpenDone,
     OpenFails, StepFails, OpenedWaitEnds, StartCreation
<1> QED
  BY <1>2, <1>4, <1>5, <1>6, ResultKeeps DEF ResettingPcs

\* A retry carries what the attempt recorded.
LEMMA ResetFinish ==
  ASSUME TypeInv, ResetInv, Finish
  PROVE  ResetInv'
<1>1. CASE FinalLost \/ FinalFailed \/ CommitConnected
  <2>1. /\ worker \in JobPcs \ {"recovered"} /\ UNCHANGED queue /\ worker' \notin ResettingPcs
        /\ \E r : AttemptEnds(r)
    BY <1>1 DEF FinalLost, FinalFailed, CommitConnected, AttemptEnds, JobPcs, SessionPcs,
       RecoveryPcs, ResettingPcs
  <2> QED
    BY <2>1, ResultKeeps DEF RequestsKept
<1>2. ASSUME NEW r, Conclude(r), worker \in {"attempted", "threw"}
      PROVE  ResetInv'
  <2>1. worker \in JobPcs \ {"recovered"} /\ worker' = "loop"
    BY <1>2 DEF Conclude, JobPcs, SessionPcs, RecoveryPcs
  <2>2. Req \in Requests /\ Dev \in Devices /\ Unprepared(Req)
    BY <2>1, InFlight DEF ResetInv
  <2>3. RequestsKept
    <3> DEFINE retry == [Req EXCEPT !.notBefore = "later", !.device = FALSE]
    <3>1. UNCHANGED queue \/ queue' = [queue EXCEPT ![Dev] = retry]
      BY <1>2 DEF Conclude
    <3>2. Unprepared(retry)
      BY <2>2 DEF Unprepared, Requests
    <3> HIDE DEF retry
    <3> QED
      BY <2>2, <3>1, <3>2 DEF RequestsKept, TypeInv, TypeOK
  <2>4. JobKept
    BY <2>1 DEF JobKept, JobPcs, SessionPcs, RecoveryPcs, ResettingPcs
  <2> QED
    BY <2>3, <2>4, ResetKept
<1>3. CASE AttemptReturned \/ AttemptThrew
  BY <1>2, <1>3 DEF AttemptReturned, AttemptThrew
<1> QED
  BY <1>1, <1>3, ResetChoose DEF Finish

LEMMA ResetStep ==
  ASSUME TypeInv, ResetInv, [Next]_vars
  PROVE  ResetInv'
  BY ResetChoose, ResetDispatch, ResetBegin, ResetPrepare, ResetOpen, ResetFinish,
     ResetOutside DEF Next, WorkerStep

-----------------------------------------------------------------------------
(* The theorems *)

LEMMA LinksHold == Spec => [](TypeInv /\ ChainInv /\ SerialInv /\ ResetInv)
<1>1. Init => SerialInv /\ ResetInv
  BY DEF Init, SerialInv, LinksAreSerialized, ResetInv, Queued, EarlyPcs, ResettingPcs,
     JobPcs, SessionPcs, RecoveryPcs
<1>2. TypeInv /\ ChainInv /\ SerialInv /\ ResetInv /\ [Next]_vars => (SerialInv /\ ResetInv)'
  BY LinksStep, ResetStep
<1>3. Spec => [](SerialInv /\ ResetInv)
  BY InvariantHolds, <1>1, <1>2, PTL DEF Spec
<1> QED
  BY InvariantHolds, <1>3, PTL

\* A device's new link waits for the end of its earlier ones
\* (ConnectionFlow.hpp:258).
THEOREM LinksSerialized == Spec => []LinksAreSerialized
<1>1. SerialInv => LinksAreSerialized
  BY DEF SerialInv
<1> QED
  BY LinksHold, <1>1, PTL

\* The radio is turned off in the transaction only.
LEMMA TurnedOffInTransaction ==
  ASSUME [Next]_vars, radio = "on", radio' = "off"
  PROVE  worker = "transaction"
<1>1. RadioTurnsOff
  BY DEF Next, WorkerStep, Choose, Begin, Prepare, Open, Finish, UserOrList, Background,
     LeaveLoop, AwaitRetry, WakeForQueue, Dispatch, BeginCancelled, BeginUnavailable,
     BeginAttempt, PreviousFinished, PreviousTimesOut, EnsureProtects, EnsureStopped,
     EnsureStarts, RadioFound, RadioNotFound, TasksFinished, TasksTimeOut,
     TransactionRefused, RadioRestored, RestoreFails, RecoveryDone, RecoveryFails,
     PreparedLost, PreparationFailed, PreparedOk, LookupEnds, LookupThrows, CreateLost,
     CreateFails, CreateTaken, StartDone, StartFails, OpenDone, OpenFails, StepFails,
     OpenedWaitEnds, FinalLost, CommitConnected, FinalFailed, AttemptReturned, AttemptThrew,
     Conclude, WorkerTail, QuickConnect, ForceConnect, DisconnectDevice, DeviceAdded,
     DeviceRemoved, CloseReturns, FlowWorkerEnds, VerificationFails, DelayElapses,
     CreationReady, CreationFinishes, LinkOpens, LinkCloses, HandleConnectionClosed,
     BeginShutdown, ShutdownDrained, vars
<1> QED
  BY <1>1 DEF RadioTurnsOff

\* A request gets at most two resets, and none after a successful one
\* (ConnectionFlow.hpp:286-292, ConnectionState.hpp:215-217).
THEOREM ResetsBounded == Spec => ResetsAreBounded
<1>1. ASSUME TypeInv, ResetInv, [Next]_vars, radio = "on", radio' = "off"
      PROVE  Req.preparations <= 2 /\ Req.prepResult # "Success"
  <2>1. worker = "transaction"
    BY <1>1, TurnedOffInTransaction
  <2>2. Req \in Requests /\ Unprepared(Req) /\ Req.strategy = "RestartBluetooth"
    BY <1>1, <2>1, InFlight DEF ResetInv, ResettingPcs, JobPcs, SessionPcs, RecoveryPcs
  <2> QED
    BY <2>2 DEF Unprepared, Requests
<1>2. TypeInv /\ ChainInv /\ SerialInv /\ ResetInv /\ [Next]_vars =>
        [radio = "on" /\ radio' = "off" =>
            Req.preparations <= 2 /\ Req.prepResult # "Success"]_vars
  BY <1>1
<1> QED
  BY LinksHold, <1>2, PTL DEF Spec, ResetsAreBounded

\* A stream ends only by a click, the exit or a forced reset
\* (ConnectionFlow.hpp:301-312, BluetoothRecovery.hpp:245-254).
THEOREM StreamsEndByIntent == Spec => StreamEndsByIntent
<1>1. TypeInv /\ ChainInv /\ SerialInv /\ ResetInv /\ [Next]_vars =>
        [\A d \in Devices : Streaming(d) /\ sessions'[d] # sessions[d] =>
            gen'[d] # gen[d] \/ (worker = "findRadio" /\ ForcedReset)]_vars
  BY LinksStep DEF EndsOnPurpose, OnPurpose
<1> QED
  BY LinksHold, <1>1, PTL DEF Spec, StreamEndsByIntent

\* Only an attempt that nothing overtook commits (ConnectionFlow.hpp:590-605).
THEOREM CommitsCurrent == Spec => CommitsAreCurrent
<1>1. ASSUME TypeInv, ChainInv, CommitConnected, NEW d \in Devices,
             d \notin ConnectedDevices, d \in ConnectedDevices'
      PROVE  /\ ~stopping /\ Req.gen = gen[d] /\ queue[d] = None
             /\ links[sessions'[d].conn].open
  <2>1. /\ worker = "final" /\ Current /\ ~stopping /\ OwnLinkOpen
        /\ sessions' = [sessions EXCEPT ![Dev].phase = "Connected"]
    BY <1>1 DEF CommitConnected, Lost
  <2>2. worker \in SessionPcs /\ worker \in JobPcs /\ Dev \in Devices /\ UNCHANGED closing
    BY <1>1, <2>1, InFlight DEF SessionPcs, JobPcs, CommitConnected
  <2>3. /\ sessions'[Dev].conn = sessions[Dev].conn
        /\ \A e \in Devices : e \in ConnectedDevices' => e \in ConnectedDevices \/ e = Dev
    BY <1>1, <2>1, <2>2, MovedOwn DEF Phases
  <2>4. d = Dev
    BY <1>1, <2>3
  <2>5. Req.gen = gen[Dev]
    BY <1>1, <2>1, <2>2 DEF Current, ChainInv, SessionGenerations
  <2>6. queue[Dev] = None
    BY <1>1, <2>1, <2>2 DEF ChainInv, SingleLiveChain, Queued, Current
  <2> QED
    BY <2>1, <2>3, <2>4, <2>5, <2>6 DEF OwnLinkOpen
<1>2. TypeInv /\ ChainInv /\ SerialInv /\ ResetInv /\ [Next]_vars =>
        [\A d \in Devices : d \notin ConnectedDevices /\ d \in ConnectedDevices' =>
            /\ ~stopping /\ Req.gen = gen[d] /\ queue[d] = None
            /\ links[sessions'[d].conn].open]_vars
  BY <1>1, LinksStep DEF NoneCommitted
<1> QED
  BY LinksHold, <1>2, PTL DEF Spec, CommitsAreCurrent


-----------------------------------------------------------------------------
(* Owners of links, and quiet resets *)

Owns(d, c) == links[c] # None /\ links[c].dev = d

\* A connection object belongs to the session that holds it, or to the first of the
\* pending closes of its device.
OwnerInv ==
    /\ \A d \in Devices : sessions[d] # None /\ sessions[d].conn # None =>
           Owns(d, sessions[d].conn)
    /\ \A d \in Devices : \A i \in DOMAIN closing[d] : closing[d][i].conn # None =>
           i = 1 /\ (closing[d][1].closed \/ Owns(d, closing[d][1].conn))

\* From the check for streams to the request to turn the radio off.
QuietPcs == {"findRadio", "waitTasks", "transaction"}

\* What has been checked stays so, but for links that reopen; what a forced reset
\* has ended stays so altogether.
QuietInv ==
    /\ worker \in QuietPcs => inProgress
    /\ worker \in QuietPcs /\ ~ForcedReset =>
           \A d \in Devices : Streaming(d) => d \in reopened
    /\ worker \in QuietPcs \ {"findRadio"} /\ ForcedReset => ConnectedDevices = {}

\* What a step does to sessions, links and pending closes.
Rests == UNCHANGED <<sessions, links, closing>>
Ends  == \E ds \in SUBSET Devices, skip \in BOOLEAN :
             (\A d \in ds : sessions[d] # None) /\ CloseSessions(ds, skip)
Moves == /\ worker \in SessionPcs /\ Current /\ UNCHANGED <<links, closing>>
         /\ \E p \in Phases : /\ sessions' = [sessions EXCEPT ![Dev].phase = p]
                              /\ p = "Connected" => CommitConnected

\* Each step has one of these effects, or is one of the actions on links.
LEMMA Effects ==
  ASSUME TypeInv, [Next]_vars
  PROVE  \/ Rests \/ Ends \/ Moves \/ BeginAttempt
         \/ \E d \in Devices : CloseReturns(d) \/ FlowWorkerEnds(d)
         \/ \E c \in Conns : CreateTaken(c) \/ LinkOpens(c) \/ LinkCloses(c)
<1>1. ASSUME NEW d \in Devices, NEW skip \in BOOLEAN, sessions[d] # None, CloseSessions({d}, skip)
      PROVE  Ends
  <2>1. {d} \in SUBSET Devices /\ \A e \in {d} : sessions[e] # None
    BY <1>1
  <2> QED
    BY <1>1, <2>1 DEF Ends
<1>2. ASSUME CloseOwn, worker \in JobPcs PROVE Rests \/ Ends
  <2>1. Dev \in Devices
    BY <1>2, InFlight
  <2>2. CASE Current
    BY <1>1, <1>2, <2>1, <2>2 DEF CloseOwn, Current
  <2>3. CASE ~Current
    BY <1>2, <2>3 DEF CloseOwn, Rests
  <2> QED
    BY <2>2, <2>3
<1>3. CASE UNCHANGED vars \/ ShutdownDrained \/ Choose \/ \E d \in Devices : Dispatch(d)
  BY <1>3 DEF vars, ShutdownDrained, Choose, LeaveLoop, AwaitRetry, WakeForQueue, Dispatch,
     Rests
<1>4. CASE Begin
  BY <1>4 DEF Begin, BeginCancelled, BeginUnavailable, PreviousFinished, PreviousTimesOut,
     Rests
<1>5. CASE Prepare
  <2>1. CASE RadioFound
    <3> DEFINE closes == IF ForcedReset THEN ConnectedDevices ELSE {}
    <3>1. /\ closes \in SUBSET Devices /\ \A d \in closes : sessions[d] # None
          /\ CloseSessions(closes, FALSE)
      BY <2>1 DEF ConnectedDevices, RadioFound
    <3> HIDE DEF closes
    <3> QED
      BY <3>1 DEF Ends
  <2>2. CASE ~RadioFound
    BY <1>5, <2>2 DEF Prepare, EnsureProtects, EnsureStopped, EnsureStarts, RadioNotFound,
       TasksFinished, TasksTimeOut, RadioTurnsOff, TransactionRefused, RadioRestored,
       RestoreFails, RecoveryDone, RecoveryFails, Rests
  <2> QED
    BY <2>1, <2>2
<1>6. CASE Open
  <2>1. ASSUME NEW h \in {0, 1}, StartCreation(h = 1), Current, worker \in {"prepared", "lookup"}
        PROVE  Moves
    BY <2>1 DEF StartCreation, Moves, Phases, SessionPcs
  <2>2. ASSUME PreparedOk \/ LookupEnds PROVE Rests \/ Ends \/ Moves
    <3>1. CASE ~Lost /\ (StartCreation(1 = 1) \/ StartCreation(0 = 1))
      BY <2>1, <2>2, <3>1 DEF PreparedOk, LookupEnds, Lost
    <3>2. CASE Lost
      BY <1>2, <2>2, <3>2 DEF PreparedOk, LookupEnds, JobPcs, SessionPcs
    <3>3. CASE ~Lost /\ ~(StartCreation(1 = 1) \/ StartCreation(0 = 1))
      <4>1. \A h \in BOOLEAN : StartCreation(h) => StartCreation(1 = 1) \/ StartCreation(0 = 1)
        BY DEF StartCreation
      <4> QED
        BY <2>2, <3>3, <4>1 DEF PreparedOk, LookupEnds, Rests
    <3> QED
      BY <3>1, <3>2, <3>3
  <2>3. ASSUME StartDone \/ OpenDone PROVE Rests \/ Ends \/ Moves
    <3>1. CASE Lost
      BY <1>2, <2>3, <3>1 DEF StartDone, OpenDone, JobPcs, SessionPcs
    <3>2. CASE ~Lost
      BY <2>3, <3>2 DEF StartDone, OpenDone, Lost, Moves, Phases, SessionPcs
    <3> QED
      BY <3>1, <3>2
  <2>4. ASSUME PreparedLost \/ PreparationFailed \/ OpenedWaitEnds PROVE Rests \/ Ends
    BY <1>2, <2>4 DEF PreparedLost, PreparationFailed, OpenedWaitEnds, JobPcs, SessionPcs,
       Rests
  <2>5. ASSUME LookupThrows \/ CreateLost \/ CreateFails \/ StartFails \/ OpenFails
        PROVE  Rests
    BY <2>5 DEF LookupThrows, CreateLost, CreateFails, StartFails, OpenFails, StepFails, Rests
  <2> QED
    BY <1>6, <2>2, <2>3, <2>4, <2>5 DEF Open
<1>7. CASE Finish
  <2>1. CASE FinalLost \/ FinalFailed \/ AttemptThrew
    BY <1>2, <2>1 DEF FinalLost, FinalFailed, AttemptThrew, JobPcs, SessionPcs
  <2>2. CASE CommitConnected
    BY <2>2 DEF CommitConnected, Lost, Moves, Phases, SessionPcs
  <2>3. CASE AttemptReturned \/ WorkerTail
    BY <2>3 DEF AttemptReturned, WorkerTail, Rests
  <2> QED
    BY <1>7, <2>1, <2>2, <2>3 DEF Finish
<1>8. CASE UserOrList
  <2>1. PICK d \in Devices : \/ QuickConnect(d) \/ ForceConnect(d) \/ DisconnectDevice(d)
                             \/ DeviceAdded(d) \/ DeviceRemoved(d)
    BY <1>8 DEF UserOrList
  <2>2. CASE ForceConnect(d) \/ DisconnectDevice(d)
    BY <1>1, <2>2 DEF ForceConnect, DisconnectDevice, Rests
  <2>3. CASE QuickConnect(d) \/ DeviceAdded(d) \/ DeviceRemoved(d)
    BY <2>3 DEF QuickConnect, DeviceAdded, DeviceRemoved, Rests
  <2> QED
    BY <2>1, <2>2, <2>3
<1>9. CASE Background
  <2>1. ASSUME NEW d \in Devices, \/ VerificationFails(d) \/ DelayElapses(d)
                                  \/ CreationReady(d) \/ CreationFinishes(d)
        PROVE  Rests
    BY <2>1 DEF VerificationFails, DelayElapses, CreationReady, CreationFinishes, Rests
  <2> QED
    BY <1>9, <2>1 DEF Background
<1>10. CASE \E cb \in callbacks : HandleConnectionClosed(cb)
  <2>1. PICK cb \in callbacks : HandleConnectionClosed(cb)
    BY <1>10
  <2>2. cb.dev \in Devices
    BY DEF TypeInv, TypeOK, Callbacks
  <2>3. CASE ActsOnClosed(cb)
    <3>1. CloseSessions({cb.dev}, TRUE) /\ sessions[cb.dev] # None
      BY <2>1, <2>3 DEF HandleConnectionClosed, ActsOnClosed
    <3> QED
      BY <1>1, <2>2, <3>1
  <2>4. CASE ~ActsOnClosed(cb)
    BY <2>1, <2>4 DEF HandleConnectionClosed, Rests
  <2> QED
    BY <2>3, <2>4
<1>11. CASE BeginShutdown
  <2> DEFINE ds == {d \in Devices : sessions[d] # None}
  <2>1. ds \in SUBSET Devices /\ (\A d \in ds : sessions[d] # None) /\ CloseSessions(ds, TRUE)
    BY <1>11 DEF BeginShutdown
  <2> HIDE DEF ds
  <2> QED
    BY <2>1 DEF Ends
<1> QED
  BY <1>3, <1>4, <1>5, <1>6, <1>7, <1>8, <1>9, <1>10, <1>11 DEF Next, WorkerStep

\* The ends of sessions hand their connection objects over to the pending closes.
LEMMA EndsHandOver ==
  ASSUME TypeInv, Ends
  PROVE  /\ UNCHANGED links
         /\ \A d \in Devices : sessions'[d] = None \/ sessions'[d] = sessions[d]
         /\ \A d \in Devices : \/ closing'[d] = closing[d]
                               \/ /\ sessions[d] # None /\ sessions'[d] = None
                                  /\ \E e \in Closings : /\ e.conn = sessions[d].conn
                                                         /\ closing'[d] = Append(closing[d], e)
<1>1. PICK ds \in SUBSET Devices, skip \in BOOLEAN :
        (\A d \in ds : sessions[d] # None) /\ CloseSessions(ds, skip)
  BY DEF Ends
<1>2. /\ UNCHANGED links
      /\ \A d \in Devices : sessions'[d] = IF d \in ds THEN None ELSE sessions[d]
      /\ \A d \in Devices : d \notin ds => closing'[d] = closing[d]
  BY <1>1, CloseSessionsType DEF TypeInv
<1>3. ASSUME NEW d \in ds
      PROVE  \E e \in Closings : /\ e.conn = sessions[d].conn
                                 /\ closing'[d] = Append(closing[d], e)
  <2> DEFINE e == [conn |-> sessions[d].conn,
                   worker |-> d \in verifying \/
                              (d \in ConnectedDevices /\ ~skip /\ ~stopping /\ ~inProgress),
                   closed |-> FALSE]
  <2>1. closing'[d] = Append(closing[d], e)
    BY <1>1 DEF CloseSessions
  <2>2. sessions[d] \in Sessions
    BY <1>1 DEF TypeInv, TypeOK
  <2>3. e \in Closings /\ e.conn = sessions[d].conn
    BY <2>2 DEF Sessions, Closings
  <2> HIDE DEF e
  <2> QED
    BY <2>1, <2>3
<1> QED
  BY <1>1, <1>2, <1>3

\* A session that holds a link has no pending close, so its link comes first there.
LEMMA OwnersOfEnds ==
  ASSUME TypeInv, SerialInv, OwnerInv, Ends
  PROVE  OwnerInv'
<1>1. \A d \in Devices, c \in Conns : Owns(d, c) => Owns(d, c)'
  BY EndsHandOver DEF Owns
<1>2. ASSUME NEW d \in Devices, sessions'[d] # None, sessions'[d].conn # None
      PROVE  Owns(d, sessions[d].conn)'
  <2>1. sessions'[d] = sessions[d] /\ UNCHANGED links
    BY <1>2, EndsHandOver
  <2> QED
    BY <1>2, <2>1 DEF OwnerInv, Owns
<1>3. ASSUME NEW d \in Devices, NEW i \in DOMAIN closing'[d], closing'[d][i].conn # None
      PROVE  i = 1 /\ (closing'[d][1].closed \/ Owns(d, closing[d][1].conn)')
  <2>1. CASE closing'[d] = closing[d]
    BY <1>3, <2>1, EndsHandOver DEF OwnerInv, Owns
  <2>2. ASSUME sessions[d] # None, NEW e \in Closings, e.conn = sessions[d].conn,
               closing'[d] = Append(closing[d], e)
        PROVE  i = 1 /\ (closing'[d][1].closed \/ Owns(d, closing[d][1].conn)')
    <3>1. closing[d] \in Seq(Closings)
      BY DEF TypeInv, TypeOK
    <3>2. CASE closing[d] = <<>>
      <4>1. i = 1 /\ closing'[d][1] = e
        BY <1>3, <2>2, <3>1, <3>2
      <4>2. Owns(d, e.conn) /\ UNCHANGED links
        BY <1>3, <2>2, <4>1, EndsHandOver DEF OwnerInv
      <4> QED
        BY <4>1, <4>2 DEF Owns
    <3>3. CASE closing[d] # <<>>
      <4>1. e.conn = None
        BY <2>2, <3>3 DEF SerialInv, LinksAreSerialized
      <4>2. i \in DOMAIN closing[d] /\ closing'[d][i] = closing[d][i]
        BY <1>3, <2>2, <3>1, <4>1
      <4>3. closing'[d][1] = closing[d][1]
        BY <2>2, <3>1, <3>3
      <4> QED
        BY <1>3, <4>2, <4>3, EndsHandOver DEF OwnerInv, Owns
    <3> QED
      BY <3>2, <3>3
  <2> QED
    BY <2>1, <2>2, EndsHandOver
<1> QED
  BY <1>2, <1>3 DEF OwnerInv

\* A close forgets the link it closed, which no one else holds.
LEMMA OwnersOfCloses ==
  ASSUME TypeInv, SerialInv, OwnerInv, NEW d \in Devices, CloseReturns(d) \/ FlowWorkerEnds(d)
  PROVE  OwnerInv'
<1>1. /\ UNCHANGED sessions /\ closing[d] # <<>> /\ closing[d] \in Seq(Closings)
      /\ \A e \in Devices : e # d => closing'[e] = closing[e]
  BY DEF CloseReturns, FlowWorkerEnds, TypeInv, TypeOK
<1> DEFINE c == closing[d][1]
<1>2. c \in Closings /\ Head(closing[d]) = c
  BY <1>1
<1>3. /\ \/ closing'[d] = Tail(closing[d])
         \/ closing'[d] = <<[c EXCEPT !.closed = TRUE]>> \o Tail(closing[d])
         \/ closing'[d] = <<[c EXCEPT !.worker = FALSE]>> \o Tail(closing[d]) /\ UNCHANGED links
      /\ \/ UNCHANGED links
         \/ CloseReturns(d) /\ ~c.closed /\ c.conn # None /\ links' = [links EXCEPT ![c.conn] = None]
  <2>1. closing \in [Devices -> Seq(Closings)]
    BY DEF TypeInv, TypeOK
  <2>2. CASE CloseReturns(d)
    <3>1. /\ ~c.closed
          /\ links' = IF c.conn = None THEN links ELSE [links EXCEPT ![c.conn] = None]
          /\ closing'[d] = IF c.worker THEN <<[c EXCEPT !.closed = TRUE]>> \o Tail(closing[d])
                                      ELSE Tail(closing[d])
      BY <1>2, <2>1, <2>2 DEF CloseReturns
    <3> QED
      BY <2>2, <3>1
  <2>3. CASE FlowWorkerEnds(d)
    <3>1. /\ UNCHANGED links
          /\ closing'[d] = IF c.closed THEN Tail(closing[d])
                           ELSE <<[c EXCEPT !.worker = FALSE]>> \o Tail(closing[d])
      BY <1>2, <2>1, <2>3 DEF FlowWorkerEnds
    <3> QED
      BY <3>1
  <2> QED
    BY <2>2, <2>3
<1>4. ASSUME NEW e \in Devices, NEW l \in Conns, Owns(e, l), e # d \/ UNCHANGED links
      PROVE  Owns(e, l)'
  <2>1. CASE UNCHANGED links
    BY <1>4, <2>1 DEF Owns
  <2>2. CASE /\ ~c.closed /\ c.conn # None /\ links' = [links EXCEPT ![c.conn] = None]
    <3>1. Owns(d, c.conn)
      BY <1>1, <2>2 DEF OwnerInv
    <3>2. e # d => l # c.conn
      BY <1>4, <3>1 DEF Owns
    <3>3. e # d => links'[l] = links[l]
      BY <2>2, <3>2 DEF TypeInv, TypeOK
    <3> QED
      BY <1>4, <2>1, <3>3 DEF Owns
  <2> QED
    BY <1>3, <2>1, <2>2
<1>5. ASSUME NEW e \in Devices, sessions'[e] # None, sessions'[e].conn # None
      PROVE  Owns(e, sessions[e].conn)'
  <2>1. e # d /\ Owns(e, sessions[e].conn) /\ sessions[e].conn \in Conns
    BY <1>1, <1>5 DEF SerialInv, LinksAreSerialized, OwnerInv, TypeInv, TypeOK, Sessions
  <2> QED
    BY <1>1, <1>4, <2>1 DEF Owns
<1>6. ASSUME NEW e \in Devices, NEW i \in DOMAIN closing'[e], closing'[e][i].conn # None
      PROVE  i = 1 /\ (closing'[e][1].closed \/ Owns(e, closing[e][1].conn)')
  <2>1. CASE e # d
    <3>1. i = 1 /\ (closing[e][1].closed \/ Owns(e, closing[e][1].conn))
      BY <1>1, <1>6, <2>1 DEF OwnerInv
    <3>2. closing[e] \in Seq(Closings) /\ i \in DOMAIN closing[e] /\ closing'[e] = closing[e]
      BY <1>1, <1>6, <2>1 DEF TypeInv, TypeOK
    <3>3. closing[e][i] \in Closings
      BY <3>2
    <3>4. closing[e][1].conn \in Conns
      BY <1>6, <3>1, <3>2, <3>3 DEF Closings
    <3> QED
      BY <1>4, <2>1, <3>1, <3>2, <3>4 DEF Owns
  <2>2. \A j \in DOMAIN Tail(closing[d]) : Tail(closing[d])[j].conn = None
    <3> SUFFICES ASSUME NEW j \in DOMAIN Tail(closing[d]) PROVE Tail(closing[d])[j].conn = None
      OBVIOUS
    <3>1. j + 1 \in DOMAIN closing[d] /\ j + 1 # 1 /\ Tail(closing[d])[j] = closing[d][j + 1]
      BY <1>1
    <3> QED
      BY <3>1 DEF OwnerInv
  <2>3. CASE e = d /\ closing'[d] = Tail(closing[d])
    BY <1>6, <2>2, <2>3
  <2>4. ASSUME e = d, NEW x \in Closings, closing'[d] = <<x>> \o Tail(closing[d])
        PROVE  i = 1 /\ closing'[d][1] = x /\ x.conn # None
    <3>1. Tail(closing[d]) \in Seq(Closings)
      BY <1>1
    <3>2. closing'[d][1] = x /\ \A j \in DOMAIN closing'[d] : j # 1 =>
              j - 1 \in DOMAIN Tail(closing[d]) /\ closing'[d][j] = Tail(closing[d])[j - 1]
      BY <2>4, <3>1
    <3> QED
      BY <1>6, <2>2, <2>4, <3>2
  <2>5. CASE e = d /\ closing'[d] = <<[c EXCEPT !.closed = TRUE]>> \o Tail(closing[d])
    <3> DEFINE x == [c EXCEPT !.closed = TRUE]
    <3>1. x \in Closings /\ x.closed /\ closing'[d] = <<x>> \o Tail(closing[d])
      BY <1>2, <2>5 DEF Closings
    <3> HIDE DEF x
    <3> QED
      BY <2>4, <2>5, <3>1
  <2>6. CASE /\ e = d /\ closing'[d] = <<[c EXCEPT !.worker = FALSE]>> \o Tail(closing[d])
             /\ UNCHANGED links
    <3> DEFINE x == [c EXCEPT !.worker = FALSE]
    <3>1. /\ x \in Closings /\ x.closed = c.closed /\ x.conn = c.conn
          /\ closing'[d] = <<x>> \o Tail(closing[d])
      BY <1>2, <2>6 DEF Closings
    <3> HIDE DEF x
    <3>2. i = 1 /\ closing'[d][1] = x /\ x.conn # None
      BY <2>4, <2>6, <3>1
    <3>3. c.closed \/ Owns(d, c.conn)
      BY <1>1, <3>1, <3>2 DEF OwnerInv
    <3> QED
      BY <2>6, <3>1, <3>2, <3>3 DEF Owns
  <2> QED
    BY <1>3, <2>1, <2>3, <2>5, <2>6
<1> QED
  BY <1>5, <1>6 DEF OwnerInv

\* Sessions keep their links, and links their devices.
LEMMA OwnersKept ==
  ASSUME OwnerInv, UNCHANGED closing,
         \A d \in Devices, c \in Conns : Owns(d, c) => Owns(d, c)',
         \A d \in Devices : sessions'[d] # None /\ sessions'[d].conn # None =>
             sessions[d] # None /\ sessions'[d].conn = sessions[d].conn,
         TypeOK
  PROVE  OwnerInv'
<1>1. ASSUME NEW d \in Devices, sessions'[d] # None, sessions'[d].conn # None
      PROVE  Owns(d, sessions[d].conn)'
  <2>1. Owns(d, sessions[d].conn) /\ sessions'[d].conn = sessions[d].conn
    BY <1>1 DEF OwnerInv
  <2>2. PICK l \in Conns : l = sessions[d].conn
    BY <1>1 DEF TypeOK, Sessions
  <2>3. Owns(d, l)'
    BY <2>1, <2>2 DEF Owns
  <2> QED
    BY <2>1, <2>2, <2>3 DEF Owns
<1>2. ASSUME NEW d \in Devices, NEW i \in DOMAIN closing[d], closing[d][i].conn # None
      PROVE  i = 1 /\ (closing[d][1].closed \/ Owns(d, closing[d][1].conn)')
  <2>1. i = 1 /\ (closing[d][1].closed \/ Owns(d, closing[d][1].conn))
    BY <1>2 DEF OwnerInv
  <2>2. closing[d] \in Seq(Closings)
    BY DEF TypeOK
  <2>3. closing[d][1] \in Closings
    BY <1>2, <2>1, <2>2
  <2>4. PICK l \in Conns : l = closing[d][1].conn
    BY <1>2, <2>1, <2>3 DEF Closings
  <2>5. Owns(d, l) => Owns(d, l)'
    OBVIOUS
  <2> QED
    BY <2>1, <2>4, <2>5 DEF Owns
<1> QED
  BY <1>1, <1>2 DEF OwnerInv, Owns

\* What a move does to the attempt's own session.
LEMMA MovesOwn ==
  ASSUME TypeInv, Moves
  PROVE  /\ Dev \in Devices /\ sessions[Dev] # None /\ sessions'[Dev] # None
         /\ sessions'[Dev].conn = sessions[Dev].conn
         /\ sessions'[Dev].phase = "Connected" => CommitConnected
         /\ \A d \in Devices : d # Dev => sessions'[d] = sessions[d]
<1>1. Dev \in Devices /\ sessions[Dev] \in Sessions
      /\ sessions \in [Devices -> Sessions \cup {None}]
  BY InFlight DEF JobPcs, Current, TypeInv, TypeOK, Moves
<1>2. PICK p \in Phases : /\ sessions' = [sessions EXCEPT ![Dev].phase = p]
                          /\ p = "Connected" => CommitConnected
  BY DEF Moves
<1> DEFINE moved == [sessions[Dev] EXCEPT !.phase = p]
<1>3. /\ sessions'[Dev] = moved
      /\ \A d \in Devices : d # Dev => sessions'[d] = sessions[d]
  BY <1>1, <1>2
<1>4. /\ moved \in Sessions /\ moved.conn = sessions[Dev].conn /\ moved.phase = p
  BY <1>1 DEF Sessions
<1> HIDE DEF moved
<1> QED
  BY <1>1, <1>2, <1>3, <1>4

LEMMA BeginsOwn ==
  ASSUME TypeInv, BeginAttempt
  PROVE  /\ UNCHANGED <<closing, links>> /\ Dev \in Devices
         /\ sessions'[Dev].conn = None /\ sessions'[Dev].phase # "Connected"
         /\ \A d \in Devices : d # Dev => sessions'[d] = sessions[d]
<1>1. /\ Dev \in Devices /\ sessions \in [Devices -> Sessions \cup {None}]
      /\ UNCHANGED <<closing, links>>
  BY InFlight DEF BeginAttempt, JobPcs, TypeInv, TypeOK
<1>2. PICK p \in {"Starting", "RecoveringBluetooth"} :
        sessions' = [sessions EXCEPT ![Dev] = [gen |-> Req.gen, conn |-> None, phase |-> p]]
  BY DEF BeginAttempt
<1> QED
  BY <1>1, <1>2

\* A new link has no owner but the session that takes it.
LEMMA OwnersOfTake ==
  ASSUME TypeInv, SerialInv, OwnerInv, NEW c \in Conns, CreateTaken(c)
  PROVE  /\ OwnerInv'
         /\ \A d \in Devices : sessions'[d] # None /\ sessions'[d].conn = c => ~links'[c].open
         /\ Dev \in Devices /\ sessions'[Dev].conn = c
         /\ \A d \in Devices : d # Dev => sessions'[d] = sessions[d]
         /\ \A l \in Conns : l # c => links'[l] = links[l]
<1>1. /\ Dev \in Devices /\ sessions[Dev] \in Sessions /\ worker = "create" /\ Current
      /\ sessions \in [Devices -> Sessions \cup {None}] /\ links \in [Conns -> Links \cup {None}]
      /\ UNCHANGED closing /\ sessions' = [sessions EXCEPT ![Dev].conn = c]
      /\ links[c] = None
      /\ links' = [links EXCEPT ![c] = [dev |-> Dev, gen |-> Req.gen, open |-> FALSE]]
  BY InFlight DEF CreateTaken, FreeConns, Lost, Current, TypeInv, TypeOK, JobPcs, SessionPcs
<1>2. /\ links'[c] = [dev |-> Dev, gen |-> Req.gen, open |-> FALSE]
      /\ \A l \in Conns : l # c => links'[l] = links[l]
      /\ \A d \in Devices : d # Dev => sessions'[d] = sessions[d]
  BY <1>1
<1>3. sessions'[Dev].conn = c
  BY <1>1 DEF Sessions
<1>5. Req \in Requests
  BY <1>1, InFlight DEF JobPcs, SessionPcs
<1>6. links'[c] # None
  <2>1. links'[c] \in Links
    BY <1>1, <1>2, <1>5 DEF Links, Requests
  <2> QED
    BY <2>1
<1>7. ASSUME NEW d \in Devices, NEW l \in Conns, Owns(d, l) PROVE l # c /\ Owns(d, l)'
  BY <1>1, <1>2, <1>7 DEF Owns
<1>8. closing[Dev] = <<>>
  BY <1>1 DEF SerialInv, SessionPcs
<1>9. ASSUME NEW d \in Devices, sessions'[d] # None, sessions'[d].conn # None
      PROVE  Owns(d, sessions[d].conn)'
  <2>1. CASE d = Dev
    BY <1>2, <1>3, <1>6, <2>1 DEF Owns
  <2>2. CASE d # Dev
    <3>1. sessions'[d] = sessions[d] /\ Owns(d, sessions[d].conn)
      BY <1>2, <1>9, <2>2 DEF OwnerInv
    <3>2. PICK l \in Conns : l = sessions[d].conn
      BY <1>1, <1>9, <3>1 DEF Sessions
    <3>3. Owns(d, l)'
      BY <1>7, <3>1, <3>2
    <3> QED
      BY <3>1, <3>2, <3>3 DEF Owns
  <2> QED
    BY <2>1, <2>2
<1>10. ASSUME NEW d \in Devices, NEW i \in DOMAIN closing[d], closing[d][i].conn # None
       PROVE  i = 1 /\ (closing[d][1].closed \/ Owns(d, closing[d][1].conn)')
  <2>1. i = 1 /\ (closing[d][1].closed \/ Owns(d, closing[d][1].conn))
    BY <1>10 DEF OwnerInv
  <2>2. closing[d] \in Seq(Closings)
    BY DEF TypeInv, TypeOK
  <2>3. closing[d][1] \in Closings
    BY <1>10, <2>1, <2>2
  <2>4. PICK l \in Conns : l = closing[d][1].conn
    BY <1>10, <2>1, <2>3 DEF Closings
  <2>5. Owns(d, l) => Owns(d, l)'
    BY <1>7
  <2> QED
    BY <1>1, <2>1, <2>4, <2>5 DEF Owns
<1>11. OwnerInv'
  BY <1>1, <1>9, <1>10 DEF OwnerInv, Owns
<1> QED
  BY <1>1, <1>2, <1>3, <1>11

\* A link that opens or closes keeps its device.
LEMMA LinkChanges ==
  ASSUME TypeInv, NEW c \in Conns, LinkOpens(c) \/ LinkCloses(c)
  PROVE  /\ UNCHANGED <<sessions, closing>>
         /\ \A d \in Devices, l \in Conns : Owns(d, l) <=> Owns(d, l)'
         /\ \A l \in Conns : l # c => links'[l] = links[l]
         /\ LinkCloses(c) => ~links'[c].open
<1>1. /\ UNCHANGED <<sessions, closing>> /\ links[c] \in Links
      /\ links \in [Conns -> Links \cup {None}]
  BY DEF LinkOpens, LinkCloses, TypeInv, TypeOK
<1>2. PICK b \in BOOLEAN : /\ links' = [links EXCEPT ![c].open = b]
                           /\ LinkCloses(c) => ~b
  BY DEF LinkOpens, LinkCloses
<1> DEFINE x == [links[c] EXCEPT !.open = b]
<1>3. links'[c] = x /\ \A l \in Conns : l # c => links'[l] = links[l]
  BY <1>1, <1>2
<1>4. x \in Links /\ x.dev = links[c].dev /\ x.open = b
  BY <1>1 DEF Links
<1> HIDE DEF x
<1>5. \A d \in Devices, l \in Conns : Owns(d, l) <=> Owns(d, l)'
  BY <1>1, <1>3, <1>4 DEF Owns
<1> QED
  BY <1>1, <1>2, <1>3, <1>4, <1>5

LEMMA OwnerStep ==
  ASSUME TypeInv, SerialInv, OwnerInv, [Next]_vars
  PROVE  OwnerInv'
<1>1. CASE Rests
  BY <1>1, OwnersKept DEF Rests, Owns, TypeInv
<1>2. CASE Moves
  <2>1. UNCHANGED <<closing, links>>
    BY <1>2 DEF Moves
  <2>2. \A d \in Devices : sessions'[d] # None /\ sessions'[d].conn # None =>
            sessions[d] # None /\ sessions'[d].conn = sessions[d].conn
    BY <1>2, MovesOwn
  <2> QED
    BY <2>1, <2>2, OwnersKept DEF Owns, TypeInv
<1>3. CASE BeginAttempt
  <2>1. /\ UNCHANGED <<closing, links>>
        /\ \A d \in Devices : sessions'[d] # None /\ sessions'[d].conn # None =>
               sessions[d] # None /\ sessions'[d].conn = sessions[d].conn
    BY <1>3, BeginsOwn
  <2> QED
    BY <2>1, OwnersKept DEF Owns, TypeInv
<1>4. ASSUME NEW c \in Conns, LinkOpens(c) \/ LinkCloses(c) PROVE OwnerInv'
  <2>1. /\ UNCHANGED <<sessions, closing>>
        /\ \A d \in Devices, l \in Conns : Owns(d, l) => Owns(d, l)'
    BY <1>4, LinkChanges
  <2> QED
    BY <2>1, OwnersKept DEF TypeInv
<1> QED
  BY Effects, <1>1, <1>2, <1>3, <1>4, OwnersOfEnds, OwnersOfCloses, OwnersOfTake

\* Only a commit starts a stream, or the remote that reopens its link.
Reopens(d) == \E c \in Conns : LinkOpens(c) /\ links[c].dev = d

LEMMA StreamsStart ==
  ASSUME TypeInv, SerialInv, OwnerInv, [Next]_vars, ~CommitConnected,
         NEW d \in Devices, Streaming(d)'
  PROVE  Streaming(d) \/ Reopens(d)
<1>1. ASSUME sessions'[d] = sessions[d], links'[sessions[d].conn] = links[sessions[d].conn]
      PROVE  Streaming(d)
  BY <1>1 DEF Streaming, ConnectedDevices
<1>2. /\ sessions'[d] # None /\ sessions'[d].phase = "Connected" /\ sessions'[d].conn # None
      /\ links'[sessions'[d].conn] # None /\ links'[sessions'[d].conn].open
  BY DEF Streaming, ConnectedDevices
<1>3. CASE Rests
  BY <1>1, <1>3 DEF Rests
<1>4. CASE Ends
  BY <1>1, <1>2, <1>4, EndsHandOver
<1>5. CASE Moves
  <2>1. UNCHANGED links /\ sessions'[d] = sessions[d]
    BY <1>2, <1>5, MovesOwn DEF Moves
  <2> QED
    BY <1>1, <2>1
<1>6. CASE BeginAttempt
  BY <1>1, <1>2, <1>6, BeginsOwn
<1>7. ASSUME NEW e \in Devices, CloseReturns(e) \/ FlowWorkerEnds(e)
      PROVE  Streaming(d)
  <2>1. UNCHANGED sessions
    BY <1>7 DEF CloseReturns, FlowWorkerEnds
  <2>2. UNCHANGED links \/ \E l : links' = [links EXCEPT ![l] = None]
    BY <1>7 DEF CloseReturns, FlowWorkerEnds
  <2>3. sessions[d].conn \in Conns /\ links \in [Conns -> Links \cup {None}]
    BY <1>2, <2>1 DEF TypeInv, TypeOK, Sessions
  <2>4. links'[sessions[d].conn] = links[sessions[d].conn]
    BY <1>2, <2>1, <2>2, <2>3
  <2> QED
    BY <1>1, <2>1, <2>4
<1>8. ASSUME NEW c \in Conns, CreateTaken(c) PROVE Streaming(d)
  <2>1. sessions'[d].conn # c /\ d # Dev
    BY <1>2, <1>8, OwnersOfTake
  <2>2. sessions'[d] = sessions[d]
    BY <1>8, <2>1, OwnersOfTake
  <2>3. sessions[d].conn \in Conns
    BY <1>2, <2>2 DEF TypeInv, TypeOK, Sessions
  <2>4. links'[sessions[d].conn] = links[sessions[d].conn]
    BY <1>8, <2>1, <2>2, <2>3, OwnersOfTake
  <2> QED
    BY <1>1, <2>2, <2>4
<1>9. ASSUME NEW c \in Conns, LinkOpens(c) \/ LinkCloses(c)
      PROVE  Streaming(d) \/ Reopens(d)
  <2>1. UNCHANGED sessions
    BY <1>9, LinkChanges
  <2>2. sessions[d].conn \in Conns
    BY <1>2, <2>1 DEF TypeInv, TypeOK, Sessions
  <2>3. CASE sessions[d].conn = c
    <3>1. LinkOpens(c) /\ links[c].dev = d
      BY <1>2, <1>9, <2>1, <2>3, LinkChanges DEF OwnerInv, Owns
    <3> QED
      BY <3>1 DEF Reopens
  <2>4. CASE sessions[d].conn # c
    BY <1>1, <1>9, <2>1, <2>2, <2>4, LinkChanges
  <2> QED
    BY <2>3, <2>4
<1> QED
  BY Effects, <1>3, <1>4, <1>5, <1>6, <1>7, <1>8, <1>9

\* How the worker gets to where streams have been looked at.
LEMMA QuietEntered ==
  ASSUME TypeInv, [Next]_vars, worker' \in QuietPcs
  PROVE  /\ ~CommitConnected /\ UNCHANGED job
         /\ UNCHANGED worker \/ TasksFinished \/ EnsureStarts \/ RadioFound
<1>1. ~CommitConnected
  BY DEF CommitConnected, AttemptEnds, QuietPcs
<1>2. CASE UNCHANGED <<worker, job>>
  BY <1>1, <1>2
<1>3. CASE TasksFinished \/ EnsureStarts \/ RadioFound
  BY <1>1, <1>3 DEF TasksFinished, EnsureStarts, RadioFound
<1>4. CASE ~UNCHANGED <<worker, job>> /\ ~TasksFinished /\ ~EnsureStarts /\ ~RadioFound
  <2>1. CASE UNCHANGED vars \/ ShutdownDrained \/ BeginShutdown
             \/ \E cb \in callbacks : HandleConnectionClosed(cb)
    BY <1>4, <2>1 DEF vars, ShutdownDrained, BeginShutdown, HandleConnectionClosed
  <2>2. CASE Background
    BY <1>4, <2>2 DEF Background, CloseReturns, FlowWorkerEnds, VerificationFails,
       DelayElapses, CreationReady, CreationFinishes, LinkOpens, LinkCloses
  <2>3. CASE UserOrList
    BY <1>4, <2>3 DEF UserOrList, QuickConnect, ForceConnect, DisconnectDevice,
       DeviceAdded, DeviceRemoved, PushRequest, QuietPcs
  <2>4. CASE Choose \/ Begin \/ \E d \in Devices : Dispatch(d)
    BY <1>4, <2>4 DEF Choose, LeaveLoop, AwaitRetry, WakeForQueue, Dispatch, Begin,
       BeginCancelled, BeginUnavailable, BeginAttempt, PreviousFinished, PreviousTimesOut,
       AttemptEnds, QuietPcs
  <2>5. CASE Prepare
    BY <1>4, <2>5 DEF Prepare, EnsureProtects, EnsureStopped, RadioNotFound,
       TasksTimeOut, RadioTurnsOff, TransactionRefused, RadioRestored, RestoreFails,
       RecoveryDone, RecoveryFails, PreparationReturns, QuietPcs
  <2>6. CASE Open
    BY <2>6 DEF Open, PreparedLost, PreparationFailed, PreparedOk, LookupEnds,
       LookupThrows, CreateLost, CreateTaken, CreateFails, StartDone, StartFails, OpenDone,
       OpenFails, StepFails, OpenedWaitEnds, StartCreation, AttemptEnds, AttemptResult,
       QuietPcs
  <2>7. CASE Finish
    BY <2>7 DEF Finish, FinalLost, FinalFailed, CommitConnected, AttemptReturned,
       AttemptThrew, Conclude, WorkerTail, AttemptEnds, QuietPcs
  <2> QED
    BY <2>1, <2>2, <2>3, <2>4, <2>5, <2>6, <2>7 DEF Next, WorkerStep
<1> QED
  BY <1>2, <1>3, <1>4

\* What a step does to the recovery and its history.
LEMMA RecoveryGoesOn ==
  ASSUME [Next]_vars
  PROVE  \/ UNCHANGED <<inProgress, reopened>> \/ EnsureStarts \/ RecoveryDone
         \/ \E c \in Conns : LinkOpens(c)
<1>1. CASE \/ UNCHANGED vars \/ ShutdownDrained \/ BeginShutdown \/ UserOrList
           \/ \E cb \in callbacks : HandleConnectionClosed(cb)
  BY <1>1 DEF vars, ShutdownDrained, BeginShutdown, HandleConnectionClosed, UserOrList,
     QuickConnect, ForceConnect, DisconnectDevice, DeviceAdded, DeviceRemoved, PushRequest
<1>2. CASE Background
  BY <1>2 DEF Background, CloseReturns, FlowWorkerEnds, VerificationFails, DelayElapses,
     CreationReady, CreationFinishes, LinkCloses
<1>3. CASE Choose \/ Begin \/ \E d \in Devices : Dispatch(d)
  BY <1>3 DEF Choose, LeaveLoop, AwaitRetry, WakeForQueue, Dispatch, Begin, BeginCancelled,
     BeginUnavailable, BeginAttempt, PreviousFinished, PreviousTimesOut
<1>4. CASE Prepare
  BY <1>4 DEF Prepare, EnsureProtects, EnsureStopped, RadioFound, RadioNotFound,
     TasksFinished, TasksTimeOut, RadioTurnsOff, TransactionRefused, RadioRestored,
     RestoreFails, RecoveryFails
<1>5. CASE Open
  BY <1>5 DEF Open, PreparedLost, PreparationFailed, PreparedOk, LookupEnds, LookupThrows,
     CreateLost, CreateTaken, CreateFails, StartDone, StartFails, OpenDone, OpenFails,
     StepFails, OpenedWaitEnds
<1>6. CASE Finish
  BY <1>6 DEF Finish, FinalLost, FinalFailed, CommitConnected, AttemptReturned,
     AttemptThrew, Conclude, WorkerTail
<1> QED
  BY <1>1, <1>2, <1>3, <1>4, <1>5, <1>6 DEF Next, WorkerStep

LEMMA QuietStep ==
  ASSUME TypeInv, ChainInv, SerialInv, OwnerInv, QuietInv, [Next]_vars
  PROVE  QuietInv'
<1> SUFFICES ASSUME worker' \in QuietPcs
             PROVE  /\ inProgress'
                    /\ ~ForcedReset' =>
                           \A d \in Devices : Streaming(d)' => d \in reopened'
                    /\ worker' # "findRadio" /\ ForcedReset' => ConnectedDevices' = {}
  BY DEF QuietInv
<1>1. /\ ~CommitConnected /\ ForcedReset' = ForcedReset
      /\ UNCHANGED worker \/ TasksFinished \/ EnsureStarts \/ RadioFound
  BY QuietEntered DEF ForcedReset, Req
<1>2. worker \in QuietPcs \/ EnsureStarts
  BY <1>1 DEF TasksFinished, RadioFound, QuietPcs
<1>3. /\ inProgress'
      /\ worker \in QuietPcs => reopened \subseteq reopened'
  <2>1. CASE EnsureStarts
    BY <2>1 DEF EnsureStarts
  <2>2. CASE \E c \in Conns : LinkOpens(c)
    BY <1>2, <2>2 DEF LinkOpens, QuietInv, EnsureStarts
  <2>3. CASE UNCHANGED <<inProgress, reopened>>
    BY <1>2, <2>1, <2>3 DEF QuietInv
  <2>4. ~RecoveryDone
    BY DEF RecoveryDone, PreparationReturns, QuietPcs
  <2> QED
    BY <2>1, <2>2, <2>3, <2>4, RecoveryGoesOn
<1>4. ASSUME ~ForcedReset, NEW d \in Devices, Streaming(d)' PROVE d \in reopened'
  <2>1. CASE EnsureStarts
    <3>1. UNCHANGED <<sessions, links>> /\ ~HasConnectedSessions
      BY <1>4, <2>1 DEF EnsureStarts
    <3> QED
      BY <1>4, <3>1 DEF HasConnectedSessions, Streaming, ConnectedDevices
  <2>2. CASE Streaming(d) /\ worker \in QuietPcs
    BY <1>3, <1>4, <2>2 DEF QuietInv
  <2>3. CASE Reopens(d) /\ worker \in QuietPcs
    BY <2>3 DEF Reopens, LinkOpens, QuietInv
  <2> QED
    BY <1>1, <1>2, <1>4, <2>1, <2>2, <2>3, StreamsStart
<1>5. ASSUME worker' # "findRadio", ForcedReset, NEW d \in Devices, d \in ConnectedDevices'
      PROVE  FALSE
  <2>1. CASE RadioFound
    <3>1. CloseSessions(ConnectedDevices, FALSE)
      BY <1>5, <2>1 DEF RadioFound
    <3> QED
      BY <1>5, <3>1 DEF CloseSessions, ConnectedDevices
  <2>2. CASE worker \in QuietPcs \ {"findRadio"}
    <3>1. ConnectedDevices = {} /\ NoneCommitted
      BY <1>1, <1>5, <2>2, LinksStep DEF QuietInv
    <3> QED
      BY <1>5, <3>1 DEF NoneCommitted
  <2> QED
    BY <1>1, <1>5, <2>1, <2>2 DEF TasksFinished, EnsureStarts, QuietPcs
<1>6. ConnectedDevices' \subseteq Devices
  BY DEF ConnectedDevices
<1> QED
  BY <1>1, <1>3, <1>4, <1>5, <1>6

\* The adapter is turned off under no stream but one whose link the remote reopened
\* after the recovery had begun, and by a forced reset under none at all, although
\* streams are looked at several awaits before (BluetoothRecovery.hpp:206, 245-254).
THEOREM ResetsSpareStreams == Spec => ResetSparesStreams
<1>1. Init => OwnerInv /\ QuietInv
  BY DEF Init, OwnerInv, QuietInv, QuietPcs
<1>2. TypeInv /\ ChainInv /\ SerialInv /\ OwnerInv /\ QuietInv /\ [Next]_vars =>
        (OwnerInv /\ QuietInv)'
  BY OwnerStep, QuietStep
<1>3. ASSUME QuietInv, [Next]_vars, radio = "on", radio' = "off",
             NEW d \in Devices, Streaming(d)
      PROVE  d \in reopened /\ ~ForcedReset
  <2>1. worker = "transaction"
    BY <1>3, TurnedOffInTransaction
  <2> QED
    BY <1>3, <2>1 DEF QuietInv, QuietPcs, Streaming
<1>4. QuietInv /\ [Next]_vars =>
        [radio = "on" /\ radio' = "off" =>
            \A d \in Devices : Streaming(d) => d \in reopened /\ ~ForcedReset]_vars
  BY <1>3
<1> QED
  BY LinksHold, <1>1, <1>2, <1>4, PTL DEF Spec, ResetSparesStreams

-----------------------------------------------------------------------------
(* Devices that the remote disconnected *)

\* A device has at most the session of the attempt in flight; one that an ended
\* attempt leaves behind was committed.
SoleInv ==
    /\ worker = "begin" => sessions[Dev] = None
    /\ worker \in SessionPcs /\ sessions[Dev] # None => Current
    /\ worker = "attempted" /\ sessions[Dev] # None => job.result = "Success"

\* Nothing is under way for the device, or armed, that would connect it.
AtRest(d) ==
    /\ queue[d] = None /\ d \notin pendingAuto
    /\ worker \in JobPcs /\ Dev = d =>
          \/ Req.gen # gen[d]
          \/ worker = "attempted" /\ job.result = "Success"

\* A device whose reconnects are suppressed is at rest.
PausedAtRest == \A d \in suppressed : AtRest(d)

RecoveryInv == inProgress => worker \in RecoveryPcs

\* Only Connect opens a session where there was none.
LEMMA SessionsSurvive ==
  ASSUME TypeInv, [Next]_vars, ~BeginAttempt
  PROVE  \A d \in Devices : sessions'[d] # None =>
             sessions[d] # None /\ sessions'[d].gen = sessions[d].gen
<1>1. sessions \in [Devices -> Sessions \cup {None}]
  BY DEF TypeInv, TypeOK
<1>2. CASE Rests
  BY <1>2 DEF Rests
<1>3. CASE Ends
  BY <1>3, EndsHandOver
<1>4. CASE Moves
  <2>1. PICK p \in Phases : sessions' = [sessions EXCEPT ![Dev].phase = p]
    BY <1>4 DEF Moves
  <2>2. sessions[Dev] # None
    BY <1>4 DEF Moves, Current
  <2> QED
    BY <1>1, <2>1, <2>2 DEF Sessions
<1>5. CASE \E d \in Devices : CloseReturns(d) \/ FlowWorkerEnds(d)
  BY <1>5 DEF CloseReturns, FlowWorkerEnds
<1>6. CASE \E c \in Conns : LinkOpens(c) \/ LinkCloses(c)
  BY <1>6 DEF LinkOpens, LinkCloses
<1>7. ASSUME NEW c \in Conns, CreateTaken(c)
      PROVE  \A d \in Devices : sessions'[d] # None =>
                 sessions[d] # None /\ sessions'[d].gen = sessions[d].gen
  <2>1. sessions' = [sessions EXCEPT ![Dev].conn = c] /\ sessions[Dev] # None
    BY <1>7 DEF CreateTaken, Lost, Current
  <2> QED
    BY <1>1, <2>1 DEF Sessions
<1> QED
  BY <1>2, <1>3, <1>4, <1>5, <1>6, <1>7, Effects

\* What a step does to the attempt in flight.
Dispatched(d) == /\ Dispatch(d) /\ worker' = "begin" /\ job'.dev = d /\ job'.req = queue[d]
                 /\ sessions[d] = None /\ UNCHANGED sessions

SameAttempt == job'.dev = job.dev /\ job'.req.gen = job.req.gen

\* The attempt ends without a session, or with the one it commits.
EndsWithNone == \/ CloseOwn
                \/ UNCHANGED sessions /\ (worker = "begin" \/ Lost)

Goes == worker \in SessionPcs /\ worker' \in SessionPcs /\ SameAttempt
Returns == /\ worker \in SessionPcs \cup {"begin"} /\ worker' = "attempted" /\ SameAttempt
           /\ EndsWithNone \/ job'.result = "Success"
Stays == worker' \notin JobPcs \/ (worker' = worker /\ job' = job)

LEMMA AttemptEffects ==
  ASSUME TypeInv, [Next]_vars
  PROVE  \/ Stays \/ Goes \/ Returns \/ BeginAttempt
         \/ \E d \in Devices : Dispatched(d)
<1> USE DEF Stays
<1>1. CASE \/ UNCHANGED vars \/ ShutdownDrained \/ Background \/ BeginShutdown
           \/ \E cb \in callbacks : HandleConnectionClosed(cb)
  BY <1>1 DEF vars, ShutdownDrained, Background, BeginShutdown, HandleConnectionClosed,
     CloseReturns, FlowWorkerEnds, VerificationFails, DelayElapses, CreationReady,
     CreationFinishes, LinkOpens, LinkCloses
<1>2. CASE UserOrList
  <2>1. PICK d \in Devices : \/ QuickConnect(d) \/ ForceConnect(d) \/ DisconnectDevice(d)
                             \/ DeviceAdded(d) \/ DeviceRemoved(d)
    BY <1>2 DEF UserOrList
  <2>2. UNCHANGED job /\ (worker' = worker \/ worker' = "loop")
    BY <2>1 DEF QuickConnect, ForceConnect, DisconnectDevice, DeviceAdded, DeviceRemoved,
       PushRequest
  <2> QED
    BY <2>2 DEF JobPcs, SessionPcs, RecoveryPcs
<1>3. CASE Choose \/ WorkerTail \/ AttemptReturned \/ AttemptThrew
  BY <1>3 DEF Choose, LeaveLoop, AwaitRetry, WakeForQueue, WorkerTail, AttemptReturned,
     AttemptThrew, Conclude, JobPcs, SessionPcs, RecoveryPcs
<1>4. ASSUME NEW d \in Devices, Dispatch(d) PROVE Stays \/ Dispatched(d)
  BY <1>4 DEF Dispatch, Dispatched
<1>5. ASSUME worker \in JobPcs, UNCHANGED job \/ \E r : AttemptEnds(r) \/ AttemptResult(r)
      PROVE  SameAttempt
  BY <1>5, InFlight DEF AttemptEnds, AttemptResult, SameAttempt, Jobs
<1>6. ASSUME worker \in SessionPcs, UNCHANGED job \/ \E r : AttemptResult(r),
             worker' \in SessionPcs
      PROVE  Goes
  BY <1>5, <1>6 DEF Goes, JobPcs
<1>7. ASSUME worker \in SessionPcs \cup {"begin"}, NEW r, AttemptEnds(r),
             EndsWithNone \/ r = "Success"
      PROVE  Returns
  <2>1. job \in Jobs
    BY <1>7, InFlight DEF JobPcs
  <2>2. job'.result = r /\ worker' = "attempted"
    BY <1>7, <2>1 DEF AttemptEnds, Jobs
  <2> QED
    BY <1>5, <1>7, <2>2 DEF Returns, JobPcs
<1>8. CASE Begin
  <2>1. CASE BeginCancelled \/ BeginUnavailable
    BY <1>7, <2>1 DEF BeginCancelled, BeginUnavailable, EndsWithNone
  <2>2. CASE PreviousFinished
    <3>1. worker \in SessionPcs /\ worker \in JobPcs /\ UNCHANGED sessions
      BY <2>2 DEF PreviousFinished, SessionPcs, JobPcs
    <3>2. CASE Lost
      BY <1>7, <2>2, <3>1, <3>2 DEF PreviousFinished, EndsWithNone
    <3>3. CASE ~Lost
      <4>1. SameAttempt
        BY <2>2, <3>1, <3>3, InFlight DEF PreviousFinished, SameAttempt, Jobs, Requests
      <4>2. worker' \in SessionPcs
        BY <2>2, <3>3 DEF PreviousFinished, SessionPcs
      <4> QED
        BY <3>1, <4>1, <4>2 DEF Goes
    <3> QED
      BY <3>2, <3>3
  <2>3. CASE PreviousTimesOut
    BY <1>6, <2>3 DEF PreviousTimesOut, SessionPcs
  <2> QED
    BY <1>8, <2>1, <2>2, <2>3 DEF Begin
<1>9. CASE Prepare
  <2>1. /\ worker \in RecoveryPcs \cup {"ensure"}
        /\ worker' \in RecoveryPcs \cup {"prepared"}
        /\ job'.dev = job.dev /\ job'.req.gen = job.req.gen
    BY <1>9, PrepareAttempt
  <2> QED
    BY <2>1 DEF Goes, SessionPcs, SameAttempt
<1>10. CASE Open
  <2>1. worker \in SessionPcs
    BY <1>10 DEF Open, PreparedLost, PreparationFailed, PreparedOk, LookupEnds,
       LookupThrows, CreateLost, CreateFails, CreateTaken, StartDone, StartFails, OpenDone,
       OpenFails, StepFails, OpenedWaitEnds, SessionPcs
  <2>2. ASSUME NEW h, StartCreation(h) PROVE Goes
    <3>1. UNCHANGED job \/ AttemptResult("Failed")
      BY <2>2 DEF StartCreation
    <3>2. worker' \in SessionPcs
      BY <2>2 DEF StartCreation, AttemptResult, SessionPcs
    <3> QED
      BY <1>6, <2>1, <3>1, <3>2
  <2>3. CASE PreparedLost \/ PreparationFailed
    BY <1>7, <2>1, <2>3 DEF PreparedLost, PreparationFailed, EndsWithNone
  <2>4. CASE PreparedOk
    BY <1>6, <2>1, <2>2, <2>4 DEF PreparedOk, SessionPcs
  <2>5. CASE LookupEnds
    <3>1. CASE Lost
      BY <1>7, <2>1, <2>5, <3>1 DEF LookupEnds, EndsWithNone
    <3>2. CASE ~Lost
      BY <2>2, <2>5, <3>2 DEF LookupEnds
    <3> QED
      BY <3>1, <3>2
  <2>6. CASE LookupThrows \/ \E c \in Conns : CreateTaken(c)
    BY <1>6, <2>1, <2>6 DEF LookupThrows, CreateTaken, SessionPcs
  <2>7. CASE CreateLost
    BY <1>7, <2>1, <2>7 DEF CreateLost, EndsWithNone
  <2>8. ASSUME NEW r, AttemptResult(r) PROVE Goes
    BY <1>6, <2>1, <2>8 DEF AttemptResult, SessionPcs
  <2>9. CASE CreateFails \/ StartFails \/ OpenFails
    BY <2>8, <2>9 DEF CreateFails, StartFails, OpenFails, StepFails
  <2>10. CASE StartDone \/ OpenDone \/ OpenedWaitEnds
    <3>1. CASE Lost
      BY <1>7, <2>1, <2>10, <3>1 DEF StartDone, OpenDone, OpenedWaitEnds, EndsWithNone
    <3>2. CASE ~Lost
      <4>1. CASE \E r : AttemptResult(r)
        BY <2>8, <4>1
      <4>2. CASE UNCHANGED job /\ worker' \in {"open", "waitOpened"}
        BY <1>6, <2>1, <4>2 DEF SessionPcs
      <4> QED
        BY <2>10, <3>2, <4>1, <4>2 DEF StartDone, OpenDone, OpenedWaitEnds
    <3> QED
      BY <3>1, <3>2
  <2> QED
    BY <1>10, <2>3, <2>4, <2>5, <2>6, <2>7, <2>9, <2>10 DEF Open
<1>11. CASE FinalLost \/ FinalFailed \/ CommitConnected
  BY <1>7, <1>11 DEF FinalLost, FinalFailed, CommitConnected, EndsWithNone, SessionPcs
<1> QED
  BY <1>1, <1>2, <1>3, <1>4, <1>8, <1>9, <1>10, <1>11 DEF Next, WorkerStep, Finish

LEMMA SoleStep ==
  ASSUME TypeInv, ChainInv, SoleInv, [Next]_vars
  PROVE  SoleInv'
<1>1. CASE BeginAttempt
  <2>1. /\ job \in Jobs /\ Dev \in Devices /\ UNCHANGED job /\ worker' = "waitPrevious"
    BY <1>1, InFlight DEF BeginAttempt, JobPcs
  <2>2. PICK p : sessions' = [sessions EXCEPT ![Dev] = [gen |-> Req.gen, conn |-> None, phase |-> p]]
    BY <1>1 DEF BeginAttempt
  <2>3. sessions'[Dev].gen = Req.gen
    BY <2>1, <2>2 DEF TypeInv, TypeOK
  <2> QED
    BY <2>1, <2>3 DEF SoleInv, Current, Dev, Req
<1>2. ASSUME ~BeginAttempt,
             \/ Stays \/ Goes \/ Returns \/ \E d \in Devices : Dispatched(d)
      PROVE  SoleInv'
  <2>1. \A d \in Devices : sessions'[d] # None =>
            sessions[d] # None /\ sessions'[d].gen = sessions[d].gen
    BY <1>2, SessionsSurvive
  <2>2. worker \in JobPcs => job \in Jobs /\ Dev \in Devices
    BY InFlight
  <2>3. CASE Stays
    BY <2>1, <2>2, <2>3 DEF Stays, SoleInv, Current, Dev, Req, JobPcs
  <2>4. CASE Goes
    <3>1. worker' # "begin" /\ worker' # "attempted" /\ worker \in JobPcs
      BY <2>4 DEF Goes, SessionPcs, RecoveryPcs, JobPcs
    <3> QED
      BY <2>1, <2>2, <2>4, <3>1 DEF Goes, SameAttempt, SoleInv, Current, Dev, Req
  <2>5. CASE Returns
    <3>1. worker' = "attempted" /\ worker' \notin SessionPcs /\ worker \in JobPcs /\ Dev' = Dev
      BY <2>5 DEF Returns, SessionPcs, RecoveryPcs, JobPcs, SameAttempt, Dev
    <3>2. CASE job'.result = "Success"
      BY <3>1, <3>2 DEF SoleInv
    <3>3. CASE CloseOwn
      <4>1. sessions'[Dev] = IF Current THEN None ELSE sessions[Dev]
        BY <2>2, <3>1, <3>3, CloseOwnType DEF TypeInv
      <4>2. worker # "begin" => worker \in SessionPcs
        BY <2>5 DEF Returns
      <4>3. sessions'[Dev] = None
        BY <4>1, <4>2 DEF SoleInv
      <4> QED
        BY <3>1, <4>3 DEF SoleInv
    <3>4. CASE UNCHANGED sessions /\ (worker = "begin" \/ Lost)
      <4>1. worker # "begin" => worker \in SessionPcs
        BY <2>5 DEF Returns
      <4>2. sessions[Dev] = None
        BY <2>2, <3>1, <3>4, <4>1 DEF SoleInv, Lost, ChainInv, ClosedAtShutdown
      <4> QED
        BY <3>1, <3>4, <4>2 DEF SoleInv
    <3> QED
      BY <2>5, <3>2, <3>3, <3>4 DEF Returns, EndsWithNone
  <2>6. ASSUME NEW d \in Devices, Dispatched(d) PROVE SoleInv'
    <3>1. worker' \notin SessionPcs /\ worker' # "attempted" /\ Dev' = d
      BY <2>6 DEF Dispatched, SessionPcs, RecoveryPcs, Dev
    <3> QED
      BY <2>6, <3>1 DEF Dispatched, SoleInv
  <2> QED
    BY <1>2, <2>3, <2>4, <2>5, <2>6
<1> QED
  BY <1>1, <1>2, AttemptEffects

\* A click on Quick Connect or Force Connect.
Clicked(d) == \E m \in Modes \ {"Automatic"} : PushRequest(d, m)

\* A retry of an attempt that did not succeed and was not overtaken.
Retries(d) == /\ worker \in {"attempted", "threw"} /\ Dev = d /\ Req.gen = gen[d]
              /\ worker = "attempted" => job.result # "Success"

RemoteEnds(d) == \E cb \in callbacks :
    cb.dev = d /\ ActsOnClosed(cb) /\ HandleConnectionClosed(cb)

\* What may change the standing of a device whose reconnects are suppressed.
Standing(d) ==
    /\ d \in suppressed' => d \in suppressed \/ RemoteEnds(d)
    /\ d \in suppressed /\ d \notin pendingAuto => d \notin pendingAuto'
    /\ d \in suppressed /\ queue[d] = None /\ queue'[d] # None => Clicked(d) \/ Retries(d)
    /\ d \in suppressed /\ d \notin suppressed' => Clicked(d) \/ Retries(d)
    /\ d \in remoteEnded' => d \in remoteEnded \/ RemoteEnds(d)

\* No step but these changes it.
Indifferent == /\ UNCHANGED <<suppressed, pendingAuto, remoteEnded>>
               /\ \A d \in Devices : queue'[d] # None => queue[d] # None

LEMMA IndifferentStanding ==
  ASSUME Indifferent, NEW d \in Devices
  PROVE  Standing(d)
  BY DEF Indifferent, Standing

LEMMA PushStanding ==
  ASSUME TypeInv, NEW e \in Devices, NEW m \in Modes, PushRequest(e, m),
         m = "Automatic" => e \notin suppressed, NEW d \in Devices
  PROVE  Standing(d)
<1>1. e # d => queue'[d] = queue[d]
  BY DEF PushRequest, TypeInv, TypeOK
<1>2. CASE m = "Automatic"
  <2>1. UNCHANGED <<suppressed, remoteEnded>> /\ pendingAuto' = pendingAuto \ {e}
    BY <1>2 DEF PushRequest
  <2>2. d \in suppressed => d # e
    BY <1>2
  <2> QED
    BY <1>1, <2>1, <2>2 DEF Standing
<1>3. CASE m # "Automatic"
  <2>1. /\ suppressed' = suppressed \ {e} /\ remoteEnded' = remoteEnded \ {e}
        /\ pendingAuto' = pendingAuto \ {e}
    BY <1>3 DEF PushRequest
  <2>2. Clicked(e)
    BY <1>3 DEF Clicked
  <2> QED
    BY <1>1, <2>1, <2>2 DEF Standing
<1> QED
  BY <1>2, <1>3

LEMMA StartIndifferent ==
  ASSUME TypeInv, NEW e \in Devices, UpsertRow(e), UNCHANGED <<suppressed, pendingAuto, remoteEnded>>
  PROVE  Indifferent
  BY DEF UpsertRow, Indifferent, TypeInv, TypeOK

LEMMA WorkerStanding ==
  ASSUME TypeInv, WorkerStep \/ (\E e \in Devices : Dispatch(e)), NEW d \in Devices
  PROVE  Standing(d)
<1>1. ASSUME UNCHANGED <<suppressed, pendingAuto, remoteEnded, queue>>
      PROVE  Standing(d)
  BY <1>1, IndifferentStanding DEF Indifferent
<1>2. CASE Choose \/ WorkerTail \/ FinalLost \/ FinalFailed
  BY <1>1, <1>2 DEF Choose, LeaveLoop, AwaitRetry, WakeForQueue, WorkerTail, FinalLost, FinalFailed
<1>3. CASE \E e \in Devices : Dispatch(e)
  <2>1. Indifferent
    BY <1>3 DEF Dispatch, Indifferent, TypeInv, TypeOK
  <2> QED
    BY <2>1, IndifferentStanding
<1>4. CASE Begin
  <2>1. CASE BeginAttempt
    <3>1. Dev \in Devices /\ UNCHANGED <<suppressed, pendingAuto, remoteEnded>>
      BY <2>1, InFlight DEF BeginAttempt, JobPcs
    <3> QED
      BY <1>1, <2>1, <3>1, StartIndifferent, IndifferentStanding DEF BeginAttempt
  <2>2. CASE ~BeginAttempt
    BY <1>1, <1>4, <2>2 DEF Begin, BeginCancelled, BeginUnavailable, PreviousFinished,
       PreviousTimesOut
  <2> QED
    BY <2>1, <2>2
<1>5. CASE Prepare
  BY <1>1, <1>5 DEF Prepare, EnsureProtects, EnsureStopped, EnsureStarts, RadioFound,
     RadioNotFound, TasksFinished, TasksTimeOut, RadioTurnsOff, TransactionRefused,
     RadioRestored, RestoreFails, RecoveryDone, RecoveryFails
<1>6. CASE Open
  <2>1. UNCHANGED <<suppressed, pendingAuto, remoteEnded>> /\ worker \in JobPcs
    BY <1>6 DEF Open, PreparedLost, PreparationFailed, PreparedOk, LookupEnds,
       LookupThrows, CreateLost, CreateFails, CreateTaken, StartDone, StartFails, OpenDone,
       OpenFails, StepFails, OpenedWaitEnds, JobPcs, SessionPcs
  <2>2. ASSUME NEW h \in BOOLEAN, StartCreation(h) PROVE Standing(d)
    <3>1. Dev \in Devices
      BY <2>1, InFlight
    <3>2. UNCHANGED queue \/ UpsertRow(Dev)
      BY <2>2 DEF StartCreation
    <3> QED
      BY <1>1, <2>1, <3>1, <3>2, StartIndifferent, IndifferentStanding
  <2>3. CASE UNCHANGED queue
    BY <1>1, <2>1, <2>3
  <2>4. UNCHANGED queue \/ \E h \in BOOLEAN : StartCreation(h)
    <3>1. CASE LookupEnds
      <4>1. Req.device \in BOOLEAN
        BY <2>1, InFlight DEF Requests
      <4> QED
        BY <3>1, <4>1 DEF LookupEnds
    <3>2. CASE ~LookupEnds
      BY <1>6, <3>2 DEF Open, PreparedLost, PreparationFailed, PreparedOk,
         LookupThrows, CreateLost, CreateFails, CreateTaken, StartDone, StartFails, OpenDone,
         OpenFails, StepFails, OpenedWaitEnds
    <3> QED
      BY <3>1, <3>2
  <2> QED
    BY <2>2, <2>3, <2>4
<1>7. CASE CommitConnected
  <2>1. UNCHANGED <<suppressed, remoteEnded, queue>> /\ pendingAuto' = pendingAuto \ {Dev}
    BY <1>7 DEF CommitConnected
  <2> QED
    BY <2>1 DEF Standing
<1>8. ASSUME NEW r, Conclude(r), worker \in {"attempted", "threw"},
             worker = "attempted" => r = job.result
      PROVE  Standing(d)
  <2>1. UNCHANGED remoteEnded
    BY <1>8 DEF Conclude
  <2>2. CASE Requeues(r)
    <3>1. Req.gen = gen[Dev] /\ r # "Success"
      BY <2>2 DEF Requeues, CanRetry
    <3>2. Dev = d => Retries(d)
      BY <1>8, <3>1 DEF Retries
    <3>3. /\ Dev # d => queue'[d] = queue[d]
          /\ pendingAuto' = pendingAuto \ {Dev}
          /\ suppressed' = suppressed \/ suppressed' = suppressed \ {Dev}
      BY <1>8, <2>2 DEF Conclude, TypeInv, TypeOK
    <3> QED
      BY <2>1, <3>2, <3>3 DEF Standing
  <2>3. CASE ~Requeues(r)
    BY <1>1, <1>8, <2>1, <2>3 DEF Conclude
  <2> QED
    BY <2>2, <2>3
<1>9. CASE AttemptReturned
  BY <1>8, <1>9 DEF AttemptReturned
<1>10. CASE AttemptThrew
  BY <1>8, <1>10 DEF AttemptThrew
<1> QED
  BY <1>2, <1>3, <1>4, <1>5, <1>6, <1>7, <1>9, <1>10 DEF WorkerStep, Finish

LEMMA OutsideStanding ==
  ASSUME TypeInv, NEW d \in Devices,
         \/ UNCHANGED vars \/ ShutdownDrained \/ UserOrList \/ Background \/ BeginShutdown
         \/ \E cb \in callbacks : HandleConnectionClosed(cb)
  PROVE  Standing(d)
<1>1. ASSUME UNCHANGED <<suppressed, pendingAuto, remoteEnded, queue>>
      PROVE  Standing(d)
  BY <1>1, IndifferentStanding DEF Indifferent
<1>2. CASE UNCHANGED vars \/ ShutdownDrained
  BY <1>1, <1>2 DEF vars, ShutdownDrained
<1>3. CASE UserOrList
  <2>1. PICK e \in Devices : \/ QuickConnect(e) \/ ForceConnect(e) \/ DisconnectDevice(e)
                             \/ DeviceAdded(e) \/ DeviceRemoved(e)
    BY <1>3 DEF UserOrList
  <2>2. CASE QuickConnect(e) \/ ForceConnect(e)
    BY <2>2, PushStanding DEF QuickConnect, ForceConnect, Modes
  <2>3. CASE DisconnectDevice(e)
    BY <2>3 DEF DisconnectDevice, Standing, TypeInv, TypeOK
  <2>4. CASE DeviceAdded(e)
    <3>1. CASE ReconnectsOnSight(e)
      BY <2>4, <3>1, PushStanding DEF DeviceAdded, ReconnectsOnSight, Modes
    <3>2. CASE ~ReconnectsOnSight(e)
      BY <2>4, <3>2, StartIndifferent, IndifferentStanding DEF DeviceAdded
    <3> QED
      BY <3>1, <3>2
  <2>5. CASE DeviceRemoved(e)
    <3>1. /\ UNCHANGED <<suppressed, remoteEnded, queue>>
          /\ \/ pendingAuto' = pendingAuto
             \/ pendingAuto' = pendingAuto \cup {e} /\ e \notin suppressed
      BY <2>5 DEF DeviceRemoved
    <3> QED
      BY <3>1 DEF Standing
  <2> QED
    BY <2>1, <2>2, <2>3, <2>4, <2>5
<1>4. CASE Background
  <2>1. ASSUME NEW e \in Devices, DelayElapses(e) PROVE Standing(d)
    <3>1. Indifferent
      BY <2>1 DEF DelayElapses, Indifferent, TypeInv, TypeOK
    <3> QED
      BY <3>1, IndifferentStanding
  <2> QED
    BY <1>1, <1>4, <2>1 DEF Background, CloseReturns, FlowWorkerEnds, VerificationFails,
       CreationReady, CreationFinishes, LinkOpens, LinkCloses
<1>5. CASE \E cb \in callbacks : HandleConnectionClosed(cb)
  <2>1. PICK cb \in callbacks : HandleConnectionClosed(cb)
    BY <1>5
  <2>2. CASE ActsOnClosed(cb)
    <3>1. /\ suppressed' \in {suppressed, suppressed \cup {cb.dev}}
          /\ pendingAuto' = pendingAuto \ {cb.dev} /\ queue' = queue
          /\ remoteEnded' = remoteEnded \cup {cb.dev}
      BY <2>1, <2>2 DEF HandleConnectionClosed
    <3>2. RemoteEnds(cb.dev)
      BY <2>1, <2>2 DEF RemoteEnds
    <3> QED
      BY <3>1, <3>2 DEF Standing
  <2>3. CASE ~ActsOnClosed(cb)
    BY <1>1, <2>1, <2>3 DEF HandleConnectionClosed
  <2> QED
    BY <2>2, <2>3
<1>6. CASE BeginShutdown
  BY <1>6 DEF BeginShutdown, Standing
<1> QED
  BY <1>2, <1>3, <1>4, <1>5, <1>6

LEMMA Standings ==
  ASSUME TypeInv, [Next]_vars
  PROVE  \A d \in Devices : Standing(d)
  BY WorkerStanding, OutsideStanding DEF Next

LEMMA RecoveryStep ==
  ASSUME TypeInv, RecoveryInv, [Next]_vars
  PROVE  RecoveryInv'
<1>1. CASE UNCHANGED <<worker, inProgress>> \/ ~inProgress'
  BY <1>1 DEF RecoveryInv
<1>2. CASE worker \notin RecoveryPcs /\ UNCHANGED inProgress
  BY <1>2 DEF RecoveryInv
<1>3. CASE Prepare
  BY <1>3 DEF Prepare, EnsureProtects, EnsureStopped, EnsureStarts, RadioFound, RadioNotFound,
     TasksFinished, TasksTimeOut, RadioTurnsOff, TransactionRefused, RadioRestored,
     RestoreFails, RecoveryDone, RecoveryFails, PreparationReturns, RecoveryPcs, RecoveryInv
<1>4. CASE Choose \/ (\E d \in Devices : Dispatch(d)) \/ Begin \/ Open \/ Finish
  <2>1. worker \notin RecoveryPcs
    BY <1>4 DEF Choose, LeaveLoop, AwaitRetry, WakeForQueue, Dispatch, Begin, BeginCancelled,
       BeginUnavailable, BeginAttempt, PreviousFinished, PreviousTimesOut, Open,
       PreparedLost, PreparationFailed, PreparedOk, LookupEnds, LookupThrows, CreateLost,
       CreateFails, CreateTaken, StartDone, StartFails, OpenDone, OpenFails, StepFails,
       OpenedWaitEnds, Finish, FinalLost, CommitConnected, FinalFailed, AttemptReturned,
       AttemptThrew, WorkerTail, RecoveryPcs
  <2>2. UNCHANGED inProgress
    BY <1>4 DEF Choose, LeaveLoop, AwaitRetry, WakeForQueue, Dispatch, Begin, BeginCancelled,
       BeginUnavailable, BeginAttempt, PreviousFinished, PreviousTimesOut, Open,
       PreparedLost, PreparationFailed, PreparedOk, LookupEnds, LookupThrows, CreateLost,
       CreateFails, CreateTaken, StartDone, StartFails, OpenDone, OpenFails, StepFails,
       OpenedWaitEnds, Finish, FinalLost, CommitConnected, FinalFailed, AttemptReturned,
       AttemptThrew, WorkerTail, Conclude
  <2> QED
    BY <1>2, <2>1, <2>2
<1>5. CASE UserOrList
  <2>1. PICK d \in Devices : \/ QuickConnect(d) \/ ForceConnect(d) \/ DisconnectDevice(d)
                             \/ DeviceAdded(d) \/ DeviceRemoved(d)
    BY <1>5 DEF UserOrList
  <2>2. UNCHANGED inProgress /\ (worker' = worker \/ worker = "idle")
    BY <2>1 DEF QuickConnect, ForceConnect, DisconnectDevice, DeviceAdded, DeviceRemoved,
       PushRequest
  <2> QED
    BY <1>1, <1>2, <2>2 DEF RecoveryPcs
<1>6. CASE \/ UNCHANGED vars \/ ShutdownDrained \/ Background \/ BeginShutdown
           \/ \E cb \in callbacks : HandleConnectionClosed(cb)
  BY <1>1, <1>6 DEF vars, ShutdownDrained, Background, BeginShutdown, HandleConnectionClosed,
     CloseReturns, FlowWorkerEnds, VerificationFails, DelayElapses, CreationReady,
     CreationFinishes, LinkOpens, LinkCloses
<1> QED
  BY <1>3, <1>4, <1>5, <1>6 DEF Next, WorkerStep

\* A device whose stream the remote just ended is at rest.
LEMMA ConnectedAtRest ==
  ASSUME TypeInv, ChainInv, SoleInv, NEW d \in Devices, d \in ConnectedDevices
  PROVE  /\ queue[d] = None
         /\ worker \in JobPcs /\ Dev = d => worker = "attempted" /\ job.result = "Success"
<1>1. sessions[d] # None /\ sessions[d].phase = "Connected"
  BY DEF ConnectedDevices
<1>2. queue[d] = None
  BY <1>1 DEF ChainInv, SingleLiveChain, Queued
<1>3. ~(worker \in SessionPcs /\ Dev = d)
  BY <1>1 DEF SoleInv, ChainInv, OwnSessionOpens
<1> QED
  BY <1>1, <1>2, <1>3 DEF SoleInv, JobPcs

\* The generation of a device never falls.
LEMMA GenerationsGrow ==
  ASSUME TypeInv, [Next]_vars, NEW d \in Devices
  PROVE  gen'[d] = gen[d] \/ gen'[d] = gen[d] + 1
<1>1. gen \in [Devices -> Nat]
  BY DEF TypeInv, TypeOK
<1>2. CASE UserOrList
  <2>1. PICK e \in Devices : \/ QuickConnect(e) \/ ForceConnect(e) \/ DisconnectDevice(e)
                             \/ DeviceAdded(e) \/ DeviceRemoved(e)
    BY <1>2 DEF UserOrList
  <2>2. gen' = gen \/ gen' = [gen EXCEPT ![e] = @ + 1]
    BY <2>1 DEF QuickConnect, ForceConnect, DisconnectDevice, DeviceAdded, DeviceRemoved,
       PushRequest
  <2> QED
    BY <1>1, <2>2
<1>3. CASE BeginShutdown
  BY <1>1, <1>3 DEF BeginShutdown
<1>4. CASE Choose \/ (\E e \in Devices : Dispatch(e)) \/ Begin \/ Finish
  BY <1>4 DEF Choose, LeaveLoop, AwaitRetry, WakeForQueue, Dispatch, Begin, BeginCancelled,
     BeginUnavailable, BeginAttempt, PreviousFinished, PreviousTimesOut,
     Finish, FinalLost, CommitConnected, FinalFailed, AttemptReturned,
     AttemptThrew, WorkerTail, Conclude
<1>5. CASE Prepare
  BY <1>5 DEF Prepare, EnsureProtects, EnsureStopped, EnsureStarts, RadioFound, RadioNotFound,
     TasksFinished, TasksTimeOut, RadioTurnsOff, TransactionRefused, RadioRestored,
     RestoreFails, RecoveryDone, RecoveryFails
<1>6. CASE Open
  BY <1>6 DEF Open, PreparedLost, PreparationFailed, PreparedOk, LookupEnds, LookupThrows,
     CreateLost, CreateFails, CreateTaken, StartCreation, StartDone, StartFails, OpenDone,
     OpenFails, StepFails, OpenedWaitEnds
<1>7. CASE \/ UNCHANGED vars \/ ShutdownDrained \/ Background
           \/ \E cb \in callbacks : HandleConnectionClosed(cb)
  BY <1>7 DEF vars, ShutdownDrained, Background, HandleConnectionClosed,
     CloseReturns, FlowWorkerEnds, VerificationFails, DelayElapses, CreationReady,
     CreationFinishes, LinkOpens, LinkCloses
<1> QED
  BY <1>2, <1>3, <1>4, <1>5, <1>6, <1>7 DEF Next, WorkerStep

\* A device at rest is not retried, and stays at rest until a click.
LEMMA NoRetryAtRest ==
  ASSUME NEW d \in Devices, AtRest(d)
  PROVE  ~Retries(d)
  BY DEF AtRest, Retries, JobPcs, SessionPcs

LEMMA RestStays ==
  ASSUME TypeInv, ChainInv, [Next]_vars, NEW d \in suppressed, AtRest(d), ~Clicked(d)
  PROVE  AtRest(d)'
<1>1. d \in Devices
  BY DEF TypeInv, TypeOK
<1>2. queue'[d] = None /\ d \notin pendingAuto'
  BY <1>1, Standings, NoRetryAtRest DEF Standing, AtRest
<1>3. ASSUME worker' \in JobPcs, Dev' = d
      PROVE  \/ Req'.gen # gen'[d]
             \/ worker' = "attempted" /\ job'.result = "Success"
  <2>1. /\ gen[d] \in Nat /\ gen'[d] \in {gen[d], gen[d] + 1}
        /\ worker \in JobPcs => job \in Jobs /\ Req.gen \in Nat
    BY <1>1, GenerationsGrow, InFlight DEF TypeInv, TypeOK, Requests
  <2>2. ASSUME worker \in JobPcs, Dev = d, Req.gen # gen[d], Req'.gen = Req.gen
        PROVE  Req'.gen # gen'[d]
    <3>1. Req.gen <= gen[d]
      BY <2>2 DEF ChainInv, AttemptGeneration
    <3> QED
      BY <2>1, <2>2, <3>1
  <2>3. CASE Stays
    <3>1. worker' = worker /\ job' = job
      BY <1>3, <2>3 DEF Stays
    <3> QED
      BY <1>3, <2>2, <3>1 DEF AtRest, Dev, Req
  <2>4. CASE Goes \/ Returns
    <3>1. worker \in JobPcs \ {"attempted"} /\ Dev = d /\ Req'.gen = Req.gen
      BY <1>3, <2>4 DEF Goes, Returns, SameAttempt, SessionPcs, RecoveryPcs, JobPcs, Dev, Req
    <3> QED
      BY <2>2, <3>1 DEF AtRest
  <2>5. CASE BeginAttempt
    BY <1>3, <2>5 DEF BeginAttempt, AtRest, JobPcs, Dev
  <2>6. ASSUME NEW e \in Devices, Dispatched(e) PROVE FALSE
    <3>1. e = d
      BY <1>3, <2>6 DEF Dispatched, Dev
    <3> QED
      BY <2>6, <3>1 DEF Dispatched, Dispatch, NextRequests, At, Queued, AtRest
  <2> QED
    BY <2>3, <2>4, <2>5, <2>6, AttemptEffects
<1> QED
  BY <1>2, <1>3 DEF AtRest

LEMMA PausedStep ==
  ASSUME TypeInv, ChainInv, SoleInv, PausedAtRest, [Next]_vars
  PROVE  PausedAtRest'
<1> SUFFICES ASSUME NEW d \in suppressed' PROVE AtRest(d)'
  BY DEF PausedAtRest
<1>1. CASE d \in suppressed
  <2>1. d \in Devices
    BY <1>1 DEF TypeInv, TypeOK
  <2>2. ~Clicked(d)
    BY <2>1 DEF Clicked, PushRequest
  <2> QED
    BY <1>1, <2>2, RestStays DEF PausedAtRest
<1>2. CASE d \notin suppressed
  <2>1. d \in Devices /\ RemoteEnds(d)
    <3>1. suppressed' \in SUBSET Devices
      BY TypeStep DEF TypeInv, TypeOK
    <3> QED
      BY <1>2, <3>1, Standings DEF Standing
  <2>2. PICK cb \in callbacks : cb.dev = d /\ ActsOnClosed(cb) /\ HandleConnectionClosed(cb)
    BY <2>1 DEF RemoteEnds
  <2>3. d \in ConnectedDevices
    BY <2>1, <2>2 DEF ActsOnClosed, ConnectedDevices
  <2>4. /\ UNCHANGED <<queue, gen, worker, job>> /\ pendingAuto' = pendingAuto \ {d}
    BY <2>2 DEF HandleConnectionClosed
  <2> QED
    BY <2>1, <2>3, <2>4, ConnectedAtRest DEF AtRest, Dev, Req
<1> QED
  BY <1>1, <1>2

LEMMA PauseHolds == Spec => [](TypeInv /\ ChainInv /\ SoleInv /\ RecoveryInv /\ PausedAtRest)
<1>1. Init => SoleInv /\ RecoveryInv /\ PausedAtRest
  BY DEF Init, SoleInv, RecoveryInv, PausedAtRest, SessionPcs, RecoveryPcs
<1>2. /\ TypeInv /\ ChainInv /\ SoleInv /\ RecoveryInv /\ PausedAtRest /\ [Next]_vars
      => (SoleInv /\ RecoveryInv /\ PausedAtRest)'
  BY SoleStep, RecoveryStep, PausedStep
<1>3. Spec => [](SoleInv /\ RecoveryInv /\ PausedAtRest)
  BY InvariantHolds, <1>1, <1>2, PTL DEF Spec
<1> QED
  BY InvariantHolds, <1>3, PTL

\* While a device's reconnects are suppressed, no request of it is queued, no
\* automatic one is armed, and no attempt in flight can still be retried
\* (ConnectionFlow.hpp, BluetoothRecovery.hpp).
THEOREM SuppressedDevicesRest == Spec => []PausedAtRest
  BY PauseHolds, PTL

\* Only a click on Quick Connect or Force Connect ends the suppression: no
\* retry, no watcher event and no late result does.
SuppressionEndsByClick ==
    [][\A d \in Devices : d \in suppressed /\ d \notin suppressed' => Clicked(d)]_vars

THEOREM ClicksEndSuppression == Spec => SuppressionEndsByClick
<1>1. ASSUME TypeInv, PausedAtRest, [Next]_vars, NEW d \in Devices,
             d \in suppressed, d \notin suppressed'
      PROVE  Clicked(d)
  BY <1>1, Standings, NoRetryAtRest DEF Standing, PausedAtRest
<1>2. TypeInv /\ ChainInv /\ SoleInv /\ RecoveryInv /\ PausedAtRest /\ [Next]_vars =>
        [\A d \in Devices : d \in suppressed /\ d \notin suppressed' => Clicked(d)]_vars
  BY <1>1
<1> QED
  BY PauseHolds, <1>2, PTL DEF Spec, SuppressionEndsByClick

\* With one device, no recovery of another can hide that the remote ended it.
EndedInv == remoteEnded \subseteq suppressed

LEMMA EndedStep ==
  ASSUME \A d, e \in Devices : d = e,
         TypeInv, ChainInv, SoleInv, RecoveryInv, PausedAtRest, EndedInv, [Next]_vars
  PROVE  EndedInv'
<1> SUFFICES ASSUME NEW d \in remoteEnded' PROVE d \in suppressed'
  BY DEF EndedInv
<1>1. d \in Devices
  BY TypeStep DEF TypeInv, TypeOK
<1>2. CASE d \in remoteEnded
  <2>1. d \in suppressed /\ ~Retries(d)
    BY <1>1, <1>2, NoRetryAtRest DEF EndedInv, PausedAtRest
  <2>2. ~Clicked(d)
    BY <1>1 DEF Clicked, PushRequest
  <2> QED
    BY <1>1, <2>1, <2>2, Standings DEF Standing
<1>3. CASE d \notin remoteEnded
  <2>1. RemoteEnds(d)
    BY <1>1, <1>3, Standings DEF Standing
  <2>2. PICK cb \in callbacks : cb.dev = d /\ ActsOnClosed(cb) /\ HandleConnectionClosed(cb)
    BY <2>1 DEF RemoteEnds
  <2>3. d \in ConnectedDevices
    BY <1>1, <2>2 DEF ActsOnClosed, ConnectedDevices
  <2>4. ~inProgress
    <3>1. SUFFICES ASSUME worker \in RecoveryPcs PROVE FALSE
      BY DEF RecoveryInv
    <3>2. worker \in JobPcs /\ worker # "attempted" /\ Dev \in Devices
      BY <3>1, InFlight DEF JobPcs, SessionPcs, RecoveryPcs
    <3>3. Dev = d
      BY <1>1, <3>2
    <3> QED
      BY <1>1, <2>3, <3>2, <3>3, ConnectedAtRest
  <2> QED
    BY <2>2, <2>4 DEF HandleConnectionClosed
<1> QED
  BY <1>2, <1>3

\* After the remote ended a session, no automatic request reclaims playback
\* until the user clicks, provided that Aulay serves a single device
\* (README.md, Features; Aulay.h:202).
THEOREM RemoteEndPauses ==
  ASSUME \A d, e \in Devices : d = e
  PROVE  Spec => []RemoteEndPausesReconnect
<1>1. Init => EndedInv
  BY DEF Init, EndedInv
<1>2. /\ TypeInv /\ ChainInv /\ SoleInv /\ RecoveryInv /\ PausedAtRest /\ EndedInv /\ [Next]_vars
      => EndedInv'
  BY EndedStep
<1>3. PausedAtRest /\ EndedInv => RemoteEndPausesReconnect
  BY DEF PausedAtRest, EndedInv, AtRest, RemoteEndPausesReconnect
<1> QED
  BY PauseHolds, <1>1, <1>2, <1>3, PTL DEF Spec

-----------------------------------------------------------------------------
(* Creations keep to their slots *)

\* The entry of a device in connectionCreations.
Slot(d) == INSTANCE CreationSlot WITH slot <- creation[d]

\* Places of the attempt before its creation starts.
BeforeCreation == RecoveryPcs \cup {"waitPrevious", "ensure", "prepared", "lookup"}

\* A creation that nobody took or gave up has an attempt that waits for it, and the
\* attempt that saw a free slot still finds it free.
SlotInv ==
    /\ \A d \in Devices : creation[d] \in {"running", "ready"} <=> worker = "create" /\ Dev = d
    /\ worker \in BeforeCreation => creation[Dev] = "none"

SlotsStep == SlotInv' /\ \A d \in Devices : [Slot(d)!Next]_(creation[d])

\* The creations are left alone by an attempt that stays where it is, goes on before
\* its creation, or holds none before and after the step.
LEMMA SlotsKept ==
  ASSUME SlotInv, UNCHANGED creation,
         \/ UNCHANGED <<worker, job>>
         \/ worker \in BeforeCreation /\ worker' \in BeforeCreation /\ Dev' = Dev
         \/ worker # "create" /\ worker' \notin BeforeCreation \cup {"create"}
  PROVE  SlotsStep
<1>1. \A d \in Devices : [Slot(d)!Next]_(creation[d])
  OBVIOUS
<1>2. "create" \notin BeforeCreation
  BY DEF BeforeCreation, RecoveryPcs
<1>3. SlotInv'
  BY <1>2 DEF SlotInv, Dev
<1> QED
  BY <1>1, <1>3 DEF SlotsStep

\* The attempt takes its creation or gives it up.
LEMMA SlotReleased ==
  ASSUME TypeInv, SlotInv, worker = "create", creation' = [creation EXCEPT ![Dev] = "released"],
         worker' \notin BeforeCreation \cup {"create"}
  PROVE  SlotsStep
<1>1. Dev \in Devices /\ creation[Dev] \in {"running", "ready"}
  BY InFlight DEF SlotInv, JobPcs, SessionPcs
<1>2. \A d \in Devices : creation'[d] = IF d = Dev THEN "released" ELSE creation[d]
  BY DEF TypeInv, TypeOK
<1>3. \A d \in Devices : [Slot(d)!Next]_(creation[d])
  BY <1>1, <1>2 DEF Slot!Next, Slot!Released
<1>4. SlotInv'
  BY <1>2 DEF SlotInv
<1> QED
  BY <1>3, <1>4 DEF SlotsStep

LEMMA SlotStarts ==
  ASSUME TypeInv, SlotInv, worker \in {"prepared", "lookup"}, NEW h \in BOOLEAN, StartCreation(h)
  PROVE  SlotsStep
<1>1. Dev \in Devices /\ creation[Dev] = "none"
  BY InFlight DEF SlotInv, JobPcs, SessionPcs, BeforeCreation
<1>2. CASE creation' = [creation EXCEPT ![Dev] = "running"] /\ worker' = "create" /\ UNCHANGED job
  <2>1. \A d \in Devices : creation'[d] = IF d = Dev THEN "running" ELSE creation[d]
    BY <1>2 DEF TypeInv, TypeOK
  <2>2. \A d \in Devices : [Slot(d)!Next]_(creation[d])
    BY <1>1, <2>1 DEF Slot!Next, Slot!Starts
  <2>3. Dev' = Dev
    BY <1>2 DEF Dev
  <2>4. SlotInv'
    BY <1>2, <2>1, <2>3 DEF SlotInv, BeforeCreation, RecoveryPcs
  <2> QED
    BY <2>2, <2>4 DEF SlotsStep
<1>3. CASE UNCHANGED creation /\ worker' = "final"
  BY <1>3, SlotsKept DEF BeforeCreation, RecoveryPcs
<1> QED
  BY <1>2, <1>3 DEF StartCreation, AttemptResult

LEMMA SlotMoves ==
  ASSUME TypeInv, SlotInv, NEW d \in Devices, CreationReady(d) \/ CreationFinishes(d)
  PROVE  SlotsStep
<1>1. /\ \A e \in Devices : e # d => creation'[e] = creation[e]
      /\ \/ creation[d] = "running" /\ creation'[d] = "ready"
         \/ creation[d] = "released" /\ creation'[d] = "none"
  BY DEF CreationReady, CreationFinishes, TypeInv, TypeOK
<1>2. UNCHANGED <<worker, job>> /\ Dev' = Dev
  BY DEF CreationReady, CreationFinishes, Dev
<1>3. \A e \in Devices : [Slot(e)!Next]_(creation[e])
  BY <1>1 DEF Slot!Next, Slot!Ready, Slot!Finishes
<1>4. worker \in BeforeCreation => Dev \in Devices
  BY InFlight DEF BeforeCreation, JobPcs, SessionPcs
<1>5. SlotInv'
  BY <1>1, <1>2, <1>4 DEF SlotInv
<1> QED
  BY <1>3, <1>5 DEF SlotsStep

LEMMA SlotStep ==
  ASSUME TypeInv, SlotInv, [Next]_vars
  PROVE  SlotsStep
<1>1. CASE \/ UNCHANGED vars \/ ShutdownDrained \/ BeginShutdown
           \/ \E cb \in callbacks : HandleConnectionClosed(cb)
  BY <1>1, SlotsKept DEF vars, ShutdownDrained, BeginShutdown, HandleConnectionClosed
<1>2. CASE Background
  BY <1>2, SlotsKept, SlotMoves DEF Background, CloseReturns, FlowWorkerEnds, VerificationFails,
     DelayElapses, LinkOpens, LinkCloses
<1>3. CASE UserOrList
  <2>1. PICK d \in Devices : \/ QuickConnect(d) \/ ForceConnect(d) \/ DisconnectDevice(d)
                             \/ DeviceAdded(d) \/ DeviceRemoved(d)
    BY <1>3 DEF UserOrList
  <2>2. UNCHANGED <<creation, job>> /\ (worker' = worker \/ (worker = "idle" /\ worker' = "loop"))
    BY <2>1 DEF QuickConnect, ForceConnect, DisconnectDevice, DeviceAdded, DeviceRemoved,
       PushRequest
  <2> QED
    BY <2>2, SlotsKept DEF BeforeCreation, RecoveryPcs
<1>4. CASE Choose \/ \E d \in Devices : Dispatch(d)
  <2>1. /\ UNCHANGED creation /\ worker # "create"
        /\ worker' \in {"loop", "tail", "waitDue", "begin"}
    BY <1>4 DEF Choose, LeaveLoop, AwaitRetry, WakeForQueue, Dispatch
  <2> QED
    BY <2>1, SlotsKept DEF BeforeCreation, RecoveryPcs
<1>5. CASE Begin
  <2>1. CASE BeginAttempt
    <3>1. /\ UNCHANGED <<creation, job>> /\ worker = "begin" /\ worker' = "waitPrevious"
          /\ creation[Dev] = "none"
      BY <2>1 DEF BeginAttempt
    <3>2. SlotInv'
      BY <3>1 DEF SlotInv, Dev
    <3> QED
      BY <3>1, <3>2 DEF SlotsStep
  <2>2. CASE BeginCancelled \/ BeginUnavailable \/ PreviousTimesOut
    <3>1. UNCHANGED creation /\ worker # "create" /\ worker' \in {"attempted", "threw"}
      BY <2>2 DEF BeginCancelled, BeginUnavailable, PreviousTimesOut, AttemptEnds
    <3> QED
      BY <3>1, SlotsKept DEF BeforeCreation, RecoveryPcs
  <2>3. CASE PreviousFinished
    <3>1. UNCHANGED creation /\ worker = "waitPrevious" /\ job \in Jobs
      BY <2>3, InFlight DEF PreviousFinished, JobPcs, SessionPcs
    <3>2. CASE worker' = "attempted"
      BY <3>1, <3>2, SlotsKept DEF BeforeCreation, RecoveryPcs
    <3>3. CASE worker' \in {"prepared", "ensure"}
      <4>1. Dev' = Dev
        BY <2>3, <3>1, <3>3 DEF PreviousFinished, AttemptEnds, Jobs, Dev
      <4> QED
        BY <3>1, <3>3, <4>1, SlotsKept DEF BeforeCreation
    <3> QED
      BY <2>3, <3>2, <3>3 DEF PreviousFinished, AttemptEnds
  <2> QED
    BY <1>5, <2>1, <2>2, <2>3 DEF Begin
<1>6. CASE Prepare
  <2>1. UNCHANGED creation
    BY <1>6 DEF Prepare, EnsureProtects, EnsureStopped, EnsureStarts, RadioFound, RadioNotFound,
       TasksFinished, TasksTimeOut, RadioTurnsOff, TransactionRefused, RadioRestored,
       RestoreFails, RecoveryDone, RecoveryFails
  <2>2. worker \in BeforeCreation /\ worker' \in BeforeCreation /\ Dev' = Dev
    BY <1>6, PrepareAttempt DEF BeforeCreation, Dev
  <2> QED
    BY <2>1, <2>2, SlotsKept
<1>7. CASE Open
  <2>1. CASE CreateLost \/ CreateFails \/ \E c \in Conns : CreateTaken(c)
    BY <2>1, SlotReleased DEF CreateLost, CreateFails, CreateTaken, AttemptEnds, AttemptResult,
       BeforeCreation, RecoveryPcs
  <2>2. CASE \E h \in BOOLEAN : StartCreation(h) /\ worker \in {"prepared", "lookup"}
    BY <2>2, SlotStarts
  <2>3. CASE PreparedOk /\ worker' = "lookup" /\ UNCHANGED <<creation, job>>
    BY <2>3, SlotsKept DEF PreparedOk, BeforeCreation, Dev
  <2>4. CASE UNCHANGED creation /\ worker # "create" /\ worker' \notin BeforeCreation \cup {"create"}
    BY <2>4, SlotsKept
  <2>5. PreparedOk => \/ worker' = "lookup" /\ UNCHANGED <<creation, job>>
                      \/ StartCreation(TRUE) /\ worker = "prepared"
    BY DEF PreparedOk
  <2>6. LookupEnds => \/ \E h \in BOOLEAN : StartCreation(h) /\ worker = "lookup"
                      \/ UNCHANGED creation /\ worker = "lookup" /\ worker' = "attempted"
    <3>1. LookupEnds => Req.device \in BOOLEAN
      BY InFlight DEF LookupEnds, JobPcs, SessionPcs, Requests
    <3> QED
      BY <3>1 DEF LookupEnds, AttemptEnds
  <2>7. ASSUME \/ PreparedLost \/ PreparationFailed \/ LookupThrows \/ StartDone \/ StartFails
               \/ OpenDone \/ OpenFails \/ OpenedWaitEnds
        PROVE  /\ UNCHANGED creation /\ worker # "create"
               /\ worker' \in {"attempted", "threw", "open", "waitOpened", "final"}
    BY <2>7 DEF PreparedLost, PreparationFailed, LookupThrows, StartDone, StartFails,
       OpenDone, OpenFails, StepFails, OpenedWaitEnds, AttemptEnds, AttemptResult
  <2>8. {"attempted", "threw", "open", "waitOpened", "final"} \cap
           (BeforeCreation \cup {"create"}) = {}
    BY DEF BeforeCreation, RecoveryPcs
  <2> QED
    BY <1>7, <2>1, <2>2, <2>3, <2>4, <2>5, <2>6, <2>7, <2>8 DEF Open
<1>8. CASE Finish
  <2>1. /\ UNCHANGED creation /\ worker # "create"
        /\ worker' \in {"attempted", "loop", "idle"}
    BY <1>8 DEF Finish, FinalLost, CommitConnected, FinalFailed, AttemptReturned,
       AttemptThrew, Conclude, WorkerTail, AttemptEnds
  <2> QED
    BY <2>1, SlotsKept DEF BeforeCreation, RecoveryPcs
<1> QED
  BY <1>1, <1>2, <1>3, <1>4, <1>5, <1>6, <1>7, <1>8 DEF Next, WorkerStep

LEMMA SlotHolds == Spec => [](TypeInv /\ SlotInv)
<1>1. Init => SlotInv
  BY DEF Init, SlotInv, BeforeCreation, RecoveryPcs
<1>2. TypeInv /\ SlotInv /\ [Next]_vars => SlotInv'
  BY SlotStep DEF SlotsStep
<1> QED
  BY InvariantHolds, <1>1, <1>2, PTL DEF Spec

\* One device's entry.
LEMMA SlotRefined == ASSUME NEW d \in Devices PROVE Spec => Slot(d)!Spec
<1>1. Init => Slot(d)!Init
  BY DEF Init, Slot!Init
<1>2. TypeInv /\ SlotInv /\ [Next]_vars => [Slot(d)!Next]_(creation[d])
  BY SlotStep DEF SlotsStep
<1> QED
  BY SlotHolds, <1>1, <1>2, PTL DEF Spec, Slot!Spec

\* The flow uses each device's entry in connectionCreations as CreationSlot allows:
\* no creation starts while one is in its place, and a creation is released once.
\* ConnectionCreation implements the same slot in detail (ConnectionCreation.hpp).
THEOREM UsesSlots == Spec => \A d \in Devices : Slot(d)!Spec
  BY SlotRefined

-----------------------------------------------------------------------------
(* Sessions and their ends form a chain *)

ChainStays(d) == ChainSession(d)' = ChainSession(d) /\ closing'[d] = closing[d]

\* A step of one device's chain.
LEMMA ChainUntouched ==
  ASSUME NEW d \in Devices, ChainStays(d)
  PROVE  [Chain(d)!Next]_(Chain(d)!vars)
  BY DEF ChainStays, Chain!vars

\* CloseSessions leaves a close behind for each session it ends.
LEMMA ChainOfEnd ==
  ASSUME TypeInv, NEW d \in Devices, Ends
  PROVE  [Chain(d)!Next]_(Chain(d)!vars)
<1>1. PICK ds \in SUBSET Devices, skip \in BOOLEAN :
        (\A e \in ds : sessions[e] # None) /\ CloseSessions(ds, skip)
  BY DEF Ends
<1>2. closing[d] \in Seq(Closings)
  BY DEF TypeInv, TypeOK
<1>3. CASE d \in ds
  <2>1. sessions[d] # None /\ sessions'[d] = None
    BY <1>1, <1>3 DEF CloseSessions
  <2>2. \E e : closing'[d] = Append(closing[d], e)
    BY <1>1, <1>3 DEF CloseSessions
  <2>3. Len(closing'[d]) = Len(closing[d]) + 1
    BY <1>2, <2>2
  <2>4. Len(closing[d])' = Len(closing[d]) + 1
    BY <2>3
  <2>5. Chain(d)!Ends
    BY <2>1, <2>4 DEF Chain!Ends, ChainSession
  <2> QED
    BY <2>5 DEF Chain!Next
<1>4. CASE d \notin ds
  <2>1. sessions'[d] = sessions[d] /\ closing'[d] = closing[d]
    BY <1>1, <1>4 DEF CloseSessions
  <2> QED
    BY <2>1, ChainUntouched DEF ChainStays, ChainSession
<1> QED
  BY <1>3, <1>4

\* A close is over when its link is closed and its task has ended.
LEMMA ChainOfOver ==
  ASSUME TypeInv, NEW d \in Devices, NEW e \in Devices, CloseReturns(e) \/ FlowWorkerEnds(e)
  PROVE  [Chain(d)!Next]_(Chain(d)!vars)
<1>1. closing \in [Devices -> Seq(Closings)] /\ closing[e] # <<>> /\ UNCHANGED sessions
  BY DEF CloseReturns, FlowWorkerEnds, TypeInv, TypeOK
<1>2. CASE e # d
  <2>1. closing'[d] = closing[d]
    BY <1>1, <1>2 DEF CloseReturns, FlowWorkerEnds
  <2> QED
    BY <1>1, <2>1, ChainUntouched DEF ChainStays, ChainSession
<1>3. CASE e = d
  <2>1. \/ closing'[d] = Tail(closing[d])
        \/ \E c \in Closings : closing'[d] = <<c>> \o Tail(closing[d])
    <3>1. Head(closing[d]) \in Closings
      BY <1>1, <1>3
    <3>2. /\ [Head(closing[d]) EXCEPT !.closed = TRUE] \in Closings
          /\ [Head(closing[d]) EXCEPT !.worker = FALSE] \in Closings
      BY <3>1 DEF Closings
    <3> QED
      BY <1>1, <1>3, <3>2 DEF CloseReturns, FlowWorkerEnds
  <2>2. Tail(closing[d]) \in Seq(Closings) /\ Len(Tail(closing[d])) = Len(closing[d]) - 1
        /\ Len(closing[d]) \in Nat /\ Len(closing[d]) > 0
    BY <1>1, <1>3
  <2>3. \/ Len(closing'[d]) = Len(closing[d]) - 1
        \/ Len(closing'[d]) = Len(closing[d])
    <3>1. CASE closing'[d] = Tail(closing[d])
      BY <2>2, <3>1
    <3>2. ASSUME NEW c \in Closings, closing'[d] = <<c>> \o Tail(closing[d])
          PROVE  Len(closing'[d]) = Len(closing[d])
      <4>1. <<c>> \in Seq(Closings) /\ Len(<<c>>) = 1
        OBVIOUS
      <4>2. Len(<<c>> \o Tail(closing[d])) = 1 + Len(Tail(closing[d]))
        BY <2>2, <4>1
      <4> QED
        BY <2>2, <3>2, <4>2
    <3> QED
      BY <2>1, <3>1, <3>2
  <2>4. \/ Len(closing[d])' = Len(closing[d]) - 1
        \/ Len(closing[d])' = Len(closing[d])
    BY <2>3
  <2>5. ChainSession(d)' = ChainSession(d)
    BY <1>1 DEF ChainSession
  <2>6. CASE Len(closing[d])' = Len(closing[d]) - 1
    BY <2>2, <2>5, <2>6 DEF Chain!Next, Chain!Over
  <2>7. CASE Len(closing[d])' = Len(closing[d])
    BY <2>5, <2>7 DEF Chain!vars
  <2> QED
    BY <2>4, <2>6, <2>7
<1> QED
  BY <1>2, <1>3

\* An attempt puts a session without a link in its place.
LEMMA ChainOfAttempt ==
  ASSUME TypeInv, NEW d \in Devices, BeginAttempt
  PROVE  [Chain(d)!Next]_(Chain(d)!vars)
<1>1. /\ Dev \in Devices /\ sessions[Dev] = None /\ UNCHANGED closing
      /\ sessions \in [Devices -> Sessions \cup {None}]
  BY InFlight DEF BeginAttempt, JobPcs, TypeInv, TypeOK
<1>2. PICK p : sessions' = [sessions EXCEPT ![Dev] = [gen |-> Req.gen, conn |-> None, phase |-> p]]
  BY DEF BeginAttempt
<1>3. CASE d = Dev
  <2> DEFINE s == [gen |-> Req.gen, conn |-> None, phase |-> p]
  <2>1. sessions'[d] = s /\ s.conn = None
    BY <1>1, <1>2, <1>3
  <2>2. s \in Sessions
    <3>1. p \in Phases
      BY <1>1, <1>2 DEF BeginAttempt, Phases
    <3> QED
      BY <1>1, <3>1, InFlight DEF Sessions, BeginAttempt, JobPcs, Requests
  <2>3. sessions'[d] # None
    BY <2>1, <2>2
  <2> HIDE DEF s
  <2>4. Chain(d)!Begins
    BY <1>1, <1>3, <2>1, <2>3 DEF Chain!Begins, ChainSession
  <2> QED
    BY <2>4 DEF Chain!Next
<1>4. CASE d # Dev
  BY <1>1, <1>2, <1>4, ChainUntouched DEF ChainStays, ChainSession
<1> QED
  BY <1>3, <1>4

\* The session gets its link, when nothing of an earlier one is pending.
LEMMA ChainOfLink ==
  ASSUME TypeInv, SerialInv, NEW d \in Devices, NEW c \in Conns, CreateTaken(c)
  PROVE  [Chain(d)!Next]_(Chain(d)!vars)
<1>1. /\ Dev \in Devices /\ sessions[Dev] \in Sessions /\ sessions[Dev] # None /\ UNCHANGED closing
      /\ sessions \in [Devices -> Sessions \cup {None}] /\ worker = "create" /\ Current
      /\ sessions' = [sessions EXCEPT ![Dev].conn = c]
  BY InFlight DEF CreateTaken, Lost, Current, TypeInv, TypeOK, JobPcs, SessionPcs
<1>2. closing[Dev] = <<>> /\ sessions[Dev].conn = None
  BY <1>1 DEF SerialInv, SessionPcs, EarlyPcs
<1>3. CASE d = Dev
  <2> DEFINE s == [sessions[d] EXCEPT !.conn = c]
  <2>1. sessions'[d] = s /\ s \in Sessions /\ s.conn = c
    BY <1>1, <1>3 DEF Sessions
  <2> HIDE DEF s
  <2>2. sessions'[d] # None /\ sessions'[d].conn # None
    BY <2>1
  <2>3. Chain(d)!Links
    BY <1>1, <1>2, <1>3, <2>2 DEF Chain!Links, ChainSession
  <2> QED
    BY <2>3 DEF Chain!Next
<1>4. CASE d # Dev
  BY <1>1, <1>4, ChainUntouched DEF ChainStays, ChainSession
<1> QED
  BY <1>3, <1>4

\* Phases of a session do not matter to the chain.
LEMMA ChainOfPhase ==
  ASSUME TypeInv, NEW d \in Devices, Moves
  PROVE  [Chain(d)!Next]_(Chain(d)!vars)
<1>1. PICK p \in Phases : sessions' = [sessions EXCEPT ![Dev].phase = p]
  BY DEF Moves
<1>2. /\ sessions[Dev] # None /\ UNCHANGED closing
      /\ sessions \in [Devices -> Sessions \cup {None}]
  BY DEF Moves, Current, TypeInv, TypeOK
<1>3. CASE d = Dev
  <2> DEFINE s == [sessions[d] EXCEPT !.phase = p]
  <2>1. sessions'[d] = s /\ s \in Sessions /\ s.conn = sessions[d].conn
    BY <1>1, <1>2, <1>3 DEF Sessions
  <2> HIDE DEF s
  <2> QED
    BY <1>2, <1>3, <2>1, ChainUntouched DEF ChainStays, ChainSession
<1>4. CASE d # Dev
  BY <1>1, <1>2, <1>4, ChainUntouched DEF ChainStays, ChainSession
<1> QED
  BY <1>3, <1>4

\* Every step is one of these, or leaves sessions and closes alone.
LEMMA ChainOfStep ==
  ASSUME TypeInv, SerialInv, [Next]_vars, NEW d \in Devices
  PROVE  [Chain(d)!Next]_(Chain(d)!vars)
<1>1. CASE Rests \/ \E c \in Conns : LinkOpens(c) \/ LinkCloses(c)
  <2>1. UNCHANGED <<sessions, closing>>
    BY <1>1 DEF Rests, LinkOpens, LinkCloses
  <2> QED
    BY <2>1, ChainUntouched DEF ChainStays, ChainSession
<1> QED
  BY <1>1, Effects, ChainOfEnd, ChainOfOver, ChainOfAttempt, ChainOfLink, ChainOfPhase

\* The sessions and closes of each device are a CloseChain: the property that the
\* runs check, and the specification of every single device (ConnectionFlow.hpp).
THEOREM CloseChainImplemented ==
    Spec => ImplementsCloseChain /\ \A d \in Devices : Chain(d)!Spec
<1>1. Init => \A d \in Devices : Chain(d)!Init
  BY DEF Init, Chain!Init, ChainSession
<1>2. TypeInv /\ ChainInv /\ SerialInv /\ ResetInv /\ [Next]_vars =>
          \A d \in Devices : [Chain(d)!Next]_(Chain(d)!vars)
  BY ChainOfStep
<1>3. Spec => ImplementsCloseChain
  <2>1. TypeInv /\ ChainInv /\ SerialInv /\ ResetInv /\ [Next]_vars =>
          [\A d \in Devices : [Chain(d)!Next]_(Chain(d)!vars)]_vars
    BY <1>2
  <2> QED
    BY LinksHold, <1>1, <2>1, PTL DEF Spec, ImplementsCloseChain
<1>4. ASSUME NEW d \in Devices PROVE Spec => Chain(d)!Spec
  <2>1. Init => Chain(d)!Init
    BY <1>1
  <2>2. TypeInv /\ ChainInv /\ SerialInv /\ ResetInv /\ [Next]_vars =>
          [Chain(d)!Next]_(Chain(d)!vars)
    BY <1>2
  <2> QED
    BY LinksHold, <2>1, <2>2, PTL DEF Spec, Chain!Spec
<1> QED
  BY <1>3, <1>4

-----------------------------------------------------------------------------
(* Closed links are noticed *)

\* Places of the worker at which its session has a connection object.
Linked == \/ worker \in {"start", "open", "waitOpened"}
          \/ worker = "final" /\ job.result = "Success"

LinkedInv == Linked /\ Current => sessions[Dev].conn # None

\* The link of a session has its handler registered with the session's generation.
HandlerInv ==
    \A d \in Devices : sessions[d] # None =>
        /\ sessions[d].conn # None => links[sessions[d].conn].gen = sessions[d].gen
        /\ sessions[d].phase = "Connected" => sessions[d].conn # None

\* The callback that the link of a session posts when it closes.
ClosedOf(d) == [dev |-> d, gen |-> sessions[d].gen, conn |-> sessions[d].conn]

\* A Connected session streams, or the callback that will retire it is on its way.
ClosuresAreNoticed == \A d \in ConnectedDevices : Streaming(d) \/ ClosedOf(d) \in callbacks

\* What a step makes of a session, except of the one that takes a new link.
Fate(d) ==
    \/ sessions'[d] = None
    \/ sessions'[d] # None /\ sessions'[d].conn = None /\ sessions'[d].phase # "Connected"
    \/ /\ sessions[d] # None /\ sessions'[d] # None
       /\ sessions'[d].gen = sessions[d].gen /\ sessions'[d].conn = sessions[d].conn
       /\ sessions'[d].phase = "Connected" =>
              sessions[d].phase = "Connected" \/ (CommitConnected /\ d = Dev)

LEMMA Fates ==
  ASSUME TypeInv, [Next]_vars, \A c \in Conns : ~CreateTaken(c), NEW d \in Devices
  PROVE  Fate(d)
<1>1. CASE Rests \/ \E c \in Conns : LinkOpens(c) \/ LinkCloses(c)
  <2>1. UNCHANGED sessions
    BY <1>1 DEF Rests, LinkOpens, LinkCloses
  <2> QED
    BY <2>1 DEF Fate
<1>2. CASE Ends
  BY <1>2, EndsHandOver DEF Fate
<1>3. CASE Moves
  <2>1. /\ sessions[Dev] # None /\ sessions'[Dev] # None
        /\ sessions'[Dev].conn = sessions[Dev].conn
        /\ sessions'[Dev].phase = "Connected" => CommitConnected
        /\ \A e \in Devices : e # Dev => sessions'[e] = sessions[e]
    BY <1>3, MovesOwn
  <2>2. sessions'[Dev].gen = sessions[Dev].gen
    <3>1. Dev \in Devices /\ sessions \in [Devices -> Sessions \cup {None}]
      BY <1>3, MovesOwn DEF TypeInv, TypeOK
    <3>2. PICK p \in Phases : sessions' = [sessions EXCEPT ![Dev].phase = p]
      BY <1>3 DEF Moves
    <3> DEFINE moved == [sessions[Dev] EXCEPT !.phase = p]
    <3>3. sessions'[Dev] = moved
      BY <3>1, <3>2
    <3>4. moved.gen = sessions[Dev].gen
      BY <2>1, <3>1 DEF Sessions
    <3> QED
      BY <3>3, <3>4
  <2> QED
    BY <2>1, <2>2 DEF Fate
<1>4. CASE BeginAttempt
  BY <1>4, BeginsOwn DEF Fate
<1>5. CASE \E e \in Devices : CloseReturns(e) \/ FlowWorkerEnds(e)
  <2>1. UNCHANGED sessions
    BY <1>5 DEF CloseReturns, FlowWorkerEnds
  <2> QED
    BY <2>1 DEF Fate
<1> QED
  BY <1>1, <1>2, <1>3, <1>4, <1>5, Effects

\* What it makes of a link that a session holds before and after.
LEMMA HeldLinks ==
  ASSUME TypeInv, TypeInv', OwnerInv', [Next]_vars, \A c \in Conns : ~CreateTaken(c),
         NEW d \in Devices, sessions'[d] # None, NEW c \in Conns, sessions'[d].conn = c
  PROVE  \/ links'[c] = links[c]
         \/ /\ LinkOpens(c) \/ LinkCloses(c)
            /\ links[c] # None /\ links'[c] # None
            /\ links'[c].gen = links[c].gen
            /\ links'[c].open <=> LinkOpens(c)
<1>1. links \in [Conns -> Links \cup {None}] /\ links'[c] # None
  BY DEF TypeInv, TypeOK, OwnerInv, Owns
<1>2. CASE Rests \/ Moves \/ BeginAttempt \/ Ends
  BY <1>2, EndsHandOver DEF Rests, Moves, BeginAttempt
<1>3. CASE \E e \in Devices : CloseReturns(e) \/ FlowWorkerEnds(e)
  <2>1. UNCHANGED links \/ \E l : links' = [links EXCEPT ![l] = None]
    BY <1>3 DEF CloseReturns, FlowWorkerEnds
  <2> QED
    BY <1>1, <2>1
<1>4. ASSUME NEW l \in Conns, LinkOpens(l) \/ LinkCloses(l), l # c PROVE links'[c] = links[c]
  BY <1>4, LinkChanges
<1>5. CASE LinkOpens(c) \/ LinkCloses(c)
  <2>1. links[c] \in Links /\ links[c] # None
    BY <1>1, <1>5 DEF LinkOpens, LinkCloses
  <2>2. PICK b \in BOOLEAN : links' = [links EXCEPT ![c].open = b] /\ (b <=> ~links[c].open)
    BY <1>5, <2>1 DEF LinkOpens, LinkCloses
  <2>3. LinkOpens(c) <=> b
    BY <1>5, <2>2 DEF LinkOpens, LinkCloses
  <2> DEFINE changed == [links[c] EXCEPT !.open = b]
  <2>4. links'[c] = changed
    BY <1>1, <2>2
  <2>5. changed.gen = links[c].gen /\ changed.open = b
    BY <2>1 DEF Links
  <2> HIDE DEF changed
  <2> QED
    BY <1>1, <1>5, <2>1, <2>3, <2>4, <2>5
<1> QED
  BY <1>2, <1>3, <1>4, <1>5, Effects

\* Only the handler takes a callback away.
LEMMA CallbacksStay ==
  ASSUME [Next]_vars, NEW cb \in callbacks, ~HandleConnectionClosed(cb)
  PROVE  cb \in callbacks'
<1>1. CASE UNCHANGED vars \/ ShutdownDrained \/ BeginShutdown
  BY <1>1 DEF vars, ShutdownDrained, BeginShutdown
<1>2. CASE \E other \in callbacks : HandleConnectionClosed(other)
  BY <1>2 DEF HandleConnectionClosed
<1>3. CASE Background
  BY <1>3 DEF Background, CloseReturns, FlowWorkerEnds, VerificationFails, DelayElapses,
     CreationReady, CreationFinishes, LinkOpens, LinkCloses
<1>4. CASE UserOrList
  BY <1>4 DEF UserOrList, QuickConnect, ForceConnect, DisconnectDevice, DeviceAdded,
     DeviceRemoved
<1>5. CASE Choose \/ Begin \/ \E d \in Devices : Dispatch(d)
  BY <1>5 DEF Choose, LeaveLoop, AwaitRetry, WakeForQueue, Dispatch, Begin, BeginCancelled,
     BeginUnavailable, BeginAttempt, PreviousFinished, PreviousTimesOut
<1>6. CASE Prepare
  BY <1>6 DEF Prepare, EnsureProtects, EnsureStopped, EnsureStarts, RadioFound,
     RadioNotFound, TasksFinished, TasksTimeOut, RadioTurnsOff, TransactionRefused,
     RadioRestored, RestoreFails, RecoveryDone, RecoveryFails
<1>7. CASE Open
  BY <1>7 DEF Open, PreparedLost, PreparationFailed, PreparedOk, LookupEnds, LookupThrows,
     CreateLost, CreateTaken, CreateFails, StartDone, StartFails, OpenDone, OpenFails,
     StepFails, OpenedWaitEnds, StartCreation
<1>8. CASE Finish
  BY <1>8 DEF Finish, FinalLost, FinalFailed, CommitConnected, AttemptReturned, AttemptThrew,
     Conclude, WorkerTail
<1> QED
  BY <1>1, <1>2, <1>3, <1>4, <1>5, <1>6, <1>7, <1>8 DEF Next, WorkerStep

\* The worker gets to these places by taking a link, and stays there with its attempt.
LEMMA LinkedEntered ==
  ASSUME TypeInv, [Next]_vars, Linked', \A c \in Conns : ~CreateTaken(c)
  PROVE  Linked /\ job'.dev = job.dev /\ job'.req.gen = job.req.gen
<1>1. worker' \in {"start", "open", "waitOpened", "final"}
  BY DEF Linked
<1>2. CASE UNCHANGED <<worker, job>>
  BY <1>2 DEF Linked
<1>3. worker \in JobPcs => job \in Jobs
  BY InFlight
<1>4. CASE StartDone \/ OpenDone \/ OpenedWaitEnds
  BY <1>1, <1>3, <1>4 DEF StartDone, OpenDone, OpenedWaitEnds, AttemptResult, AttemptEnds,
     Linked, Jobs, JobPcs, SessionPcs
<1>5. CASE ~UNCHANGED <<worker, job>> /\ ~StartDone /\ ~OpenDone /\ ~OpenedWaitEnds
  <2>1. CASE UNCHANGED vars \/ ShutdownDrained \/ BeginShutdown
             \/ \E cb \in callbacks : HandleConnectionClosed(cb)
    BY <1>5, <2>1 DEF vars, ShutdownDrained, BeginShutdown, HandleConnectionClosed
  <2>2. CASE Background
    BY <1>5, <2>2 DEF Background, CloseReturns, FlowWorkerEnds, VerificationFails,
       DelayElapses, CreationReady, CreationFinishes, LinkOpens, LinkCloses
  <2>3. CASE UserOrList
    BY <1>1, <1>5, <2>3 DEF UserOrList, QuickConnect, ForceConnect, DisconnectDevice,
       DeviceAdded, DeviceRemoved, PushRequest
  <2>4. CASE Choose \/ Begin \/ \E d \in Devices : Dispatch(d)
    BY <1>1, <1>5, <2>4 DEF Choose, LeaveLoop, AwaitRetry, WakeForQueue, Dispatch, Begin,
       BeginCancelled, BeginUnavailable, BeginAttempt, PreviousFinished, PreviousTimesOut,
       AttemptEnds
  <2>5. CASE Prepare
    BY <1>1, <1>5, <2>5 DEF Prepare, EnsureProtects, EnsureStopped, EnsureStarts, RadioFound,
       RadioNotFound, TasksFinished, TasksTimeOut, RadioTurnsOff, TransactionRefused,
       RadioRestored, RestoreFails, RecoveryDone, RecoveryFails, PreparationReturns
  <2>6. CASE Open
    <3>1. \/ worker' = "final" /\ job'.result # "Success"
          \/ worker' \notin {"start", "open", "waitOpened", "final"}
      <4>1. CASE \/ PreparedOk \/ LookupEnds \/ CreateFails \/ StartFails \/ OpenFails
        <5>1. ASSUME worker' = "final"
              PROVE  \E r \in {"Failed", "Denied", "Cancelled"} : job' = [job EXCEPT !.result = r]
          BY <4>1, <5>1 DEF PreparedOk, LookupEnds, CreateFails, StartFails, OpenFails,
             StepFails, StartCreation, AttemptEnds, AttemptResult
        <5>2. worker \in JobPcs
          BY <4>1 DEF PreparedOk, LookupEnds, CreateFails, StartFails, OpenFails, StepFails,
             JobPcs, SessionPcs
        <5>3. worker' = "final" => job'.result # "Success"
          BY <1>3, <5>1, <5>2 DEF Jobs
        <5>4. worker' \notin {"start", "open", "waitOpened"}
          BY <4>1 DEF PreparedOk, LookupEnds, CreateFails, StartFails, OpenFails, StepFails,
             StartCreation, AttemptEnds, AttemptResult
        <5> QED
          BY <5>3, <5>4
      <4>2. CASE PreparedLost \/ PreparationFailed \/ LookupThrows \/ CreateLost
        BY <4>2 DEF PreparedLost, PreparationFailed, LookupThrows, CreateLost, AttemptEnds
      <4> QED
        BY <1>5, <2>6, <4>1, <4>2 DEF Open
    <3> QED
      BY <3>1 DEF Linked
  <2>7. CASE Finish
    BY <1>1, <2>7 DEF Finish, FinalLost, FinalFailed, CommitConnected, AttemptReturned,
       AttemptThrew, Conclude, WorkerTail, AttemptEnds
  <2> QED
    BY <2>1, <2>2, <2>3, <2>4, <2>5, <2>6, <2>7 DEF Next, WorkerStep
<1> QED
  BY <1>2, <1>4, <1>5

\* What the attempt's session becomes when it takes its link.
LEMMA TakesLink ==
  ASSUME TypeInv, ChainInv, NEW c \in Conns, CreateTaken(c)
  PROVE  /\ Dev \in Devices /\ Dev' = Dev /\ Req' = Req
         /\ sessions'[Dev].conn = c /\ sessions'[Dev].gen = Req.gen
         /\ sessions'[Dev].phase # "Connected"
         /\ links[c] = None /\ links'[c].gen = Req.gen
         /\ \A d \in Devices : d # Dev => sessions'[d] = sessions[d]
         /\ \A l \in Conns : l # c => links'[l] = links[l]
         /\ UNCHANGED callbacks
<1>1. /\ Dev \in Devices /\ sessions[Dev] \in Sessions /\ worker = "create" /\ Current
      /\ sessions \in [Devices -> Sessions \cup {None}] /\ links \in [Conns -> Links \cup {None}]
      /\ sessions' = [sessions EXCEPT ![Dev].conn = c] /\ links[c] = None
      /\ links' = [links EXCEPT ![c] = [dev |-> Dev, gen |-> Req.gen, open |-> FALSE]]
      /\ UNCHANGED <<callbacks, job>>
  BY InFlight DEF CreateTaken, FreeConns, Lost, Current, TypeInv, TypeOK, JobPcs, SessionPcs
<1>2. sessions[Dev].phase # "Connected" /\ sessions[Dev].gen = Req.gen
  BY <1>1 DEF ChainInv, OwnSessionOpens, SessionPcs, Current
<1>3. /\ sessions'[Dev].conn = c /\ sessions'[Dev].gen = sessions[Dev].gen
      /\ sessions'[Dev].phase = sessions[Dev].phase
  BY <1>1 DEF Sessions
<1> QED
  BY <1>1, <1>2, <1>3 DEF Dev, Req

LEMMA LinkedStep ==
  ASSUME TypeInv, ChainInv, LinkedInv, [Next]_vars
  PROVE  LinkedInv'
<1>1. ASSUME NEW c \in Conns, CreateTaken(c) PROVE LinkedInv'
  BY <1>1, TakesLink DEF LinkedInv, Current, Dev
<1>2. ASSUME \A c \in Conns : ~CreateTaken(c), Linked', Current' PROVE sessions'[Dev'].conn # None
  <2>1. Linked /\ Dev' = Dev /\ Req'.gen = Req.gen
    BY <1>2, LinkedEntered DEF Dev, Req
  <2>2. worker \in SessionPcs /\ Dev \in Devices
    BY <2>1, InFlight DEF Linked, JobPcs, SessionPcs
  <2>3. ~BeginAttempt
    BY <2>1 DEF BeginAttempt, Linked
  <2>4. sessions'[Dev] # None /\ sessions'[Dev].gen = Req.gen
    BY <1>2, <2>1 DEF Current
  <2>5. sessions[Dev] # None /\ sessions'[Dev].gen = sessions[Dev].gen
    BY <2>2, <2>3, <2>4, SessionsSurvive
  <2>6. sessions[Dev].conn # None
    BY <2>1, <2>4, <2>5 DEF LinkedInv, Current
  <2>7. sessions'[Dev].conn = sessions[Dev].conn
    <3>1. CASE Ends
      BY <2>2, <2>4, <3>1, EndsHandOver
    <3>2. CASE Moves
      BY <3>2, MovesOwn
    <3>3. CASE Rests \/ (\E e \in Devices : CloseReturns(e) \/ FlowWorkerEnds(e))
               \/ \E c \in Conns : LinkOpens(c) \/ LinkCloses(c)
      BY <3>3 DEF Rests, CloseReturns, FlowWorkerEnds, LinkOpens, LinkCloses
    <3> QED
      BY <1>2, <2>3, <3>1, <3>2, <3>3, Effects
  <2> QED
    BY <2>1, <2>6, <2>7
<1> QED
  BY <1>1, <1>2 DEF LinkedInv

\* The session that is committed has an open link.
LEMMA Committed ==
  ASSUME TypeInv, LinkedInv, OwnerInv, CommitConnected
  PROVE  /\ Dev \in Devices /\ sessions[Dev] # None /\ sessions[Dev].conn \in Conns
         /\ links[sessions[Dev].conn] # None /\ links[sessions[Dev].conn].open
         /\ UNCHANGED links
<1>1. /\ Linked /\ Current /\ worker = "final" /\ OwnLinkOpen /\ UNCHANGED links
      /\ Dev \in Devices /\ sessions[Dev] \in Sessions
  BY InFlight DEF CommitConnected, Lost, Current, Linked, JobPcs, SessionPcs, TypeInv, TypeOK
<1>2. sessions[Dev].conn # None
  BY <1>1 DEF LinkedInv
<1> QED
  BY <1>1, <1>2 DEF OwnerInv, Owns, OwnLinkOpen, Sessions, Current

LEMMA HandlerStep ==
  ASSUME TypeInv, TypeInv', ChainInv, OwnerInv, OwnerInv', LinkedInv, HandlerInv, [Next]_vars
  PROVE  HandlerInv'
<1> SUFFICES ASSUME NEW d \in Devices, sessions'[d] # None
             PROVE  /\ sessions'[d].conn # None => links'[sessions'[d].conn].gen = sessions'[d].gen
                    /\ sessions'[d].phase = "Connected" => sessions'[d].conn # None
  BY DEF HandlerInv
<1>1. sessions'[d] \in Sessions
  BY DEF TypeInv, TypeOK
<1>2. ASSUME NEW c \in Conns, CreateTaken(c)
      PROVE  /\ sessions'[d].conn # None => links'[sessions'[d].conn].gen = sessions'[d].gen
             /\ sessions'[d].phase = "Connected" => sessions'[d].conn # None
  <2>1. CASE d = Dev
    BY <1>2, <2>1, TakesLink
  <2>2. CASE d # Dev
    <3>1. sessions'[d] = sessions[d]
      BY <1>2, <2>2, TakesLink
    <3>2. sessions'[d].conn # None => sessions'[d].conn \in Conns \ {c}
      BY <1>1, <1>2, <3>1, TakesLink DEF OwnerInv, Owns, Sessions
    <3> QED
      BY <1>2, <3>1, <3>2, TakesLink DEF HandlerInv
  <2> QED
    BY <2>1, <2>2
<1>3. ASSUME \A c \in Conns : ~CreateTaken(c)
      PROVE  /\ sessions'[d].conn # None => links'[sessions'[d].conn].gen = sessions'[d].gen
             /\ sessions'[d].phase = "Connected" => sessions'[d].conn # None
  <2>1. CASE sessions'[d].conn = None /\ sessions'[d].phase # "Connected"
    BY <2>1
  <2>2. CASE /\ sessions[d] # None
             /\ sessions'[d].gen = sessions[d].gen /\ sessions'[d].conn = sessions[d].conn
             /\ sessions'[d].phase = "Connected" =>
                    sessions[d].phase = "Connected" \/ (CommitConnected /\ d = Dev)
    <3>1. sessions'[d].phase = "Connected" => sessions'[d].conn # None
      BY <2>2, Committed DEF HandlerInv
    <3>2. ASSUME sessions'[d].conn # None
          PROVE  links'[sessions'[d].conn].gen = sessions'[d].gen
      <4>1. PICK c \in Conns : c = sessions'[d].conn
        BY <1>1, <3>2 DEF Sessions
      <4>2. links'[c].gen = links[c].gen
        BY <1>3, <4>1, HeldLinks
      <4>3. links[c].gen = sessions[d].gen
        BY <2>2, <3>2, <4>1 DEF HandlerInv
      <4> QED
        BY <2>2, <4>1, <4>2, <4>3
    <3> QED
      BY <3>1, <3>2
  <2> QED
    BY <1>3, <2>1, <2>2, Fates DEF Fate
<1> QED
  BY <1>2, <1>3

LEMMA NoticedStep ==
  ASSUME TypeInv, TypeInv', ChainInv, OwnerInv, OwnerInv', LinkedInv, HandlerInv, HandlerInv',
         ClosuresAreNoticed, [Next]_vars
  PROVE  ClosuresAreNoticed'
<1> SUFFICES ASSUME NEW d \in Devices, sessions'[d] # None, sessions'[d].phase = "Connected",
                    ~Streaming(d)'
             PROVE  ClosedOf(d)' \in callbacks'
  BY DEF ClosuresAreNoticed, ConnectedDevices
<1>1. PICK c \in Conns : c = sessions'[d].conn
  BY DEF HandlerInv, TypeInv, TypeOK, Sessions
<1>2. links'[c] # None /\ ~links'[c].open
  BY <1>1 DEF OwnerInv, Owns, Streaming, ConnectedDevices
<1>3. ASSUME NEW l \in Conns, CreateTaken(l) PROVE ClosedOf(d)' \in callbacks'
  <2>1. d # Dev /\ sessions'[d] = sessions[d] /\ UNCHANGED callbacks
    BY <1>3, TakesLink
  <2>2. links[c] # None
    BY <1>1, <2>1 DEF OwnerInv, Owns
  <2>3. links'[c] = links[c]
    BY <1>3, <2>2, TakesLink
  <2>4. ~Streaming(d)
    BY <1>1, <1>2, <2>1, <2>3 DEF Streaming
  <2> QED
    BY <2>1, <2>4 DEF ClosuresAreNoticed, ConnectedDevices, ClosedOf
<1>4. ASSUME \A l \in Conns : ~CreateTaken(l) PROVE ClosedOf(d)' \in callbacks'
  <2>1. ~CommitConnected \/ d # Dev
    BY <1>1, <1>2, <1>4, Committed, Fates DEF Fate
  <2>2. /\ sessions[d] # None /\ sessions[d].phase = "Connected"
        /\ sessions'[d].gen = sessions[d].gen /\ sessions[d].conn = c
    BY <1>1, <1>4, <2>1, Fates DEF Fate
  <2>3. ClosedOf(d)' = ClosedOf(d) /\ ClosedOf(d) = [dev |-> d, gen |-> sessions[d].gen, conn |-> c]
    BY <1>1, <2>2 DEF ClosedOf
  <2>4. links[c] # None /\ links[c].dev = d /\ links[c].gen = sessions[d].gen
    BY <2>2 DEF OwnerInv, Owns, HandlerInv
  <2>5. CASE LinkCloses(c)
    <3>1. ~stopping
      BY <2>2 DEF ChainInv, ClosedAtShutdown
    <3> QED
      BY <2>3, <2>4, <2>5, <3>1 DEF LinkCloses
  <2>6. CASE ~LinkCloses(c)
    <3>1. links'[c] = links[c]
      BY <1>1, <1>2, <1>4, <2>6, HeldLinks
    <3>2. ~Streaming(d)
      BY <1>2, <2>2, <3>1 DEF Streaming
    <3>3. ClosedOf(d) \in callbacks
      BY <2>2, <3>2 DEF ClosuresAreNoticed, ConnectedDevices
    <3>4. ~HandleConnectionClosed(ClosedOf(d))
      <4>1. ActsOnClosed(ClosedOf(d))
        BY <1>2, <2>2, <2>3, <3>1 DEF ActsOnClosed, ChainInv, ClosedAtShutdown
      <4>2. ASSUME HandleConnectionClosed(ClosedOf(d)) PROVE FALSE
        <5>1. CloseSessions({ClosedOf(d).dev}, TRUE)
          BY <4>1, <4>2 DEF HandleConnectionClosed
        <5>2. ClosedOf(d).dev = d
          BY <2>3
        <5> QED
          BY <5>1, <5>2 DEF CloseSessions
      <4> QED
        BY <4>2
    <3> QED
      BY <2>3, <3>3, <3>4, CallbacksStay
  <2> QED
    BY <2>5, <2>6
<1> QED
  BY <1>3, <1>4

\* A link that closed under a Connected session is never overlooked: its callback is on
\* its way with the session's generation, whatever happens in between, or the link is
\* open again (ConnectionFlow.hpp:153, 431).  It is the safety half of
\* ClosedLinkRetired.
THEOREM ClosuresNoticed == Spec => []ClosuresAreNoticed
<1> DEFINE Inv == OwnerInv /\ LinkedInv /\ HandlerInv /\ ClosuresAreNoticed
<1>1. Init => Inv
  BY DEF Init, OwnerInv, LinkedInv, Linked, HandlerInv, ClosuresAreNoticed, ConnectedDevices
<1>2. /\ TypeInv /\ ChainInv /\ SerialInv /\ ResetInv /\ Inv /\ [Next]_vars
      /\ (TypeInv /\ ChainInv /\ SerialInv /\ ResetInv)'
      => Inv'
  BY OwnerStep, LinkedStep, HandlerStep, NoticedStep
<1> QED
  BY LinksHold, <1>1, <1>2, PTL DEF Spec

-----------------------------------------------------------------------------
(* The exit *)

\* When the window is destroyed, nothing of the connection flow runs any more.
ExitIsFinal ==
    shut = "drained" =>
        /\ worker = "idle" /\ ~inProgress
        /\ \A d \in Devices : sessions[d] = None /\ queue[d] = None

\* Only the shutdown's own steps move it.
LEMMA ShutStays ==
  ASSUME [Next]_vars, ~ShutdownDrained, ~BeginShutdown
  PROVE  shut' = shut
<1>1. CASE UNCHANGED vars
  BY <1>1 DEF vars
<1>2. CASE Background \/ \E cb \in callbacks : HandleConnectionClosed(cb)
  BY <1>2 DEF Background, CloseReturns, FlowWorkerEnds, VerificationFails, DelayElapses,
     CreationReady, CreationFinishes, LinkOpens, LinkCloses, HandleConnectionClosed
<1>3. CASE UserOrList
  BY <1>3 DEF UserOrList, QuickConnect, ForceConnect, DisconnectDevice, DeviceAdded,
     DeviceRemoved
<1>4. CASE Choose \/ Begin \/ \E d \in Devices : Dispatch(d)
  BY <1>4 DEF Choose, LeaveLoop, AwaitRetry, WakeForQueue, Dispatch, Begin, BeginCancelled,
     BeginUnavailable, BeginAttempt, PreviousFinished, PreviousTimesOut
<1>5. CASE Prepare
  BY <1>5 DEF Prepare, EnsureProtects, EnsureStopped, EnsureStarts, RadioFound,
     RadioNotFound, TasksFinished, TasksTimeOut, RadioTurnsOff, TransactionRefused,
     RadioRestored, RestoreFails, RecoveryDone, RecoveryFails
<1>6. CASE Open
  BY <1>6 DEF Open, PreparedLost, PreparationFailed, PreparedOk, LookupEnds, LookupThrows,
     CreateLost, CreateTaken, CreateFails, StartDone, StartFails, OpenDone, OpenFails,
     StepFails, OpenedWaitEnds
<1>7. CASE Finish
  BY <1>7 DEF Finish, FinalLost, FinalFailed, CommitConnected, AttemptReturned, AttemptThrew,
     Conclude, WorkerTail
<1> QED
  BY <1>1, <1>2, <1>3, <1>4, <1>5, <1>6, <1>7 DEF Next, WorkerStep

LEMMA WorkerRests ==
  ASSUME [Next]_vars, stopping, worker = "idle"
  PROVE  worker' = "idle"
<1>1. CASE UNCHANGED vars \/ ShutdownDrained \/ BeginShutdown \/ Background
           \/ \E cb \in callbacks : HandleConnectionClosed(cb)
  BY <1>1 DEF vars, ShutdownDrained, BeginShutdown, HandleConnectionClosed, Background,
     CloseReturns, FlowWorkerEnds, VerificationFails, DelayElapses, CreationReady,
     CreationFinishes, LinkOpens, LinkCloses
<1>2. CASE UserOrList
  BY <1>2 DEF UserOrList, QuickConnect, ForceConnect, DisconnectDevice, DeviceAdded,
     DeviceRemoved
<1>3. CASE WorkerStep \/ \E d \in Devices : Dispatch(d)
  BY <1>3 DEF WorkerStep, Choose, Begin, Prepare, Open, Finish,
     LeaveLoop, AwaitRetry, WakeForQueue, Dispatch, BeginCancelled, BeginUnavailable,
     BeginAttempt, PreviousFinished, PreviousTimesOut, EnsureProtects, EnsureStopped,
     EnsureStarts, RadioFound, RadioNotFound, TasksFinished, TasksTimeOut, RadioTurnsOff,
     TransactionRefused, RadioRestored, RestoreFails, RecoveryDone, RecoveryFails,
     PreparedLost, PreparationFailed, PreparedOk, LookupEnds, LookupThrows, CreateLost,
     CreateFails, CreateTaken, StartDone, StartFails, OpenDone, OpenFails, StepFails,
     OpenedWaitEnds, FinalLost, CommitConnected, FinalFailed, AttemptReturned, AttemptThrew,
     WorkerTail
<1> QED
  BY <1>1, <1>2, <1>3 DEF Next

\* The exit is final: neither a late callback nor the device list nor a retry starts
\* anything once the drain is over (Aulay.cpp:264).
THEOREM ExitsAreFinal == Spec => []ExitIsFinal
<1> DEFINE Idle == shut = "drained" => worker = "idle"
<1>1. Init => Idle
  BY DEF Init
<1>2. Idle /\ [Next]_vars => Idle'
  <2> SUFFICES ASSUME Idle, [Next]_vars, shut' = "drained" PROVE worker' = "idle"
    OBVIOUS
  <2>1. CASE shut = "drained"
    BY <2>1, WorkerRests DEF stopping
  <2>2. CASE shut # "drained"
    <3>1. ~BeginShutdown
      BY <2>2 DEF BeginShutdown
    <3>2. ShutdownDrained
      BY <2>2, <3>1, ShutStays
    <3> QED
      BY <3>2 DEF ShutdownDrained
  <2> QED
    BY <2>1, <2>2
<1>3. ChainInv /\ RecoveryInv /\ Idle => ExitIsFinal
  BY DEF ChainInv, ClosedAtShutdown, stopping, RecoveryInv, RecoveryPcs, ExitIsFinal
<1> QED
  BY PauseHolds, <1>1, <1>2, <1>3, PTL DEF Spec

=============================================================================
