-------------------------- MODULE DiagnosticsProofs --------------------------
(***************************************************************************)
(* Proofs about Diagnostics, for queues of any size and any number of      *)
(* calls: the log accounts for every entry and every refusal, its queue    *)
(* keeps its limits, its worker sleeps over nothing, and a journal that    *)
(* claims to be drained is whole.                                          *)
(*                                                                         *)
(* The log and the monitor share no state, so the invariant is one of the  *)
(* log and one of the monitor, and a step of the composition is one step   *)
(* of each.                                                                *)
(***************************************************************************)
EXTENDS Diagnostics, SequenceTheorems, FiniteSetTheorems, TLAPS

LEMMA EntriesAssociate ==
  ASSUME NEW s \in Seq(Nat), NEW t \in Seq(Nat), NEW u \in Seq(Nat)
  PROVE  (s \o t) \o u = s \o (t \o u)
  BY ConcatAssociative

USE LogAssumption, MonitorAssumption, DiagnosticsAssumption

-----------------------------------------------------------------------------
(* The log *)

LogType ==
    /\ pending \in Seq(Nat) /\ bytes \in Nat /\ dropped \in Nat
    /\ stopping \in BOOLEAN /\ finished \in BOOLEAN /\ errors \in Nat
    /\ worker \in {"looking", "waiting", "writing", "closing", "done", "hung"}
    /\ batch \in [entries: Seq(Nat), dropped: Nat, last: BOOLEAN]
    /\ accepted \in Seq(Nat) /\ written \in Seq(Nat)
    /\ refused \in Nat /\ reported \in Nat

\* The queue of the log never outgrows maxEntries and maxBytes.
QueueBounded == Len(pending) <= MaxEntries /\ bytes <= MaxBytes

Emptied == stopping /\ pending = <<>> /\ dropped = 0

\* What the worker has in hand where, and that the last batch leaves nothing.
WorkerInv ==
    /\ worker \in {"looking", "waiting"} => batch = NoBatch
    /\ worker = "writing" /\ batch.last => Emptied
    /\ worker \in {"closing", "done"} /\ errors = 0 => Emptied /\ batch = NoBatch
    /\ finished <=> worker = "done"

Accounts ==
    /\ accepted = written \o batch.entries \o pending
    /\ refused = reported + batch.dropped + dropped

LogInv == LogType /\ QueueBounded /\ WorkerInv /\ Accounts

\* All that a step of the composition may do to the log.
LogStep ==
    \/ \E entry \in Nat, size \in Nat : Push(entry, size)
    \/ Stop \/ LogRuns \/ Hangs
    \/ UNCHANGED logVars

LEMMA NoBatchType == NoBatch \in [entries: Seq(Nat), dropped: Nat, last: BOOLEAN]
  BY EmptySeq DEF NoBatch

LEMMA WokenType == LogType => Woken \in {"looking", "writing", "closing", "done", "hung"}
  BY DEF LogType, Woken

LEMMA LogInitInv == LogInit => LogInv
<1> SUFFICES ASSUME LogInit PROVE LogInv
  OBVIOUS
<1>1. LogType
  BY NoBatchType, EmptySeq DEF LogInit, LogType
<1>2. QueueBounded
  BY EmptySeq DEF LogInit, QueueBounded
<1>3. WorkerInv
  BY DEF LogInit, WorkerInv, NoBatch
<1>4. Accounts
  BY ConcatEmptySeq, EmptySeq DEF LogInit, Accounts, NoBatch
<1> QED BY <1>1, <1>2, <1>3, <1>4 DEF LogInv

LEMMA RefusesKeeps == ASSUME LogInv, NEW size \in Nat, Refuses(size) PROVE LogInv'
<1> USE DEF LogInv, Refuses
<1>1. LogType'
  BY WokenType DEF LogType
<1>2. QueueBounded'
  BY DEF QueueBounded
<1>3. WorkerInv'
  BY DEF WorkerInv, Emptied, Woken, LogType
<1>4. Accounts'
  BY DEF Accounts, LogType
<1> QED BY <1>1, <1>2, <1>3, <1>4

LEMMA AcceptsKeeps ==
  ASSUME LogInv, NEW entry \in Nat, NEW size \in Nat, Accepts(entry, size)
  PROVE  LogInv'
<1> USE DEF LogInv
<1>1. /\ pending' \in Seq(Nat) /\ Len(pending') = Len(pending) + 1
      /\ accepted' \in Seq(Nat)
  BY AppendProperties DEF Accepts, LogType
<1>2. LogType'
  BY <1>1, WokenType DEF Accepts, LogType
<1>3. QueueBounded'
  BY <1>1, LenProperties DEF Accepts, Full, QueueBounded, LogType
<1>4. WorkerInv'
  BY DEF Accepts, WorkerInv, Emptied, Woken, LogType
<1>5. accepted' = written \o batch.entries \o pending'
  <2> DEFINE handed == written \o batch.entries
  <2>1. handed \in Seq(Nat) /\ <<entry>> \in Seq(Nat)
    BY ConcatProperties DEF LogType
  <2>2. accepted' = (handed \o pending) \o <<entry>>
    BY AppendIsConcat DEF Accepts, Accounts, LogType
  <2>3. handed \o pending' = handed \o (pending \o <<entry>>)
    BY AppendIsConcat DEF Accepts, LogType
  <2> HIDE DEF handed
  <2>4. (handed \o pending) \o <<entry>> = handed \o (pending \o <<entry>>)
    <3>1. pending \in Seq(Nat)
      BY DEF LogType
    <3> QED BY <2>1, <3>1, EntriesAssociate, Zenon
  <2> QED BY <2>2, <2>3, <2>4 DEF handed
<1>6. Accounts'
  BY <1>5 DEF Accepts, Accounts
<1> QED BY <1>2, <1>3, <1>4, <1>6

LEMMA StopKeeps == ASSUME LogInv, Stop PROVE LogInv'
<1> USE DEF LogInv, Stop
<1>1. LogType'
  BY WokenType DEF LogType
<1>2. QueueBounded'
  BY DEF QueueBounded
<1>3. WorkerInv'
  BY DEF WorkerInv, Emptied, Woken, LogType
<1>4. Accounts'
  BY DEF Accounts
<1> QED BY <1>1, <1>2, <1>3, <1>4

LEMMA TakesKeeps == ASSUME LogInv, Takes PROVE LogInv'
<1> USE DEF LogInv, Takes
<1>1. LogType'
  BY EmptySeq DEF LogType
<1>2. QueueBounded'
  BY EmptySeq DEF QueueBounded
<1>3. WorkerInv'
  BY DEF WorkerInv, Emptied, LogType
<1>4. Accounts'
  <2>1. batch = NoBatch
    BY DEF WorkerInv
  <2>2. accepted = written \o pending
    BY <2>1, ConcatEmptySeq DEF Accounts, NoBatch, LogType
  <2>3. written \o pending \in Seq(Nat)
    BY ConcatProperties DEF LogType
  <2>4. accepted' = written' \o batch'.entries \o pending'
    BY <2>2, <2>3, ConcatEmptySeq
  <2>5. refused' = reported' + batch'.dropped + dropped'
    BY <2>1 DEF Accounts, NoBatch, LogType
  <2> QED BY <2>4, <2>5 DEF Accounts
<1> QED BY <1>1, <1>2, <1>3, <1>4

LEMMA WritesKeeps == ASSUME LogInv, Writes PROVE LogInv'
<1> USE DEF LogInv, Writes
<1>1. LogType'
  BY NoBatchType, ConcatProperties DEF LogType
<1>2. QueueBounded'
  BY DEF QueueBounded
<1>3. WorkerInv'
  BY DEF WorkerInv, Emptied, LogType
<1>4. Accounts'
  <2>1. written' \o batch'.entries = written'
    BY <1>1, ConcatEmptySeq DEF NoBatch, LogType
  <2>2. accepted' = written' \o batch'.entries \o pending'
    BY <2>1 DEF Accounts
  <2>3. refused' = reported' + batch'.dropped + dropped'
    BY DEF Accounts, NoBatch, LogType
  <2> QED BY <2>2, <2>3 DEF Accounts
<1> QED BY <1>1, <1>2, <1>3, <1>4

\* The other steps of the worker move it and touch no entry.
LEMMA WorkerMovesKeeps ==
  ASSUME LogInv, Sleeps \/ WriteFails \/ Closes \/ Hangs
  PROVE  LogInv'
<1>1. UNCHANGED <<pending, bytes, dropped, batch, accepted, refused, written, reported>>
  BY DEF Sleeps, WriteFails, Closes, Hangs
<1>2. QueueBounded' /\ Accounts'
  BY <1>1 DEF LogInv, QueueBounded, Accounts
<1>3. CASE Sleeps
  BY <1>2, <1>3 DEF LogInv, LogType, WorkerInv, Emptied, Sleeps
<1>4. CASE WriteFails
  <2>1. errors' \in Nat \ {0}
    BY <1>4 DEF LogInv, LogType, WriteFails
  <2> QED BY <1>2, <1>4, <2>1 DEF LogInv, LogType, WorkerInv, Emptied, WriteFails
<1>5. CASE Closes
  <2>1. errors' \in Nat /\ (errors' = 0 => errors = 0)
    BY <1>5 DEF LogInv, LogType, Closes
  <2> QED BY <1>2, <1>5, <2>1 DEF LogInv, LogType, WorkerInv, Emptied, Closes
<1>6. CASE Hangs
  BY <1>2, <1>6 DEF LogInv, LogType, WorkerInv, Emptied, Hangs
<1> QED BY <1>3, <1>4, <1>5, <1>6

LEMMA LogStepKeeps == LogInv /\ LogStep => LogInv'
<1> SUFFICES ASSUME LogInv, LogStep PROVE LogInv'
  OBVIOUS
<1>1. CASE UNCHANGED logVars
  BY <1>1 DEF logVars, LogInv, LogType, QueueBounded, WorkerInv, Emptied, Accounts
<1>2. ASSUME NEW entry \in Nat, NEW size \in Nat, Push(entry, size) PROVE LogInv'
  BY <1>1, <1>2, RefusesKeeps, AcceptsKeeps DEF Push
<1> QED BY <1>1, <1>2, StopKeeps, TakesKeeps, WritesKeeps, WorkerMovesKeeps
        DEF LogStep, LogRuns

-----------------------------------------------------------------------------
(* Snapshots in a queue of the monitor *)

Events == {"snapshot", "ordinary"}

SnapshotsAt(s) == {i \in 1..Len(s) : s[i] = "snapshot"}

Snapshots(s) == Cardinality(SnapshotsAt(s))

LEMMA SnapshotsFinite ==
  ASSUME NEW s \in Seq(Events)
  PROVE  IsFiniteSet(SnapshotsAt(s)) /\ Snapshots(s) \in Nat
<1>1. Len(s) \in Nat
  BY LenProperties
<1>2. IsFiniteSet(1..Len(s))
  BY <1>1, FS_Interval
<1>3. IsFiniteSet(SnapshotsAt(s))
  BY <1>2, FS_Subset DEF SnapshotsAt
<1> QED BY <1>3, FS_CardinalityType DEF Snapshots

LEMMA SnapshotsOfEmpty == Snapshots(<<>>) = 0
<1>1. SnapshotsAt(<<>>) = {}
  BY DEF SnapshotsAt
<1> QED BY <1>1, FS_EmptySet DEF Snapshots

LEMMA SnapshotsOfAppend ==
  ASSUME NEW s \in Seq(Events), NEW event \in Events
  PROVE  Snapshots(Append(s, event)) = Snapshots(s) + One(event)
<1> DEFINE longer == Append(s, event)
<1>1. /\ Len(s) \in Nat /\ Len(longer) = Len(s) + 1
      /\ \A i \in 1..Len(s) : longer[i] = s[i]
      /\ longer[Len(s) + 1] = event
  BY AppendProperties, LenProperties
<1>2. IsFiniteSet(SnapshotsAt(s)) /\ Snapshots(s) \in Nat
  BY SnapshotsFinite
<1> HIDE DEF longer
<1>3. Len(s) + 1 \notin SnapshotsAt(s)
  BY <1>1 DEF SnapshotsAt
<1>4. CASE event = "snapshot"
  <2>1. SnapshotsAt(longer) = SnapshotsAt(s) \cup {Len(s) + 1}
    BY <1>1, <1>4 DEF SnapshotsAt
  <2>2. Cardinality(SnapshotsAt(longer)) = Cardinality(SnapshotsAt(s)) + 1
    BY <1>2, <1>3, <2>1, FS_AddElement
  <2> QED BY <1>4, <2>2 DEF Snapshots, One, longer
<1>5. CASE event # "snapshot"
  <2>1. SnapshotsAt(longer) = SnapshotsAt(s)
    BY <1>1, <1>5 DEF SnapshotsAt
  <2> QED BY <1>2, <1>5, <2>1 DEF Snapshots, One, longer
<1> QED BY <1>4, <1>5

\* The tail has the snapshots of the rest, each one place earlier.
LEMMA SnapshotsOfTail ==
  ASSUME NEW s \in Seq(Events), s # <<>>
  PROVE  Snapshots(s) = One(Head(s)) + Snapshots(Tail(s))
<1> DEFINE rest == SnapshotsAt(s) \ {1}
           shift == [i \in SnapshotsAt(Tail(s)) |-> i + 1]
<1>1. /\ Len(s) \in Nat \ {0} /\ Tail(s) \in Seq(Events)
      /\ Len(Tail(s)) = Len(s) - 1
      /\ \A i \in 1..Len(Tail(s)) : Tail(s)[i] = s[i + 1]
  BY HeadTailProperties, EmptySeq
<1>2. /\ IsFiniteSet(SnapshotsAt(s)) /\ Snapshots(s) \in Nat
      /\ IsFiniteSet(SnapshotsAt(Tail(s))) /\ Snapshots(Tail(s)) \in Nat
  BY <1>1, SnapshotsFinite
<1>3. Cardinality(rest) = Cardinality(SnapshotsAt(Tail(s)))
  <2>1. shift \in [SnapshotsAt(Tail(s)) -> rest]
    BY <1>1 DEF SnapshotsAt
  <2>2. \A i, j \in SnapshotsAt(Tail(s)) : shift[i] = shift[j] => i = j
    BY <1>1 DEF SnapshotsAt
  <2>3. \A j \in rest : \E i \in SnapshotsAt(Tail(s)) : shift[i] = j
    <3> TAKE j \in rest
    <3>1. j - 1 \in SnapshotsAt(Tail(s))
      BY <1>1 DEF SnapshotsAt
    <3>2. shift[j - 1] = j
      BY <3>1 DEF SnapshotsAt
    <3> QED BY <3>1, <3>2
  <2> HIDE DEF shift, rest
  <2>4. shift \in Bijection(SnapshotsAt(Tail(s)), rest)
    BY <2>1, <2>2, <2>3 DEF Bijection, Injection, Surjection, IsInjective
  <2>5. ExistsBijection(SnapshotsAt(Tail(s)), rest)
    BY <2>4 DEF ExistsBijection
  <2> QED BY <1>2, <2>5, FS_Bijection
<1>4. Cardinality(rest) = IF 1 \in SnapshotsAt(s) THEN Snapshots(s) - 1 ELSE Snapshots(s)
  BY <1>2, FS_RemoveElement DEF Snapshots
<1>5. 1 \in SnapshotsAt(s) <=> Head(s) = "snapshot"
  BY <1>1 DEF SnapshotsAt
<1> HIDE DEF rest
<1> QED BY <1>2, <1>3, <1>4, <1>5 DEF Snapshots, One

-----------------------------------------------------------------------------
(* The monitor *)

MonitorType ==
    /\ queue \in Seq(Events) /\ events \in Seq(Events)
    /\ lost \in Nat /\ crowded \in Nat
    /\ pendingSnapshots \in Nat /\ unmet \in Nat
    /\ halted \in BOOLEAN /\ ended \in BOOLEAN /\ fatal \in BOOLEAN /\ drained \in BOOLEAN
    /\ observer \in {"starting", "looking", "writing", "judging", "closing", "done", "hung"}

\* Every snapshot that is still owed is in one of the two queues.
SnapshotsOwed ==
    /\ unmet = pendingSnapshots
    /\ unmet = Snapshots(queue) + Snapshots(events)

\* A full queue refuses between the report and the judgement only if it is not empty,
\* which sends the worker on another round.
ObserverInv ==
    /\ observer \in {"starting", "looking", "judging", "closing"} => events = <<>>
    /\ observer = "judging" /\ crowded > 0 => queue # <<>>
    /\ observer = "closing" => drained
    /\ drained => /\ halted /\ observer \in {"closing", "done", "hung"}
                  /\ queue = <<>> /\ events = <<>> /\ crowded = 0

MonitorInv == MonitorType /\ SnapshotsOwed /\ ObserverInv

\* All that a step of the composition may do to the monitor.
MonitorStep ==
    \/ \E event \in Events : Enqueue(event)
    \/ Contended \/ StopDebugAudioMonitor \/ MonitorRuns
    \/ UNCHANGED monitorVars

LEMMA MonitorInitInv == MonitorInit => MonitorInv
<1> SUFFICES ASSUME MonitorInit PROVE MonitorInv
  OBVIOUS
<1>1. MonitorType
  BY EmptySeq DEF MonitorInit, MonitorType
<1>2. SnapshotsOwed
  BY SnapshotsOfEmpty DEF MonitorInit, SnapshotsOwed
<1>3. ObserverInv
  BY DEF MonitorInit, ObserverInv
<1> QED BY <1>1, <1>2, <1>3 DEF MonitorInv

LEMMA PushEventKeeps ==
  ASSUME MonitorInv, NEW event \in Events, PushEvent(event)
  PROVE  MonitorInv'
<1> USE DEF MonitorInv
<1>1. /\ Append(queue, event) \in Seq(Events) /\ Append(queue, event) # <<>>
      /\ Snapshots(Append(queue, event)) = Snapshots(queue) + One(event)
  BY AppendProperties, SnapshotsOfAppend DEF MonitorType
<1>2. One(event) \in Nat /\ (event # "snapshot" => One(event) = 0)
  BY DEF One
<1>3. Snapshots(queue) \in Nat /\ Snapshots(events) \in Nat
  BY SnapshotsFinite DEF MonitorType
<1>4. CASE Len(queue) >= MaxQueue /\ event # "snapshot"
  <2>1. queue # <<>>
    BY <1>4, EmptySeq DEF MonitorType
  <2> QED BY <1>2, <1>4, <2>1 DEF PushEvent, MonitorType, SnapshotsOwed, ObserverInv
<1>5. CASE ~(Len(queue) >= MaxQueue /\ event # "snapshot")
  <2>1. /\ queue' = Append(queue, event)
        /\ pendingSnapshots' = pendingSnapshots + One(event) /\ unmet' = unmet + One(event)
        /\ UNCHANGED <<lost, crowded, halted, ended, fatal, observer, events, drained>>
        /\ ~halted
    BY <1>5 DEF PushEvent
  <2>2. MonitorType'
    BY <1>1, <1>2, <2>1 DEF MonitorType
  <2>3. Snapshots(queue)' = Snapshots(queue) + One(event) /\ Snapshots(events)' = Snapshots(events)
    BY <1>1, <2>1
  <2>4. SnapshotsOwed'
    <3> DEFINE inQueue == Snapshots(queue)
               inHand  == Snapshots(events)
               more    == One(event)
    <3>1. unmet' = (inQueue + inHand) + more /\ pendingSnapshots' = (inQueue + inHand) + more
      BY <2>1 DEF SnapshotsOwed
    <3>2. inQueue \in Nat /\ inHand \in Nat /\ more \in Nat
      BY <1>2, <1>3
    <3>3. inQueue' = inQueue + more /\ inHand' = inHand
      BY <2>3
    <3> HIDE DEF inQueue, inHand, more
    <3>4. unmet' = inQueue' + inHand'
      BY <3>1, <3>2, <3>3
    <3> QED BY <3>1, <3>4 DEF SnapshotsOwed, inQueue, inHand
  <2>5. ObserverInv'
    BY <1>1, <2>1 DEF ObserverInv
  <2> QED BY <2>2, <2>4, <2>5
<1> QED BY <1>4, <1>5

LEMMA TakesEventsKeeps == ASSUME MonitorInv, TakesEvents PROVE MonitorInv'
<1> USE DEF MonitorInv, TakesEvents, histories
<1>1. MonitorType'
  BY EmptySeq DEF MonitorType
<1>2. SnapshotsOwed'
  <2>1. Snapshots(queue)' = 0 /\ Snapshots(events)' = Snapshots(queue) /\ Snapshots(events) = 0
    BY SnapshotsOfEmpty DEF ObserverInv
  <2>2. Snapshots(queue) \in Nat
    BY SnapshotsFinite DEF MonitorType
  <2>3. unmet = pendingSnapshots /\ unmet = Snapshots(queue) + 0
    BY <2>1 DEF SnapshotsOwed
  <2>4. unmet' = 0 + Snapshots(queue) /\ pendingSnapshots' = unmet'
    BY <2>2, <2>3
  <2> QED BY <2>1, <2>4 DEF SnapshotsOwed
<1>3. ObserverInv'
  BY DEF ObserverInv
<1> QED BY <1>1, <1>2, <1>3

LEMMA WritesEventKeeps == ASSUME MonitorInv, WritesEvent PROVE MonitorInv'
<1> USE DEF MonitorInv, WritesEvent
<1>1. /\ Snapshots(events) = One(Head(events)) + Snapshots(Tail(events))
      /\ Head(events) \in Events /\ Tail(events) \in Seq(Events)
  BY HeadTailProperties, SnapshotsOfTail DEF MonitorType
<1>2. /\ One(Head(events)) \in Nat
      /\ Snapshots(queue) \in Nat /\ Snapshots(Tail(events)) \in Nat
  BY <1>1, SnapshotsFinite DEF MonitorType, One
<1>3. Snapshots(queue)' = Snapshots(queue) /\ Snapshots(events)' = Snapshots(Tail(events))
  OBVIOUS
<1>4. unmet' = Snapshots(queue) + Snapshots(Tail(events)) /\ pendingSnapshots' = unmet'
  <2>1. /\ unmet = pendingSnapshots /\ unmet = Snapshots(queue) + Snapshots(events)
        /\ unmet' = unmet - One(Head(events))
        /\ pendingSnapshots' = pendingSnapshots - One(Head(events))
    BY DEF SnapshotsOwed
  <2> DEFINE inQueue == Snapshots(queue)
             first   == One(Head(events))
             rest    == Snapshots(Tail(events))
  <2>2. inQueue \in Nat /\ first \in Nat /\ rest \in Nat
    BY <1>2
  <2>3. /\ unmet' = (inQueue + (first + rest)) - first
        /\ pendingSnapshots' = (inQueue + (first + rest)) - first
    BY <1>1, <2>1
  <2> HIDE DEF inQueue, first, rest
  <2>4. (inQueue + (first + rest)) - first = inQueue + rest
    BY <2>2
  <2> QED BY <2>3, <2>4 DEF inQueue, rest
<1>5. MonitorType'
  BY <1>1, <1>2, <1>4 DEF MonitorType
<1>6. SnapshotsOwed'
  BY <1>3, <1>4 DEF SnapshotsOwed
<1>7. ObserverInv'
  BY DEF ObserverInv
<1> QED BY <1>5, <1>6, <1>7

\* No other step touches an event or a snapshot.
LEMMA ObserverMovesKeeps ==
  ASSUME MonitorInv,
         \/ Contended \/ StopDebugAudioMonitor \/ MonitorOpens \/ ReportsLoss
         \/ Judges \/ MonitorEnds \/ MonitorDies \/ MonitorHangs
  PROVE  MonitorInv'
<1> USE DEF MonitorInv
<1>1. UNCHANGED <<queue, events, unmet, pendingSnapshots>>
  BY DEF Contended, StopDebugAudioMonitor, MonitorOpens, ReportsLoss, Judges, MonitorEnds,
         MonitorDies, MonitorHangs, workerVars, histories
<1>2. SnapshotsOwed'
  BY <1>1 DEF SnapshotsOwed
<1>3. CASE Contended \/ StopDebugAudioMonitor
  <2>1. MonitorType'
    <3>1. CASE Contended
      BY <3>1 DEF Contended, workerVars, MonitorType
    <3>2. CASE StopDebugAudioMonitor
      BY <3>2 DEF StopDebugAudioMonitor, workerVars, MonitorType
    <3> QED BY <1>3, <3>1, <3>2
  <2>2. ObserverInv'
    BY <1>3 DEF Contended, StopDebugAudioMonitor, workerVars, MonitorType, ObserverInv
  <2> QED BY <1>2, <2>1, <2>2
<1>4. CASE MonitorOpens \/ ReportsLoss
  <2>1. MonitorType'
    BY <1>4 DEF MonitorOpens, ReportsLoss, histories, MonitorType
  <2>2. ObserverInv'
    BY <1>4 DEF MonitorOpens, ReportsLoss, histories, ObserverInv
  <2> QED BY <1>2, <2>1, <2>2
<1>5. CASE Judges
  BY <1>1, <1>2, <1>5 DEF Judges, MonitorType, ObserverInv
<1>6. CASE MonitorEnds \/ MonitorDies \/ MonitorHangs
  <2>1. MonitorType'
    BY <1>6 DEF MonitorEnds, MonitorDies, MonitorHangs, histories, MonitorType
  <2>2. ObserverInv'
    BY <1>6 DEF MonitorEnds, MonitorDies, MonitorHangs, histories, MonitorType, ObserverInv
  <2> QED BY <1>2, <2>1, <2>2
<1> QED BY <1>3, <1>4, <1>5, <1>6

LEMMA MonitorStepKeeps == MonitorInv /\ MonitorStep => MonitorInv'
<1> SUFFICES ASSUME MonitorInv, MonitorStep PROVE MonitorInv'
  OBVIOUS
<1>1. CASE UNCHANGED monitorVars
  BY <1>1 DEF monitorVars, histories, MonitorInv, MonitorType, SnapshotsOwed, ObserverInv
<1>2. ASSUME NEW event \in Events, Enqueue(event) PROVE MonitorInv'
  BY <1>1, <1>2, PushEventKeeps DEF Enqueue
<1> QED BY <1>1, <1>2, TakesEventsKeeps, WritesEventKeeps, ObserverMovesKeeps
        DEF MonitorStep, MonitorRuns

-----------------------------------------------------------------------------
(* The composition *)

CallsInv == records \in Nat /\ halfway \subseteq Nat

IInv == LogInv /\ MonitorInv /\ CallsInv

LEMMA InitInv == Init => IInv
  BY LogInitInv, MonitorInitInv DEF Init, IInv, CallsInv

LEMMA StepSplits == CallsInv /\ [Next]_vars => LogStep /\ MonitorStep /\ CallsInv'
<1> SUFFICES ASSUME CallsInv, [Next]_vars PROVE LogStep /\ MonitorStep /\ CallsInv'
  OBVIOUS
<1> USE DEF CallsInv
<1>1. CASE UNCHANGED vars
  BY <1>1 DEF vars, callVars, LogStep, MonitorStep
<1>2. ASSUME NEW entry \in Nat, NEW size \in Nat, Log(entry, size) PROVE LogStep
  BY <1>2 DEF Log, LogStep
<1>3. CASE Callers
  <2>1. CASE RecordsToMonitor
    <3>1. MonitorStep /\ LogStep
      BY <2>1 DEF RecordsToMonitor, LogStep, MonitorStep, Events
    <3>2. CallsInv'
      BY <2>1 DEF RecordsToMonitor
    <3> QED BY <3>1, <3>2
  <2>2. ASSUME NEW record \in halfway, RecordsToLog(record)
        PROVE  LogStep /\ MonitorStep /\ CallsInv'
    <3>1. PICK size \in Sizes : Log(record, size)
      BY <2>2 DEF RecordsToLog
    <3>2. LogStep
      BY <1>2, <2>2, <3>1
    <3> QED BY <2>2, <3>2 DEF RecordsToLog, MonitorStep
  <2>3. CASE RequestDebugAudioSnapshot
    <3>1. MonitorStep /\ LogStep
      BY <2>3 DEF RequestDebugAudioSnapshot, LogStep, MonitorStep, Events
    <3>2. CallsInv'
      BY <2>3 DEF RequestDebugAudioSnapshot
    <3> QED BY <3>1, <3>2
  <2>4. CASE AudioCallback
    <3>1. MonitorStep /\ LogStep
      BY <2>4 DEF AudioCallback, LogStep, MonitorStep, Events
    <3>2. CallsInv'
      BY <2>4 DEF AudioCallback
    <3> QED BY <3>1, <3>2
  <2> QED BY <1>3, <2>1, <2>2, <2>3, <2>4 DEF Callers
<1>4. CASE LogWorks \/ DiskHangs \/ MonitorWorks
  BY <1>4 DEF LogWorks, DiskHangs, MonitorWorks, Works, callVars, LogStep, MonitorStep
<1>5. CASE AsksFinalAudio \/ ShutdownThrows
  BY <1>5 DEF AsksFinalAudio, ShutdownThrows, Advances, callVars, LogStep, MonitorStep, Events
<1>6. CASE Shutdown
  <2>1. CallsInv'
    BY <1>6 DEF Shutdown, StopsMonitor, MonitorAwaited, RecordsStatus, DestroysWindow,
                RecordsShutdown, CloseDiagnostics, Quits, Advances, callVars
  <2>2. MonitorStep
    BY <1>6 DEF Shutdown, StopsMonitor, MonitorAwaited, RecordsStatus, DestroysWindow,
                RecordsShutdown, CloseDiagnostics, Quits, MonitorStep
  <2>3. ASSUME RecordsStatus \/ RecordsShutdown PROVE LogStep
    <3>1. MaxRecords + 1 \in Nat /\ MaxRecords + 2 \in Nat /\ 1 \in Nat
      OBVIOUS
    <3>2. Log(MaxRecords + 1, 1) \/ Log(MaxRecords + 2, 1)
      BY <2>3 DEF RecordsStatus, RecordsShutdown
    <3> QED BY <1>2, <3>1, <3>2
  <2>4. ASSUME ~(RecordsStatus \/ RecordsShutdown) PROVE LogStep
    BY <1>6, <2>4 DEF Shutdown, StopsMonitor, MonitorAwaited, DestroysWindow,
                      CloseDiagnostics, Quits, LogStep
  <2> QED BY <2>1, <2>2, <2>3, <2>4
<1> QED BY <1>1, <1>3, <1>4, <1>5, <1>6 DEF Next

THEOREM Invariance == Spec => []IInv
<1>1. Init => IInv
  BY InitInv
<1>2. IInv /\ [Next]_vars => IInv'
  BY StepSplits, LogStepKeeps, MonitorStepKeeps DEF IInv
<1> QED BY <1>1, <1>2, PTL DEF Spec

\* Every accepted entry is written in order or at a known place, every refusal is
\* reported or will be, whenever the shutdown stops the writer (BackgroundLog::Run).
THEOREM LogAccountedFor == Spec => []LogAccounted
<1>1. IInv => LogAccounted
  <2> SUFFICES ASSUME LogInv PROVE LogAccounted
    BY DEF IInv
  <2>1. ASSUME finished, errors = 0 PROVE written = accepted /\ reported = refused
    <3>1. pending = <<>> /\ dropped = 0 /\ batch.entries = <<>> /\ batch.dropped = 0
      BY <2>1 DEF LogInv, WorkerInv, Emptied, NoBatch
    <3>2. written \o <<>> = written
      BY ConcatEmptySeq DEF LogInv, LogType
    <3> QED BY <3>1, <3>2 DEF LogInv, Accounts, LogType
  <2> QED BY <2>1 DEF LogAccounted, LogInv, Accounts
<1> QED BY <1>1, Invariance, PTL

\* However many threads record at once, the queue of the log keeps its limits.
THEOREM QueueKeepsLimits == Spec => []QueueBounded
<1>1. IInv => QueueBounded
  BY DEF IInv, LogInv
<1> QED BY <1>1, Invariance, PTL

\* What the journal says of itself in its last line is true: nothing that the queue
\* took, no snapshot asked for before Stop and no refusal is missing.
THEOREM JournalWhole == Spec => []JournalIsWhole
<1>1. IInv => JournalIsWhole
  BY SnapshotsOfEmpty DEF IInv, MonitorInv, SnapshotsOwed, ObserverInv, JournalIsWhole
<1> QED BY <1>1, Invariance, PTL

-----------------------------------------------------------------------------
(* Wake-ups *)

\* The worker of the log sleeps only when there is nothing to do for it.
NothingSleptOver == worker = "waiting" => pending = <<>> /\ dropped = 0 /\ ~stopping

LEMMA SleptStep == ASSUME NothingSleptOver, LogStep PROVE NothingSleptOver'
<1> USE DEF NothingSleptOver
<1>1. CASE UNCHANGED logVars
  BY <1>1 DEF logVars
<1>2. ASSUME NEW entry \in Nat, NEW size \in Nat, Push(entry, size)
      PROVE  NothingSleptOver'
  BY <1>1, <1>2 DEF Push, Refuses, Accepts, Woken
<1>3. CASE Stop \/ LogRuns \/ Hangs
  BY <1>3 DEF Stop, Woken, LogRuns, Sleeps, Takes, Writes, WriteFails, Closes, Hangs
<1> QED BY <1>1, <1>2, <1>3 DEF LogStep

\* No entry, refusal or Stop is slept over, although the wait has no timer: a Push or
\* Stop before it is seen by its predicate, one after it wakes it (BackgroundLog.hpp:62).
THEOREM SleepsOnlyIdle == Spec => []NothingSleptOver
<1>1. Init => NothingSleptOver
  BY DEF Init, LogInit, NothingSleptOver
<1>2. IInv /\ NothingSleptOver /\ [Next]_vars => NothingSleptOver'
  BY StepSplits, SleptStep DEF IInv
<1> QED BY <1>1, <1>2, Invariance, PTL DEF Spec

=============================================================================
