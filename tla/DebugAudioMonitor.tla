------------------------- MODULE DebugAudioMonitor -------------------------
(***************************************************************************)
(* The queue of the audio monitor and the worker that writes its journal   *)
(* (DebugAudioMonitor.hpp: State, Run, Start, Stop).  Audio callbacks only *)
(* try the mutex and count an event as lost when somebody holds it.  What  *)
(* the worker observes of endpoints and sessions on its own is left out:   *)
(* it adds lines to the journal and touches no state of the queue.         *)
(***************************************************************************)
EXTENDS Naturals, Sequences

CONSTANTS
    MaxQueue    \* 4096

ASSUME MonitorAssumption == MaxQueue \in Nat \ {0}

VARIABLES
    queue,             \* State::queue: of events that are a "snapshot" or "ordinary"
    lost,              \* State::dropped
    halted,            \* State::stopping
    ended,             \* State::finished
    fatal,
    pendingSnapshots,
    observer,          \* where Run is
    events,            \* the local `events' of Run
    crowded,           \* history: refused by a full queue since the last report
    unmet,             \* history: snapshots asked for before Stop and not yet written
    drained            \* the journal says queue-drained=true

histories   == <<crowded, unmet, drained>>
monitorVars == <<queue, lost, halted, ended, fatal, pendingSnapshots, observer, events,
                 histories>>
workerVars  == <<pendingSnapshots, observer, events, unmet, drained, fatal, ended>>

\* StartDebugAudioMonitor.  Without its thread, or without a folder for its files,
\* there is only a state that is over.
MonitorInit ==
    /\ queue = <<>> /\ lost = 0 /\ halted = FALSE
    /\ fatal \in BOOLEAN /\ ended = fatal
    /\ observer = IF fatal THEN "done" ELSE "starting"
    /\ pendingSnapshots = 0 /\ events = <<>>
    /\ crowded = 0 /\ unmet = 0 /\ drained = FALSE

-----------------------------------------------------------------------------
(* State::Push *)

One(event) == IF event = "snapshot" THEN 1 ELSE 0

\* With the mutex.  Snapshots, markers among them, are taken even by a full queue.
PushEvent(event) ==
    /\ ~(halted \/ ended)
    /\ IF Len(queue) >= MaxQueue /\ event # "snapshot"
       THEN /\ lost' = lost + 1 /\ crowded' = crowded + 1
            /\ UNCHANGED <<queue, pendingSnapshots>>
       ELSE /\ queue' = Append(queue, event)
            /\ pendingSnapshots' = pendingSnapshots + One(event)
            /\ UNCHANGED <<lost, crowded>>
    /\ unmet' = unmet + One(event)
    /\ UNCHANGED <<halted, ended, fatal, observer, events, drained>>

\* EnqueueDebugAudioEvent.
Enqueue(event) ==
    \/ PushEvent(event)
    \/ (halted \/ ended) /\ UNCHANGED monitorVars

\* Report of an audio callback whose try_lock failed.
Contended ==
    /\ lost' = lost + 1
    /\ UNCHANGED <<queue, halted, crowded, workerVars>>

\* StopDebugAudioMonitor.
StopDebugAudioMonitor ==
    /\ halted' = TRUE
    /\ UNCHANGED <<queue, lost, crowded, workerVars>>

-----------------------------------------------------------------------------
(* Run *)

\* The journal is open and COM initialised.
MonitorOpens ==
    /\ observer = "starting" /\ observer' = "looking"
    /\ UNCHANGED <<queue, lost, halted, ended, fatal, pendingSnapshots, events, histories>>

\* The wait ends by its time, by an event or by Stop; the whole queue is taken.
TakesEvents ==
    /\ observer = "looking" /\ observer' = "writing"
    /\ events' = queue /\ queue' = <<>>
    /\ UNCHANGED <<lost, halted, ended, fatal, pendingSnapshots, histories>>

\* One event is written; a snapshot is collected or its failure noted.
WritesEvent ==
    /\ observer = "writing" /\ events # <<>>
    /\ events' = Tail(events)
    /\ pendingSnapshots' = pendingSnapshots - One(Head(events))
    /\ unmet' = unmet - One(Head(events))
    /\ UNCHANGED <<queue, lost, halted, ended, fatal, observer, crowded, drained>>

\* dropped.exchange(0), and the line in the journal.
ReportsLoss ==
    /\ observer = "writing" /\ events = <<>>
    /\ observer' = "judging"
    /\ lost' = 0 /\ crowded' = 0
    /\ UNCHANGED <<queue, halted, ended, fatal, pendingSnapshots, events, unmet,
                   drained>>

\* Mutant: what was queued between the swap and Stop is forgotten.
JudgesMut ==
    /\ observer = "judging"
    /\ drained' = halted
    /\ observer' = IF drained' THEN "closing" ELSE "looking"
    /\ UNCHANGED <<queue, lost, halted, ended, fatal, pendingSnapshots, events, crowded,
                   unmet>>

\* Once stopped, another round for what is queued, or Journal::Finish.
Judges ==
    /\ observer = "judging"
    /\ drained' = (halted /\ queue = <<>>)
    /\ observer' = IF drained' THEN "closing" ELSE "looking"
    /\ UNCHANGED <<queue, lost, halted, ended, fatal, pendingSnapshots, events, crowded,
                   unmet>>

\* Subscriptions are revoked, and the worker is over.
MonitorEnds ==
    /\ observer = "closing" /\ observer' = "done"
    /\ ended' = TRUE
    /\ UNCHANGED <<queue, lost, halted, fatal, pendingSnapshots, events, histories>>

\* An exception that Run does not expect.
MonitorDies ==
    /\ observer \in {"starting", "looking", "writing", "judging"} /\ observer' = "done"
    /\ fatal' = TRUE /\ ended' = TRUE
    /\ UNCHANGED <<queue, lost, halted, pendingSnapshots, events, histories>>

\* A call of the audio service, a driver or the disk does not return.
MonitorHangs ==
    /\ observer \in {"starting", "writing", "judging", "closing"} /\ observer' = "hung"
    /\ UNCHANGED <<queue, lost, halted, ended, fatal, pendingSnapshots, events, histories>>

MonitorRuns ==
    \/ MonitorOpens \/ TakesEvents \/ WritesEvent \/ ReportsLoss \/ Judges
    \/ MonitorEnds \/ MonitorDies \/ MonitorHangs

-----------------------------------------------------------------------------
\* A journal that ends with "queue-drained=true" has every event the queue took and
\* every snapshot that was asked for before Stop; nothing is added afterwards, and no
\* refusal of a full queue is missing from its reports (DebugAudioMonitor.hpp:57, :204
\* and :689; tests/test_debug_timeline.py:22).
JournalIsWhole ==
    drained => /\ queue = <<>> /\ events = <<>>
               /\ unmet = 0 /\ pendingSnapshots = 0 /\ crowded = 0

=============================================================================
