---------------------------- MODULE Diagnostics ----------------------------
(***************************************************************************)
(* Diagnostics of a session: RecordDiagnostic on any thread feeds the      *)
(* audio monitor and the application log, and the shutdown ends first the  *)
(* one and then the other before it quits (Diagnostics.hpp, and the tail   *)
(* of FinishShutdownWhenReady, ShutdownApplication and                     *)
(* FinishDiagnosticShutdown in Aulay.cpp).  What that shutdown waits for   *)
(* before it comes to the diagnostics is part of ConnectionFlow, AudioFlow *)
(* and SettingsSave.                                                       *)
(***************************************************************************)
EXTENDS BackgroundLog, DebugAudioMonitor

CONSTANTS
    Sizes,         \* sizes of log entries
    MaxRecords,    \* bound: calls of RecordDiagnostic by other code
    MaxSnapshots,  \* bound: calls of RequestDebugAudioSnapshot
    MaxCallbacks   \* bound: calls of audio callbacks

ASSUME DiagnosticsAssumption ==
    /\ Sizes \subseteq Nat
    /\ MaxRecords \in Nat \ {0} /\ {MaxSnapshots, MaxCallbacks} \subseteq Nat

VARIABLES
    writer,      \* g_diagnosticWriter is not null
    records,     \* calls of RecordDiagnostic
    halfway,     \* those that told the monitor but not yet the log
    snapshots,   \* calls of RequestDebugAudioSnapshot
    callbacks,   \* calls of audio callbacks
    phase        \* of the shutdown: "running" before, "quit" after PostQuitMessage

callVars == <<records, halfway, snapshots, callbacks>>
vars == <<logVars, monitorVars, writer, callVars, phase>>

\* InitializeDiagnostics; the thread of the writer may not come into being.  Bound:
\* if both workers live, all calls but the last RecordDiagnostic were made before.
Init ==
    /\ LogInit /\ MonitorInit
    /\ writer \in BOOLEAN
    /\ LET both == writer /\ ~fatal IN
           /\ records = IF both THEN MaxRecords - 1 ELSE 0
           /\ snapshots = IF both THEN MaxSnapshots ELSE 0
           /\ callbacks = IF both THEN MaxCallbacks ELSE 0
    /\ halfway = {}
    /\ phase = "running"

Log(entry, size) == IF writer THEN Push(entry, size) ELSE UNCHANGED logVars

-----------------------------------------------------------------------------
(* Callers on the UI thread, on pool threads and on threads of the audio service *)

\* RecordDiagnostic: first the monitor, then, in a section of its own, the log.
RecordsToMonitor ==
    /\ records < MaxRecords /\ records' = records + 1
    /\ halfway' = halfway \cup {records'}
    /\ Enqueue("ordinary")
    /\ UNCHANGED <<logVars, writer, snapshots, callbacks, phase>>

RecordsToLog(record) ==
    /\ record \in halfway /\ halfway' = halfway \ {record}
    /\ \E size \in Sizes : Log(record, size)
    /\ UNCHANGED <<monitorVars, writer, records, snapshots, callbacks, phase>>

RequestDebugAudioSnapshot ==
    /\ snapshots < MaxSnapshots /\ snapshots' = snapshots + 1
    /\ Enqueue("snapshot")
    /\ UNCHANGED <<logVars, writer, records, halfway, callbacks, phase>>

\* Subscriptions live as long as the observer.
AudioCallback ==
    /\ callbacks < MaxCallbacks /\ callbacks' = callbacks + 1
    /\ observer \notin {"starting", "done"}
    /\ Contended \/ Enqueue("ordinary")
    /\ UNCHANGED <<logVars, writer, records, halfway, snapshots, phase>>

-----------------------------------------------------------------------------
(* The shutdown, on the UI thread *)

Advances(from, to) == phase = from /\ phase' = to /\ UNCHANGED <<writer, callVars>>

\* FinishShutdownWhenReady, after its other waits: a last snapshot, then Stop.
AsksFinalAudio ==
    /\ Advances("running", "asked")
    /\ Enqueue("snapshot")
    /\ UNCHANGED logVars

StopsMonitor ==
    /\ Advances("asked", "awaiting")
    /\ StopDebugAudioMonitor
    /\ UNCHANGED logVars

\* Mutant: the wait for the monitor has no limit.
MonitorAwaitedMut ==
    /\ Advances("awaiting", "awaited") /\ ended
    /\ UNCHANGED <<logVars, monitorVars>>

\* WaitDebugAudioMonitorFinished returns, after 5 s at the latest.
MonitorAwaited ==
    /\ Advances("awaiting", "awaited")
    /\ UNCHANGED <<logVars, monitorVars>>

\* The status of the monitor is recorded, which has been stopped, and
\* WM_FINISHSHUTDOWN posted.
RecordsStatus ==
    /\ Advances("awaited", "posted")
    /\ Log(MaxRecords + 1, 1)
    /\ UNCHANGED monitorVars

\* An exception: it is posted all the same.
ShutdownThrows ==
    /\ \E from \in {"running", "asked", "awaiting", "awaited"} : Advances(from, "posted")
    /\ UNCHANGED <<logVars, monitorVars>>

\* DestroyWindow, ShutdownApplication.
DestroysWindow ==
    /\ Advances("posted", "destroying")
    /\ StopDebugAudioMonitor
    /\ UNCHANGED logVars

RecordsShutdown ==
    /\ Advances("destroying", "recorded")
    /\ Log(MaxRecords + 2, 1)
    /\ UNCHANGED monitorVars

CloseDiagnostics ==
    /\ Advances("recorded", "flushing")
    /\ IF writer THEN Stop ELSE UNCHANGED logVars
    /\ UNCHANGED monitorVars

\* WaitDiagnosticsFinished returns, after 5 s at the latest; PostQuitMessage.
Quits ==
    /\ Advances("flushing", "quit")
    /\ UNCHANGED <<logVars, monitorVars>>

Shutdown ==
    \/ StopsMonitor \/ MonitorAwaited \/ RecordsStatus
    \/ DestroysWindow \/ RecordsShutdown \/ CloseDiagnostics \/ Quits

\* The process ends with the message loop.
Works == phase # "quit" /\ UNCHANGED <<writer, callVars, phase>>

LogWorks     == Works /\ writer /\ LogRuns /\ UNCHANGED monitorVars
DiskHangs    == Works /\ writer /\ Hangs /\ UNCHANGED monitorVars
MonitorWorks == Works /\ MonitorRuns /\ UNCHANGED logVars

Callers ==
    /\ phase # "quit"
    /\ \/ RecordsToMonitor \/ (\E record \in halfway : RecordsToLog(record))
       \/ RequestDebugAudioSnapshot \/ AudioCallback

Next ==
    \/ Callers \/ LogWorks \/ DiskHangs \/ MonitorWorks
    \/ AsksFinalAudio \/ Shutdown \/ ShutdownThrows

Spec == Init /\ [][Next]_vars

\* The message loop and its timers carry the shutdown on, and the thread of the log
\* runs as long as its output returns.  Nothing is assumed of the monitor.
FairSpec ==
    /\ Spec
    /\ WF_vars(Shutdown)
    /\ WF_vars(LogWorks)

-----------------------------------------------------------------------------
\* What waits in the queue of the log is taken up and a stopped worker ends: no entry,
\* refusal or Stop is slept over, unless the disk hangs or the process ends
\* (BackgroundLog.hpp:62; tests/README.md:19).
LogKeepsUp ==
    writer /\ (pending # <<>> \/ dropped > 0 \/ stopping)
        ~> \/ worker = "hung" \/ finished \/ phase = "quit"
           \/ pending = <<>> /\ dropped = 0 /\ ~stopping

\* The shutdown comes to its end although a disk, a driver or the audio service hangs
\* in either worker (Aulay.cpp:286, Diagnostics.hpp:298).
ShutdownQuits == phase # "running" ~> phase = "quit"

=============================================================================
