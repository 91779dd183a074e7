---------------------------- MODULE SettingsSave ----------------------------
(***************************************************************************)
(* Saving the preferences: SettingsSave.hpp over the stores of             *)
(* SettingsUtil.hpp, from the first change to the next start of the        *)
(* program.                                                                *)
(*                                                                         *)
(* The UI thread takes snapshots of the preferences; a worker coroutine    *)
(* writes the newest one on a pool thread and comes back to the UI thread. *)
(* `at' names the place where that coroutine is suspended.  A snapshot is  *)
(* represented by its number: the preferences after their n-th change.     *)
(* The process may be killed at any moment.                                *)
(***************************************************************************)
EXTENDS Integers

CONSTANTS
    MaxChanges,   \* bound: changes of the preferences, over all runs
    MaxStarts,    \* bound: starts of the program
    Faults        \* whether snapshots and writes may fail

Stores  == {"portable", "fallback"}
NoStore == "none"
None    == -1     \* no snapshot, an empty utf8 string

ASSUME SaveAssumption ==
    /\ MaxChanges \in Nat
    /\ MaxStarts \in Nat \ {0}
    /\ Faults \in BOOLEAN

VARIABLES
    up,         \* the process runs
    starts,     \* how often it was started
    prefs,      \* number of the current preferences
    disk,       \* per store: the snapshot in the file and when it was written
    clock,      \* time of the latest write
    confirmed,  \* history: the newest snapshot reported as saved
    pending,    \* g_settingsPending
    running,    \* g_settingsSaveWorkerRunning
    failed,     \* g_settingsSaveFailed
    idle,       \* g_settingsSaveIdle, a manual-reset event
    active,     \* g_settingsStorage.activePath
    errorShown, \* g_settingsStorage.saveErrorShown
    at,         \* where SaveSettingsWorker waits; "off" when it does not run
    writing,    \* the snapshot the worker took
    path,       \* the store it writes to
    saveFailed, \* the worker's local flag
    stopping,   \* IsStopping()
    flush       \* FlushPendingSettings: its state and the outcome it logs

fileVars   == <<disk, clock>>
workerVars == <<at, writing, path, saveFailed>>
saveVars   == <<pending, running, failed, idle>>
vars == <<up, starts, prefs, fileVars, confirmed, saveVars, active, errorShown,
          workerVars, stopping, flush>>

-----------------------------------------------------------------------------
(* The worker *)

\* The next snapshot is taken and written to the store last used.
Takes(snapshot, store) ==
    /\ at' = "write"
    /\ writing' = snapshot
    /\ path' = IF store = NoStore THEN "portable" ELSE store

\* QueueSaveSettings with a snapshot that could be built.  A worker that does
\* not run is started, and takes the snapshot before its first suspension.
QueueSave(snapshot) ==
    /\ failed' = FALSE
    /\ running' = TRUE
    /\ IF running
       THEN /\ pending' = snapshot
            /\ UNCHANGED <<idle, workerVars>>
       ELSE /\ pending' = None
            /\ idle' = FALSE
            /\ saveFailed' = FALSE
            /\ Takes(snapshot, active)

\* BuildSettingsJson throws.
SnapshotFails ==
    /\ Faults
    /\ failed' = TRUE
    /\ UNCHANGED <<pending, running, idle, workerVars>>

\* WriteSettingsAtomically succeeds: the file is replaced in one step.
WriteSucceeds ==
    /\ up /\ at \in {"write", "fallback"}
    /\ clock' = clock + 1
    /\ disk' = [disk EXCEPT ![path] = [snapshot |-> writing, time |-> clock + 1]]
    /\ at' = "written"
    /\ UNCHANGED <<up, starts, prefs, confirmed, saveVars, active, errorShown,
                   writing, path, saveFailed, stopping, flush>>

\* The portable store fails and the fallback store, if there is one, is tried.
PortableFails ==
    /\ up /\ Faults /\ at = "write" /\ path = "portable"
    /\ path' = "fallback"
    /\ at' = "fallback"
    /\ UNCHANGED <<up, starts, prefs, fileVars, confirmed, saveVars, active,
                   errorShown, writing, saveFailed, stopping, flush>>

\* The write fails for good and the exception ends the worker's loop.
WriteFails ==
    /\ up /\ Faults /\ at \in {"write", "fallback"}
    /\ saveFailed' = TRUE
    /\ at' = "leaving"
    /\ UNCHANGED <<up, starts, prefs, fileVars, confirmed, saveVars, active,
                   errorShown, writing, path, stopping, flush>>

\* Back on the UI thread: on with a newer snapshot, or out of the loop, after
\* which the coroutine is posted to the UI thread once more.
WorkerResumes ==
    /\ up /\ at = "written"
    /\ active' = path
    /\ confirmed' = writing
    /\ IF pending = None
       THEN /\ at' = "leaving"
            /\ UNCHANGED <<pending, writing, path>>
       ELSE /\ pending' = None
            /\ Takes(pending, path)
    /\ UNCHANGED <<up, starts, prefs, fileVars, running, failed, idle, errorShown,
                   saveFailed, stopping, flush>>

\* Mutant: the worker ends without a look at what was queued meanwhile.
WorkerEndsMut ==
    /\ running' = FALSE
    /\ idle' = TRUE
    /\ at' = "off"
    /\ UNCHANGED <<pending, writing, path, saveFailed>>

\* The worker ends, or another one starts for a snapshot queued meanwhile.
WorkerEnds ==
    IF pending # None /\ ~stopping
    THEN /\ running' = TRUE
         /\ idle' = FALSE
         /\ pending' = None
         /\ saveFailed' = FALSE
         /\ Takes(pending, active)
    ELSE /\ running' = FALSE
         /\ idle' = TRUE
         /\ at' = "off"
         /\ UNCHANGED <<pending, writing, path, saveFailed>>

\* The tail of SaveSettingsWorker.  The first failure shows a modal dialog, and
\* the UI thread goes on dispatching while it is open.
WorkerTail ==
    /\ up /\ at = "leaving"
    /\ failed' = saveFailed
    /\ IF saveFailed /\ ~stopping /\ ~errorShown
       THEN /\ errorShown' = TRUE
            /\ at' = "dialog"
            /\ UNCHANGED <<pending, running, idle, writing, path, saveFailed>>
       ELSE /\ WorkerEnds
            /\ UNCHANGED errorShown
    /\ UNCHANGED <<up, starts, prefs, fileVars, confirmed, active, stopping, flush>>

DialogCloses ==
    /\ up /\ at = "dialog"
    /\ WorkerEnds
    /\ UNCHANGED <<up, starts, prefs, fileVars, confirmed, failed, active, errorShown,
                   stopping, flush>>

-----------------------------------------------------------------------------
(* The UI thread *)

\* RememberDevice and ForgetDevice.
ChangePreferences ==
    /\ up /\ ~stopping /\ prefs < MaxChanges
    /\ prefs' = prefs + 1
    /\ QueueSave(prefs + 1) \/ SnapshotFails
    /\ UNCHANGED <<up, starts, fileVars, confirmed, active, errorShown, stopping,
                   flush>>

\* Exit: the choice in the prompt changes the preferences, but saves nothing.
BeginShutdown ==
    /\ up /\ ~stopping
    /\ stopping' = TRUE
    /\ prefs' \in {prefs} \cup {n \in {prefs + 1} : n <= MaxChanges}
    /\ UNCHANGED <<up, starts, fileVars, confirmed, saveVars, active, errorShown,
                   workerVars, flush>>

\* FlushPendingSettings, called once when nothing else runs any more.
FlushStarts ==
    /\ up /\ stopping /\ flush = "none"
    /\ \/ QueueSave(prefs) /\ flush' = "waiting"
       \/ SnapshotFails /\ flush' = "failed"
    /\ UNCHANGED <<up, starts, prefs, fileVars, confirmed, active, errorShown,
                   stopping>>

\* Mutant: the drain does not look at what is still pending.
FlushEndsMut ==
    /\ up /\ flush = "waiting" /\ idle
    /\ flush' = IF failed THEN "failed" ELSE "complete"
    /\ UNCHANGED <<up, starts, prefs, fileVars, confirmed, saveVars, active,
                   errorShown, workerVars, stopping>>

FlushEnds ==
    /\ up /\ flush = "waiting" /\ idle
    /\ flush' = IF failed \/ pending # None THEN "failed" ELSE "complete"
    /\ UNCHANGED <<up, starts, prefs, fileVars, confirmed, saveVars, active,
                   errorShown, workerVars, stopping>>

FlushTimesOut ==
    /\ up /\ flush = "waiting"
    /\ flush' = "timeout"
    /\ UNCHANGED <<up, starts, prefs, fileVars, confirmed, saveVars, active,
                   errorShown, workerVars, stopping>>

-----------------------------------------------------------------------------
(* The process *)

\* The window is destroyed after the drain, or the process is killed.
ProcessEnds ==
    /\ up
    /\ up' = FALSE
    /\ UNCHANGED <<starts, prefs, fileVars, confirmed, saveVars, active, errorShown,
                   workerVars, stopping, flush>>

\* Mutant: the portable store is always preferred.
PreferredMut(files) ==
    IF files["portable"].time > 0 THEN "portable"
    ELSE IF files["fallback"].time > 0 THEN "fallback" ELSE NoStore

\* LoadSettings: the store that was written later, the portable one first.
Preferred(files) ==
    IF files["fallback"].time > files["portable"].time THEN "fallback"
    ELSE IF files["portable"].time > 0 THEN "portable" ELSE NoStore

\* What the next start finds: 0 stands for the default settings.
Found == IF Preferred(disk) = NoStore THEN 0 ELSE disk[Preferred(disk)].snapshot

\* The program starts again, with both stores readable.
Start ==
    /\ ~up /\ starts < MaxStarts
    /\ up' = TRUE
    /\ starts' = starts + 1
    /\ prefs' = Found
    /\ active' = Preferred(disk)
    /\ confirmed' = Found
    /\ pending' = None /\ running' = FALSE /\ failed' = FALSE /\ idle' = FALSE
    /\ errorShown' = FALSE
    /\ at' = "off" /\ writing' = None /\ path' = NoStore /\ saveFailed' = FALSE
    /\ stopping' = FALSE /\ flush' = "none"
    /\ UNCHANGED fileVars

-----------------------------------------------------------------------------

\* The first start: no file exists.
Init ==
    /\ up = TRUE /\ starts = 1 /\ prefs = 0
    /\ disk = [s \in Stores |-> [snapshot |-> 0, time |-> 0]] /\ clock = 0
    /\ confirmed = 0
    /\ pending = None /\ running = FALSE /\ failed = FALSE /\ idle = FALSE
    /\ active = NoStore /\ errorShown = FALSE
    /\ at = "off" /\ writing = None /\ path = NoStore /\ saveFailed = FALSE
    /\ stopping = FALSE /\ flush = "none"

Worker == WriteSucceeds \/ PortableFails \/ WriteFails \/ WorkerResumes
          \/ WorkerTail

Next ==
    \/ Worker \/ DialogCloses
    \/ ChangePreferences \/ BeginShutdown
    \/ FlushStarts \/ FlushEnds \/ FlushTimesOut
    \/ ProcessEnds \/ Start

Spec == Init /\ [][Next]_vars

\* Writes return, posted continuations run and the user closes the dialog.
FairSpec == Spec /\ WF_vars(Worker) /\ WF_vars(DialogCloses)

-----------------------------------------------------------------------------
(* Properties *)

Snapshots == 0..MaxChanges

\* Every variable has its type.
TypeOK ==
    /\ up \in BOOLEAN
    /\ starts \in 1..MaxStarts
    /\ prefs \in Snapshots
    /\ disk \in [Stores -> [snapshot: Snapshots, time: Nat]]
    /\ clock \in Nat
    /\ confirmed \in Snapshots
    /\ pending \in Snapshots \cup {None}
    /\ running \in BOOLEAN /\ failed \in BOOLEAN /\ idle \in BOOLEAN
    /\ active \in Stores \cup {NoStore}
    /\ errorShown \in BOOLEAN
    /\ at \in {"off", "write", "fallback", "written", "leaving", "dialog"}
    /\ writing \in Snapshots \cup {None}
    /\ path \in Stores \cup {NoStore}
    /\ saveFailed \in BOOLEAN
    /\ stopping \in BOOLEAN
    /\ flush \in {"none", "waiting", "complete", "failed", "timeout"}

\* A save that was reported is never undone: whatever is killed when, the next
\* start finds it or a later one, in whichever store it went to.
SavedIsFound == up => Found >= confirmed

\* "shutdown settings drain complete" is logged only for a snapshot that the
\* next start will find (tests/windows_settings.cpp:168).
DrainReportIsTrue == flush = "complete" => Found = prefs

\* A queued snapshot is taken up before shutdown, with every write bounded.
SnapshotsAreSaved ==
    \A n \in Snapshots :
        (up /\ pending = n) ~> (~up \/ stopping \/ pending # n)

\* The drain commits the final snapshot when no write fails or hangs
\* (SettingsSave.hpp:8, Aulay.cpp:266, tests/windows_settings.cpp:186).
DrainCommits == flush \in {"complete", "failed"} => Found = prefs

=============================================================================
