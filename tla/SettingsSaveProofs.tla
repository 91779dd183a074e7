-------------------------- MODULE SettingsSaveProofs --------------------------
(***************************************************************************)
(* Proofs about SettingsSave, for any number of changes and of starts and  *)
(* any combination of failures and kills: a save that was reported is      *)
(* found by the next start, the drain reports only what is on disk, no     *)
(* change is left lying, and the files never go back.                      *)
(*                                                                         *)
(* Along the way of a snapshot its numbers only grow: what the next start  *)
(* would find <= what is being written <= what is pending <= the present   *)
(* preferences.  A write is the newest file of both stores, so it is what  *)
(* the next start finds.                                                   *)
(***************************************************************************)
EXTENDS SettingsSave, TLAPS

USE SaveAssumption DEF Snapshots, Stores, NoStore, None

InHand == at \in {"write", "fallback", "written"}

\* What the coroutine has in hand where it is suspended.
PlaceInv ==
    /\ running <=> at # "off"
    /\ running => ~idle
    /\ InHand => writing \in Snapshots /\ path \in Stores /\ ~saveFailed
    /\ at = "written" => Found = writing
    /\ \A s \in Stores : disk[s].time <= clock

\* Snapshots grow along their way.
OrderInv ==
    /\ confirmed <= Found /\ Found <= prefs
    /\ InHand => Found <= writing /\ writing <= prefs
    /\ pending # None => Found <= pending /\ pending <= prefs
    /\ pending # None /\ InHand => writing <= pending

\* While the drain waits, the last snapshot is pending, in hand, found or has failed.
DrainInv ==
    /\ flush \in {"waiting", "complete"} => stopping
    /\ flush = "waiting" =>
          \/ pending = prefs
          \/ /\ pending = None
             /\ \/ InHand /\ writing = prefs
                \/ at = "leaving" /\ (saveFailed \/ Found = prefs)
                \/ at = "off" /\ (failed \/ Found = prefs)
    /\ flush = "complete" => at = "off" /\ Found = prefs

IInv == TypeOK /\ PlaceInv /\ OrderInv /\ DrainInv

-----------------------------------------------------------------------------
(* What the next start finds *)

LEMMA FoundType == TypeOK => Found \in Snapshots
  BY DEF TypeOK, Found, Preferred

LEMMA FoundKept == disk' = disk => Found' = Found
  BY DEF Found, Preferred

\* A file that was just written is the newest of all stores.
LEMMA FoundAfterWrite == ASSUME TypeOK, PlaceInv, WriteSucceeds PROVE Found' = writing
<1>1. path \in Stores
  BY DEF WriteSucceeds, PlaceInv, InHand
<1>2. /\ disk'[path].snapshot = writing /\ disk'[path].time = clock + 1
      /\ \A s \in Stores \ {path} : disk'[s] = disk[s]
  BY <1>1 DEF WriteSucceeds, TypeOK
<1>3. clock \in Nat /\ \A s \in Stores : disk[s].time \in Nat /\ disk[s].time <= clock
  BY DEF TypeOK, PlaceInv
<1>4. Preferred(disk') = path
  BY <1>1, <1>2, <1>3 DEF Preferred
<1> QED BY <1>1, <1>2, <1>4 DEF Found

-----------------------------------------------------------------------------
(* Every step keeps the invariant *)

LEMMA InitInv == Init => IInv
<1> SUFFICES ASSUME Init PROVE IInv
  OBVIOUS
<1>1. TypeOK
  <2>1. disk \in [Stores -> [snapshot: Snapshots, time: Nat]]
    BY DEF Init
  <2>2. 1 \in 1..MaxStarts /\ 0 \in Snapshots /\ clock \in Nat
    BY DEF Init
  <2> QED BY <2>1, <2>2 DEF Init, TypeOK
<1>2. Found = 0
  BY DEF Init, Found, Preferred
<1>3. PlaceInv /\ OrderInv /\ DrainInv
  BY <1>2 DEF Init, PlaceInv, OrderInv, DrainInv, InHand
<1> QED BY <1>1, <1>3 DEF IInv

\* The newest preferences are queued, by a change or by the drain.
LEMMA QueueSaveKeeps ==
  ASSUME IInv, QueueSave(prefs'), prefs' \in Snapshots, prefs <= prefs',
         UNCHANGED <<up, starts, fileVars, confirmed, active, errorShown, stopping>>,
         \/ ~stopping /\ UNCHANGED flush
         \/ stopping /\ flush' = "waiting"
  PROVE  IInv'
<1> USE DEF IInv, QueueSave, Takes, fileVars, workerVars
<1>1. Found' = Found /\ Found \in Snapshots
  BY FoundKept, FoundType
<1>2. TypeOK'
  <2>1. /\ pending' \in Snapshots \cup {None} /\ idle' \in BOOLEAN /\ saveFailed' \in BOOLEAN
        /\ at' \in {"off", "write", "fallback", "written", "leaving", "dialog"}
        /\ writing' \in Snapshots \cup {None} /\ path' \in Stores \cup {NoStore}
    BY DEF TypeOK
  <2>2. flush' \in {"none", "waiting", "complete", "failed", "timeout"}
    BY DEF TypeOK
  <2> HIDE DEF IInv
  <2>3. TypeOK
    BY DEF IInv
  <2> QED BY <2>1, <2>2, <2>3 DEF TypeOK
<1>3. PlaceInv'
  BY <1>1 DEF PlaceInv, InHand, TypeOK
<1>4. OrderInv'
  BY <1>1 DEF OrderInv, PlaceInv, InHand, TypeOK
<1>5. DrainInv'
  BY <1>1 DEF DrainInv, PlaceInv, InHand, TypeOK
<1> QED BY <1>2, <1>3, <1>4, <1>5

LEMMA WriteSucceedsKeeps == ASSUME IInv, WriteSucceeds PROVE IInv'
<1> USE DEF IInv
<1>1. Found' = writing /\ Found \in Snapshots
  BY FoundAfterWrite, FoundType
<1>2. writing \in Snapshots /\ path \in Stores
  BY DEF WriteSucceeds, PlaceInv, InHand
<1>3. TypeOK'
  BY <1>2 DEF WriteSucceeds, saveVars, TypeOK
<1>4. PlaceInv'
  BY <1>1, <1>2 DEF WriteSucceeds, saveVars, TypeOK, PlaceInv, InHand
<1>5. OrderInv'
  BY <1>1, <1>2 DEF WriteSucceeds, saveVars, TypeOK, OrderInv, InHand
<1>6. DrainInv'
  BY <1>1 DEF WriteSucceeds, saveVars, DrainInv, InHand
<1> QED BY <1>3, <1>4, <1>5, <1>6

LEMMA PortableFailsKeeps == ASSUME IInv, PortableFails PROVE IInv'
<1> USE DEF IInv, PortableFails, fileVars, workerVars, saveVars
<1>1. Found' = Found /\ Found \in Snapshots
  BY FoundKept, FoundType
<1>2. TypeOK'
  BY DEF TypeOK, PlaceInv, InHand
<1>3. PlaceInv'
  BY <1>1 DEF PlaceInv, InHand, TypeOK, OrderInv
<1>4. OrderInv'
  BY <1>1 DEF OrderInv, PlaceInv, InHand, TypeOK
<1>5. DrainInv'
  BY <1>1 DEF DrainInv, PlaceInv, InHand, TypeOK
<1> QED BY <1>2, <1>3, <1>4, <1>5

LEMMA WriteFailsKeeps == ASSUME IInv, WriteFails PROVE IInv'
<1> USE DEF IInv, WriteFails, fileVars, workerVars, saveVars
<1>1. Found' = Found /\ Found \in Snapshots
  BY FoundKept, FoundType
<1>2. TypeOK'
  BY DEF TypeOK, PlaceInv, InHand
<1>3. PlaceInv'
  BY <1>1 DEF PlaceInv, InHand, TypeOK, OrderInv
<1>4. OrderInv'
  BY <1>1 DEF OrderInv, PlaceInv, InHand, TypeOK
<1>5. DrainInv'
  BY <1>1 DEF DrainInv, PlaceInv, InHand, TypeOK
<1> QED BY <1>2, <1>3, <1>4, <1>5

LEMMA WorkerResumesKeeps == ASSUME IInv, WorkerResumes PROVE IInv'
<1> USE DEF IInv, WorkerResumes, Takes, fileVars, workerVars, saveVars
<1>1. Found' = Found /\ Found \in Snapshots
  BY FoundKept, FoundType
<1>2. TypeOK'
  BY DEF TypeOK, PlaceInv, InHand
<1>3. PlaceInv'
  BY <1>1 DEF PlaceInv, InHand, TypeOK, OrderInv
<1>4. OrderInv'
  BY <1>1 DEF OrderInv, PlaceInv, InHand, TypeOK
<1>5. DrainInv'
  BY <1>1 DEF DrainInv, PlaceInv, InHand, TypeOK
<1> QED BY <1>2, <1>3, <1>4, <1>5

LEMMA FlushEndsKeeps == ASSUME IInv, FlushEnds PROVE IInv'
<1> USE DEF IInv, FlushEnds, fileVars, workerVars, saveVars
<1>1. Found' = Found /\ Found \in Snapshots
  BY FoundKept, FoundType
<1>2. TypeOK'
  BY DEF TypeOK, PlaceInv, InHand
<1>3. PlaceInv'
  BY <1>1 DEF PlaceInv, InHand, TypeOK, OrderInv
<1>4. OrderInv'
  BY <1>1 DEF OrderInv, PlaceInv, InHand, TypeOK
<1>5. DrainInv'
  BY <1>1 DEF DrainInv, PlaceInv, InHand, TypeOK
<1> QED BY <1>2, <1>3, <1>4, <1>5

LEMMA FlushTimesOutKeeps == ASSUME IInv, FlushTimesOut PROVE IInv'
<1> USE DEF IInv, FlushTimesOut, fileVars, workerVars, saveVars
<1>1. Found' = Found /\ Found \in Snapshots
  BY FoundKept, FoundType
<1>2. TypeOK'
  BY DEF TypeOK, PlaceInv, InHand
<1>3. PlaceInv'
  BY <1>1 DEF PlaceInv, InHand, TypeOK, OrderInv
<1>4. OrderInv'
  BY <1>1 DEF OrderInv, PlaceInv, InHand, TypeOK
<1>5. DrainInv'
  BY <1>1 DEF DrainInv, PlaceInv, InHand, TypeOK
<1> QED BY <1>2, <1>3, <1>4, <1>5

LEMMA ProcessEndsKeeps == ASSUME IInv, ProcessEnds PROVE IInv'
<1> USE DEF IInv, ProcessEnds, fileVars, workerVars, saveVars
<1>1. Found' = Found /\ Found \in Snapshots
  BY FoundKept, FoundType
<1>2. TypeOK'
  <2>1. /\ up' \in BOOLEAN
        /\ UNCHANGED <<starts, prefs, disk, clock, confirmed, pending, running, failed, idle,
                       active, errorShown, at, writing, path, saveFailed, stopping, flush>>
    OBVIOUS
  <2>2. TypeOK
    OBVIOUS
  <2> HIDE DEF IInv, ProcessEnds
  <2> QED BY <2>1, <2>2 DEF TypeOK
<1>3. PlaceInv'
  BY <1>1 DEF PlaceInv, InHand, TypeOK, OrderInv
<1>4. OrderInv'
  BY <1>1 DEF OrderInv, PlaceInv, InHand, TypeOK
<1>5. DrainInv'
  BY <1>1 DEF DrainInv, PlaceInv, InHand, TypeOK
<1> QED BY <1>2, <1>3, <1>4, <1>5

\* The end of the coroutine, in its tail or when the dialog is closed.
LEMMA WorkerEndsKeeps ==
  ASSUME IInv, WorkerEnds, up, at \in {"leaving", "dialog"},
         UNCHANGED <<up, starts, prefs, fileVars, confirmed, active, stopping, flush>>,
         errorShown' \in BOOLEAN,
         \/ at = "leaving" /\ failed' = saveFailed
         \/ at = "dialog" /\ UNCHANGED failed
  PROVE  IInv'
<1> USE DEF IInv, WorkerEnds, Takes, fileVars
<1>1. Found' = Found /\ Found \in Snapshots
  BY FoundKept, FoundType
<1>2. TypeOK'
  BY DEF TypeOK
<1>3. PlaceInv'
  BY <1>1 DEF PlaceInv, InHand, TypeOK
<1>4. OrderInv'
  BY <1>1 DEF OrderInv, InHand, TypeOK
<1>5. DrainInv'
  BY <1>1 DEF DrainInv, PlaceInv, InHand, TypeOK
<1> QED BY <1>2, <1>3, <1>4, <1>5

LEMMA WorkerTailKeeps == ASSUME IInv, WorkerTail PROVE IInv'
<1>1. CASE saveFailed /\ ~stopping /\ ~errorShown
  <2> USE <1>1 DEF IInv, WorkerTail, fileVars
  <2>1. Found' = Found /\ Found \in Snapshots
    BY FoundKept, FoundType
  <2>2. TypeOK'
    BY DEF TypeOK
  <2>3. PlaceInv' /\ OrderInv'
    BY <2>1 DEF PlaceInv, OrderInv, InHand, TypeOK
  <2>4. DrainInv'
    BY <2>1 DEF DrainInv
  <2> QED BY <2>2, <2>3, <2>4
<1>2. CASE ~(saveFailed /\ ~stopping /\ ~errorShown)
  <2>1. /\ WorkerEnds /\ up /\ at = "leaving" /\ failed' = saveFailed
        /\ UNCHANGED <<up, starts, prefs, fileVars, confirmed, active, stopping, flush>>
        /\ errorShown' = errorShown
    BY <1>2 DEF WorkerTail
  <2>2. errorShown' \in BOOLEAN
    BY <2>1 DEF IInv, TypeOK
  <2> QED BY <2>1, <2>2, WorkerEndsKeeps
<1> QED BY <1>1, <1>2

LEMMA DialogClosesKeeps == ASSUME IInv, DialogCloses PROVE IInv'
<1>1. errorShown' \in BOOLEAN
  BY DEF IInv, TypeOK, DialogCloses
<1> QED BY <1>1, WorkerEndsKeeps DEF DialogCloses

LEMMA ChangePreferencesKeeps == ASSUME IInv, ChangePreferences PROVE IInv'
<1>1. prefs' \in Snapshots /\ prefs <= prefs'
  BY DEF ChangePreferences, IInv, TypeOK
<1>2. CASE QueueSave(prefs + 1)
  <2>1. QueueSave(prefs')
    BY <1>2 DEF ChangePreferences
  <2> QED BY <1>1, <2>1, QueueSaveKeeps DEF ChangePreferences
<1>3. CASE SnapshotFails
  <2> USE <1>1, <1>3 DEF IInv, ChangePreferences, SnapshotFails, fileVars, workerVars
  <2>1. Found' = Found /\ Found \in Snapshots
    BY FoundKept, FoundType
  <2>2. TypeOK'
    BY DEF TypeOK
  <2>3. PlaceInv'
    BY <2>1 DEF PlaceInv, InHand
  <2>4. OrderInv'
    BY <2>1 DEF OrderInv, InHand, PlaceInv, TypeOK
  <2>5. DrainInv'
    BY <2>1 DEF DrainInv
  <2> QED BY <2>2, <2>3, <2>4, <2>5
<1> QED BY <1>2, <1>3 DEF ChangePreferences

LEMMA BeginShutdownKeeps == ASSUME IInv, BeginShutdown PROVE IInv'
<1> USE DEF IInv, BeginShutdown, fileVars, workerVars, saveVars
<1>1. prefs' \in Snapshots /\ prefs <= prefs'
  BY DEF TypeOK
<1>2. Found' = Found /\ Found \in Snapshots
  BY FoundKept, FoundType
<1>3. TypeOK'
  BY <1>1 DEF TypeOK
<1>4. PlaceInv'
  BY <1>2 DEF PlaceInv, InHand
<1>5. OrderInv'
  BY <1>1, <1>2 DEF OrderInv, InHand, PlaceInv, TypeOK
<1>6. DrainInv'
  BY <1>2 DEF DrainInv
<1> QED BY <1>3, <1>4, <1>5, <1>6

LEMMA FlushStartsKeeps == ASSUME IInv, FlushStarts PROVE IInv'
<1>1. CASE QueueSave(prefs) /\ flush' = "waiting"
  <2>1. QueueSave(prefs') /\ prefs' \in Snapshots /\ prefs <= prefs'
    BY <1>1 DEF FlushStarts, IInv, TypeOK
  <2> QED BY <1>1, <2>1, QueueSaveKeeps DEF FlushStarts
<1>2. CASE SnapshotFails /\ flush' = "failed"
  <2> USE <1>2 DEF IInv, FlushStarts, SnapshotFails, fileVars, workerVars
  <2>1. Found' = Found
    BY FoundKept
  <2>2. TypeOK'
    BY DEF TypeOK
  <2>3. PlaceInv' /\ OrderInv'
    BY <2>1 DEF PlaceInv, OrderInv, InHand
  <2>4. DrainInv'
    BY DEF DrainInv
  <2> QED BY <2>2, <2>3, <2>4
<1> QED BY <1>1, <1>2 DEF FlushStarts

\* The next start takes up what it finds.
LEMMA StartKeeps == ASSUME IInv, Start PROVE IInv'
<1> USE DEF IInv, Start, fileVars
<1>1. Found' = Found /\ Found \in Snapshots
  BY FoundKept, FoundType
<1>2. active' \in Stores \cup {NoStore}
  BY DEF Preferred
<1>3. TypeOK'
  <2>1. /\ up' \in BOOLEAN /\ starts' \in 1..MaxStarts
        /\ prefs' \in Snapshots /\ confirmed' \in Snapshots
    BY <1>1 DEF TypeOK
  <2>2. disk' \in [Stores -> [snapshot: Snapshots, time: Nat]] /\ clock' \in Nat
    BY DEF TypeOK
  <2> HIDE DEF IInv
  <2> QED BY <1>2, <2>1, <2>2 DEF TypeOK
<1>4. PlaceInv'
  BY DEF PlaceInv, InHand
<1>5. OrderInv'
  BY <1>1 DEF OrderInv, InHand
<1>6. DrainInv'
  BY DEF DrainInv
<1> QED BY <1>3, <1>4, <1>5, <1>6

LEMMA StepKeeps == IInv /\ [Next]_vars => IInv'
<1> SUFFICES ASSUME IInv, [Next]_vars PROVE IInv'
  OBVIOUS
<1>1. CASE UNCHANGED vars
  <2>1. Found' = Found
    BY <1>1, FoundKept DEF vars, fileVars
  <2>2. TypeOK'
    BY <1>1 DEF IInv, vars, fileVars, saveVars, workerVars, TypeOK
  <2>3. PlaceInv' /\ OrderInv' /\ DrainInv'
    BY <1>1, <2>1 DEF IInv, vars, fileVars, saveVars, workerVars, PlaceInv, OrderInv, DrainInv,
                      InHand
  <2> QED BY <2>2, <2>3 DEF IInv
<1>2. CASE Worker
  BY <1>2, WriteSucceedsKeeps, PortableFailsKeeps, WriteFailsKeeps, WorkerResumesKeeps,
     WorkerTailKeeps DEF Worker
<1> QED BY <1>1, <1>2, DialogClosesKeeps, ChangePreferencesKeeps, BeginShutdownKeeps,
           FlushStartsKeeps, FlushEndsKeeps, FlushTimesOutKeeps, ProcessEndsKeeps,
           StartKeeps DEF Next

THEOREM Invariance == Spec => []IInv
<1>1. Init => IInv
  BY InitInv
<1>2. IInv /\ [Next]_vars => IInv'
  BY StepKeeps
<1> QED BY <1>1, <1>2, PTL DEF Spec

-----------------------------------------------------------------------------
(* The properties *)

\* Every variable has its type.
THEOREM TypeCorrect == Spec => []TypeOK
<1>1. IInv => TypeOK
  BY DEF IInv
<1> QED BY <1>1, Invariance, PTL

\* A save that was reported is found by the next start, or a later one is, whatever
\* fails and whenever the process is killed (LoadSettings prefers the newer store).
THEOREM SavedFound == Spec => []SavedIsFound
<1>1. IInv => SavedIsFound
  BY FoundType DEF IInv, OrderInv, SavedIsFound, TypeOK
<1> QED BY <1>1, Invariance, PTL

\* FlushPendingSettings reports success only for preferences that are on disk, also
\* when an idle event or a failure of an earlier snapshot is in its way.
THEOREM DrainReportTrue == Spec => []DrainReportIsTrue
<1>1. IInv => DrainReportIsTrue
  BY DEF IInv, DrainInv, DrainReportIsTrue
<1> QED BY <1>1, Invariance, PTL

-----------------------------------------------------------------------------
(* The way of a change, and of the files *)

\* What is pending has a worker; and where no snapshot and no write can fail, a change of
\* the preferences is in the file, in the worker's hand or pending.
ChangesAreOnTheirWay ==
    up /\ ~stopping =>
        /\ pending # None => running
        /\ Faults \/ Found = prefs \/ pending = prefs \/ (InHand /\ writing = prefs)

\* The files of both stores together never go back to an earlier snapshot.
FilesNeverGoBack == [][Found' >= Found]_vars

LEMMA QueueSaveTakesUp ==
  ASSUME IInv, QueueSave(prefs'), prefs' \in Snapshots
  PROVE  ChangesAreOnTheirWay'
  BY DEF IInv, TypeOK, QueueSave, Takes, InHand, ChangesAreOnTheirWay

LEMMA OnTheirWayKept ==
  ASSUME IInv, ChangesAreOnTheirWay, [Next]_vars
  PROVE  ChangesAreOnTheirWay'
<1> USE DEF IInv, ChangesAreOnTheirWay, fileVars, saveVars, workerVars
<1>1. CASE UNCHANGED vars \/ BeginShutdown \/ FlushStarts \/ FlushEnds \/ FlushTimesOut \/ ProcessEnds
  <2>1. CASE UNCHANGED vars
    <3>1. Found' = Found
      BY <2>1, FoundKept DEF vars
    <3> QED BY <2>1, <3>1 DEF vars, InHand
  <2>2. CASE ~UNCHANGED vars
    BY <1>1, <2>2, FoundKept DEF BeginShutdown, FlushStarts, FlushEnds, FlushTimesOut,
       ProcessEnds, InHand, DrainInv
  <2> QED BY <2>1, <2>2
<1>2. CASE WriteSucceeds
  <2>1. Found' = writing
    BY <1>2, FoundAfterWrite
  <2>2. CASE pending = prefs \/ writing = prefs
    BY <1>2, <2>1, <2>2 DEF WriteSucceeds, InHand
  <2>3. CASE Found = prefs
    BY <1>2, <2>1, <2>3 DEF WriteSucceeds, InHand, OrderInv, TypeOK
  <2>4. CASE Faults
    BY <1>2, <2>4 DEF WriteSucceeds
  <2>5. CASE stopping \/ ~up
    BY <1>2, <2>5 DEF WriteSucceeds
  <2> QED BY <2>2, <2>3, <2>4, <2>5
<1>3. CASE PortableFails \/ WriteFails
  BY <1>3, FoundKept DEF PortableFails, WriteFails, InHand, PlaceInv
<1>4. CASE WorkerResumes
  BY <1>4, FoundKept DEF WorkerResumes, Takes, InHand, PlaceInv, TypeOK
<1>5. CASE WorkerTail \/ DialogCloses
  <2>1. /\ at \in {"leaving", "dialog"} /\ Found' = Found
        /\ UNCHANGED <<up, prefs, stopping>>
    BY <1>5, FoundKept DEF WorkerTail, DialogCloses
  <2>2. CASE WorkerEnds
    <3>1. CASE pending # None /\ ~stopping
      BY <2>1, <2>2, <3>1 DEF WorkerEnds, Takes, InHand, TypeOK
    <3>2. CASE ~(pending # None /\ ~stopping)
      BY <2>1, <2>2, <3>2 DEF WorkerEnds, InHand, TypeOK
    <3> QED BY <3>1, <3>2
  <2>3. CASE ~WorkerEnds
    BY <1>5, <2>1, <2>3 DEF WorkerTail, DialogCloses, InHand, PlaceInv
  <2> QED BY <2>2, <2>3
<1>6. CASE ChangePreferences
  <2>1. prefs' \in Snapshots
    BY <1>6 DEF ChangePreferences, TypeOK
  <2>2. CASE QueueSave(prefs + 1)
    BY <1>6, <2>1, <2>2, QueueSaveTakesUp DEF ChangePreferences
  <2>3. CASE SnapshotFails
    BY <1>6, <2>3 DEF ChangePreferences, SnapshotFails
  <2> QED BY <1>6, <2>2, <2>3 DEF ChangePreferences
<1>7. CASE Start
  BY <1>7, FoundKept DEF Start
<1> QED BY <1>1, <1>2, <1>3, <1>4, <1>5, <1>6, <1>7 DEF Next, Worker

\* No snapshot is left without a worker before the exit (SettingsSave.hpp:90), and no
\* change of the preferences is lost on its way without a failure.
THEOREM ChangesAreCarried == Spec => []ChangesAreOnTheirWay
<1>1. Init => ChangesAreOnTheirWay
  BY DEF Init, ChangesAreOnTheirWay, Found, Preferred
<1>2. IInv /\ ChangesAreOnTheirWay /\ [Next]_vars => ChangesAreOnTheirWay'
  BY OnTheirWayKept
<1> QED BY <1>1, <1>2, Invariance, PTL DEF Spec

\* Whatever fails and whenever the process is killed and started again, the next start
\* never finds preferences that are older than those it would have found before.
THEOREM FilesOnlyAdvance == Spec => FilesNeverGoBack
<1>1. ASSUME IInv, [Next]_vars PROVE [Found' >= Found]_vars
  <2>1. Found \in Snapshots
    BY <1>1, FoundType DEF IInv
  <2>2. CASE WriteSucceeds
    BY <2>1, <2>2, FoundAfterWrite, <1>1 DEF IInv, OrderInv, InHand, WriteSucceeds, PlaceInv
  <2>3. CASE ~WriteSucceeds
    <3>1. disk' = disk
      BY <1>1, <2>3 DEF Next, Worker, vars, fileVars, PortableFails, WriteFails, WorkerResumes,
         WorkerTail, DialogCloses, ChangePreferences, BeginShutdown, FlushStarts, FlushEnds,
         FlushTimesOut, ProcessEnds, Start
    <3> QED BY <2>1, <3>1, FoundKept
  <2> QED BY <2>2, <2>3
<1> QED BY <1>1, Invariance, PTL DEF Spec, FilesNeverGoBack

=============================================================================
