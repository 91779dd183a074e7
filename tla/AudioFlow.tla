------------------------------ MODULE AudioFlow ------------------------------
(***************************************************************************)
(* The audio-flow tasks of one device: AudioFlowRecovery.hpp with the      *)
(* policy of AudioFlowPolicy.hpp, and the code of ConnectionFlow.hpp and   *)
(* Aulay.cpp that starts, stops, closes and waits for them.                *)
(*                                                                         *)
(* A task verifies that a new link delivers frames.  When the link stays   *)
(* silent it hides the capture endpoint of the device and shows it again,  *)
(* once; after the link was closed it may do so to clean up.  Tasks have   *)
(* threads of their own; sessions come and go on the UI thread; links are  *)
(* closed on pool threads.  An action of a thread is what it does from one *)
(* call of the audio system, or one wait, to the next.                     *)
(*                                                                         *)
(* Time is counted in steps of maxObservationGapMs for the policy.  Every  *)
(* other deadline may pass at any time.                                    *)
(***************************************************************************)
EXTENDS Integers, Sequences, FiniteSets

CONSTANTS
    MaxSessions,   \* bound: sessions of the device
    MaxTasks,      \* bound: State objects
    MaxTick        \* bound: time that a verification observes

\* noFramesMs in units of maxObservationGapMs.
NoFrames == 2

ASSUME FlowTaskAssumption ==
    /\ MaxSessions \in Nat /\ MaxTasks \in Nat
    /\ MaxTick \in Nat /\ MaxTick >= NoFrames

NoTask == 0

\* What one iteration of the verification finds, in the order of the tests of
\* Observe: cancelled; endpoint, jack or capture not ready; jack disconnected;
\* frames; none.
Kinds == {"cancelled", "unknown", "paused", "frames", "silent"}

VARIABLES
    up,         \* the process runs
    drained,    \* how it ended: the audio-flow drain was complete
    stopping,   \* IsStopping()
    attempt,    \* the device's session: "none", "waitPrevious", "opening" or "connected"
    count,      \* number of the latest session
    link,       \* per session: its AudioPlaybackConnection
    flowOf,     \* the session's audioFlow
    latest,     \* g_audioFlowTasks
    previous,   \* ConnectDeviceAsync's previousTask
    tasks,      \* the State objects, with the place their thread is at
    closers,    \* calls of CloseSessionInBackground
    policy,     \* the RecoveryPolicy of the verification
    now,        \* time since the verification began
    silences,   \* history: how long ago it observed silence, since it last observed
                \* anything else, until it repairs
    visible,    \* the endpoint is not hidden
    refused     \* history: the last call that should show it failed

processVars == <<up, drained, stopping>>
sessionVars == <<attempt, count, flowOf, latest, previous>>
policyVars  == <<policy, now, silences>>
endpointVars == <<visible, refused>>
vars == <<processVars, sessionVars, link, tasks, closers, policyVars, endpointVars>>

-----------------------------------------------------------------------------
(* The policy *)

NewPolicy == [disarmed |-> FALSE, pending |-> FALSE, attempted |-> FALSE,
              began |-> 0, last |-> 0]

\* Mutant: a gap between two observations counts as silence.
SilentMut(p, tick) ==
    [p EXCEPT !.pending = TRUE,
              !.began = IF ~p.pending THEN tick ELSE @,
              !.last = tick]

Silent(p, tick) ==
    LET restarts == ~p.pending \/ tick < p.last \/ tick - p.last > 1
    IN  [p EXCEPT !.pending = TRUE,
                  !.began = IF restarts THEN tick ELSE @,
                  !.last = tick]

Result(decision, p) == [decision |-> decision, policy |-> p]

\* Decision and policy after what ends the verification, or interrupts a silence.
Interruption(p, kind) ==
    LET unproven == [p EXCEPT !.pending = FALSE]
        over     == [unproven EXCEPT !.disarmed = TRUE]
    IN  CASE kind = "cancelled" -> Result("Cancelled", over)
          [] kind = "paused"    -> Result("Paused", over)
          [] kind = "frames"    -> Result("Healthy", over)
          [] kind = "unknown"   -> Result("Unknown", unproven)
          [] kind = "silent"    -> Result("Deferred", unproven)

\* Decision and policy after an observation by an authorized policy.
Observe(p, kind, tick) ==
    LET q == Silent(p, tick)
    IN  IF kind # "silent" \/ p.disarmed THEN Interruption(p, kind)
        ELSE IF p.attempted THEN Result("AlreadyAttempted", p)
        ELSE IF tick - q.began < NoFrames THEN Result("Wait", q)
        ELSE Result("Recover", [q EXCEPT !.pending = FALSE, !.attempted = TRUE])

-----------------------------------------------------------------------------
(* Sessions, on the UI thread *)

\* A State object of session s; a thread that verifies has an isOpened.
NewTask(s, at, verifies, cleanup, stop) ==
    [owner |-> s, at |-> at, verifies |-> verifies, cleanup |-> cleanup,
     stop |-> stop, closed |-> FALSE, done |-> FALSE,
     closing |-> FALSE, repairs |-> 0]

\* What WaitFinished waits for.
Finished(t) == tasks[t].done /\ (tasks[t].stop => tasks[t].closed)

\* CloseConnectionSession.  A live task of the session goes on to the cleanup, if
\* any; otherwise a thread is started for a cleanup, or none (at = "none"), as
\* when starting it failed.
CloseSession(cleanAudio, starts) ==
    LET reuses   == flowOf # NoTask /\ ~tasks[flowOf].done
        threaded == reuses \/ (cleanAudio /\ starts)
        flow     == IF reuses THEN flowOf ELSE Len(tasks) + 1
    IN  /\ flow <= MaxTasks
        /\ tasks' = IF reuses
                    THEN [tasks EXCEPT ![flow].stop = TRUE, ![flow].cleanup = cleanAudio]
                    ELSE Append(tasks, NewTask(count, IF threaded THEN "start" ELSE "none",
                                               FALSE, cleanAudio, TRUE))
        /\ closers' = closers \cup {[session |-> count, flow |-> flow,
                                     threaded |-> threaded, predecessor |-> latest]}
        /\ latest' = flow
        /\ attempt' = "none" /\ flowOf' = NoTask /\ previous' = NoTask
        /\ UNCHANGED count

\* ConnectDeviceAsync up to its wait for the previous task.
BeginAttempt ==
    /\ up /\ ~stopping /\ attempt = "none" /\ count < MaxSessions
    /\ count' = count + 1
    /\ previous' = latest
    /\ attempt' = IF latest = NoTask THEN "opening" ELSE "waitPrevious"
    /\ UNCHANGED <<processVars, link, flowOf, latest, tasks, closers, policyVars,
                   endpointVars>>

PreviousFinished ==
    /\ up /\ attempt = "waitPrevious" /\ Finished(previous)
    /\ attempt' = "opening"
    /\ latest' = NoTask /\ previous' = NoTask
    /\ UNCHANGED <<processVars, link, count, flowOf, tasks, closers, policyVars,
                   endpointVars>>

LinkOpens ==
    /\ up /\ attempt = "opening" /\ link[count] = "none"
    /\ link' = [link EXCEPT ![count] = "open"]
    /\ UNCHANGED <<processVars, sessionVars, tasks, closers, policyVars, endpointVars>>

\* The attempt is committed; a verification starts unless the request is an
\* automatic one or no thread can be had.
Connects(verifies) ==
    /\ up /\ attempt = "opening" /\ link[count] = "open"
    /\ attempt' = "connected"
    /\ IF verifies
       THEN /\ Len(tasks) < MaxTasks
            /\ tasks' = Append(tasks, NewTask(count, "start", TRUE, FALSE, FALSE))
            /\ flowOf' = Len(tasks) + 1 /\ latest' = Len(tasks) + 1
       ELSE UNCHANGED <<tasks, flowOf, latest>>
    /\ UNCHANGED <<processVars, link, count, previous, closers, policyVars, endpointVars>>

\* The wait for the previous task times out, a step of the attempt fails, or it
\* is cancelled.
AttemptFails ==
    /\ up /\ attempt \in {"waitPrevious", "opening"}
    /\ CloseSession(FALSE, FALSE)
    /\ UNCHANGED <<processVars, link, policyVars, endpointVars>>

\* The user disconnects, the remote closed the link or an adapter reset begins;
\* only the latter and a forced connect skip the cleanup.
Disconnects(cleanAudio, starts) ==
    /\ up /\ attempt = "connected"
    /\ CloseSession(cleanAudio, starts)
    /\ UNCHANGED <<processVars, link, policyVars, endpointVars>>

\* The remote closes the link, or opens it again.
RemoteChanges(s) ==
    /\ up /\ link[s] \in {"open", "lost"}
    /\ link' = [link EXCEPT ![s] = IF @ = "open" THEN "lost" ELSE "open"]
    /\ UNCHANGED <<processVars, sessionVars, tasks, closers, policyVars, endpointVars>>

\* Mutant: the close does not wait for the task of the session before.
PredecessorFinishedMut(c) == TRUE

\* Mutant: also a close that shares its task with the session before waits.
PredecessorFinishedMut2(c) == c.predecessor # NoTask => Finished(c.predecessor)

PredecessorFinished(c) ==
    c.predecessor \notin {NoTask, c.flow} => Finished(c.predecessor)

\* CloseSessionInBackground, until it returns from Close or its exception.
CloseReturns(c) ==
    /\ up /\ c \in closers /\ PredecessorFinished(c)
    /\ closers' = closers \ {c}
    /\ link' = [link EXCEPT ![c.session] = IF @ = "none" THEN @ ELSE "closed"]
    /\ tasks' = [tasks EXCEPT ![c.flow].closed = TRUE,
                              ![c.flow].done = @ \/ ~c.threaded]
    /\ UNCHANGED <<processVars, sessionVars, policyVars, endpointVars>>

-----------------------------------------------------------------------------
(* A task's thread *)

Threads == {t \in DOMAIN tasks : tasks[t].at # "none"}

\* Positions of Cycle after the endpoint may have been hidden.
CyclePlaces == {"hidden", "show", "again", "restore"}
InCycle(t)  == tasks[t].at \in CyclePlaces

ConnectionOpened(t) == ~tasks[t].stop /\ link[tasks[t].owner] = "open"

Goes(t, place) == tasks' = [tasks EXCEPT ![t].at = place]

Ends(t) == tasks' = [tasks EXCEPT ![t].at = "done", ![t].done = TRUE]

\* Run of t is at this place.
At(t, place) == up /\ tasks[t].at = place

ThreadStarts(t) ==
    /\ At(t, "start")
    /\ Goes(t, IF tasks[t].verifies THEN "verify" ELSE "waitClosed")
    /\ UNCHANGED <<processVars, sessionVars, link, closers, policyVars, endpointVars>>

\* The policy and the deadline of a verification, locals of Run, as it begins or
\* as they are of no more use.
NoVerification ==
    /\ policy' = NewPolicy /\ now' = 0
    /\ silences' = {}

\* COM or the enumerator fails, or an exception ends the verification.
ThreadFails(t) ==
    /\ At(t, "start") \/ At(t, "verify") \/ At(t, "observe")
    /\ Ends(t)
    /\ IF tasks[t].verifies THEN NoVerification ELSE UNCHANGED policyVars
    /\ UNCHANGED <<processVars, sessionVars, link, closers, endpointVars>>

\* The head of the loop goes on, unless the deadline has passed.
Verifies(t) ==
    /\ At(t, "verify")
    /\ \/ ConnectionOpened(t) /\ Goes(t, "observe") /\ UNCHANGED policyVars
       \/ Goes(t, "waitClosed") /\ NoVerification
    /\ UNCHANGED <<processVars, sessionVars, link, closers, endpointVars>>

\* The rest of an iteration, with what it found.  A hidden endpoint is not active.
Observes(t, kind) ==
    LET observed == Observe(policy, IF tasks[t].stop THEN "cancelled" ELSE kind, now)
    IN  /\ At(t, "observe")
        /\ kind \in Kinds \ {"cancelled"}
        /\ ~visible => kind = "unknown"
        /\ IF observed.decision \in {"Healthy", "Paused", "Cancelled"}
           THEN Goes(t, "waitClosed") /\ NoVerification
           ELSE /\ Goes(t, IF observed.decision = "Recover" THEN "check" ELSE "verify")
                /\ policy' = observed.policy
                /\ silences' = IF policy.attempted THEN silences
                               ELSE IF kind = "silent" THEN silences \cup {0} ELSE {}
                /\ UNCHANGED now
        /\ UNCHANGED <<processVars, sessionVars, link, closers, endpointVars>>

\* The wait at the end of an iteration and the work up to the next observation,
\* which takes the time just before it, take theirs.  After the repair the policy
\* reads no time.
TimePasses ==
    /\ up /\ now < MaxTick /\ ~policy.attempted
    /\ \E t \in Threads : tasks[t].at = "verify"
    /\ now' = now + 1
    /\ silences' = {age + 1 : age \in silences} \ {NoFrames + 1}
    /\ UNCHANGED <<processVars, sessionVars, link, tasks, closers, policy, endpointVars>>

-----------------------------------------------------------------------------
(* Cycle, for a repair and for a cleanup (closing) *)

\* Cycle returns: to the verification, or to the end of the thread.
CycleReturns(t) ==
    IF tasks[t].closing THEN Ends(t) /\ UNCHANGED silences
                        ELSE Goes(t, "verify") /\ silences' = {}

\* A repair needs an open connection of a session that was not closed.
Permitted(t) == tasks[t].closing \/ ConnectionOpened(t)

CycleChecks(t) ==
    /\ At(t, "check") /\ Permitted(t) /\ visible
    /\ Goes(t, "recheck")
    /\ UNCHANGED <<processVars, sessionVars, link, closers, policyVars, endpointVars>>

\* Any of the checks fails, the deadline of repairs among them, or a call does,
\* before the endpoint is hidden.
CycleAborts(t) ==
    /\ At(t, "check") \/ At(t, "recheck")
    /\ CycleReturns(t)
    /\ UNCHANGED <<processVars, sessionVars, link, closers, policy, now, endpointVars>>

\* The second check and SetEndpointVisibility(false).
Hides(t) ==
    /\ At(t, "recheck") /\ Permitted(t)
    /\ \E ok \in BOOLEAN :
          /\ visible' = (visible /\ ~ok)
          /\ tasks' = [tasks EXCEPT ![t].at = IF ok THEN "hidden" ELSE "show",
                                    ![t].repairs = IF tasks[t].closing THEN @ ELSE @ + 1]
    /\ UNCHANGED <<processVars, sessionVars, link, closers, policyVars, refused>>

\* The wait for the notification of the disabled endpoint ends.
HideSeen(t) ==
    /\ At(t, "hidden")
    /\ Goes(t, "show")
    /\ UNCHANGED <<processVars, sessionVars, link, closers, policyVars, endpointVars>>

\* SetEndpointVisibility(true) and the wait for the endpoint to come back.
Shows(t) ==
    /\ At(t, "show") \/ At(t, "again")
    /\ \/ /\ visible' = TRUE /\ refused' = FALSE
          /\ \/ CycleReturns(t)
             \/ Goes(t, "again") /\ UNCHANGED silences
       \/ /\ refused' = TRUE
          /\ Goes(t, "again")
          /\ UNCHANGED <<visible, silences>>
    /\ UNCHANGED <<processVars, sessionVars, link, closers, policy, now>>

RestoreTimesOut(t) ==
    /\ At(t, "again")
    /\ Goes(t, "restore")
    /\ UNCHANGED <<processVars, sessionVars, link, closers, policyVars, endpointVars>>

\* The destructor of Restore.
Restores(t) ==
    /\ At(t, "restore")
    /\ \E ok \in BOOLEAN : visible' = (visible \/ ok) /\ refused' = ~ok
    /\ CycleReturns(t)
    /\ UNCHANGED <<processVars, sessionVars, link, closers, policy, now>>

\* The thread waits for the close of its link, for ever if need be.
SeesClosed(t) ==
    /\ At(t, "waitClosed") /\ tasks[t].closed
    /\ IF tasks[t].cleanup
       THEN \/ tasks' = [tasks EXCEPT ![t].at = "check", ![t].closing = TRUE]
            \/ Ends(t)     \* ResolveEndpoint finds none
       ELSE Ends(t)
    /\ UNCHANGED <<processVars, sessionVars, link, closers, policyVars, endpointVars>>

-----------------------------------------------------------------------------
(* Shutdown *)

BeginShutdown ==
    /\ up /\ ~stopping
    /\ stopping' = TRUE
    /\ IF attempt = "none" THEN UNCHANGED <<sessionVars, tasks, closers>>
                           ELSE CloseSession(FALSE, FALSE)
    /\ UNCHANGED <<up, drained, link, policyVars, endpointVars>>

\* FinishShutdownWhenReady waits for g_audioFlowTasks up to a deadline.
ProcessExits ==
    /\ up /\ stopping
    /\ up' = FALSE
    /\ drained' = (latest = NoTask \/ Finished(latest))
    /\ UNCHANGED <<stopping, sessionVars, link, tasks, closers, policyVars, endpointVars>>

-----------------------------------------------------------------------------

Init ==
    /\ up = TRUE /\ drained = FALSE /\ stopping = FALSE
    /\ attempt = "none" /\ count = 0 /\ flowOf = NoTask
    /\ latest = NoTask /\ previous = NoTask
    /\ link = [s \in 1..MaxSessions |-> "none"]
    /\ tasks = <<>> /\ closers = {}
    /\ policy = NewPolicy /\ now = 0
    /\ silences = {}
    /\ visible = TRUE /\ refused = FALSE

Sessions ==
    \/ BeginAttempt \/ PreviousFinished \/ LinkOpens \/ AttemptFails
    \/ \E verifies \in BOOLEAN : Connects(verifies)
    \/ \E cleanAudio, starts \in BOOLEAN : Disconnects(cleanAudio, starts)
    \/ \E s \in 1..MaxSessions : RemoteChanges(s)
    \/ \E c \in closers : CloseReturns(c)
    \/ BeginShutdown \/ ProcessExits

ThreadStep(t) ==
    \/ ThreadStarts(t) \/ ThreadFails(t) \/ Verifies(t)
    \/ \E kind \in Kinds : Observes(t, kind)
    \/ CycleChecks(t) \/ CycleAborts(t) \/ Hides(t) \/ HideSeen(t)
    \/ Shows(t) \/ Restores(t) \/ SeesClosed(t)

Next ==
    \/ Sessions
    \/ TimePasses
    \/ \E t \in Threads : ThreadStep(t) \/ RestoreTimesOut(t)

Spec == Init /\ [][Next]_vars

-----------------------------------------------------------------------------
(* Properties *)

Places == {"none", "start", "verify", "observe", "waitClosed", "check", "recheck", "done"}
              \cup CyclePlaces

TaskRecord == [owner: 1..MaxSessions, at: Places, verifies: BOOLEAN, cleanup: BOOLEAN,
               stop: BOOLEAN, closed: BOOLEAN, done: BOOLEAN, closing: BOOLEAN,
               repairs: Nat]
CloserRecord == [session: 1..MaxSessions, flow: 1..MaxTasks, threaded: BOOLEAN,
                 predecessor: 0..MaxTasks]

\* Every variable has its type.
TypeOK ==
    /\ {up, drained, stopping, visible, refused} \subseteq BOOLEAN
    /\ attempt \in {"none", "waitPrevious", "opening", "connected"}
    /\ count \in 0..MaxSessions
    /\ link \in [1..MaxSessions -> {"none", "open", "lost", "closed"}]
    /\ {flowOf, latest, previous} \subseteq 0..Len(tasks)
    /\ tasks \in Seq(TaskRecord) /\ Len(tasks) <= MaxTasks
    /\ closers \subseteq CloserRecord
    /\ policy \in [disarmed: BOOLEAN, pending: BOOLEAN, attempted: BOOLEAN,
                   began: 0..MaxTick, last: 0..MaxTick]
    /\ now \in 0..MaxTick
    /\ silences \subseteq 0..NoFrames

\* An endpoint is hidden only by a cycle in progress, or because Windows refused to
\* show it.  So an exit whose drain was complete leaves none behind, also by a task
\* that g_audioFlowTasks no longer holds (Aulay.cpp, FinishShutdownWhenReady).
ExitRestores ==
    ~visible /\ ~refused =>
        IF up THEN \E t \in DOMAIN tasks : InCycle(t) ELSE ~drained

\* A task never works on the endpoint beside another one of its device, or while
\* the device has a newer link, or, for a cleanup, before its own was closed.
CyclesSpareLinks ==
    up => \A t \in DOMAIN tasks : InCycle(t) =>
        /\ \A u \in DOMAIN tasks \ {t} : ~InCycle(u)
        /\ \A s \in 1..MaxSessions : s > tasks[t].owner => link[s] = "none"
        /\ tasks[t].closing => link[tasks[t].owner] \in {"none", "closed"}

\* The latest task stands for all of them: when an attempt has waited for it, no
\* close is pending and no other thread lives (ConnectionFlow.hpp, the chain of
\* predecessors).
LatestStandsForAll ==
    attempt \in {"opening", "connected"} =>
        closers = {} /\ \A t \in DOMAIN tasks : tasks[t].done \/ t = flowOf

\* A repair follows 0.5 s in which a ready capture was silent, observed in every
\* interval of it and nothing else since; and a session makes one repair only
\* (README.md, Features).
SilenceProven ==
    [][\A t \in DOMAIN tasks : tasks[t].at = "observe" /\ tasks'[t].at = "check" =>
          silences' = 0..NoFrames /\ tasks[t].repairs = 0]_vars

\* Not everyone waits for everyone: while closes are pending, one of them or a
\* thread can go on (the chain of predecessors, and the wait without a deadline
\* for the close of a task's own link).
NoCircularWait ==
    closers # {} =>
        \/ \E c \in closers : PredecessorFinished(c)
        \/ \E t \in Threads :
              ~tasks[t].done /\ (tasks[t].at = "waitClosed" => tasks[t].closed)

\* The chain that ConnectionFlow implements as well, seen from the tasks: what a
\* closed session leaves behind is its task, until WaitFinished lets others go on.
ChainSession ==
    IF attempt = "none" THEN "none" ELSE IF link[count] = "none" THEN "attempt" ELSE "linked"

PendingTasks == {t \in DOMAIN tasks : tasks[t].stop /\ ~Finished(t)}

Chain == INSTANCE CloseChain WITH session <- ChainSession, pending <- Cardinality(PendingTasks)

\* A link opens only when the tasks of all earlier sessions are finished, each
\* session that ends leaves one task to be waited for, and none is finished twice
\* (ConnectionFlow.hpp:258; AudioFlowRecovery.hpp, WaitFinished).
ImplementsCloseChain == Chain!Spec

=============================================================================
