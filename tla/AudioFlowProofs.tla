--------------------------- MODULE AudioFlowProofs ---------------------------
(***************************************************************************)
(* Proofs about AudioFlow, for any number of sessions and tasks and any    *)
(* time a verification may take: that no two tasks work on the endpoint,   *)
(* that the chain of predecessors never closes to a circle, that a         *)
(* complete drain leaves no endpoint hidden, that a repair follows         *)
(* unbroken silence, and that sessions and tasks implement CloseChain.     *)
(*                                                                         *)
(* The argument is the chain: the tasks in the order of their creation are *)
(* finished, then at most one lives, and every later one is still to be    *)
(* closed; each pending close waits for the task before its own, or all of *)
(* those are finished.                                                     *)
(***************************************************************************)
EXTENDS AudioFlow, SequenceTheorems, FiniteSetTheorems, TLAPS

Lives(t)     == tasks[t].at \notin {"none", "done"}
Unclosed(t)  == tasks[t].stop /\ ~tasks[t].closed
EarlyPlaces     == {"start", "verify", "observe", "waitClosed"}
VerifyingPlaces == {"verify", "observe", "check", "recheck"} \cup CyclePlaces
Verifying(t) == tasks[t].at \in VerifyingPlaces /\ ~tasks[t].closing

\* What the place of a task's thread says about its flags.
PlaceInv ==
    \A t \in DOMAIN tasks :
        /\ tasks[t].done <=> ~Lives(t) /\ (tasks[t].at = "none" => tasks[t].closed)
        /\ tasks[t].at = "none" => tasks[t].stop
        /\ tasks[t].closed => tasks[t].stop
        /\ tasks[t].closing => tasks[t].closed
        /\ tasks[t].at \in EarlyPlaces => ~tasks[t].closing
        /\ Verifying(t) => tasks[t].verifies
        /\ Lives(t) /\ ~tasks[t].stop => t = flowOf

\* The close of every task that was stopped is pending until it is closed.
CloserInv ==
    /\ \A t \in DOMAIN tasks : Unclosed(t) => \E c \in closers : c.flow = t
    /\ \A c, d \in closers : c.flow = d.flow => c = d
    /\ \A c \in closers :
           /\ c.flow \in DOMAIN tasks /\ Unclosed(c.flow)
           /\ c.session = tasks[c.flow].owner
           /\ c.threaded <=> tasks[c.flow].at # "none"
           /\ c.predecessor \in {NoTask, c.flow, c.flow - 1}
           /\ c.predecessor \in {NoTask, c.flow} => \A t \in 1..(c.flow - 1) : Finished(t)

\* Tasks finish one after the other, and at most one has a thread that lives.
OrderInv ==
    /\ \A u \in DOMAIN tasks : \A t \in 1..(u - 1) : Finished(t) \/ Unclosed(u)
    /\ \A t, u \in DOMAIN tasks : Lives(t) /\ Lives(u) => t = u
    /\ (\A t \in DOMAIN tasks : Finished(t))
         \/ \E t \in DOMAIN tasks : ~Finished(t) /\ \A u \in 1..(t - 1) : Finished(u)

SessionInv ==
    /\ latest \in {NoTask, Len(tasks)}
    /\ latest = NoTask => \A t \in DOMAIN tasks : Finished(t)
    /\ attempt = "opening" => latest = NoTask
    /\ attempt = "connected" =>
           latest = flowOf /\ \A t \in DOMAIN tasks : t # flowOf => Finished(t)
    /\ attempt = "waitPrevious" => previous = latest /\ latest # NoTask
    /\ flowOf # NoTask => /\ attempt = "connected" /\ ~tasks[flowOf].stop
                          /\ tasks[flowOf].owner = count

LinkInv ==
    /\ attempt # "none" => count > 0
    /\ \A s \in 1..MaxSessions : s > count => link[s] = "none"
    /\ \A t \in DOMAIN tasks :
           /\ tasks[t].owner <= count
           /\ attempt # "none" /\ tasks[t].stop => tasks[t].owner < count
           /\ tasks[t].closed => link[tasks[t].owner] \in {"none", "closed"}
           /\ Lives(t) => \A s \in 1..MaxSessions : s > tasks[t].owner => link[s] = "none"

EndpointInv ==
    up /\ ~visible /\ ~refused => \E t \in DOMAIN tasks : InCycle(t)

\* While a silence is pending, it was observed at every tick since it began.
SilenceInv ==
    /\ policy.attempted => ~policy.pending
    /\ policy.pending =>
           /\ policy.began <= policy.last /\ policy.last <= now
           /\ \A k \in policy.began..policy.last : now - k <= NoFrames => now - k \in silences

\* A policy is of the verification in progress, which repairs once.
PolicyInv ==
    /\ SilenceInv
    /\ (\A t \in DOMAIN tasks : ~Verifying(t)) => policy = NewPolicy /\ now = 0
    /\ \A t \in DOMAIN tasks :
           /\ tasks[t].at = "start" => tasks[t].repairs = 0
           /\ Verifying(t) /\ tasks[t].repairs # 0 => policy.attempted
           /\ Verifying(t) /\ tasks[t].at \notin {"verify", "observe"} => policy.attempted

ChainInv == PlaceInv /\ CloserInv /\ OrderInv /\ SessionInv /\ LinkInv

IInv == TypeOK /\ ChainInv /\ EndpointInv /\ PolicyInv

USE FlowTaskAssumption DEF NoTask

-----------------------------------------------------------------------------
(* Changes of one task, and a task more *)

LEMMA TaskDomain ==
  ASSUME TypeOK
  PROVE  /\ Len(tasks) \in Nat /\ DOMAIN tasks = 1..Len(tasks)
         /\ \A t \in DOMAIN tasks : tasks[t] \in TaskRecord
  BY LenProperties, ElementOfSeq DEF TypeOK

LEMMA TaskChanges ==
  ASSUME TypeOK, NEW t \in DOMAIN tasks, NEW record \in TaskRecord,
         tasks' = [tasks EXCEPT ![t] = record]
  PROVE  /\ tasks' \in Seq(TaskRecord)
         /\ Len(tasks') = Len(tasks) /\ DOMAIN tasks' = DOMAIN tasks
         /\ \A u \in DOMAIN tasks : tasks'[u] = IF u = t THEN record ELSE tasks[u]
<1>1. tasks \in Seq(TaskRecord) /\ t \in 1..Len(tasks)
  BY TaskDomain DEF TypeOK
<1> QED
  BY <1>1, ExceptSeq, LenProperties

LEMMA TaskAdded ==
  ASSUME TypeOK, NEW record \in TaskRecord, tasks' = Append(tasks, record)
  PROVE  /\ tasks' \in Seq(TaskRecord)
         /\ Len(tasks') = Len(tasks) + 1 /\ DOMAIN tasks' = 1..(Len(tasks) + 1)
         /\ \A u \in DOMAIN tasks : tasks'[u] = tasks[u]
         /\ tasks'[Len(tasks) + 1] = record
<1>1. tasks \in Seq(TaskRecord) /\ DOMAIN tasks = 1..Len(tasks) /\ Len(tasks) \in Nat
  BY TaskDomain DEF TypeOK
<1>2. /\ tasks' \in Seq(TaskRecord) /\ Len(tasks') = Len(tasks) + 1
      /\ \A i \in 1..Len(tasks) : tasks'[i] = tasks[i]
      /\ tasks'[Len(tasks) + 1] = record
  BY <1>1, AppendProperties
<1> QED
  BY <1>1, <1>2, LenProperties

\* A step of a living thread that leaves `stop' and `closed' alone keeps the chain.
LEMMA ThreadMoves ==
  ASSUME TypeOK, ChainInv, NEW t \in DOMAIN tasks, NEW record \in TaskRecord,
         tasks' = [tasks EXCEPT ![t] = record],
         Lives(t), record.at # "none", record.done <=> record.at = "done",
         record.owner = tasks[t].owner, record.verifies = tasks[t].verifies,
         record.stop = tasks[t].stop, record.closed = tasks[t].closed,
         record.closing => record.closed,
         record.at \in EarlyPlaces => ~record.closing,
         record.at \in VerifyingPlaces /\ ~record.closing => record.verifies,
         UNCHANGED <<sessionVars, link, closers>>
  PROVE  ChainInv'
<1> USE DEF sessionVars
<1>d. /\ DOMAIN tasks' = DOMAIN tasks /\ DOMAIN tasks = 1..Len(tasks)
      /\ Len(tasks') = Len(tasks) /\ Len(tasks) \in Nat
      /\ \A u \in DOMAIN tasks : tasks'[u] = IF u = t THEN record ELSE tasks[u]
      /\ \A u \in DOMAIN tasks : tasks[u] \in TaskRecord
  BY TaskDomain, TaskChanges
<1>f. \A u \in DOMAIN tasks : /\ Unclosed(u)' = Unclosed(u)
                              /\ Finished(u) => Finished(u)'
                              /\ Lives(u)' => Lives(u)
                              /\ u # t => Finished(u)' = Finished(u)
  BY <1>d DEF Unclosed, Finished, Lives, ChainInv, PlaceInv
<1>1. PlaceInv'
  BY <1>d DEF ChainInv, PlaceInv, Lives, Verifying
<1>2. CloserInv'
  <2>1. \A c \in closers : c.threaded <=> tasks'[c.flow].at # "none"
    BY <1>d DEF ChainInv, CloserInv, Lives
  <2>2. \A c \in closers : c.flow \in DOMAIN tasks /\ c.session = tasks'[c.flow].owner
    BY <1>d DEF ChainInv, CloserInv
  <2>3. \A c \in closers : c.predecessor \in {NoTask, c.flow} =>
            \A u \in 1..(c.flow - 1) : Finished(u)'
    BY <1>d, <1>f DEF ChainInv, CloserInv
  <2> QED
    BY <1>d, <1>f, <2>1, <2>2, <2>3 DEF ChainInv, CloserInv
<1>3. OrderInv'
  <2>1. \A u \in DOMAIN tasks : \A w \in 1..(u - 1) : Finished(w)' \/ Unclosed(u)'
    BY <1>d, <1>f DEF ChainInv, OrderInv
  <2>2. \A u, w \in DOMAIN tasks : Lives(u)' /\ Lives(w)' => u = w
    BY <1>d, <1>f DEF ChainInv, OrderInv
  <2>3. \/ \A u \in DOMAIN tasks : Finished(u)'
        \/ \E u \in DOMAIN tasks : ~Finished(u)' /\ \A w \in 1..(u - 1) : Finished(w)'
    <3>1. ~Finished(t)
      BY DEF ChainInv, PlaceInv, Finished
    <3>2. PICK u \in DOMAIN tasks : ~Finished(u) /\ \A w \in 1..(u - 1) : Finished(w)
      BY <3>1 DEF ChainInv, OrderInv
    <3>3. CASE ~Finished(u)'
      BY <1>d, <1>f, <3>2, <3>3
    <3>4. CASE Finished(u)' /\ u = Len(tasks)
      <4>1. \A w \in DOMAIN tasks : w = u \/ w \in 1..(u - 1)
        BY <1>d, <3>4
      <4> QED
        BY <1>d, <1>f, <3>2, <3>4, <4>1
    <3>5. CASE Finished(u)' /\ u # Len(tasks)
      <4>1. u + 1 \in DOMAIN tasks /\ u \in 1..(u + 1 - 1)
        BY <1>d, <3>5
      <4>2. Unclosed(u + 1)
        BY <3>2, <4>1 DEF ChainInv, OrderInv
      <4>3. ~Finished(u + 1)'
        BY <1>f, <4>1, <4>2 DEF Unclosed, Finished
      <4>4. \A w \in 1..(u + 1 - 1) : Finished(w)'
        <5> TAKE w \in 1..(u + 1 - 1)
        <5>1. w = u \/ (w \in 1..(u - 1) /\ w \in DOMAIN tasks)
          BY <1>d
        <5> QED
          BY <1>f, <3>2, <3>5, <5>1
      <4> QED
        BY <4>1, <4>3, <4>4
    <3> QED
      BY <3>3, <3>4, <3>5
  <2> QED
    BY <1>d, <2>1, <2>2, <2>3 DEF OrderInv
<1>4. SessionInv'
  <2>1. flowOf \in 0..Len(tasks)
    BY DEF TypeOK
  <2>2. flowOf # NoTask => flowOf \in DOMAIN tasks
    BY <1>d, <2>1
  <2> QED
    BY <1>d, <1>f, <2>2 DEF ChainInv, SessionInv
<1>5. LinkInv'
  BY <1>d, <1>f DEF ChainInv, LinkInv
<1> QED
  BY <1>1, <1>2, <1>3, <1>4, <1>5 DEF ChainInv


\* A step of the thread t that makes `record' of its task.
Steps(t, record) ==
    /\ tasks' = [tasks EXCEPT ![t] = record]
    /\ Lives(t) /\ record.at # "none" /\ (record.done <=> record.at = "done")
    /\ record.owner = tasks[t].owner /\ record.verifies = tasks[t].verifies
    /\ record.stop = tasks[t].stop /\ record.closed = tasks[t].closed
    /\ record.closing => record.closed
    /\ record.at \in EarlyPlaces => ~record.closing
    /\ record.at \in VerifyingPlaces /\ ~record.closing => record.verifies
    /\ UNCHANGED <<processVars, sessionVars, link, closers>>

\* What the step has to show about the endpoint and the policy.
EndpointStep(t, record) ==
    /\ visible' \in BOOLEAN /\ refused' \in BOOLEAN
    /\ \/ visible' \/ refused' \/ record.at \in CyclePlaces
       \/ UNCHANGED endpointVars /\ ~InCycle(t)

PolicyStep(record) ==
    /\ policy' \in [disarmed: BOOLEAN, pending: BOOLEAN, attempted: BOOLEAN,
                    began: 0..MaxTick, last: 0..MaxTick]
    /\ now' \in 0..MaxTick /\ silences' \subseteq 0..NoFrames
    /\ SilenceInv'
    /\ \/ record.at \in VerifyingPlaces /\ ~record.closing
       \/ policy' = NewPolicy /\ now' = 0
    /\ record.at = "start" => record.repairs = 0
    /\ record.at \in VerifyingPlaces /\ ~record.closing /\ record.repairs # 0
           => policy'.attempted
    /\ record.at \in VerifyingPlaces /\ ~record.closing
           /\ record.at \notin {"verify", "observe"} => policy'.attempted

LEMMA ThreadKeeps ==
  ASSUME IInv, NEW t \in DOMAIN tasks, NEW record \in TaskRecord,
         Steps(t, record), EndpointStep(t, record), PolicyStep(record)
  PROVE  IInv'
<1>d. /\ tasks' \in Seq(TaskRecord)
      /\ DOMAIN tasks' = DOMAIN tasks /\ Len(tasks') = Len(tasks)
      /\ \A u \in DOMAIN tasks : tasks'[u] = IF u = t THEN record ELSE tasks[u]
  BY TaskChanges DEF IInv, Steps
<1>o. \A u \in DOMAIN tasks : u # t => ~Lives(u)
  BY DEF IInv, ChainInv, OrderInv, Steps
<1>1. TypeOK'
  BY <1>d DEF IInv, TypeOK, Steps, EndpointStep, PolicyStep, processVars, sessionVars
<1>2. ChainInv'
  BY ThreadMoves DEF IInv, Steps
<1>3. EndpointInv'
  <2>1. \A u \in DOMAIN tasks : u # t => ~InCycle(u)
    BY <1>o DEF Lives, InCycle, CyclePlaces
  <2>2. CASE visible' \/ refused'
    BY <2>2 DEF EndpointInv
  <2>3. CASE record.at \in CyclePlaces
    BY <1>d, <2>3 DEF EndpointInv, InCycle
  <2>4. CASE UNCHANGED endpointVars /\ ~InCycle(t)
    BY <1>d, <2>1, <2>4 DEF EndpointInv, IInv, endpointVars, Steps, processVars
  <2> QED
    BY <2>2, <2>3, <2>4 DEF EndpointStep
<1>4. PolicyInv'
  <2>1. \A u \in DOMAIN tasks : u # t => ~Verifying(u)' /\ tasks'[u].at # "start"
    BY <1>d, <1>o DEF Lives, Verifying, VerifyingPlaces, CyclePlaces
  <2>2. Verifying(t)' <=> record.at \in VerifyingPlaces /\ ~record.closing
    BY <1>d DEF Verifying
  <2> QED
    BY <1>d, <2>1, <2>2 DEF PolicyInv, PolicyStep
<1> QED
  BY <1>1, <1>2, <1>3, <1>4 DEF IInv


\* What every step of a thread may use.
LEMMA ThreadFacts ==
  ASSUME IInv, NEW t \in DOMAIN tasks, Lives(t)
  PROVE  /\ tasks[t] \in TaskRecord /\ tasks[t].at \in Places /\ ~tasks[t].done
         /\ tasks[t].closing => tasks[t].closed
         /\ tasks[t].at \in EarlyPlaces => ~tasks[t].closing
         /\ tasks[t].at \in VerifyingPlaces /\ ~tasks[t].closing => tasks[t].verifies
         /\ Verifying(t) \/ (policy = NewPolicy /\ now = 0)
         /\ SilenceInv
<1>1. tasks[t] \in TaskRecord
  BY TaskDomain DEF IInv
<1>2. \A u \in DOMAIN tasks : u # t => ~Verifying(u)
  BY DEF IInv, ChainInv, OrderInv, Lives, Verifying, VerifyingPlaces, CyclePlaces
<1> QED
  BY <1>1, <1>2 DEF IInv, PolicyInv, ChainInv, PlaceInv, Verifying, TaskRecord

USE DEF At, Goes, Ends

LEMMA NewPolicyType ==
  NewPolicy \in [disarmed: BOOLEAN, pending: BOOLEAN, attempted: BOOLEAN,
                 began: 0..MaxTick, last: 0..MaxTick] /\ 0 \in 0..MaxTick
                 /\ ~NewPolicy.pending /\ ~NewPolicy.attempted
  BY DEF NewPolicy

LEMMA NoVerificationSilent ==
  ASSUME NoVerification
  PROVE  SilenceInv' /\ policy' = NewPolicy /\ now' = 0 /\ silences' = {}
  BY NewPolicyType DEF NoVerification, SilenceInv

LEMMA PolicyTypes ==
  ASSUME IInv
  PROVE  /\ policy \in [disarmed: BOOLEAN, pending: BOOLEAN, attempted: BOOLEAN,
                        began: 0..MaxTick, last: 0..MaxTick]
         /\ now \in 0..MaxTick /\ silences \subseteq 0..NoFrames
         /\ visible \in BOOLEAN /\ refused \in BOOLEAN
  BY DEF IInv, TypeOK

LEMMA StartsKeeps ==
  ASSUME IInv, NEW t \in DOMAIN tasks, ThreadStarts(t)
  PROVE  IInv'
<1> DEFINE record == [tasks[t] EXCEPT !.at =
                          IF tasks[t].verifies THEN "verify" ELSE "waitClosed"]
<1>1. Lives(t) /\ ~InCycle(t) /\ ~Verifying(t) /\ tasks[t].repairs = 0
  BY DEF ThreadStarts, Lives, InCycle, CyclePlaces, Verifying, VerifyingPlaces, IInv, PolicyInv
<1>2. record \in TaskRecord
  BY <1>1, ThreadFacts DEF TaskRecord, Places
<1>3. Steps(t, record)
  BY <1>1, ThreadFacts DEF ThreadStarts, Steps, TaskRecord, EarlyPlaces, VerifyingPlaces,
     CyclePlaces
<1>4. EndpointStep(t, record)
  BY <1>1, PolicyTypes DEF ThreadStarts, EndpointStep, endpointVars
<1>5. PolicyStep(record)
  BY <1>1, ThreadFacts, PolicyTypes
     DEF ThreadStarts, PolicyStep, policyVars, SilenceInv, TaskRecord, EarlyPlaces,
         VerifyingPlaces, CyclePlaces
<1> QED
  BY <1>2, <1>3, <1>4, <1>5, ThreadKeeps

LEMMA FailsKeeps ==
  ASSUME IInv, NEW t \in DOMAIN tasks, ThreadFails(t)
  PROVE  IInv'
<1> DEFINE record == [tasks[t] EXCEPT !.at = "done", !.done = TRUE]
<1>1. Lives(t) /\ ~InCycle(t) /\ (~tasks[t].verifies => ~Verifying(t))
  BY ThreadFacts DEF ThreadFails, Lives, InCycle, CyclePlaces, Verifying, VerifyingPlaces,
     EarlyPlaces, TaskRecord
<1>2. record \in TaskRecord
  BY <1>1, ThreadFacts DEF TaskRecord, Places
<1>3. Steps(t, record)
  <2>1. tasks' = [tasks EXCEPT ![t] = record]
    BY <1>1, ThreadFacts DEF ThreadFails, TaskRecord
  <2> QED
    BY <1>1, <2>1, ThreadFacts DEF ThreadFails, Steps, TaskRecord, EarlyPlaces,
       VerifyingPlaces, CyclePlaces
<1>4. EndpointStep(t, record)
  BY <1>1, PolicyTypes DEF ThreadFails, EndpointStep, endpointVars
<1>5. PolicyStep(record)
  <2>1. record.at = "done"
    BY <1>1, ThreadFacts DEF TaskRecord
  <2>2. SilenceInv' /\ policy' = NewPolicy /\ now' = 0 /\ silences' \subseteq 0..NoFrames
    <3>1. CASE tasks[t].verifies
      BY <3>1, NoVerificationSilent DEF ThreadFails
    <3>2. CASE ~tasks[t].verifies
      BY <1>1, <3>2, ThreadFacts, PolicyTypes DEF ThreadFails, policyVars, SilenceInv
    <3> QED
      BY <3>1, <3>2
  <2> QED
    BY <2>1, <2>2, NewPolicyType DEF PolicyStep, VerifyingPlaces, CyclePlaces
<1> QED
  BY <1>2, <1>3, <1>4, <1>5, ThreadKeeps

LEMMA VerifiesKeeps ==
  ASSUME IInv, NEW t \in DOMAIN tasks, Verifies(t)
  PROVE  IInv'
<1>1. Lives(t) /\ ~InCycle(t) /\ tasks[t].at = "verify" /\ Verifying(t)
  BY ThreadFacts DEF Verifies, Lives, InCycle, CyclePlaces, Verifying, VerifyingPlaces,
     EarlyPlaces
<1>2. CASE Goes(t, "observe") /\ UNCHANGED policyVars
  <2> DEFINE record == [tasks[t] EXCEPT !.at = "observe"]
  <2>1. record \in TaskRecord
    BY <1>1, ThreadFacts DEF TaskRecord, Places
  <2>2. Steps(t, record)
    BY <1>1, <1>2, ThreadFacts DEF Verifies, Steps, TaskRecord, EarlyPlaces,
       VerifyingPlaces, CyclePlaces
  <2>3. EndpointStep(t, record)
    BY <1>1, PolicyTypes DEF Verifies, EndpointStep, endpointVars
  <2>4. PolicyStep(record)
    BY <1>1, <1>2, ThreadFacts, PolicyTypes
       DEF PolicyStep, policyVars, SilenceInv, TaskRecord, EarlyPlaces, VerifyingPlaces,
           CyclePlaces, IInv, PolicyInv
  <2> QED
    BY <2>1, <2>2, <2>3, <2>4, ThreadKeeps
<1>3. CASE Goes(t, "waitClosed") /\ NoVerification
  <2> DEFINE record == [tasks[t] EXCEPT !.at = "waitClosed"]
  <2>1. record \in TaskRecord
    BY <1>1, ThreadFacts DEF TaskRecord, Places
  <2>2. Steps(t, record)
    BY <1>1, <1>3, ThreadFacts DEF Verifies, Steps, TaskRecord, EarlyPlaces,
       VerifyingPlaces, CyclePlaces
  <2>3. EndpointStep(t, record)
    BY <1>1, PolicyTypes DEF Verifies, EndpointStep, endpointVars
  <2>4. PolicyStep(record)
    BY <1>1, <1>3, ThreadFacts, NewPolicyType, NoVerificationSilent
       DEF PolicyStep, TaskRecord, VerifyingPlaces, CyclePlaces
  <2> QED
    BY <2>1, <2>2, <2>3, <2>4, ThreadKeeps
<1> QED
  BY <1>2, <1>3 DEF Verifies

-----------------------------------------------------------------------------
(* An observation *)

\* What Observe decides: `unproven' is the policy with its silence forgotten.
LEMMA ObserveCases ==
  ASSUME IInv, NEW kind \in Kinds, kind # "silent"
  PROVE  /\ ~Observe(policy, kind, now).policy.pending
         /\ Observe(policy, kind, now).policy.attempted = policy.attempted
         /\ Observe(policy, kind, now).policy \in
                [disarmed: BOOLEAN, pending: BOOLEAN, attempted: BOOLEAN,
                 began: 0..MaxTick, last: 0..MaxTick]
         /\ Observe(policy, kind, now).decision \in
                {"Healthy", "Paused", "Cancelled", "Unknown"}
  BY PolicyTypes DEF Observe, Interruption, Result, Kinds

\* The policy after silence; a repair is decided only when it was silent all the time.
LEMMA ObserveSilence ==
  ASSUME IInv, NEW next, NEW seen, next = Observe(policy, "silent", now),
         seen = IF policy.attempted THEN silences ELSE silences \cup {0}
  PROVE  /\ next.policy \in [disarmed: BOOLEAN, pending: BOOLEAN, attempted: BOOLEAN,
                             began: 0..MaxTick, last: 0..MaxTick]
         /\ next.policy.attempted => ~next.policy.pending
         /\ next.policy.pending =>
                /\ next.policy.began <= next.policy.last /\ next.policy.last <= now
                /\ \A k \in next.policy.began..next.policy.last :
                       now - k <= NoFrames => now - k \in seen
         /\ policy.attempted => next.policy.attempted
         /\ next.decision \in {"Deferred", "AlreadyAttempted", "Wait", "Recover"}
         /\ next.decision = "Recover" =>
                ~policy.attempted /\ next.policy.attempted /\ seen = 0..NoFrames
<1> DEFINE q == Silent(policy, now)
<1>1. /\ policy \in [disarmed: BOOLEAN, pending: BOOLEAN, attempted: BOOLEAN,
                     began: 0..MaxTick, last: 0..MaxTick]
      /\ now \in 0..MaxTick /\ silences \subseteq 0..NoFrames
      /\ SilenceInv
  BY PolicyTypes DEF IInv, PolicyInv
<1>2. CASE policy.disarmed
  BY <1>1, <1>2 DEF Observe, Interruption, Result, SilenceInv
<1>3. CASE ~policy.disarmed /\ policy.attempted
  BY <1>1, <1>3 DEF Observe, Result, SilenceInv
<1>4. CASE ~policy.disarmed /\ ~policy.attempted
  <2>1. /\ q \in [disarmed: BOOLEAN, pending: BOOLEAN, attempted: BOOLEAN,
                  began: 0..MaxTick, last: 0..MaxTick]
        /\ q.pending /\ ~q.attempted /\ q.last = now /\ q.began <= now
        /\ q.began = now \/ (policy.pending /\ q.began = policy.began /\ policy.last <= now
                             /\ now - policy.last <= 1)
    <3>1. CASE ~policy.pending \/ now < policy.last \/ now - policy.last > 1
      <4>1. q = [policy EXCEPT !.pending = TRUE, !.began = now, !.last = now]
        BY <3>1 DEF Silent
      <4> HIDE DEF q
      <4>2. /\ q \in [disarmed: BOOLEAN, pending: BOOLEAN, attempted: BOOLEAN,
                      began: 0..MaxTick, last: 0..MaxTick]
            /\ q.pending /\ ~q.attempted /\ q.last = now /\ q.began = now
        BY <1>1, <1>4, <4>1
      <4> QED
        BY <1>1, <4>2
    <3>2. CASE ~(~policy.pending \/ now < policy.last \/ now - policy.last > 1)
      <4>1. q = [policy EXCEPT !.pending = TRUE, !.began = policy.began, !.last = now]
        BY <3>2 DEF Silent
      <4>2. policy.pending /\ policy.last <= now /\ now - policy.last <= 1
            /\ policy.began <= now
        BY <1>1, <3>2 DEF SilenceInv
      <4> HIDE DEF q
      <4>3. /\ q \in [disarmed: BOOLEAN, pending: BOOLEAN, attempted: BOOLEAN,
                      began: 0..MaxTick, last: 0..MaxTick]
            /\ q.pending /\ ~q.attempted /\ q.last = now /\ q.began = policy.began
        BY <1>1, <1>4, <4>1
      <4> QED
        BY <4>2, <4>3
    <3> QED
      BY <3>1, <3>2
  <2>2. \A k \in q.began..now : now - k <= NoFrames => now - k \in seen
    <3> TAKE k \in q.began..now
    <3>1. CASE k = now
      BY <1>1, <1>4, <3>1
    <3>2. CASE k # now
      <4>1. policy.pending /\ k \in policy.began..policy.last
        BY <1>1, <2>1, <3>2
      <4> QED
        BY <1>1, <1>4, <4>1 DEF SilenceInv
    <3> QED
      BY <3>1, <3>2
  <2>3. CASE now - q.began < NoFrames
    <3>1. next = Result("Wait", q)
      BY <1>4, <2>3 DEF Observe
    <3> HIDE DEF q
    <3> QED
      BY <1>1, <1>4, <2>1, <2>2, <3>1 DEF Result
  <2>4. CASE ~(now - q.began < NoFrames)
    <3>1. next = Result("Recover", [q EXCEPT !.pending = FALSE, !.attempted = TRUE])
      BY <1>4, <2>4 DEF Observe
    <3>2. ASSUME NEW age \in 0..NoFrames PROVE age \in seen
      <4>1. now - age \in q.began..now /\ now - (now - age) = age /\ age <= NoFrames
        BY <1>1, <2>1, <2>4 DEF NoFrames
      <4> QED
        BY <2>2, <4>1
    <3>3. seen = 0..NoFrames
      <4>1. seen = silences \cup {0} /\ 0 \in 0..NoFrames
        BY <1>4 DEF NoFrames
      <4> QED
        BY <1>1, <3>2, <4>1, Zenon
    <3>4. next.decision = "Recover"
          /\ next.policy = [q EXCEPT !.pending = FALSE, !.attempted = TRUE]
      BY <3>1 DEF Result
    <3> HIDE DEF q
    <3>5. /\ next.policy \in [disarmed: BOOLEAN, pending: BOOLEAN, attempted: BOOLEAN,
                               began: 0..MaxTick, last: 0..MaxTick]
          /\ next.policy.attempted /\ ~next.policy.pending
      BY <2>1, <3>4
    <3> QED
      BY <1>4, <3>3, <3>4, <3>5
  <2> QED
    BY <2>3, <2>4
<1> QED
  BY <1>1, <1>2, <1>3, <1>4

LEMMA ObservesKeeps ==
  ASSUME IInv, NEW t \in DOMAIN tasks, NEW kind \in Kinds, Observes(t, kind)
  PROVE  /\ IInv'
         /\ tasks'[t].at = "check" => silences' = 0..NoFrames /\ tasks[t].repairs = 0
<1> DEFINE found    == IF tasks[t].stop THEN "cancelled" ELSE kind
           observed == Observe(policy, found, now)
<1>1. Lives(t) /\ ~InCycle(t) /\ tasks[t].at = "observe" /\ Verifying(t)
  BY ThreadFacts DEF Observes, Lives, InCycle, CyclePlaces, Verifying, VerifyingPlaces,
     EarlyPlaces
<1>2. tasks[t].repairs # 0 => policy.attempted
  BY <1>1 DEF IInv, PolicyInv
<1>3. CASE observed.decision \in {"Healthy", "Paused", "Cancelled"}
  <2>1. Goes(t, "waitClosed") /\ NoVerification
    BY <1>3 DEF Observes
  <2> DEFINE record == [tasks[t] EXCEPT !.at = "waitClosed"]
  <2> HIDE DEF observed
  <2>2. record \in TaskRecord /\ record.at = "waitClosed"
    BY <1>1, ThreadFacts DEF TaskRecord, Places
  <2>3. Steps(t, record)
    BY <1>1, <2>1, ThreadFacts DEF Observes, Steps, TaskRecord, EarlyPlaces,
       VerifyingPlaces, CyclePlaces
  <2>4. EndpointStep(t, record)
    BY <1>1, PolicyTypes DEF Observes, EndpointStep, endpointVars
  <2>5. PolicyStep(record)
    BY <2>1, <2>2, NewPolicyType, NoVerificationSilent
       DEF PolicyStep, VerifyingPlaces, CyclePlaces
  <2>6. tasks'[t].at = "waitClosed"
    BY <2>2, <2>3, TaskChanges DEF IInv, Steps
  <2> QED
    BY <2>2, <2>3, <2>4, <2>5, <2>6, ThreadKeeps
<1>4. CASE observed.decision \notin {"Healthy", "Paused", "Cancelled"}
  <2> DEFINE place  == IF observed.decision = "Recover" THEN "check" ELSE "verify"
             record == [tasks[t] EXCEPT !.at = place]
  <2>1. /\ Goes(t, place) /\ policy' = observed.policy /\ now' = now
        /\ silences' = IF policy.attempted THEN silences
                       ELSE IF kind = "silent" THEN silences \cup {0} ELSE {}
    BY <1>4 DEF Observes
  <2>2. found = "silent" => kind = "silent"
    BY DEF Kinds
  <2>3. found \in Kinds
    BY DEF Kinds
  <2>4. /\ observed.policy \in [disarmed: BOOLEAN, pending: BOOLEAN, attempted: BOOLEAN,
                                began: 0..MaxTick, last: 0..MaxTick]
        /\ SilenceInv' /\ (policy.attempted => observed.policy.attempted)
        /\ observed.decision = "Recover" =>
               /\ ~policy.attempted /\ observed.policy.attempted
               /\ silences' = 0..NoFrames
    <3>1. CASE found = "silent"
      <4>1. silences' = IF policy.attempted THEN silences ELSE silences \cup {0}
        BY <2>1, <2>2, <3>1
      <4> DEFINE next == Observe(policy, "silent", now)
      <4>2. observed = next
        BY <3>1
      <4>3. /\ next.policy.attempted => ~next.policy.pending
            /\ next.policy.pending =>
                   /\ next.policy.began <= next.policy.last /\ next.policy.last <= now
                   /\ \A k \in next.policy.began..next.policy.last :
                          now - k <= NoFrames => now - k \in silences'
        BY <4>1, ObserveSilence
      <4>4. /\ next.policy \in [disarmed: BOOLEAN, pending: BOOLEAN, attempted: BOOLEAN,
                                began: 0..MaxTick, last: 0..MaxTick]
            /\ policy.attempted => next.policy.attempted
            /\ next.decision = "Recover" =>
                   ~policy.attempted /\ next.policy.attempted /\ silences' = 0..NoFrames
        BY <4>1, ObserveSilence
      <4>5. policy' = next.policy /\ now' = now
        BY <2>1, <4>2
      <4> HIDE DEF next, observed
      <4>6. SilenceInv'
        BY <4>3, <4>5 DEF SilenceInv
      <4> QED
        BY <4>2, <4>4, <4>6
    <3>2. CASE found # "silent"
      <4>1. /\ ~observed.policy.pending
            /\ observed.policy.attempted = policy.attempted
            /\ observed.policy \in [disarmed: BOOLEAN, pending: BOOLEAN,
                   attempted: BOOLEAN, began: 0..MaxTick, last: 0..MaxTick]
            /\ observed.decision # "Recover"
        BY <1>4, <2>3, <3>2, ObserveCases
      <4> HIDE DEF observed
      <4> QED
        BY <2>1, <4>1 DEF SilenceInv
    <3> QED
      BY <3>1, <3>2
  <2> HIDE DEF observed, found
  <2>5. record \in TaskRecord /\ record.at = place /\ record.repairs = tasks[t].repairs
        /\ record.closing = FALSE
    BY <1>1, ThreadFacts DEF TaskRecord, Places, EarlyPlaces
  <2>6. Steps(t, record)
    BY <1>1, <2>1, ThreadFacts DEF Observes, Steps, TaskRecord, EarlyPlaces,
       VerifyingPlaces, CyclePlaces
  <2>7. EndpointStep(t, record)
    BY <1>1, PolicyTypes DEF Observes, EndpointStep, endpointVars
  <2>8. PolicyStep(record)
    <3>1. silences' \subseteq 0..NoFrames
      <4>1. 0 \in 0..NoFrames
        BY DEF NoFrames
      <4> QED
        BY <2>1, <4>1, PolicyTypes, Zenon
    <3>2. record.at \in {"check", "verify"}
          /\ (record.at = "check" => observed.decision = "Recover")
      BY <2>5
    <3>3. record.at \in VerifyingPlaces /\ record.at # "start"
      BY <3>2 DEF VerifyingPlaces
    <3> HIDE DEF record, place
    <3> QED
      BY <1>2, <2>1, <2>4, <2>5, <3>1, <3>2, <3>3, PolicyTypes DEF PolicyStep
  <2>9. tasks'[t].at = place
    BY <2>5, <2>6, TaskChanges DEF IInv, Steps
  <2>10. IInv'
    BY <2>5, <2>6, <2>7, <2>8, ThreadKeeps
  <2> QED
    BY <1>2, <2>4, <2>9, <2>10
<1> QED
  BY <1>3, <1>4

-----------------------------------------------------------------------------
(* Cycle *)

LEMMA CycleFacts ==
  ASSUME IInv, NEW t \in DOMAIN tasks,
         tasks[t].at \in {"check", "recheck"} \cup CyclePlaces
  PROVE  /\ Lives(t) /\ tasks[t] \in TaskRecord
         /\ ~tasks[t].closing => Verifying(t) /\ policy.attempted /\ ~policy.pending
         /\ tasks[t].closing => policy = NewPolicy /\ now = 0
<1>1. Lives(t) /\ tasks[t].at \in VerifyingPlaces /\ tasks[t].at \notin {"verify", "observe"}
  BY DEF Lives, VerifyingPlaces, CyclePlaces
<1> QED
  BY <1>1, ThreadFacts DEF Verifying, IInv, PolicyInv, SilenceInv

\* A step within the cycle.
LEMMA CycleGoesOn ==
  ASSUME IInv, NEW t \in DOMAIN tasks,
         tasks[t].at \in {"check", "recheck"} \cup CyclePlaces,
         NEW place \in {"recheck"} \cup CyclePlaces, NEW repairs \in Nat,
         tasks' = [tasks EXCEPT ![t] = [tasks[t] EXCEPT !.at = place, !.repairs = repairs]],
         UNCHANGED <<processVars, sessionVars, link, closers, policyVars>>,
         visible' \in BOOLEAN, refused' \in BOOLEAN,
         \/ visible' \/ refused' \/ place \in CyclePlaces
         \/ UNCHANGED endpointVars /\ ~InCycle(t)
  PROVE  IInv'
<1> DEFINE record == [tasks[t] EXCEPT !.at = place, !.repairs = repairs]
<1>1. /\ record \in TaskRecord /\ record.at = place /\ record.repairs = repairs
      /\ record.closing = tasks[t].closing /\ record.owner = tasks[t].owner
      /\ record.verifies = tasks[t].verifies /\ record.stop = tasks[t].stop
      /\ record.closed = tasks[t].closed /\ record.done = tasks[t].done
  BY CycleFacts DEF TaskRecord, Places, CyclePlaces
<1> HIDE DEF record
<1>2. Steps(t, record)
  <2>1. tasks' = [tasks EXCEPT ![t] = record]
    BY DEF record
  <2>2. tasks[t].at \in VerifyingPlaces
    BY DEF VerifyingPlaces
  <2> QED
    BY <1>1, <2>1, <2>2, CycleFacts, ThreadFacts
       DEF Steps, EarlyPlaces, VerifyingPlaces, CyclePlaces
<1>3. EndpointStep(t, record)
  BY <1>1 DEF EndpointStep
<1>4. PolicyStep(record)
  <2>1. place \in VerifyingPlaces /\ place # "start"
    BY DEF VerifyingPlaces, CyclePlaces
  <2>2. SilenceInv'
    BY DEF policyVars, SilenceInv, IInv, PolicyInv
  <2> QED
    BY <1>1, <2>1, <2>2, CycleFacts, PolicyTypes DEF PolicyStep, policyVars
<1> QED
  BY <1>1, <1>2, <1>3, <1>4, ThreadKeeps

\* The end of the cycle.
LEMMA CycleReturnKeeps ==
  ASSUME IInv, NEW t \in DOMAIN tasks,
         tasks[t].at \in {"check", "recheck"} \cup CyclePlaces, CycleReturns(t),
         UNCHANGED <<processVars, sessionVars, link, closers, policy, now>>,
         visible' \in BOOLEAN, refused' \in BOOLEAN,
         \/ visible' \/ refused'
         \/ UNCHANGED endpointVars /\ ~InCycle(t)
  PROVE  IInv'
<1>1. CASE tasks[t].closing
  <2> DEFINE record == [tasks[t] EXCEPT !.at = "done", !.done = TRUE]
  <2>1. /\ record \in TaskRecord /\ record.at = "done" /\ record.done
        /\ record.closing = tasks[t].closing /\ record.owner = tasks[t].owner
        /\ record.verifies = tasks[t].verifies /\ record.stop = tasks[t].stop
        /\ record.closed = tasks[t].closed
    BY CycleFacts DEF TaskRecord, Places
  <2>2. tasks' = [tasks EXCEPT ![t] = record] /\ silences' = silences
    BY <1>1, CycleFacts DEF CycleReturns, TaskRecord
  <2> HIDE DEF record
  <2>3. Steps(t, record)
    BY <2>1, <2>2, CycleFacts, ThreadFacts
       DEF Steps, EarlyPlaces, VerifyingPlaces, CyclePlaces
  <2>4. EndpointStep(t, record)
    BY <2>1 DEF EndpointStep
  <2>5. PolicyStep(record)
    <3>1. SilenceInv'
      BY <2>2 DEF SilenceInv, IInv, PolicyInv
    <3> QED
      BY <1>1, <2>1, <2>2, <3>1, CycleFacts, PolicyTypes
         DEF PolicyStep, VerifyingPlaces, CyclePlaces
  <2> QED
    BY <2>1, <2>3, <2>4, <2>5, ThreadKeeps
<1>2. CASE ~tasks[t].closing
  <2> DEFINE record == [tasks[t] EXCEPT !.at = "verify"]
  <2>1. /\ record \in TaskRecord /\ record.at = "verify" /\ ~record.done
        /\ record.closing = tasks[t].closing /\ record.owner = tasks[t].owner
        /\ record.verifies = tasks[t].verifies /\ record.stop = tasks[t].stop
        /\ record.closed = tasks[t].closed
    BY CycleFacts, ThreadFacts DEF TaskRecord, Places
  <2>2. tasks' = [tasks EXCEPT ![t] = record] /\ silences' = {}
    BY <1>2 DEF CycleReturns
  <2>3. tasks[t].at \in VerifyingPlaces
    BY DEF VerifyingPlaces
  <2> HIDE DEF record
  <2>4. Steps(t, record)
    BY <1>2, <2>1, <2>2, <2>3, CycleFacts, ThreadFacts DEF Steps
  <2>5. EndpointStep(t, record)
    BY <2>1 DEF EndpointStep
  <2>6. PolicyStep(record)
    <3>1. SilenceInv'
      BY <1>2, CycleFacts DEF SilenceInv
    <3>2. record.at \in VerifyingPlaces
      BY <2>1 DEF VerifyingPlaces
    <3> QED
      BY <1>2, <2>1, <2>2, <3>1, <3>2, CycleFacts, PolicyTypes DEF PolicyStep
  <2> QED
    BY <2>1, <2>4, <2>5, <2>6, ThreadKeeps
<1> QED
  BY <1>1, <1>2

LEMMA HidesKeeps ==
  ASSUME IInv, NEW t \in DOMAIN tasks, Hides(t)
  PROVE  IInv'
<1>1. PICK ok \in BOOLEAN :
         /\ visible' = (visible /\ ~ok)
         /\ tasks' = [tasks EXCEPT ![t].at = IF ok THEN "hidden" ELSE "show",
                                   ![t].repairs = IF tasks[t].closing THEN @ ELSE @ + 1]
  BY DEF Hides
<1> DEFINE place   == IF ok THEN "hidden" ELSE "show"
           repairs == IF tasks[t].closing THEN tasks[t].repairs ELSE tasks[t].repairs + 1
<1>2. tasks[t].at \in {"check", "recheck"} \cup CyclePlaces
  BY DEF Hides
<1>3. place \in CyclePlaces /\ repairs \in Nat
  BY <1>2, CycleFacts DEF CyclePlaces, TaskRecord
<1>4. tasks' = [tasks EXCEPT ![t] = [tasks[t] EXCEPT !.at = place, !.repairs = repairs]]
  BY <1>1, <1>2, CycleFacts DEF TaskRecord
<1>5. visible' \in BOOLEAN /\ refused' \in BOOLEAN
  BY <1>1, PolicyTypes DEF Hides
<1> HIDE DEF place, repairs
<1> QED
  BY <1>2, <1>3, <1>4, <1>5, CycleGoesOn DEF Hides

LEMMA CycleGoes ==
  ASSUME IInv, NEW t \in DOMAIN tasks,
         tasks[t].at \in {"check", "recheck"} \cup CyclePlaces,
         NEW place \in {"recheck"} \cup CyclePlaces, Goes(t, place),
         UNCHANGED <<processVars, sessionVars, link, closers, policyVars>>,
         visible' \in BOOLEAN, refused' \in BOOLEAN,
         \/ visible' \/ refused' \/ place \in CyclePlaces
         \/ UNCHANGED endpointVars /\ ~InCycle(t)
  PROVE  IInv'
<1>1. tasks[t].repairs \in Nat /\ tasks[t] \in TaskRecord
  BY CycleFacts DEF TaskRecord
<1>2. [tasks[t] EXCEPT !.at = place]
          = [tasks[t] EXCEPT !.at = place, !.repairs = tasks[t].repairs]
  BY <1>1 DEF TaskRecord
<1>3. tasks' = [tasks EXCEPT ![t] =
                    [tasks[t] EXCEPT !.at = place, !.repairs = tasks[t].repairs]]
  BY <1>2
<1> QED
  BY <1>1, <1>3, CycleGoesOn

LEMMA CycleKeeps ==
  ASSUME IInv, NEW t \in DOMAIN tasks,
         \/ CycleChecks(t) \/ CycleAborts(t) \/ Hides(t) \/ HideSeen(t)
         \/ Shows(t) \/ RestoreTimesOut(t) \/ Restores(t)
  PROVE  IInv'
<1> DEFINE Cycling == tasks[t].at \in {"check", "recheck"} \cup CyclePlaces
<1>1. CASE CycleChecks(t)
  <2>1. Cycling /\ Goes(t, "recheck") /\ ~InCycle(t)
    BY <1>1 DEF CycleChecks, InCycle, CyclePlaces
  <2> QED
    BY <1>1, <2>1, CycleGoes, PolicyTypes DEF CycleChecks, endpointVars
<1>2. CASE CycleAborts(t)
  <2>1. Cycling /\ ~InCycle(t)
    BY <1>2 DEF CycleAborts, InCycle, CyclePlaces
  <2> QED
    BY <1>2, <2>1, CycleReturnKeeps, PolicyTypes DEF CycleAborts, endpointVars
<1>3. CASE Hides(t)
  BY <1>3, HidesKeeps
<1>4. CASE HideSeen(t)
  <2>1. Cycling /\ Goes(t, "show") /\ "show" \in CyclePlaces
    BY <1>4 DEF HideSeen, CyclePlaces
  <2> QED
    BY <1>4, <2>1, CycleGoes, PolicyTypes DEF HideSeen, endpointVars
<1>5. CASE Shows(t)
  <2>1. Cycling /\ "again" \in CyclePlaces
    BY <1>5 DEF Shows, CyclePlaces
  <2>2. CASE Goes(t, "again") /\ UNCHANGED silences
    <3>1. visible' \in BOOLEAN /\ refused' \in BOOLEAN
      BY <1>5, PolicyTypes DEF Shows
    <3>2. UNCHANGED <<processVars, sessionVars, link, closers, policyVars>>
      BY <1>5, <2>2 DEF Shows, policyVars
    <3> QED
      BY <2>1, <2>2, <3>1, <3>2, CycleGoes
  <2>3. CASE visible' = TRUE /\ refused' = FALSE /\ CycleReturns(t)
    BY <1>5, <2>1, <2>3, CycleReturnKeeps DEF Shows
  <2> QED
    BY <1>5, <2>2, <2>3 DEF Shows
<1>6. CASE RestoreTimesOut(t)
  <2>1. Cycling /\ Goes(t, "restore") /\ "restore" \in CyclePlaces
    BY <1>6 DEF RestoreTimesOut, CyclePlaces
  <2> QED
    BY <1>6, <2>1, CycleGoes, PolicyTypes DEF RestoreTimesOut, endpointVars
<1>7. CASE Restores(t)
  <2>1. Cycling
    BY <1>7 DEF Restores, CyclePlaces
  <2>2. visible' \in BOOLEAN /\ refused' \in BOOLEAN /\ (visible' \/ refused')
    BY <1>7, PolicyTypes DEF Restores
  <2> QED
    BY <1>7, <2>1, <2>2, CycleReturnKeeps DEF Restores
<1> QED
  BY <1>1, <1>2, <1>3, <1>4, <1>5, <1>6, <1>7

LEMMA SeesClosedKeeps ==
  ASSUME IInv, NEW t \in DOMAIN tasks, SeesClosed(t)
  PROVE  IInv'
<1>1. Lives(t) /\ ~InCycle(t) /\ ~Verifying(t) /\ tasks[t].closed
  BY DEF SeesClosed, Lives, InCycle, CyclePlaces, Verifying, VerifyingPlaces
<1>2. CASE tasks' = [tasks EXCEPT ![t].at = "check", ![t].closing = TRUE]
  <2> DEFINE record == [tasks[t] EXCEPT !.at = "check", !.closing = TRUE]
  <2>1. record \in TaskRecord /\ record.at = "check" /\ record.closing
    BY <1>1, ThreadFacts DEF TaskRecord, Places
  <2>2. Steps(t, record)
    <3>1. tasks' = [tasks EXCEPT ![t] = record]
      BY <1>1, <1>2, ThreadFacts DEF TaskRecord
    <3> QED
      BY <1>1, <3>1, ThreadFacts DEF SeesClosed, Steps, TaskRecord, EarlyPlaces
  <2>3. EndpointStep(t, record)
    BY <1>1, PolicyTypes DEF SeesClosed, EndpointStep, endpointVars
  <2>4. PolicyStep(record)
    <3>1. SilenceInv'
      BY DEF SeesClosed, policyVars, SilenceInv, IInv, PolicyInv
    <3> HIDE DEF record
    <3> QED
      BY <1>1, <2>1, <3>1, ThreadFacts, PolicyTypes DEF SeesClosed, PolicyStep, policyVars
  <2> QED
    BY <2>1, <2>2, <2>3, <2>4, ThreadKeeps
<1>3. CASE Ends(t)
  <2> DEFINE record == [tasks[t] EXCEPT !.at = "done", !.done = TRUE]
  <2>1. record \in TaskRecord /\ record.at = "done"
    BY <1>1, ThreadFacts DEF TaskRecord, Places
  <2>2. Steps(t, record)
    <3>1. tasks' = [tasks EXCEPT ![t] = record]
      BY <1>1, <1>3, ThreadFacts DEF TaskRecord
    <3> QED
      BY <1>1, <3>1, ThreadFacts
         DEF SeesClosed, Steps, TaskRecord, EarlyPlaces, VerifyingPlaces, CyclePlaces
  <2>3. EndpointStep(t, record)
    BY <1>1, PolicyTypes DEF SeesClosed, EndpointStep, endpointVars
  <2>4. PolicyStep(record)
    <3>1. SilenceInv'
      BY DEF SeesClosed, policyVars, SilenceInv, IInv, PolicyInv
    <3> HIDE DEF record
    <3> QED
      BY <1>1, <2>1, <3>1, ThreadFacts, PolicyTypes
         DEF SeesClosed, PolicyStep, policyVars, VerifyingPlaces, CyclePlaces
  <2> QED
    BY <2>1, <2>2, <2>3, <2>4, ThreadKeeps
<1> QED
  BY <1>2, <1>3 DEF SeesClosed

-----------------------------------------------------------------------------
(* Sessions and closes *)

\* The places of the threads stay, and new tasks have only begun.
LEMMA QuietKeeps ==
  ASSUME EndpointInv, PolicyInv, UNCHANGED policyVars, UNCHANGED endpointVars, up' => up,
         DOMAIN tasks \subseteq DOMAIN tasks',
         \A t \in DOMAIN tasks : /\ tasks'[t].at = tasks[t].at
                                 /\ tasks'[t].closing = tasks[t].closing
                                 /\ tasks'[t].repairs = tasks[t].repairs,
         \A t \in DOMAIN tasks' : t \in DOMAIN tasks
                                  \/ (tasks'[t].at \in {"start", "none"} /\ tasks'[t].repairs = 0)
  PROVE  EndpointInv' /\ PolicyInv'
<1>1. EndpointInv'
  BY DEF EndpointInv, endpointVars, InCycle
<1>2. \A t \in DOMAIN tasks : Verifying(t)' = Verifying(t)
  BY DEF Verifying
<1>3. \A t \in DOMAIN tasks' : t \notin DOMAIN tasks => ~Verifying(t)'
  BY DEF Verifying, VerifyingPlaces, CyclePlaces
<1>4. SilenceInv'
  BY DEF PolicyInv, SilenceInv, policyVars
<1> QED
  BY <1>1, <1>2, <1>3, <1>4 DEF PolicyInv, policyVars

\* The places of the tasks that CloseSession and CloseReturns find.
LEMMA CloserFacts ==
  ASSUME IInv, NEW c \in closers
  PROVE  /\ c.flow \in DOMAIN tasks /\ Unclosed(c.flow) /\ ~Finished(c.flow)
         /\ c.session = tasks[c.flow].owner /\ c.session \in 1..MaxSessions
         /\ c.threaded <=> tasks[c.flow].at # "none"
         /\ c.predecessor \in Nat
         /\ attempt \in {"none", "waitPrevious"} /\ flowOf = NoTask
<1>1. c \in CloserRecord
  BY DEF IInv, TypeOK
<1>2. /\ c.flow \in DOMAIN tasks /\ Unclosed(c.flow) /\ ~Finished(c.flow)
      /\ c.session = tasks[c.flow].owner
      /\ c.threaded <=> tasks[c.flow].at # "none"
  BY DEF IInv, ChainInv, CloserInv, Unclosed, Finished
<1>3. attempt \in {"none", "waitPrevious"}
  <2>1. attempt # "opening"
    BY <1>2 DEF IInv, ChainInv, SessionInv
  <2>2. attempt # "connected"
    BY <1>2 DEF IInv, ChainInv, SessionInv, Unclosed, TypeOK
  <2> QED
    BY <2>1, <2>2 DEF IInv, TypeOK
<1> QED
  BY <1>1, <1>2, <1>3 DEF CloserRecord, IInv, ChainInv, SessionInv

\* The close of a task begins when all tasks before it are over.
LEMMA EarlierFinished ==
  ASSUME IInv, NEW c \in closers, PredecessorFinished(c)
  PROVE  \A t \in 1..(c.flow - 1) : Finished(t)
<1>1. c.flow \in 1..Len(tasks) /\ Len(tasks) \in Nat /\ DOMAIN tasks = 1..Len(tasks)
  BY CloserFacts, TaskDomain DEF IInv
<1>2. CASE c.predecessor \in {NoTask, c.flow}
  BY <1>2 DEF IInv, ChainInv, CloserInv
<1>3. CASE c.predecessor \notin {NoTask, c.flow}
  <2> DEFINE p == c.flow - 1
  <2>1. c.predecessor = p
    BY <1>3 DEF IInv, ChainInv, CloserInv
  <2>2. p \in DOMAIN tasks /\ Finished(p) /\ ~Unclosed(p)
    BY <1>1, <1>3, <2>1 DEF PredecessorFinished, Finished, Unclosed
  <2>3. \A t \in 1..(p - 1) : Finished(t)
    BY <2>2 DEF IInv, ChainInv, OrderInv
  <2> QED
    BY <1>1, <2>2, <2>3
<1> QED
  BY <1>2, <1>3

LEMMA CloseReturnsKeeps ==
  ASSUME IInv, NEW c \in closers, CloseReturns(c)
  PROVE  IInv'
<1> DEFINE f      == c.flow
           record == [tasks[f] EXCEPT !.closed = TRUE,
                                      !.done = tasks[f].done \/ ~c.threaded]
<1>1. /\ f \in DOMAIN tasks /\ Unclosed(f) /\ ~Finished(f) /\ tasks[f] \in TaskRecord
      /\ c.session = tasks[f].owner /\ c.session \in 1..MaxSessions
      /\ c.threaded <=> tasks[f].at # "none"
      /\ attempt \in {"none", "waitPrevious"} /\ flowOf = NoTask
      /\ DOMAIN tasks = 1..Len(tasks) /\ Len(tasks) \in Nat
  BY CloserFacts, TaskDomain DEF IInv
<1>2. /\ record \in TaskRecord /\ record.closed
      /\ record.done = (tasks[f].done \/ ~c.threaded)
      /\ record.at = tasks[f].at /\ record.closing = tasks[f].closing
      /\ record.repairs = tasks[f].repairs /\ record.owner = tasks[f].owner
      /\ record.stop = tasks[f].stop /\ record.verifies = tasks[f].verifies
  <2>1. c.threaded \in BOOLEAN
    BY DEF IInv, TypeOK, CloserRecord
  <2> QED
    BY <1>1, <2>1 DEF TaskRecord
<1>3. tasks' = [tasks EXCEPT ![f] = record]
  BY <1>1 DEF CloseReturns, TaskRecord
<1>4. /\ closers' = closers \ {c}
      /\ link' = [link EXCEPT ![c.session] =
                      IF link[c.session] = "none" THEN "none" ELSE "closed"]
      /\ UNCHANGED <<processVars, sessionVars, policyVars, endpointVars>>
  BY DEF CloseReturns
<1>5. \A t \in 1..(f - 1) : Finished(t)
  BY EarlierFinished DEF CloseReturns
<1> HIDE DEF record, f
<1>d. /\ tasks' \in Seq(TaskRecord)
      /\ Len(tasks') = Len(tasks) /\ DOMAIN tasks' = DOMAIN tasks
      /\ \A u \in DOMAIN tasks : tasks'[u] = IF u = f THEN record ELSE tasks[u]
  BY <1>1, <1>2, <1>3, TaskChanges DEF IInv
<1>f. \A u \in DOMAIN tasks : /\ Lives(u)' = Lives(u)
                              /\ Finished(u) => Finished(u)'
                              /\ u # f => Unclosed(u)' = Unclosed(u) /\ Finished(u)' = Finished(u)
                              /\ ~Unclosed(f)'
  BY <1>1, <1>2, <1>d DEF Unclosed, Finished, Lives
<1>6. TypeOK'
  BY <1>1, <1>4, <1>d DEF IInv, TypeOK, processVars, sessionVars, policyVars, endpointVars
<1>7. PlaceInv'
  <2>1. \A u \in DOMAIN tasks : Verifying(u)' = Verifying(u)
    BY <1>2, <1>d DEF Verifying
  <2>2. \A u \in DOMAIN tasks : u # f => tasks'[u] = tasks[u]
    BY <1>d
  <2>3. tasks'[f] = record
    BY <1>1, <1>d
  <2>4. record.done <=> ~Lives(f) /\ (record.at = "none" => record.closed)
    BY <1>1, <1>2 DEF IInv, ChainInv, PlaceInv, Lives
  <2>5. flowOf' = flowOf
    BY <1>4 DEF sessionVars
  <2> QED
    BY <1>1, <1>2, <1>d, <1>f, <2>1, <2>2, <2>3, <2>4, <2>5
       DEF IInv, ChainInv, PlaceInv, Unclosed
<1>8. CloserInv'
  <2>1. \A u \in DOMAIN tasks : Unclosed(u)' => \E e \in closers' : e.flow = u
    BY <1>1, <1>4, <1>d, <1>f DEF IInv, ChainInv, CloserInv, f
  <2>2. \A e \in closers' : e.flow # f
    BY <1>4 DEF IInv, ChainInv, CloserInv, f
  <2>3. \A e \in closers' :
           /\ e.flow \in DOMAIN tasks /\ Unclosed(e.flow)'
           /\ e.session = tasks'[e.flow].owner
           /\ e.threaded <=> tasks'[e.flow].at # "none"
           /\ e.predecessor \in {NoTask, e.flow, e.flow - 1}
    BY <1>4, <1>d, <1>f, <2>2 DEF IInv, ChainInv, CloserInv
  <2>4. \A e \in closers' : e.predecessor \in {NoTask, e.flow} =>
            \A t \in 1..(e.flow - 1) : Finished(t)'
    <3> TAKE e \in closers'
    <3>1. e \in closers /\ e.flow \in 1..Len(tasks)
      BY <1>1, <1>4, <2>3
    <3>2. \A t \in 1..(e.flow - 1) : t \in DOMAIN tasks
      BY <1>1, <3>1
    <3> QED
      BY <1>f, <3>1, <3>2 DEF IInv, ChainInv, CloserInv
  <2>5. \A e, g \in closers' : e.flow = g.flow => e = g
    BY <1>4 DEF IInv, ChainInv, CloserInv
  <2> QED
    BY <1>d, <2>1, <2>3, <2>4, <2>5 DEF CloserInv
<1>9. OrderInv'
  <2>1. ASSUME NEW u \in DOMAIN tasks, NEW t \in 1..(u - 1) PROVE Finished(t)' \/ Unclosed(u)'
    <3>1. t \in DOMAIN tasks
      BY <1>1
    <3> QED
      BY <1>5, <1>f, <3>1 DEF IInv, ChainInv, OrderInv
  <2>2. \A t, u \in DOMAIN tasks : Lives(t)' /\ Lives(u)' => t = u
    BY <1>f DEF IInv, ChainInv, OrderInv
  <2>3. \/ \A u \in DOMAIN tasks : Finished(u)'
        \/ \E u \in DOMAIN tasks : ~Finished(u)' /\ \A w \in 1..(u - 1) : Finished(w)'
    <3>1. \A w \in 1..(f - 1) : Finished(w)'
      BY <1>1, <1>5, <1>f
    <3>2. CASE ~Finished(f)'
      BY <1>1, <3>1, <3>2
    <3>3. CASE Finished(f)' /\ f = Len(tasks)
      <4>1. \A w \in DOMAIN tasks : w = f \/ w \in 1..(f - 1)
        BY <1>1, <3>3
      <4> QED
        BY <3>1, <3>3, <4>1
    <3>4. CASE Finished(f)' /\ f # Len(tasks)
      <4>1. f + 1 \in DOMAIN tasks /\ f \in 1..(f + 1 - 1) /\ f + 1 # f
        BY <1>1, <3>4
      <4>2. Unclosed(f + 1)
        BY <1>1, <4>1 DEF IInv, ChainInv, OrderInv
      <4>3. ~Finished(f + 1)'
        BY <1>f, <4>1, <4>2 DEF Unclosed, Finished
      <4>4. \A w \in 1..(f + 1 - 1) : w = f \/ w \in 1..(f - 1)
        BY <1>1
      <4> QED
        BY <3>1, <3>4, <4>1, <4>3, <4>4
    <3> QED
      BY <3>2, <3>3, <3>4
  <2> QED
    BY <1>d, <2>1, <2>2, <2>3 DEF OrderInv
<1>10. SessionInv'
  BY <1>1, <1>4, <1>d, <1>f DEF IInv, ChainInv, SessionInv, sessionVars
<1>11. LinkInv'
  <2>1. \A s \in 1..MaxSessions : /\ link[s] = "none" => link'[s] = "none"
                                  /\ link[s] = "closed" => link'[s] = "closed"
    BY <1>1, <1>4 DEF IInv, TypeOK
  <2>2. link'[tasks[f].owner] \in {"none", "closed"}
    BY <1>1, <1>4 DEF IInv, TypeOK
  <2>3. \A t \in DOMAIN tasks : /\ tasks'[t].owner = tasks[t].owner
                                /\ tasks'[t].stop = tasks[t].stop
                                /\ tasks'[t].closed => t = f \/ tasks[t].closed
                                /\ tasks[t].owner \in 1..MaxSessions
    BY <1>2, <1>d, TaskDomain DEF IInv, TaskRecord
  <2> QED
    BY <1>4, <1>d, <1>f, <2>1, <2>2, <2>3 DEF IInv, ChainInv, LinkInv, sessionVars
<1>12. EndpointInv' /\ PolicyInv'
  <2>1. \A t \in DOMAIN tasks : /\ tasks'[t].at = tasks[t].at
                                /\ tasks'[t].closing = tasks[t].closing
                                /\ tasks'[t].repairs = tasks[t].repairs
    BY <1>2, <1>d
  <2>2. up' => up
    BY <1>4 DEF processVars
  <2>3. DOMAIN tasks \subseteq DOMAIN tasks'
    BY <1>d
  <2>4. EndpointInv /\ PolicyInv
    BY DEF IInv
  <2>5. UNCHANGED policyVars /\ UNCHANGED endpointVars
    BY <1>4 DEF policyVars, endpointVars
  <2>6. \A t \in DOMAIN tasks' : t \in DOMAIN tasks
                                 \/ (tasks'[t].at \in {"start", "none"} /\ tasks'[t].repairs = 0)
    BY <1>d
  <2> QED
    BY <2>1, <2>2, <2>3, <2>4, <2>5, <2>6, QuietKeeps
<1> QED
  BY <1>6, <1>7, <1>8, <1>9, <1>10, <1>11, <1>12 DEF IInv, ChainInv


\* A session is closed whose task still has a thread.
LEMMA ReusesKeeps ==
  ASSUME IInv, NEW f, f = flowOf, f # NoTask, ~tasks[f].done,
         NEW record \in TaskRecord, tasks' = [tasks EXCEPT ![f] = record],
         record.stop, ~record.closed, record.done = tasks[f].done,
         record.at = tasks[f].at, record.closing = tasks[f].closing,
         record.repairs = tasks[f].repairs, record.owner = tasks[f].owner,
         record.verifies = tasks[f].verifies,
         NEW closer \in CloserRecord, closers' = closers \cup {closer},
         closer.flow = f, closer.session = count, closer.threaded,
         closer.predecessor = latest,
         latest' = f, attempt' = "none", flowOf' = NoTask, previous' = NoTask,
         count' = count, UNCHANGED <<up, drained, link, policyVars, endpointVars>>,
         stopping' \in BOOLEAN
  PROVE  IInv'
<1>1. /\ DOMAIN tasks = 1..Len(tasks) /\ Len(tasks) \in Nat
      /\ \A t \in DOMAIN tasks : tasks[t] \in TaskRecord
      /\ count \in 0..MaxSessions /\ f \in DOMAIN tasks
  BY TaskDomain DEF IInv, TypeOK
<1>2. /\ attempt = "connected" /\ latest = f /\ f = Len(tasks)
      /\ ~tasks[f].stop /\ Lives(f) /\ tasks[f].owner = count
      /\ \A t \in DOMAIN tasks : t # f => Finished(t)
  BY <1>1 DEF IInv, ChainInv, SessionInv, PlaceInv
<1>3. closers = {}
  BY <1>2, CloserFacts
<1>d. /\ tasks' \in Seq(TaskRecord)
      /\ Len(tasks') = Len(tasks) /\ DOMAIN tasks' = DOMAIN tasks
      /\ \A u \in DOMAIN tasks : tasks'[u] = IF u = f THEN record ELSE tasks[u]
      /\ tasks'[f] = record
  BY <1>1, TaskChanges DEF IInv
<1>f. \A u \in DOMAIN tasks : /\ Lives(u)' = Lives(u)
                              /\ u # f => /\ Finished(u)' /\ ~Unclosed(u)'
                                               /\ tasks'[u] = tasks[u]
                              /\ Verifying(u)' = Verifying(u)
  BY <1>2, <1>d DEF Unclosed, Finished, Lives, Verifying
<1>u. Unclosed(f)' /\ ~Finished(f)'
  BY <1>d DEF Unclosed, Finished
<1>4. TypeOK'
  BY <1>1, <1>d DEF IInv, TypeOK, policyVars, endpointVars
<1>5. PlaceInv'
  <2>1. ASSUME NEW u \in DOMAIN tasks, u # f
        PROVE  PlaceInv!(u)'
    BY <2>1, <1>d, <1>f DEF IInv, ChainInv, PlaceInv, Lives, Verifying
  <2>2. PlaceInv!(f)'
    BY <1>1, <1>2, <1>d, <1>f DEF IInv, ChainInv, PlaceInv, Lives, Verifying
  <2> QED
    BY <1>d, <2>1, <2>2 DEF PlaceInv
<1>6. CloserInv'
  <2>1. closers' = {closer}
    BY <1>3
  <2>2. \A t \in 1..(f - 1) : Finished(t)'
    BY <1>1, <1>2, <1>f
  <2>3. closer.threaded <=> tasks'[closer.flow].at # "none"
    BY <1>2, <1>d DEF Lives
  <2> QED
    BY <1>1, <1>2, <1>d, <1>f, <1>u, <2>1, <2>2, <2>3 DEF CloserInv
<1>7. OrderInv'
  <2>1. \A u \in DOMAIN tasks : \A t \in 1..(u - 1) : Finished(t)'
    BY <1>1, <1>2, <1>f
  <2> QED
    BY <1>1, <1>d, <1>f, <1>u, <2>1 DEF IInv, ChainInv, OrderInv
<1>8. SessionInv'
  BY <1>1, <1>2, <1>d DEF SessionInv
<1>9. LinkInv'
  <2>1. \A t \in DOMAIN tasks : tasks'[t].owner = tasks[t].owner
                                /\ (tasks'[t].closed => tasks[t].closed)
    BY <1>d
  <2> QED
    BY <1>2, <1>d, <1>f, <2>1 DEF IInv, ChainInv, LinkInv
<1>10. EndpointInv' /\ PolicyInv'
  <2>1. \A t \in DOMAIN tasks : /\ tasks'[t].at = tasks[t].at
                                /\ tasks'[t].closing = tasks[t].closing
                                /\ tasks'[t].repairs = tasks[t].repairs
    BY <1>d
  <2>2. EndpointInv /\ PolicyInv /\ (up' => up) /\ DOMAIN tasks \subseteq DOMAIN tasks'
    BY <1>d DEF IInv
  <2>3. UNCHANGED policyVars /\ UNCHANGED endpointVars
    BY DEF policyVars, endpointVars
  <2>4. \A t \in DOMAIN tasks' : t \in DOMAIN tasks
                                 \/ (tasks'[t].at \in {"start", "none"} /\ tasks'[t].repairs = 0)
    BY <1>d
  <2> QED
    BY <2>1, <2>2, <2>3, <2>4, QuietKeeps
<1> QED
  BY <1>4, <1>5, <1>6, <1>7, <1>8, <1>9, <1>10 DEF IInv, ChainInv

\* A task more leaves the others as they are.
LEMMA AddedFacts ==
  ASSUME IInv, NEW n, n = Len(tasks) + 1,
         NEW record \in TaskRecord, tasks' = Append(tasks, record)
  PROVE  /\ tasks' \in Seq(TaskRecord) /\ n \in Nat /\ n > 0 /\ Len(tasks) = n - 1
         /\ Len(tasks') = n /\ DOMAIN tasks' = 1..n /\ DOMAIN tasks = 1..(n - 1)
         /\ n \notin DOMAIN tasks /\ n \in DOMAIN tasks' /\ tasks'[n] = record
         /\ \A u \in DOMAIN tasks' : u = n \/ u \in DOMAIN tasks
         /\ \A u \in DOMAIN tasks :
               /\ u \in DOMAIN tasks' /\ u < n /\ u # n /\ tasks'[u] = tasks[u]
               /\ Lives(u)' = Lives(u) /\ Finished(u)' = Finished(u)
               /\ Unclosed(u)' = Unclosed(u) /\ Verifying(u)' = Verifying(u)
               /\ \A t \in 1..(u - 1) : t \in DOMAIN tasks
<1>1. /\ Len(tasks) \in Nat /\ DOMAIN tasks = 1..Len(tasks)
      /\ tasks' \in Seq(TaskRecord) /\ Len(tasks') = n /\ DOMAIN tasks' = 1..n
      /\ \A u \in DOMAIN tasks : tasks'[u] = tasks[u]
      /\ tasks'[n] = record
  BY TaskDomain, TaskAdded DEF IInv
<1>2. \A u \in DOMAIN tasks : /\ Lives(u)' = Lives(u) /\ Finished(u)' = Finished(u)
                              /\ Unclosed(u)' = Unclosed(u) /\ Verifying(u)' = Verifying(u)
  BY <1>1 DEF Lives, Finished, Unclosed, Verifying
<1>3. \A u \in DOMAIN tasks : /\ u \in DOMAIN tasks' /\ u < n /\ u # n
                              /\ \A t \in 1..(u - 1) : t \in DOMAIN tasks
  BY <1>1
<1>4. \A u \in DOMAIN tasks' : u = n \/ u \in DOMAIN tasks
  BY <1>1
<1> QED
  BY <1>1, <1>2, <1>3, <1>4

\* The first task that is not finished stays the first with one task more.
LEMMA AddedFirst ==
  ASSUME IInv, NEW n, n = Len(tasks) + 1,
         NEW record \in TaskRecord, tasks' = Append(tasks, record), ~Finished(n)'
  PROVE  \E u \in DOMAIN tasks' : ~Finished(u)' /\ \A w \in 1..(u - 1) : Finished(w)'
<1>1. CASE \A u \in DOMAIN tasks : Finished(u)
  <2>1. n \in DOMAIN tasks' /\ \A w \in 1..(n - 1) : w \in DOMAIN tasks
    BY AddedFacts
  <2> QED
    BY AddedFacts, <1>1, <2>1
<1>2. CASE \E u \in DOMAIN tasks : ~Finished(u) /\ \A w \in 1..(u - 1) : Finished(w)
  <2>1. PICK u \in DOMAIN tasks : ~Finished(u) /\ \A w \in 1..(u - 1) : Finished(w)
    BY <1>2
  <2>2. ~Finished(u)' /\ u \in DOMAIN tasks' /\ \A w \in 1..(u - 1) : w \in DOMAIN tasks
    BY <2>1, AddedFacts
  <2>3. \A w \in 1..(u - 1) : Finished(w)'
    BY <2>1, <2>2, AddedFacts
  <2> QED
    BY <2>2, <2>3
<1> QED
  BY <1>1, <1>2 DEF IInv, ChainInv, OrderInv

\* A session without a living task is closed: a task is added for the close, with a
\* thread only when no other one can live.
LEMMA StopsKeeps ==
  ASSUME IInv, attempt # "none", NEW n, n = Len(tasks) + 1, n <= MaxTasks,
         NEW threaded \in BOOLEAN, threaded => attempt = "connected",
         flowOf # NoTask => tasks[flowOf].done,
         NEW record \in TaskRecord, tasks' = Append(tasks, record),
         record.stop, ~record.closed, ~record.done, ~record.closing,
         record.at = IF threaded THEN "start" ELSE "none",
         record.repairs = 0, record.owner = count,
         NEW closer \in CloserRecord, closers' = closers \cup {closer},
         closer.flow = n, closer.session = count, closer.threaded = threaded,
         closer.predecessor = latest,
         latest' = n, attempt' = "none", flowOf' = NoTask, previous' = NoTask,
         count' = count, UNCHANGED <<up, drained, link, policyVars, endpointVars>>,
         stopping' \in BOOLEAN
  PROVE  IInv'
<1>1. /\ \A t \in DOMAIN tasks : tasks[t] \in TaskRecord
      /\ count \in 1..MaxSessions /\ flowOf \in 0..(n - 1) /\ latest \in {NoTask, n - 1}
      /\ flowOf # NoTask => flowOf \in DOMAIN tasks
  BY TaskDomain, AddedFacts DEF IInv, TypeOK, ChainInv, LinkInv, SessionInv
<1>d. /\ tasks' \in Seq(TaskRecord) /\ n \in Nat /\ n > 0
      /\ Len(tasks') = n /\ DOMAIN tasks' = 1..n /\ DOMAIN tasks = 1..(n - 1)
      /\ n \notin DOMAIN tasks /\ n \in DOMAIN tasks' /\ tasks'[n] = record
      /\ \A u \in DOMAIN tasks' : u = n \/ u \in DOMAIN tasks
  BY AddedFacts
<1>f. \A u \in DOMAIN tasks :
          /\ u \in DOMAIN tasks' /\ u < n /\ u # n /\ tasks'[u] = tasks[u]
          /\ Lives(u)' = Lives(u) /\ Finished(u)' = Finished(u)
          /\ Unclosed(u)' = Unclosed(u) /\ Verifying(u)' = Verifying(u)
          /\ \A t \in 1..(u - 1) : t \in DOMAIN tasks
  BY AddedFacts
<1>u. Unclosed(n)' /\ ~Finished(n)' /\ (Lives(n)' <=> threaded) /\ ~Verifying(n)'
  BY <1>d DEF Unclosed, Finished, Lives, Verifying, VerifyingPlaces, CyclePlaces
<1>2. \A t \in DOMAIN tasks : Lives(t) => tasks[t].stop /\ t # flowOf
  BY <1>1 DEF IInv, ChainInv, PlaceInv
<1>3. threaded => \A t \in DOMAIN tasks : ~Lives(t)
  BY <1>1, <1>2 DEF IInv, ChainInv, SessionInv, PlaceInv, Finished
<1>4. TypeOK'
  <2>1. {flowOf', latest', previous'} \subseteq 0..Len(tasks')
    BY <1>d
  <2>2. tasks' \in Seq(TaskRecord) /\ Len(tasks') <= MaxTasks
    BY <1>d
  <2>3. count' \in 0..MaxSessions /\ closers' \subseteq CloserRecord
    BY DEF IInv, TypeOK
  <2> QED
    BY <2>1, <2>2, <2>3 DEF IInv, TypeOK, policyVars, endpointVars
<1>5. PlaceInv'
  <2>1. ASSUME NEW u \in DOMAIN tasks
        PROVE  PlaceInv!(u)'
    BY <1>2, <1>d, <1>f DEF IInv, ChainInv, PlaceInv
  <2>2. PlaceInv!(n)'
    BY <1>d, <1>u DEF PlaceInv
  <2> QED
    BY <1>d, <2>1, <2>2 DEF PlaceInv
<1>6. CloserInv'
  <2>1. \A u \in DOMAIN tasks' : Unclosed(u)' => \E c \in closers' : c.flow = u
    BY <1>d, <1>f DEF IInv, ChainInv, CloserInv
  <2>2. \A c \in closers : c.flow \in DOMAIN tasks
    BY DEF IInv, ChainInv, CloserInv
  <2>3. \A c, d \in closers' : c.flow = d.flow => c = d
    BY <1>d, <2>2 DEF IInv, ChainInv, CloserInv
  <2>4. ASSUME NEW c \in closers
        PROVE  /\ c.flow \in DOMAIN tasks' /\ Unclosed(c.flow)'
               /\ c.session = tasks'[c.flow].owner
               /\ c.threaded <=> tasks'[c.flow].at # "none"
               /\ c.predecessor \in {NoTask, c.flow, c.flow - 1}
    BY <1>f, <2>2 DEF IInv, ChainInv, CloserInv
  <2>5. ASSUME NEW c \in closers, c.predecessor \in {NoTask, c.flow},
               NEW t \in 1..(c.flow - 1)
        PROVE  Finished(t)'
    <3>1. t \in DOMAIN tasks /\ Finished(t)
      BY <1>f, <2>2, <2>5 DEF IInv, ChainInv, CloserInv
    <3> QED
      BY <1>f, <3>1
  <2>6. latest = NoTask => \A t \in 1..(n - 1) : Finished(t)'
    BY <1>d, <1>f DEF IInv, ChainInv, SessionInv
  <2>7. latest # n /\ (latest = NoTask \/ latest = n - 1)
    BY <1>1, <1>d
  <2>8. threaded <=> record.at # "none"
    OBVIOUS
  <2>9. \A c \in closers' :
           /\ c.flow \in DOMAIN tasks' /\ Unclosed(c.flow)'
           /\ c.session = tasks'[c.flow].owner
           /\ c.threaded <=> tasks'[c.flow].at # "none"
           /\ c.predecessor \in {NoTask, c.flow, c.flow - 1}
           /\ c.predecessor \in {NoTask, c.flow} => \A t \in 1..(c.flow - 1) : Finished(t)'
    <3> TAKE c \in closers'
    <3>1. CASE c \in closers
      BY <2>4, <2>5, <3>1
    <3>2. CASE c = closer
      BY <1>d, <1>u, <2>6, <2>7, <2>8, <3>2
    <3> QED
      BY <3>1, <3>2
  <2> QED
    BY <2>1, <2>3, <2>9 DEF CloserInv
<1>7. OrderInv'
  <2>1. ASSUME NEW u \in DOMAIN tasks', NEW t \in 1..(u - 1) PROVE Finished(t)' \/ Unclosed(u)'
    BY <1>d, <1>f, <1>u DEF IInv, ChainInv, OrderInv
  <2>2. \A t, u \in DOMAIN tasks' : Lives(t)' /\ Lives(u)' => t = u
    BY <1>3, <1>d, <1>f, <1>u DEF IInv, ChainInv, OrderInv
  <2>3. \E u \in DOMAIN tasks' : ~Finished(u)' /\ \A w \in 1..(u - 1) : Finished(w)'
    BY <1>u, AddedFirst
  <2> QED
    BY <2>1, <2>2, <2>3 DEF OrderInv
<1>8. SessionInv'
  BY <1>d DEF SessionInv
<1>9. LinkInv'
  <2>1. ASSUME NEW t \in DOMAIN tasks
        PROVE  LinkInv!3!(t)'
    BY <1>f DEF IInv, ChainInv, LinkInv
  <2>2. LinkInv!3!(n)'
    <3>1. tasks'[n].owner = count /\ ~tasks'[n].closed
      BY <1>d
    <3>2. \A r \in 1..MaxSessions : r > count => link'[r] = "none"
      BY DEF IInv, ChainInv, LinkInv
    <3>3. count' = count /\ count \in Nat /\ attempt' = "none"
      BY <1>1
    <3> QED
      BY <3>1, <3>2, <3>3
  <2> QED
    BY <1>d, <2>1, <2>2 DEF IInv, ChainInv, LinkInv
<1>10. EndpointInv' /\ PolicyInv'
  <2>1. \A t \in DOMAIN tasks : /\ tasks'[t].at = tasks[t].at
                                /\ tasks'[t].closing = tasks[t].closing
                                /\ tasks'[t].repairs = tasks[t].repairs
    BY <1>f
  <2>2. EndpointInv /\ PolicyInv /\ (up' => up) /\ DOMAIN tasks \subseteq DOMAIN tasks'
    BY <1>f DEF IInv
  <2>3. UNCHANGED policyVars /\ UNCHANGED endpointVars
    BY DEF policyVars, endpointVars
  <2>4. \A t \in DOMAIN tasks' : t \in DOMAIN tasks
                                 \/ (tasks'[t].at \in {"start", "none"} /\ tasks'[t].repairs = 0)
    BY <1>d
  <2> QED
    BY <2>1, <2>2, <2>3, <2>4, QuietKeeps
<1> QED
  BY <1>4, <1>5, <1>6, <1>7, <1>8, <1>9, <1>10 DEF IInv, ChainInv

\* A session is closed; only a connected one is cleaned up by a thread of its own.
LEMMA CloseSessionKeeps ==
  ASSUME IInv, NEW cleanAudio \in BOOLEAN, NEW starts \in BOOLEAN,
         attempt # "none", cleanAudio /\ starts => attempt = "connected",
         CloseSession(cleanAudio, starts),
         UNCHANGED <<up, drained, link, policyVars, endpointVars>>, stopping' \in BOOLEAN
  PROVE  IInv'
<1>1. /\ DOMAIN tasks = 1..Len(tasks) /\ Len(tasks) \in Nat
      /\ \A t \in DOMAIN tasks : tasks[t] \in TaskRecord
      /\ count \in 1..MaxSessions /\ flowOf \in 0..Len(tasks) /\ latest \in 0..Len(tasks)
      /\ Len(tasks) <= MaxTasks /\ latest \in {NoTask, Len(tasks)}
  BY TaskDomain DEF IInv, TypeOK, ChainInv, LinkInv, SessionInv
<1>2. CASE flowOf # NoTask /\ ~tasks[flowOf].done
  <2> DEFINE record == [tasks[flowOf] EXCEPT !.stop = TRUE, !.cleanup = cleanAudio]
             closer == [session |-> count, flow |-> flowOf, threaded |-> TRUE,
                        predecessor |-> latest]
  <2>1. flowOf \in DOMAIN tasks /\ ~tasks[flowOf].stop /\ ~tasks[flowOf].closed
        /\ tasks[flowOf] \in TaskRecord
    <3>1. flowOf \in DOMAIN tasks /\ tasks[flowOf] \in TaskRecord
      <4>1. flowOf \in 1..Len(tasks)
        <5>1. flowOf \in 0..Len(tasks) /\ Len(tasks) \in Nat
          BY <1>1
        <5>2. flowOf # 0
          BY <1>2
        <5> QED
          BY ONLY <5>1, <5>2
      <4> QED
        BY <1>1, <4>1
    <3>2. ~tasks[flowOf].stop
      BY <1>2 DEF IInv, ChainInv, SessionInv
    <3>3. tasks[flowOf].closed => tasks[flowOf].stop
      BY <3>1 DEF IInv, ChainInv, PlaceInv
    <3> QED
      BY <3>1, <3>2, <3>3
  <2>2. /\ record \in TaskRecord /\ record.stop /\ ~record.closed
        /\ record.done = tasks[flowOf].done
        /\ record.at = tasks[flowOf].at /\ record.closing = tasks[flowOf].closing
        /\ record.repairs = tasks[flowOf].repairs /\ record.owner = tasks[flowOf].owner
        /\ record.verifies = tasks[flowOf].verifies
    BY <2>1 DEF TaskRecord
  <2>3. /\ tasks' = [tasks EXCEPT ![flowOf] = record] /\ closers' = closers \cup {closer}
        /\ latest' = flowOf /\ attempt' = "none" /\ flowOf' = NoTask /\ previous' = NoTask
        /\ count' = count
    BY <1>2, <2>1 DEF CloseSession, TaskRecord
  <2>4. /\ closer \in CloserRecord /\ closer.flow = flowOf /\ closer.session = count
        /\ closer.threaded /\ closer.predecessor = latest
    BY <1>1, <2>1 DEF CloserRecord
  <2> HIDE DEF record, closer
  <2> QED
    BY <1>2, <2>2, <2>3, <2>4, ReusesKeeps
<1>3. CASE flowOf # NoTask => tasks[flowOf].done
  <2> DEFINE n        == Len(tasks) + 1
             threaded == cleanAudio /\ starts
             record   == NewTask(count, IF threaded THEN "start" ELSE "none", FALSE,
                                 cleanAudio, TRUE)
             closer   == [session |-> count, flow |-> n, threaded |-> threaded,
                          predecessor |-> latest]
  <2>1. /\ record \in TaskRecord /\ record.stop /\ ~record.closed /\ ~record.done
        /\ record.at = (IF threaded THEN "start" ELSE "none") /\ ~record.closing
        /\ record.repairs = 0 /\ record.owner = count
    BY <1>1 DEF TaskRecord, NewTask, Places
  <2>2. /\ tasks' = Append(tasks, record) /\ closers' = closers \cup {closer}
        /\ latest' = n /\ attempt' = "none" /\ flowOf' = NoTask /\ previous' = NoTask
        /\ count' = count /\ n <= MaxTasks
    BY <1>3 DEF CloseSession
  <2>3. /\ closer \in CloserRecord /\ closer.flow = n /\ closer.session = count
        /\ closer.threaded = threaded /\ closer.predecessor = latest
    <3>1. n \in 1..MaxTasks /\ latest \in 0..MaxTasks
      <4>1. n <= MaxTasks
        BY <1>3 DEF CloseSession
      <4>2. /\ Len(tasks) \in Nat /\ Len(tasks) <= MaxTasks /\ latest \in 0..Len(tasks)
            /\ MaxTasks \in Nat
        BY <1>1
      <4> QED
        BY ONLY <4>1, <4>2
    <3>2. threaded \in BOOLEAN
      OBVIOUS
    <3> HIDE DEF n, threaded
    <3> QED
      BY <1>1, <3>1, <3>2 DEF CloserRecord
  <2>4. threaded \in BOOLEAN /\ (threaded => attempt = "connected") /\ n = Len(tasks) + 1
    OBVIOUS
  <2> HIDE DEF record, closer, n, threaded
  <2> QED
    BY <1>3, <2>1, <2>2, <2>3, <2>4, StopsKeeps
<1> QED
  BY <1>2, <1>3

-----------------------------------------------------------------------------
(* The other steps of the sessions *)

\* What a step that leaves tasks and closers alone keeps.
LEMMA SameTasks ==
  ASSUME IInv, UNCHANGED <<tasks, closers>>, flowOf' = flowOf
  PROVE  /\ DOMAIN tasks' = DOMAIN tasks /\ tasks' \in Seq(TaskRecord)
         /\ PlaceInv' /\ CloserInv' /\ OrderInv'
         /\ \A t \in DOMAIN tasks : Lives(t)' = Lives(t) /\ Finished(t)' = Finished(t)
                                    /\ tasks'[t] = tasks[t]
<1>1. tasks' \in Seq(TaskRecord)
  BY DEF IInv, TypeOK
<1>2. PlaceInv'
  BY DEF IInv, ChainInv, PlaceInv, Lives, Verifying
<1>3. CloserInv'
  BY DEF IInv, ChainInv, CloserInv, Finished, Unclosed
<1>4. OrderInv'
  BY DEF IInv, ChainInv, OrderInv, Lives, Finished, Unclosed
<1> QED
  BY <1>1, <1>2, <1>3, <1>4 DEF Lives, Finished

LEMMA SameEndpoint ==
  ASSUME IInv, UNCHANGED tasks, UNCHANGED policyVars, UNCHANGED endpointVars, up' => up
  PROVE  EndpointInv' /\ PolicyInv'
<1>1. EndpointInv /\ PolicyInv /\ DOMAIN tasks \subseteq DOMAIN tasks'
  BY DEF IInv
<1>2. \A t \in DOMAIN tasks : /\ tasks'[t].at = tasks[t].at
                              /\ tasks'[t].closing = tasks[t].closing
                              /\ tasks'[t].repairs = tasks[t].repairs
  OBVIOUS
<1>3. \A t \in DOMAIN tasks' : t \in DOMAIN tasks
                               \/ (tasks'[t].at \in {"start", "none"} /\ tasks'[t].repairs = 0)
  OBVIOUS
<1> QED
  BY <1>1, <1>2, <1>3, QuietKeeps

LEMMA BeginAttemptKeeps ==
  ASSUME IInv, BeginAttempt
  PROVE  IInv'
<1> USE DEF BeginAttempt, processVars, sessionVars
<1>1. TypeOK'
  BY TaskDomain DEF IInv, TypeOK, policyVars, endpointVars
<1>2. SessionInv'
  BY SameTasks DEF IInv, ChainInv, SessionInv
<1>3. LinkInv'
  <2>1. count \in Nat
    BY DEF IInv, TypeOK
  <2>2. \A t \in DOMAIN tasks : tasks[t].owner \in Nat
    BY TaskDomain DEF IInv, TaskRecord
  <2> QED
    BY <2>1, <2>2, SameTasks DEF IInv, ChainInv, LinkInv
<1> QED
  BY <1>1, <1>2, <1>3, SameTasks, SameEndpoint DEF IInv, ChainInv

LEMMA PreviousFinishedKeeps ==
  ASSUME IInv, PreviousFinished
  PROVE  IInv'
<1> USE DEF PreviousFinished, processVars, sessionVars
<1>1. TypeOK'
  BY TaskDomain DEF IInv, TypeOK, policyVars, endpointVars
<1>2. SessionInv'
  <2>1. latest = Len(tasks) /\ latest \in DOMAIN tasks /\ DOMAIN tasks = 1..Len(tasks)
        /\ Finished(latest) /\ Len(tasks) \in Nat
    BY TaskDomain DEF IInv, TypeOK, ChainInv, SessionInv
  <2>2. \A t \in 1..(latest - 1) : Finished(t)
    BY <2>1 DEF IInv, ChainInv, OrderInv, Finished, Unclosed
  <2>3. \A t \in DOMAIN tasks : t = latest \/ t \in 1..(latest - 1)
    BY <2>1
  <2> QED
    BY <2>1, <2>2, <2>3, SameTasks DEF IInv, ChainInv, SessionInv
<1>3. LinkInv'
  BY SameTasks DEF IInv, ChainInv, LinkInv
<1> QED
  BY <1>1, <1>2, <1>3, SameTasks, SameEndpoint DEF IInv, ChainInv

\* Once an attempt has waited for the previous task, every task is finished but
\* its own.
LEMMA AllFinished ==
  ASSUME IInv, attempt = "opening"
  PROVE  \A t \in DOMAIN tasks : Finished(t) /\ ~Lives(t) /\ ~Unclosed(t)
  BY DEF IInv, ChainInv, SessionInv, PlaceInv, Finished, Unclosed

LEMMA LinkOpensKeeps ==
  ASSUME IInv, LinkOpens
  PROVE  IInv'
<1> USE DEF LinkOpens, processVars, sessionVars
<1>1. TypeOK'
  BY TaskDomain DEF IInv, TypeOK, policyVars, endpointVars
<1>2. SessionInv'
  BY SameTasks DEF IInv, ChainInv, SessionInv
<1>3. LinkInv'
  <2>1. /\ count \in 1..MaxSessions
        /\ \A t \in DOMAIN tasks : tasks[t].owner \in Nat /\ tasks[t].owner <= count
        /\ \A t \in DOMAIN tasks : tasks[t].stop => tasks[t].owner < count
        /\ \A t \in DOMAIN tasks : tasks[t].closed => tasks[t].stop
        /\ link \in [1..MaxSessions -> {"none", "open", "lost", "closed"}]
    BY TaskDomain DEF IInv, TypeOK, ChainInv, LinkInv, PlaceInv, TaskRecord
  <2>2. \A s \in 1..MaxSessions : s # count => link'[s] = link[s]
    BY <2>1
  <2> QED
    BY <2>1, <2>2, SameTasks, AllFinished DEF IInv, ChainInv, LinkInv
<1> QED
  BY <1>1, <1>2, <1>3, SameTasks, SameEndpoint DEF IInv, ChainInv

LEMMA RemoteChangesKeeps ==
  ASSUME IInv, NEW s \in 1..MaxSessions, RemoteChanges(s)
  PROVE  IInv'
<1> USE DEF RemoteChanges, processVars, sessionVars
<1>1. TypeOK'
  BY TaskDomain DEF IInv, TypeOK, policyVars, endpointVars
<1>2. SessionInv'
  BY SameTasks DEF IInv, ChainInv, SessionInv
<1>3. LinkInv'
  <2>1. \A r \in 1..MaxSessions : link'[r] = IF r = s THEN link'[s] ELSE link[r]
    BY DEF IInv, TypeOK
  <2>2. \A t \in DOMAIN tasks : tasks[t].owner \in 1..MaxSessions
    BY TaskDomain DEF IInv, TaskRecord
  <2> QED
    BY <2>1, <2>2, SameTasks DEF IInv, ChainInv, LinkInv
<1> QED
  BY <1>1, <1>2, <1>3, SameTasks, SameEndpoint DEF IInv, ChainInv

\* A verification starts when no other thread lives and no close is pending.
LEMMA StartsTaskKeeps ==
  ASSUME IInv, attempt = "opening", NEW n, n = Len(tasks) + 1, n <= MaxTasks,
         NEW record \in TaskRecord, tasks' = Append(tasks, record),
         ~record.stop, ~record.closed, ~record.done, ~record.closing,
         record.at = "start", record.repairs = 0, record.owner = count,
         closers = {}, closers' = closers, attempt' = "connected",
         flowOf' = n, latest' = n, previous' = previous, count' = count,
         UNCHANGED <<processVars, link>>, UNCHANGED policyVars, UNCHANGED endpointVars
  PROVE  IInv'
<1>1. count \in 1..MaxSessions
  BY DEF IInv, TypeOK, ChainInv, LinkInv
<1>d. /\ tasks' \in Seq(TaskRecord) /\ n \in Nat /\ n > 0 /\ Len(tasks) = n - 1
      /\ Len(tasks') = n /\ DOMAIN tasks' = 1..n /\ DOMAIN tasks = 1..(n - 1)
      /\ n \notin DOMAIN tasks /\ n \in DOMAIN tasks' /\ tasks'[n] = record
      /\ \A u \in DOMAIN tasks' : u = n \/ u \in DOMAIN tasks
  BY AddedFacts
<1>f. \A u \in DOMAIN tasks :
          /\ u \in DOMAIN tasks' /\ u < n /\ u # n /\ tasks'[u] = tasks[u]
          /\ Finished(u)' /\ ~Lives(u)' /\ ~Unclosed(u)' /\ Verifying(u)' = Verifying(u)
          /\ Lives(u)' = Lives(u)
          /\ \A t \in 1..(u - 1) : t \in DOMAIN tasks
  BY AddedFacts, AllFinished
<1>u. ~Unclosed(n)' /\ ~Finished(n)' /\ Lives(n)' /\ ~Verifying(n)'
  BY <1>d DEF Unclosed, Finished, Lives, Verifying, VerifyingPlaces, CyclePlaces
<1>2. TypeOK'
  <2>1. {flowOf', latest', previous'} \subseteq 0..Len(tasks')
    BY <1>d DEF IInv, TypeOK
  <2>2. tasks' \in Seq(TaskRecord) /\ Len(tasks') <= MaxTasks
    BY <1>d
  <2> QED
    BY <2>1, <2>2 DEF IInv, TypeOK, policyVars, endpointVars, processVars
<1>3. PlaceInv'
  <2>1. ASSUME NEW u \in DOMAIN tasks
        PROVE  PlaceInv!(u)'
    BY <1>f DEF IInv, ChainInv, PlaceInv
  <2>2. PlaceInv!(n)'
    BY <1>d, <1>u DEF PlaceInv
  <2> QED
    BY <1>d, <2>1, <2>2 DEF PlaceInv
<1>4. CloserInv'
  BY <1>d, <1>f, <1>u DEF CloserInv
<1>5. OrderInv'
  <2>1. \A u \in DOMAIN tasks' : \A t \in 1..(u - 1) : Finished(t)' \/ Unclosed(u)'
    BY <1>d, <1>f
  <2>2. \A t, u \in DOMAIN tasks' : Lives(t)' /\ Lives(u)' => t = u
    BY <1>d, <1>f
  <2>3. \E u \in DOMAIN tasks' : ~Finished(u)' /\ \A w \in 1..(u - 1) : Finished(w)'
    BY <1>u, AddedFirst
  <2> QED
    BY <2>1, <2>2, <2>3 DEF OrderInv
<1>6. SessionInv'
  BY <1>d, <1>f DEF SessionInv
<1>7. LinkInv'
  <2>1. ASSUME NEW t \in DOMAIN tasks
        PROVE  LinkInv!3!(t)'
    BY <1>f DEF IInv, ChainInv, LinkInv
  <2>2. LinkInv!3!(n)'
    BY <1>1, <1>d DEF IInv, ChainInv, LinkInv
  <2> QED
    BY <1>1, <1>d, <2>1, <2>2 DEF IInv, ChainInv, LinkInv
<1>8. EndpointInv' /\ PolicyInv'
  <2>1. \A t \in DOMAIN tasks : /\ tasks'[t].at = tasks[t].at
                                /\ tasks'[t].closing = tasks[t].closing
                                /\ tasks'[t].repairs = tasks[t].repairs
    BY <1>f
  <2>2. EndpointInv /\ PolicyInv /\ (up' => up) /\ DOMAIN tasks \subseteq DOMAIN tasks'
    BY <1>f DEF IInv, processVars
  <2>3. \A t \in DOMAIN tasks' : t \in DOMAIN tasks
                                 \/ (tasks'[t].at \in {"start", "none"} /\ tasks'[t].repairs = 0)
    BY <1>d
  <2> QED
    BY <2>1, <2>2, <2>3, QuietKeeps
<1> QED
  BY <1>2, <1>3, <1>4, <1>5, <1>6, <1>7, <1>8 DEF IInv, ChainInv

LEMMA ConnectsKeeps ==
  ASSUME IInv, NEW verifies \in BOOLEAN, Connects(verifies)
  PROVE  IInv'
<1>1. /\ attempt = "opening" /\ attempt' = "connected" /\ closers' = closers
      /\ closers = {} /\ count \in 1..MaxSessions /\ latest = NoTask /\ flowOf = NoTask
  BY CloserFacts DEF Connects, IInv, TypeOK, ChainInv, SessionInv, LinkInv
<1>2. /\ UNCHANGED policyVars /\ UNCHANGED endpointVars /\ up' = up
      /\ UNCHANGED <<processVars, link>> /\ count' = count /\ previous' = previous
  BY DEF Connects, processVars, policyVars, endpointVars
<1>3. CASE ~verifies
  <2>1. UNCHANGED <<tasks, closers>> /\ flowOf' = flowOf /\ latest' = latest
    BY <1>3 DEF Connects
  <2>2. TypeOK'
    BY <1>1, <1>2, <2>1 DEF Connects, IInv, TypeOK, policyVars, endpointVars, processVars
  <2>3. SessionInv'
    BY <1>1, <2>1, SameTasks DEF IInv, ChainInv, SessionInv
  <2>4. LinkInv'
    BY <1>1, <1>2, <2>1, SameTasks DEF IInv, ChainInv, LinkInv
  <2> QED
    BY <1>2, <2>1, <2>2, <2>3, <2>4, SameTasks, SameEndpoint DEF IInv, ChainInv
<1>4. CASE verifies
  <2> DEFINE n      == Len(tasks) + 1
             record == NewTask(count, "start", TRUE, FALSE, FALSE)
  <2>1. /\ record \in TaskRecord /\ ~record.stop /\ ~record.closed /\ ~record.done
        /\ record.at = "start" /\ ~record.closing /\ record.repairs = 0
        /\ record.owner = count
    BY <1>1 DEF TaskRecord, NewTask, Places
  <2>2. tasks' = Append(tasks, record) /\ flowOf' = n /\ latest' = n /\ Len(tasks) < MaxTasks
    BY <1>4 DEF Connects
  <2>3. n <= MaxTasks
    BY <2>2, TaskDomain DEF IInv
  <2>4. n = Len(tasks) + 1
    OBVIOUS
  <2> HIDE DEF record, n
  <2> QED
    BY <1>1, <1>2, <2>1, <2>2, <2>3, <2>4, StartsTaskKeeps
<1> QED
  BY <1>3, <1>4

LEMMA AttemptFailsKeeps ==
  ASSUME IInv, AttemptFails
  PROVE  IInv'
<1>1. /\ attempt # "none" /\ CloseSession(FALSE, FALSE) /\ stopping' \in BOOLEAN
      /\ UNCHANGED <<up, drained, link, policyVars, endpointVars>>
  BY DEF AttemptFails, processVars, IInv, TypeOK
<1> QED
  BY <1>1, CloseSessionKeeps

LEMMA DisconnectsKeeps ==
  ASSUME IInv, NEW cleanAudio \in BOOLEAN, NEW starts \in BOOLEAN,
         Disconnects(cleanAudio, starts)
  PROVE  IInv'
<1>1. /\ attempt = "connected" /\ CloseSession(cleanAudio, starts) /\ stopping' \in BOOLEAN
      /\ UNCHANGED <<up, drained, link, policyVars, endpointVars>>
  BY DEF Disconnects, processVars, IInv, TypeOK
<1> QED
  BY <1>1, CloseSessionKeeps

LEMMA BeginShutdownKeeps ==
  ASSUME IInv, BeginShutdown
  PROVE  IInv'
<1>1. CASE attempt = "none"
  <2>1. /\ UNCHANGED <<sessionVars, tasks, closers>> /\ up' = up /\ stopping' = TRUE
        /\ UNCHANGED <<drained, link>> /\ UNCHANGED policyVars /\ UNCHANGED endpointVars
    BY <1>1 DEF BeginShutdown
  <2>2. TypeOK'
    BY <2>1 DEF IInv, TypeOK, sessionVars, policyVars, endpointVars
  <2>3. SessionInv' /\ LinkInv'
    BY <2>1, SameTasks DEF IInv, ChainInv, SessionInv, LinkInv, sessionVars
  <2> QED
    BY <2>1, <2>2, <2>3, SameTasks, SameEndpoint DEF IInv, ChainInv, sessionVars
<1>2. CASE attempt # "none"
  <2>1. /\ CloseSession(FALSE, FALSE) /\ stopping' \in BOOLEAN
        /\ UNCHANGED <<up, drained, link, policyVars, endpointVars>>
    BY <1>2 DEF BeginShutdown
  <2> QED
    BY <1>2, <2>1, CloseSessionKeeps
<1> QED
  BY <1>1, <1>2

LEMMA ProcessExitsKeeps ==
  ASSUME IInv, ProcessExits
  PROVE  IInv'
<1>1. /\ UNCHANGED <<sessionVars, tasks, closers, stopping, link>> /\ up' = FALSE
      /\ drained' \in BOOLEAN /\ UNCHANGED policyVars /\ UNCHANGED endpointVars
  BY DEF ProcessExits
<1>2. TypeOK'
  BY <1>1 DEF IInv, TypeOK, sessionVars, policyVars, endpointVars
<1>3. SessionInv' /\ LinkInv'
  BY <1>1, SameTasks DEF IInv, ChainInv, SessionInv, LinkInv, sessionVars
<1> QED
  BY <1>1, <1>2, <1>3, SameTasks, SameEndpoint DEF IInv, ChainInv, sessionVars

LEMMA TimePassesKeeps ==
  ASSUME IInv, TimePasses
  PROVE  IInv'
<1>1. /\ UNCHANGED <<sessionVars, tasks, closers, link, policy>> /\ up' = up
      /\ UNCHANGED <<stopping, drained>> /\ UNCHANGED endpointVars
      /\ now' = now + 1 /\ now < MaxTick
      /\ silences' = {age + 1 : age \in silences} \ {NoFrames + 1}
  BY DEF TimePasses, processVars
<1>2. now \in 0..MaxTick /\ MaxTick \in Nat /\ silences \subseteq 0..NoFrames
  BY DEF IInv, TypeOK
<1>3. TypeOK'
  <2>1. now' \in 0..MaxTick
    BY <1>1, <1>2
  <2>2. silences' \subseteq 0..NoFrames
    BY <1>1, <1>2 DEF NoFrames
  <2> QED
    BY <1>1, <2>1, <2>2 DEF IInv, TypeOK, sessionVars, endpointVars
<1>4. SessionInv' /\ LinkInv'
  BY <1>1, SameTasks DEF IInv, ChainInv, SessionInv, LinkInv, sessionVars
<1>5. EndpointInv'
  BY <1>1 DEF IInv, EndpointInv, InCycle, endpointVars
<1>6. SilenceInv'
  <2>1. SilenceInv /\ policy.began \in Nat /\ policy.last \in Nat
    BY DEF IInv, PolicyInv, TypeOK
  <2>2. ASSUME policy.pending, NEW k \in policy.began..policy.last, now' - k <= NoFrames
        PROVE  now' - k \in silences'
    <3>1. now - k \in silences
      BY <1>1, <1>2, <2>1, <2>2 DEF SilenceInv, NoFrames
    <3>2. (now - k) + 1 \in {age + 1 : age \in silences}
      BY <3>1
    <3>3. (now - k) + 1 = now' - k /\ now' - k # NoFrames + 1
      BY <1>1, <1>2, <2>1, <2>2 DEF NoFrames
    <3> QED
      BY <1>1, <3>2, <3>3
  <2> QED
    BY <1>1, <1>2, <2>1, <2>2 DEF SilenceInv
<1>7. PolicyInv'
  <2>1. \E t \in DOMAIN tasks : Verifying(t)
    <3>1. PICK t \in Threads : tasks[t].at = "verify"
      BY DEF TimePasses
    <3>2. t \in DOMAIN tasks /\ ~tasks[t].closing
      BY <3>1 DEF Threads, IInv, ChainInv, PlaceInv, EarlyPlaces
    <3> QED
      BY <3>1, <3>2 DEF Verifying, VerifyingPlaces
  <2> QED
    BY <1>1, <1>6, <2>1 DEF IInv, PolicyInv, Verifying
<1> QED
  BY <1>1, <1>3, <1>4, <1>5, <1>7, SameTasks DEF IInv, ChainInv, sessionVars

-----------------------------------------------------------------------------
(* The theorems *)

LEMMA InitIInv ==
  ASSUME Init
  PROVE  IInv
<1>1. tasks \in Seq(TaskRecord) /\ Len(tasks) = 0 /\ DOMAIN tasks = {}
  BY EmptySeq, LenProperties DEF Init
<1>2. TypeOK
  <2>1. link \in [1..MaxSessions -> {"none", "open", "lost", "closed"}]
    BY DEF Init
  <2>2. {flowOf, latest, previous} \subseteq 0..Len(tasks) /\ Len(tasks) <= MaxTasks
    BY <1>1 DEF Init
  <2>3. count \in 0..MaxSessions /\ now \in 0..MaxTick
    BY DEF Init
  <2>4. {up, drained, stopping, visible, refused} \subseteq BOOLEAN
    BY DEF Init
  <2>5. closers \subseteq CloserRecord /\ silences \subseteq 0..NoFrames
    BY DEF Init
  <2>6. policy \in [disarmed: BOOLEAN, pending: BOOLEAN, attempted: BOOLEAN,
                    began: 0..MaxTick, last: 0..MaxTick]
    BY NewPolicyType DEF Init
  <2> QED
    BY <1>1, <2>1, <2>2, <2>3, <2>4, <2>5, <2>6 DEF Init, TypeOK
<1>3. ChainInv
  BY <1>1 DEF Init, ChainInv, PlaceInv, CloserInv, OrderInv, SessionInv, LinkInv
<1>4. EndpointInv /\ PolicyInv
  BY <1>1, NewPolicyType DEF Init, EndpointInv, PolicyInv, SilenceInv
<1> QED
  BY <1>2, <1>3, <1>4 DEF IInv

LEMMA ThreadStepKeeps ==
  ASSUME IInv, NEW t \in Threads, ThreadStep(t) \/ RestoreTimesOut(t)
  PROVE  IInv'
<1>1. t \in DOMAIN tasks
  BY DEF Threads
<1> QED
  BY <1>1, StartsKeeps, FailsKeeps, VerifiesKeeps, ObservesKeeps, CycleKeeps, SeesClosedKeeps
     DEF ThreadStep

LEMMA SessionsKeep ==
  ASSUME IInv, Sessions
  PROVE  IInv'
  BY BeginAttemptKeeps, PreviousFinishedKeeps, LinkOpensKeeps, AttemptFailsKeeps,
     ConnectsKeeps, DisconnectsKeeps, RemoteChangesKeeps, CloseReturnsKeeps,
     BeginShutdownKeeps, ProcessExitsKeeps DEF Sessions

LEMMA StutterKeeps ==
  ASSUME IInv, UNCHANGED vars
  PROVE  IInv'
<1>1. /\ UNCHANGED <<up, drained, stopping, attempt, count, flowOf, latest, previous>>
      /\ UNCHANGED <<link, tasks, closers>>
      /\ UNCHANGED policyVars /\ UNCHANGED endpointVars
  BY DEF vars, processVars, sessionVars
<1>2. TypeOK'
  BY <1>1 DEF IInv, TypeOK, policyVars, endpointVars
<1>3. SessionInv' /\ LinkInv'
  BY <1>1, SameTasks DEF IInv, ChainInv, SessionInv, LinkInv
<1> QED
  BY <1>1, <1>2, <1>3, SameTasks, SameEndpoint DEF IInv, ChainInv

LEMMA NextKeeps ==
  ASSUME IInv, [Next]_vars
  PROVE  IInv'
<1>1. CASE Sessions
  BY <1>1, SessionsKeep
<1>2. CASE TimePasses
  BY <1>2, TimePassesKeeps
<1>3. CASE \E t \in Threads : ThreadStep(t) \/ RestoreTimesOut(t)
  BY <1>3, ThreadStepKeeps
<1>4. CASE UNCHANGED vars
  BY <1>4, StutterKeeps
<1> QED
  BY <1>1, <1>2, <1>3, <1>4 DEF Next

\* The invariants above hold in every state.
THEOREM Invariance == Spec => []IInv
<1>1. Init => IInv
  BY InitIInv
<1>2. IInv /\ [Next]_vars => IInv'
  BY NextKeeps
<1> QED
  BY <1>1, <1>2, PTL DEF Spec

\* Every variable keeps its type; the number of tasks its bound, and the ages of the
\* silences their range.
THEOREM TypeCorrect == Spec => []TypeOK
<1>1. IInv => TypeOK
  BY DEF IInv
<1> QED
  BY <1>1, Invariance, PTL

\* Only an exit changes whether the process runs, and whether the drain was complete.
LEMMA OnlyExits ==
  ASSUME Next
  PROVE  up /\ (up' = up \/ ProcessExits)
<1>1. CASE Sessions
  <2>1. CASE ProcessExits
    BY <2>1 DEF ProcessExits
  <2>2. CASE BeginShutdown
    BY <2>2 DEF BeginShutdown
  <2>3. CASE ~ProcessExits /\ ~BeginShutdown
    <3>1. up /\ UNCHANGED processVars
      BY <1>1, <2>3 DEF Sessions, BeginAttempt, PreviousFinished, LinkOpens, AttemptFails,
         Connects, Disconnects, RemoteChanges, CloseReturns
    <3> QED
      BY <3>1 DEF processVars
  <2> QED
    BY <2>1, <2>2, <2>3
<1>2. CASE TimePasses
  BY <1>2 DEF TimePasses, processVars
<1>3. CASE \E t \in Threads : ThreadStep(t) \/ RestoreTimesOut(t)
  <2>1. up /\ UNCHANGED processVars
    BY <1>3 DEF ThreadStep, RestoreTimesOut, ThreadStarts, ThreadFails, Verifies, Observes,
       CycleChecks, CycleAborts, Hides, HideSeen, Shows, Restores, SeesClosed
  <2> QED
    BY <2>1 DEF processVars
<1> QED
  BY <1>1, <1>2, <1>3 DEF Next

\* An exit whose drain was complete leaves no endpoint hidden that Windows did not
\* refuse to show.
THEOREM ExitRestoresHolds == Spec => []ExitRestores
<1> DEFINE ExitInv == ~up /\ ~visible /\ ~refused => ~drained
<1>1. Init => ExitInv
  BY DEF Init
<1>2. IInv /\ ExitInv /\ [Next]_vars => ExitInv'
  <2> SUFFICES ASSUME IInv, ExitInv, [Next]_vars
               PROVE  ExitInv'
    OBVIOUS
  <2>1. CASE UNCHANGED vars
    BY <2>1 DEF vars, processVars, endpointVars
  <2>2. CASE Next /\ up'
    BY <2>2
  <2>3. CASE ProcessExits
    <3>1. \A t \in DOMAIN tasks : (latest = NoTask \/ Finished(latest)) => Finished(t)
      <4>1. CASE latest = NoTask
        BY <4>1 DEF IInv, ChainInv, SessionInv
      <4>2. CASE latest # NoTask
        <5>1. latest = Len(tasks) /\ DOMAIN tasks = 1..Len(tasks) /\ Len(tasks) \in Nat
              /\ latest \in DOMAIN tasks
          BY <4>2, TaskDomain DEF IInv, TypeOK, ChainInv, SessionInv
        <5>2. \A t \in DOMAIN tasks : t = latest \/ t \in 1..(latest - 1)
          BY <5>1
        <5> QED
          BY <5>1, <5>2 DEF IInv, ChainInv, OrderInv, Finished, Unclosed
      <4> QED
        BY <4>1, <4>2
    <3>2. \A t \in DOMAIN tasks : Finished(t) => ~InCycle(t)
      BY DEF IInv, ChainInv, PlaceInv, Finished, Lives, InCycle, CyclePlaces
    <3> QED
      BY <2>3, <3>1, <3>2 DEF ProcessExits, endpointVars, IInv, EndpointInv
  <2> QED
    BY <2>1, <2>2, <2>3, OnlyExits
<1>3. IInv /\ ExitInv => ExitRestores
  BY DEF IInv, EndpointInv, ExitRestores
<1> QED
  BY <1>1, <1>2, <1>3, Invariance, PTL DEF Spec

\* No task works on the endpoint beside another task, beside a newer link, or, to
\* clean up, before its own link is closed.
THEOREM CyclesSpareLinksHold == Spec => []CyclesSpareLinks
<1>1. ASSUME IInv PROVE CyclesSpareLinks
  <2>1. \A t \in DOMAIN tasks : InCycle(t) => Lives(t)
    BY DEF InCycle, Lives, CyclePlaces
  <2>2. \A t \in DOMAIN tasks : InCycle(t) /\ tasks[t].closing =>
            link[tasks[t].owner] \in {"none", "closed"}
    BY <1>1 DEF IInv, ChainInv, PlaceInv, LinkInv
  <2> QED
    BY <1>1, <2>1, <2>2 DEF IInv, ChainInv, OrderInv, LinkInv, CyclesSpareLinks
<1> QED
  BY <1>1, Invariance, PTL

\* An attempt that has waited for the latest task finds no close pending and no other
\* thread.
THEOREM LatestStandsForAllHolds == Spec => []LatestStandsForAll
<1>1. ASSUME IInv PROVE LatestStandsForAll
  BY <1>1, CloserFacts, AllFinished
     DEF LatestStandsForAll, IInv, ChainInv, SessionInv, Finished
<1> QED
  BY <1>1, Invariance, PTL

\* The closes and the threads never all wait for one another.
THEOREM NoCircularWaitHolds == Spec => []NoCircularWait
<1>1. ASSUME IInv PROVE NoCircularWait
  <2> SUFFICES ASSUME NEW c \in closers
               PROVE  \/ \E e \in closers : PredecessorFinished(e)
                      \/ \E t \in Threads : ~tasks[t].done /\ tasks[t].closed
    BY DEF NoCircularWait
  <2>1. ~Finished(c.flow) /\ c.flow \in DOMAIN tasks /\ flowOf = NoTask
    BY <1>1, CloserFacts
  <2>2. PICK t \in DOMAIN tasks : ~Finished(t) /\ \A u \in 1..(t - 1) : Finished(u)
    BY <1>1, <2>1 DEF IInv, ChainInv, OrderInv
  <2>3. t \in 1..Len(tasks) /\ Len(tasks) \in Nat /\ DOMAIN tasks = 1..Len(tasks)
    BY <1>1, TaskDomain DEF IInv
  <2>4. CASE Unclosed(t)
    <3>1. PICK e \in closers : e.flow = t
      BY <1>1, <2>4 DEF IInv, ChainInv, CloserInv
    <3>2. e.predecessor \in {NoTask, t, t - 1}
      BY <1>1, <3>1 DEF IInv, ChainInv, CloserInv
    <3>3. t - 1 # NoTask => t - 1 \in 1..(t - 1)
      BY <2>3
    <3>4. PredecessorFinished(e)
      BY <2>2, <3>1, <3>2, <3>3 DEF PredecessorFinished
    <3> QED
      BY <3>4
  <2>5. CASE ~Unclosed(t)
    <3>1. t # flowOf
      BY <2>1, <2>3
    <3> QED
      BY <1>1, <2>2, <2>5, <3>1 DEF IInv, ChainInv, PlaceInv, Finished, Unclosed, Lives, Threads
  <2> QED
    BY <2>4, <2>5
<1> QED
  BY <1>1, Invariance, PTL

\* Only an observation takes a thread from `observe' to `check'.
LEMMA OnlyObserves ==
  ASSUME IInv, Next, NEW t \in DOMAIN tasks, tasks[t].at = "observe", tasks'[t].at = "check"
  PROVE  \E kind \in Kinds : Observes(t, kind)
<1>d. DOMAIN tasks = 1..Len(tasks) /\ Len(tasks) \in Nat /\ tasks \in Seq(TaskRecord)
      /\ \A u \in DOMAIN tasks : tasks[u] \in TaskRecord
  BY TaskDomain DEF IInv, TypeOK
<1>a. ASSUME NEW record, tasks' = Append(tasks, record) PROVE FALSE
  BY <1>a, <1>d, AppendProperties
<1>1. CASE Sessions
  <2>1. ASSUME NEW c \in closers, CloseReturns(c) PROVE FALSE
    BY <2>1, CloserFacts DEF CloseReturns
  <2>2. ASSUME NEW cleanAudio \in BOOLEAN, NEW starts \in BOOLEAN,
               CloseSession(cleanAudio, starts)
        PROVE  FALSE
    <3>1. CASE flowOf # NoTask /\ ~tasks[flowOf].done
      <4>1. flowOf \in DOMAIN tasks
        BY <1>d, <3>1 DEF IInv, TypeOK
      <4>2. tasks' = [tasks EXCEPT ![flowOf].stop = TRUE, ![flowOf].cleanup = cleanAudio]
        BY <2>2, <3>1 DEF CloseSession
      <4> QED
        BY <1>d, <4>1, <4>2 DEF TaskRecord
    <3>2. CASE ~(flowOf # NoTask /\ ~tasks[flowOf].done)
      <4>1. tasks' = Append(tasks, NewTask(count, IF cleanAudio /\ starts THEN "start" ELSE "none",
                                           FALSE, cleanAudio, TRUE))
        BY <2>2, <3>2 DEF CloseSession
      <4> QED
        BY <1>a, <4>1
    <3> QED
      BY <3>1, <3>2
  <2>3. ASSUME NEW verifies \in BOOLEAN, Connects(verifies) PROVE FALSE
    BY <1>a, <2>3 DEF Connects
  <2> QED
    BY <1>1, <2>1, <2>2, <2>3 DEF Sessions, BeginAttempt, PreviousFinished, LinkOpens,
       AttemptFails, Disconnects, RemoteChanges, BeginShutdown, ProcessExits
<1>2. CASE TimePasses
  BY <1>2 DEF TimePasses
<1>3. ASSUME NEW u \in Threads, ThreadStep(u) \/ RestoreTimesOut(u)
      PROVE  \E kind \in Kinds : Observes(t, kind)
  <2>1. u \in DOMAIN tasks
    BY DEF Threads
  <2>2. ASSUME NEW place, place # "check", Goes(u, place) PROVE FALSE
    BY <1>d, <2>1, <2>2
  <2>3. ASSUME u = t, Ends(u) PROVE FALSE
    <3>1. tasks'[u].at = "done"
      BY <1>d, <2>1, <2>3
    <3> QED
      BY <2>3, <3>1
  <2>4. ASSUME u # t PROVE tasks'[t] = tasks[t]
    BY <1>3, <1>d, <2>1, <2>4 DEF ThreadStep, RestoreTimesOut, ThreadStarts, ThreadFails,
       Verifies, Observes, CycleChecks, CycleAborts, CycleReturns, Hides, HideSeen, Shows,
       Restores, SeesClosed
  <2>5. u = t
    BY <2>4
  <2> HIDE DEF Goes, Ends
  <2> QED
    BY <1>3, <2>2, <2>3, <2>5 DEF ThreadStep, RestoreTimesOut, ThreadStarts, ThreadFails,
       Verifies, CycleChecks, CycleAborts, Hides, HideSeen, Shows, Restores, SeesClosed
<1> QED
  BY <1>1, <1>2, <1>3 DEF Next

\* A repair follows an unbroken silence of noFramesMs, and a session makes only one.
THEOREM SilenceProvenHolds == Spec => SilenceProven
<1>1. ASSUME IInv, [Next]_vars, NEW t \in DOMAIN tasks,
             tasks[t].at = "observe", tasks'[t].at = "check"
      PROVE  silences' = 0..NoFrames /\ tasks[t].repairs = 0
  <2>1. ~UNCHANGED vars
    BY <1>1 DEF vars
  <2> QED
    BY <1>1, <2>1, OnlyObserves, ObservesKeeps
<1>2. IInv /\ [Next]_vars =>
        [\A t \in DOMAIN tasks : tasks[t].at = "observe" /\ tasks'[t].at = "check" =>
             silences' = 0..NoFrames /\ tasks[t].repairs = 0]_vars
  BY <1>1
<1> QED
  BY <1>2, Invariance, PTL DEF Spec, SilenceProven

-----------------------------------------------------------------------------
(* Sessions and their tasks form a chain *)

\* There are only so many tasks to wait for.
LEMMA PendingFinite ==
  ASSUME TypeOK
  PROVE  IsFiniteSet(PendingTasks) /\ Cardinality(PendingTasks) \in Nat
<1>1. DOMAIN tasks = 1..Len(tasks) /\ Len(tasks) \in Nat
  BY TaskDomain
<1>2. IsFiniteSet(DOMAIN tasks)
  BY <1>1, FS_Interval
<1>3. PendingTasks \subseteq DOMAIN tasks
  BY DEF PendingTasks
<1>4. IsFiniteSet(PendingTasks)
  BY <1>2, <1>3, FS_Subset
<1> QED
  BY <1>4, FS_CardinalityType

\* A step that leaves the session and the set of pending tasks alone, adds a task to
\* it as the session ends, or takes one from it.
LEMMA ChainStays ==
  ASSUME UNCHANGED <<ChainSession, PendingTasks>>
  PROVE  [Chain!Next]_(Chain!vars)
<1>1. Cardinality(PendingTasks)' = Cardinality(PendingTasks)
  OBVIOUS
<1> QED
  BY <1>1 DEF Chain!vars

LEMMA ChainGrows ==
  ASSUME TypeOK, ChainSession # "none", ChainSession' = "none",
         NEW t, t \notin PendingTasks, PendingTasks' = PendingTasks \cup {t}
  PROVE  [Chain!Next]_(Chain!vars)
<1>1. Cardinality(PendingTasks \cup {t}) = Cardinality(PendingTasks) + 1
  BY PendingFinite, FS_AddElement
<1>2. Cardinality(PendingTasks)' = Cardinality(PendingTasks) + 1
  BY <1>1
<1> QED
  BY <1>2 DEF Chain!Next, Chain!Ends

LEMMA ChainShrinks ==
  ASSUME TypeOK, ChainSession' = ChainSession,
         NEW t \in PendingTasks, PendingTasks' = PendingTasks \ {t}
  PROVE  [Chain!Next]_(Chain!vars)
<1>1. Cardinality(PendingTasks \ {t}) = Cardinality(PendingTasks) - 1
  BY PendingFinite, FS_RemoveElement
<1>2. Cardinality(PendingTasks)' = Cardinality(PendingTasks) - 1
  BY <1>1
<1>3. Cardinality(PendingTasks) # 0
  BY PendingFinite, FS_EmptySet
<1> QED
  BY <1>2, <1>3, PendingFinite DEF Chain!Next, Chain!Over

\* A step of one task that leaves `stop' alone: the task stays pending or not, or its
\* end is over.
LEMMA ChainOfTask ==
  ASSUME IInv, NEW t \in DOMAIN tasks, ChainSession' = ChainSession,
         DOMAIN tasks' = DOMAIN tasks,
         \A u \in DOMAIN tasks : /\ tasks'[u].stop = tasks[u].stop
                                 /\ Finished(u) => Finished(u)'
                                 /\ u # t => Finished(u)' = Finished(u)
  PROVE  [Chain!Next]_(Chain!vars)
<1>1. CASE t \in PendingTasks /\ Finished(t)'
  <2>1. PendingTasks' = PendingTasks \ {t}
    BY <1>1 DEF PendingTasks
  <2> QED
    BY <1>1, <2>1, ChainShrinks DEF IInv
<1>2. CASE ~(t \in PendingTasks /\ Finished(t)')
  <2>1. PendingTasks' = PendingTasks
    BY <1>2 DEF PendingTasks
  <2> QED
    BY <2>1, ChainStays
<1> QED
  BY <1>1, <1>2

\* What a thread does to its task.
LEMMA ThreadEffect ==
  ASSUME IInv, NEW t \in Threads, ThreadStep(t) \/ RestoreTimesOut(t)
  PROVE  /\ t \in DOMAIN tasks /\ DOMAIN tasks' = DOMAIN tasks
         /\ \A u \in DOMAIN tasks : /\ tasks'[u].stop = tasks[u].stop
                                    /\ tasks'[u].closed = tasks[u].closed
                                    /\ tasks[u].done => tasks'[u].done
                                    /\ u # t => tasks'[u] = tasks[u]
         /\ UNCHANGED <<attempt, count, link>>
<1>1. t \in DOMAIN tasks /\ tasks[t] \in TaskRecord
  BY TaskDomain DEF Threads, IInv
<1>2. \/ \E p : Goes(t, p)
      \/ Ends(t)
      \/ \E p, n : tasks' = [tasks EXCEPT ![t].at = p, ![t].repairs = n]
      \/ \E p, b : tasks' = [tasks EXCEPT ![t].at = p, ![t].closing = b]
  <2> HIDE DEF Goes, Ends
  <2>1. CASE Hides(t)
    <3>1. PICK ok \in BOOLEAN :
             tasks' = [tasks EXCEPT ![t].at = IF ok THEN "hidden" ELSE "show",
                                    ![t].repairs = IF tasks[t].closing THEN @ ELSE @ + 1]
      BY <2>1 DEF Hides
    <3>2. tasks' = [tasks EXCEPT ![t].at = IF ok THEN "hidden" ELSE "show",
                                 ![t].repairs = IF tasks[t].closing THEN tasks[t].repairs
                                                ELSE tasks[t].repairs + 1]
      BY <3>1, <1>1 DEF TaskRecord
    <3> QED
      BY <3>2
  <2>2. CASE SeesClosed(t)
    BY <2>2 DEF SeesClosed
  <2>3. CASE ~Hides(t) /\ ~SeesClosed(t)
    BY <2>3 DEF ThreadStep, RestoreTimesOut, ThreadStarts, ThreadFails, Verifies, Observes,
       CycleChecks, CycleAborts, CycleReturns, HideSeen, Shows, Restores
  <2> QED
    BY <2>1, <2>2, <2>3
<1>3. UNCHANGED <<sessionVars, link>>
  BY DEF ThreadStep, RestoreTimesOut, ThreadStarts, ThreadFails, Verifies, Observes,
     CycleChecks, CycleAborts, Hides, HideSeen, Shows, Restores, SeesClosed
<1> DEFINE Changed == \E record : /\ tasks' = [tasks EXCEPT ![t] = record]
                                /\ record.stop = tasks[t].stop
                                /\ record.closed = tasks[t].closed
                                /\ record.done \in {tasks[t].done, TRUE}
<1>4. Changed
  <2>1. ASSUME NEW p, Goes(t, p)
        PROVE  Changed
    <3> DEFINE r == [tasks[t] EXCEPT !.at = p]
    <3>1. tasks' = [tasks EXCEPT ![t] = r] /\ r.stop = tasks[t].stop /\ r.closed = tasks[t].closed
          /\ r.done = tasks[t].done
      BY <1>1, <2>1 DEF TaskRecord
    <3> QED
      BY <3>1
  <2>2. CASE Ends(t)
    <3> DEFINE r == [tasks[t] EXCEPT !.at = "done", !.done = TRUE]
    <3>1. tasks' = [tasks EXCEPT ![t] = r] /\ r.stop = tasks[t].stop /\ r.closed = tasks[t].closed
          /\ r.done
      BY <1>1, <2>2 DEF TaskRecord
    <3> QED
      BY <3>1
  <2>3. ASSUME NEW p, NEW n, tasks' = [tasks EXCEPT ![t].at = p, ![t].repairs = n]
        PROVE  Changed
    <3> DEFINE r == [tasks[t] EXCEPT !.at = p, !.repairs = n]
    <3>1. tasks' = [tasks EXCEPT ![t] = r] /\ r.stop = tasks[t].stop /\ r.closed = tasks[t].closed
          /\ r.done = tasks[t].done
      BY <1>1, <2>3 DEF TaskRecord
    <3> QED
      BY <3>1
  <2>4. ASSUME NEW p, NEW b, tasks' = [tasks EXCEPT ![t].at = p, ![t].closing = b]
        PROVE  Changed
    <3> DEFINE r == [tasks[t] EXCEPT !.at = p, !.closing = b]
    <3>1. tasks' = [tasks EXCEPT ![t] = r] /\ r.stop = tasks[t].stop /\ r.closed = tasks[t].closed
          /\ r.done = tasks[t].done
      BY <1>1, <2>4 DEF TaskRecord
    <3> QED
      BY <3>1
  <2> HIDE DEF Goes, Ends
  <2> QED
    BY <1>2, <2>1, <2>2, <2>3, <2>4
<1>5. PICK record : /\ tasks' = [tasks EXCEPT ![t] = record]
                    /\ record.stop = tasks[t].stop /\ record.closed = tasks[t].closed
                    /\ record.done \in {tasks[t].done, TRUE}
  BY <1>4
<1> QED
  BY <1>1, <1>3, <1>5 DEF sessionVars

\* A thread stops no task, and what it finishes it finishes for good.
LEMMA ChainOfThread ==
  ASSUME IInv, NEW t \in Threads, ThreadStep(t) \/ RestoreTimesOut(t)
  PROVE  [Chain!Next]_(Chain!vars)
<1>1. ChainSession' = ChainSession
  BY ThreadEffect DEF ChainSession
<1>2. \A u \in DOMAIN tasks : (Finished(u) => Finished(u)') /\ (u # t => Finished(u)' = Finished(u))
  BY ThreadEffect DEF Finished
<1> QED
  BY <1>1, <1>2, ThreadEffect, ChainOfTask

\* A close that returns finishes a task without a thread, or one whose thread ended.
LEMMA ChainOfClose ==
  ASSUME IInv, NEW c \in closers, CloseReturns(c)
  PROVE  [Chain!Next]_(Chain!vars)
<1> DEFINE f == c.flow
<1>1. /\ f \in DOMAIN tasks /\ tasks[f] \in TaskRecord /\ tasks[f].stop
      /\ c.session = tasks[f].owner /\ c.session \in 1..MaxSessions
      /\ attempt \in {"none", "waitPrevious"}
      /\ link \in [1..MaxSessions -> {"none", "open", "lost", "closed"}]
  BY CloserFacts, TaskDomain DEF IInv, TypeOK, Unclosed
<1>2. ChainSession' = ChainSession
  <2>1. CASE attempt = "none"
    BY <2>1 DEF CloseReturns, sessionVars, ChainSession
  <2>2. CASE attempt # "none"
    <3>1. c.session < count
      BY <1>1, <2>2 DEF IInv, ChainInv, LinkInv
    <3>2. link'[count] = link[count]
      BY <1>1, <3>1 DEF CloseReturns, IInv, TypeOK
    <3> QED
      BY <3>2 DEF CloseReturns, sessionVars, ChainSession
  <2> QED
    BY <2>1, <2>2
<1>3. /\ DOMAIN tasks' = DOMAIN tasks
      /\ \A u \in DOMAIN tasks : /\ tasks'[u].stop = tasks[u].stop
                                 /\ tasks[u].closed => tasks'[u].closed
                                 /\ tasks[u].done => tasks'[u].done
                                 /\ u # f => tasks'[u] = tasks[u]
  BY <1>1 DEF CloseReturns, TaskRecord
<1>4. \A u \in DOMAIN tasks : (Finished(u) => Finished(u)') /\ (u # f => Finished(u)' = Finished(u))
  BY <1>3 DEF Finished
<1> QED
  BY <1>1, <1>2, <1>3, <1>4, ChainOfTask

\* The session that ends leaves a pending task behind: its own, or one more.
LEMMA ChainOfEnd ==
  ASSUME IInv, NEW cleanAudio \in BOOLEAN, NEW starts \in BOOLEAN,
         CloseSession(cleanAudio, starts), attempt # "none"
  PROVE  [Chain!Next]_(Chain!vars)
<1>1. ChainSession # "none" /\ ChainSession' = "none"
  BY DEF CloseSession, ChainSession
<1>2. CASE flowOf # NoTask /\ ~tasks[flowOf].done
  <2>1. /\ flowOf \in DOMAIN tasks /\ tasks[flowOf] \in TaskRecord /\ ~tasks[flowOf].stop
        /\ attempt = "connected"
    BY <1>2, TaskDomain DEF IInv, TypeOK, ChainInv, SessionInv
  <2>2. tasks' = [tasks EXCEPT ![flowOf].stop = TRUE, ![flowOf].cleanup = cleanAudio]
    BY <1>2 DEF CloseSession
  <2>3. /\ DOMAIN tasks' = DOMAIN tasks /\ tasks'[flowOf].stop /\ ~tasks'[flowOf].done
        /\ \A u \in DOMAIN tasks : u # flowOf => tasks'[u] = tasks[u]
    BY <1>2, <2>1, <2>2 DEF TaskRecord
  <2>4. flowOf \notin PendingTasks /\ PendingTasks' = PendingTasks \cup {flowOf}
    BY <2>1, <2>3 DEF PendingTasks, Finished
  <2> QED
    BY <1>1, <2>4, ChainGrows DEF IInv
<1>3. CASE ~(flowOf # NoTask /\ ~tasks[flowOf].done)
  <2> DEFINE at     == IF cleanAudio /\ starts THEN "start" ELSE "none"
             record == NewTask(count, at, FALSE, cleanAudio, TRUE)
             n      == Len(tasks) + 1
  <2>1. tasks' = Append(tasks, record)
    BY <1>3 DEF CloseSession
  <2>2. count \in 1..MaxSessions
    BY DEF IInv, TypeOK, ChainInv, LinkInv
  <2>3. record \in TaskRecord /\ record.stop /\ ~record.done
    BY <2>2 DEF NewTask, TaskRecord, Places
  <2> HIDE DEF record
  <2>4. /\ n \notin DOMAIN tasks /\ n \in DOMAIN tasks' /\ tasks'[n] = record
        /\ \A u \in DOMAIN tasks' : u = n \/ u \in DOMAIN tasks
        /\ \A u \in DOMAIN tasks : u \in DOMAIN tasks' /\ tasks'[u] = tasks[u]
                                   /\ Finished(u)' = Finished(u)
    BY <2>1, <2>3, AddedFacts
  <2> HIDE DEF n
  <2>5. n \notin PendingTasks /\ PendingTasks' = PendingTasks \cup {n}
    BY <2>3, <2>4 DEF PendingTasks, Finished
  <2> QED
    BY <1>1, <2>5, ChainGrows DEF IInv
<1> QED
  BY <1>2, <1>3

\* A link opens when every task is finished; a connected session adds a task that is
\* not to be closed.
LEMMA ChainOfSession ==
  ASSUME IInv, Sessions
  PROVE  [Chain!Next]_(Chain!vars)
<1>1. CASE BeginAttempt
  <2>1. count + 1 \in 1..MaxSessions /\ count \in Nat /\ link[count + 1] = "none"
    BY <1>1 DEF BeginAttempt, IInv, TypeOK, ChainInv, LinkInv
  <2>2. PendingTasks' = PendingTasks
    BY <1>1 DEF BeginAttempt, PendingTasks, Finished
  <2>3. ChainSession = "none" /\ ChainSession' = "attempt"
    BY <1>1, <2>1 DEF BeginAttempt, ChainSession
  <2>4. Cardinality(PendingTasks)' = Cardinality(PendingTasks)
    BY <2>2
  <2> QED
    BY <2>3, <2>4 DEF Chain!Next, Chain!Begins
<1>2. CASE LinkOpens
  <2>1. PendingTasks = {} /\ UNCHANGED tasks
    BY <1>2, AllFinished DEF LinkOpens, PendingTasks
  <2>2. Cardinality(PendingTasks) = 0
    BY <2>1, FS_EmptySet
  <2>3. PendingTasks' = PendingTasks
    BY <2>1 DEF PendingTasks, Finished
  <2>4. Cardinality(PendingTasks)' = Cardinality(PendingTasks)
    BY <2>3
  <2>5. count \in 1..MaxSessions
    BY <1>2 DEF LinkOpens, IInv, TypeOK, ChainInv, LinkInv
  <2>6. ChainSession = "attempt" /\ ChainSession' = "linked"
    BY <1>2, <2>5 DEF LinkOpens, ChainSession, sessionVars, IInv, TypeOK
  <2> QED
    BY <2>2, <2>4, <2>6 DEF Chain!Next, Chain!Links
<1>3. ASSUME NEW s \in 1..MaxSessions, RemoteChanges(s)
      PROVE  [Chain!Next]_(Chain!vars)
  <2>1. UNCHANGED <<tasks, sessionVars>>
    BY <1>3 DEF RemoteChanges
  <2>2. PendingTasks' = PendingTasks
    BY <2>1 DEF PendingTasks, Finished
  <2>3. \A r \in 1..MaxSessions : link'[r] = "none" <=> link[r] = "none"
    BY <1>3 DEF RemoteChanges, IInv, TypeOK
  <2>4. attempt # "none" => count \in 1..MaxSessions
    BY DEF IInv, TypeOK, ChainInv, LinkInv
  <2>5. ChainSession' = ChainSession
    BY <2>1, <2>3, <2>4 DEF ChainSession, sessionVars
  <2> QED
    BY <2>2, <2>5, ChainStays
<1>4. ASSUME NEW verifies \in BOOLEAN, Connects(verifies)
      PROVE  [Chain!Next]_(Chain!vars)
  <2>1. ChainSession' = ChainSession
    BY <1>4 DEF Connects, ChainSession
  <2>2. CASE ~verifies
    <3>1. PendingTasks' = PendingTasks
      BY <1>4, <2>2 DEF Connects, PendingTasks, Finished
    <3> QED
      BY <2>1, <3>1, ChainStays
  <2>3. CASE verifies
    <3> DEFINE record == NewTask(count, "start", TRUE, FALSE, FALSE)
               n      == Len(tasks) + 1
    <3>1. tasks' = Append(tasks, record)
      BY <1>4, <2>3 DEF Connects
    <3>2. count \in 1..MaxSessions
      BY <1>4 DEF Connects, IInv, TypeOK, ChainInv, LinkInv
    <3>3. record \in TaskRecord /\ ~record.stop
      BY <3>2 DEF NewTask, TaskRecord, Places
    <3> HIDE DEF record
    <3>4. /\ n \notin DOMAIN tasks /\ n \in DOMAIN tasks' /\ tasks'[n] = record
          /\ \A u \in DOMAIN tasks' : u = n \/ u \in DOMAIN tasks
          /\ \A u \in DOMAIN tasks : u \in DOMAIN tasks' /\ tasks'[u] = tasks[u]
                                     /\ Finished(u)' = Finished(u)
      BY <3>1, <3>3, AddedFacts
    <3> HIDE DEF n
    <3>5. PendingTasks' = PendingTasks
      BY <3>3, <3>4 DEF PendingTasks
    <3> QED
      BY <2>1, <3>5, ChainStays
  <2> QED
    BY <2>2, <2>3
<1>5. CASE PreviousFinished \/ ProcessExits \/ (BeginShutdown /\ attempt = "none")
  <2>1. UNCHANGED <<tasks, link, count>> /\ (attempt' = "none" <=> attempt = "none")
    BY <1>5 DEF PreviousFinished, ProcessExits, BeginShutdown, sessionVars
  <2>2. PendingTasks' = PendingTasks
    BY <2>1 DEF PendingTasks, Finished
  <2> QED
    BY <2>1, <2>2, ChainStays DEF ChainSession
<1>6. CASE AttemptFails \/ (BeginShutdown /\ attempt # "none")
           \/ \E cleanAudio, starts \in BOOLEAN : Disconnects(cleanAudio, starts)
  <2>1. attempt # "none" /\ \E cleanAudio, starts \in BOOLEAN : CloseSession(cleanAudio, starts)
    BY <1>6 DEF AttemptFails, BeginShutdown, Disconnects
  <2> QED
    BY <2>1, ChainOfEnd
<1> QED
  BY <1>1, <1>2, <1>3, <1>4, <1>5, <1>6, ChainOfClose DEF Sessions

\* Sessions and tasks of a device are a CloseChain, with what is pending counted in
\* tasks: the same promise that ConnectionLinksProofs shows for the flow
\* (ConnectionFlow.hpp:258; AudioFlowRecovery.hpp, WaitFinished).
THEOREM CloseChainImplemented == Spec => ImplementsCloseChain
<1>1. Init => Chain!Init
  <2> SUFFICES ASSUME Init PROVE Chain!Init
    OBVIOUS
  <2>1. PendingTasks = {} /\ ChainSession = "none"
    BY DEF Init, PendingTasks, ChainSession
  <2> QED
    BY <2>1, FS_EmptySet DEF Chain!Init
<1>2. ASSUME IInv, [Next]_vars PROVE [Chain!Next]_(Chain!vars)
  <2>1. CASE Sessions
    BY <1>2, <2>1, ChainOfSession
  <2>2. CASE \E t \in Threads : ThreadStep(t) \/ RestoreTimesOut(t)
    BY <1>2, <2>2, ChainOfThread
  <2>3. CASE TimePasses \/ UNCHANGED vars
    <3>1. UNCHANGED <<tasks, link, attempt, count>>
      BY <2>3 DEF TimePasses, vars, sessionVars
    <3>2. PendingTasks' = PendingTasks
      BY <3>1 DEF PendingTasks, Finished
    <3> QED
      BY <3>1, <3>2, ChainStays DEF ChainSession
  <2> QED
    BY <1>2, <2>1, <2>2, <2>3 DEF Next
<1> QED
  BY <1>1, <1>2, Invariance, PTL DEF Spec, ImplementsCloseChain, Chain!Spec

=============================================================================
