---------------------- MODULE ConnectionCreationProofs ----------------------
(***************************************************************************)
(* Proofs about ConnectionCreation, for any number of creations: driver    *)
(* calls never overlap, every object is closed exactly once and none is    *)
(* forgotten, and the component is the slot that the connection flow takes *)
(* it for.                                                                 *)
(*                                                                         *)
(* The invariant says of every State object where the connection object is *)
(* that the driver returned: still published, in the local of Run, held by *)
(* the session, or closed.                                                 *)
(***************************************************************************)
EXTENDS ConnectionCreation, TLAPS

Held(k) == attempt = "holds" /\ entry = k

\* The places of an object exclude each other, and it was closed iff in none of them.
Whereabouts(k) ==
    /\ published[k] => made[k] /\ thread[k] = "waits" /\ ~claimed[k]
    /\ local[k]     => made[k] /\ thread[k] = "finish" /\ ~claimed[k]
    /\ Held(k)      => made[k] /\ claimed[k]
    /\ closes[k] = IF made[k] /\ ~published[k] /\ ~local[k] /\ ~Held(k) THEN 1 ELSE 0

\* What the place of the thread says about the flags of its State object.
Progress(k) ==
    /\ finished[k] <=> thread[k] = "done"
    /\ Busy(k) => entry = k
    /\ thread[k] = "unused" => entry # k /\ ~abandoned[k]
    /\ thread[k] \in {"unused", "begin", "driver"} => ~ready[k] /\ ~claimed[k] /\ ~made[k]
    /\ thread[k] \in {"finish", "done"} => Released(k)

\* The attempt waits for a creation it has not released.
AttemptInv ==
    /\ attempt # "idle" => entry \in Creations
    /\ attempt = "waits" => ~Released(entry)

IInv ==
    /\ TypeOK
    /\ AttemptInv
    /\ \A k \in Creations : Progress(k) /\ Whereabouts(k)

USE CreationAssumption

-----------------------------------------------------------------------------
(* The invariant *)

LEMMA InitInv == Init => IInv
  BY DEF Init, IInv, TypeOK, AttemptInv, Progress, Whereabouts, Held, Busy, Released

LEMMA StartKeeps ==
  ASSUME IInv, NEW c \in Creations, Start(c)
  PROVE  IInv'
<1> USE DEF IInv, Start, stateVars
<1>1. TypeOK'
  BY DEF TypeOK, Progress, Whereabouts, Held, Busy, Released, AttemptInv, SlotFree
<1>2. AttemptInv'
  BY DEF TypeOK, Progress, AttemptInv, Released, Busy
<1>3. ASSUME NEW k \in Creations PROVE Progress(k)'
  BY DEF TypeOK, Progress, Whereabouts, Busy, Released, AttemptInv, SlotFree
<1>4. ASSUME NEW k \in Creations PROVE Whereabouts(k)'
  BY DEF TypeOK, Progress, Whereabouts, Held, Busy, Released, AttemptInv, SlotFree
<1> QED BY <1>1, <1>2, <1>3, <1>4

LEMMA AbandonKeeps ==
  ASSUME IInv, Abandon
  PROVE  IInv'
<1> USE DEF IInv, Abandon, stateVars
<1>1. TypeOK'
  BY DEF TypeOK, Progress, Whereabouts, Held, Busy, Released, AttemptInv, SlotFree
<1>2. AttemptInv'
  BY DEF TypeOK, Progress, AttemptInv, Released, Busy
<1>3. ASSUME NEW k \in Creations PROVE Progress(k)'
  BY DEF TypeOK, Progress, Whereabouts, Busy, Released, AttemptInv, SlotFree
<1>4. ASSUME NEW k \in Creations PROVE Whereabouts(k)'
  BY DEF TypeOK, Progress, Whereabouts, Held, Busy, Released, AttemptInv, SlotFree
<1> QED BY <1>1, <1>2, <1>3, <1>4

LEMMA TakeKeeps ==
  ASSUME IInv, Take
  PROVE  IInv'
<1> USE DEF IInv, Take, stateVars
<1>1. TypeOK'
  BY DEF TypeOK, Progress, Whereabouts, Held, Busy, Released, AttemptInv, SlotFree
<1>2. AttemptInv'
  BY DEF TypeOK, Progress, AttemptInv, Released, Busy
<1>3. ASSUME NEW k \in Creations PROVE Progress(k)'
  BY DEF TypeOK, Progress, Whereabouts, Busy, Released, AttemptInv, SlotFree
<1>4. ASSUME NEW k \in Creations PROVE Whereabouts(k)'
  BY DEF TypeOK, Progress, Whereabouts, Held, Busy, Released, AttemptInv, SlotFree
<1> QED BY <1>1, <1>2, <1>3, <1>4

LEMMA SessionClosesKeeps ==
  ASSUME IInv, SessionCloses
  PROVE  IInv'
<1> USE DEF IInv, SessionCloses, stateVars
<1>1. TypeOK'
  BY DEF TypeOK, Progress, Whereabouts, Held, Busy, Released, AttemptInv, SlotFree
<1>2. AttemptInv'
  BY DEF TypeOK, Progress, AttemptInv, Released, Busy
<1>3. ASSUME NEW k \in Creations PROVE Progress(k)'
  BY DEF TypeOK, Progress, Whereabouts, Busy, Released, AttemptInv, SlotFree
<1>4. ASSUME NEW k \in Creations PROVE Whereabouts(k)'
  BY DEF TypeOK, Progress, Whereabouts, Held, Busy, Released, AttemptInv, SlotFree
<1> QED BY <1>1, <1>2, <1>3, <1>4

LEMMA SkipKeeps ==
  ASSUME IInv, NEW c \in Creations, Skip(c)
  PROVE  IInv'
<1> USE DEF IInv, Skip, stateVars
<1>1. TypeOK'
  BY DEF TypeOK, Progress, Whereabouts, Held, Busy, Released, AttemptInv, SlotFree
<1>2. AttemptInv'
  BY DEF TypeOK, Progress, AttemptInv, Released, Busy
<1>3. ASSUME NEW k \in Creations PROVE Progress(k)'
  BY DEF TypeOK, Progress, Whereabouts, Busy, Released, AttemptInv, SlotFree
<1>4. ASSUME NEW k \in Creations PROVE Whereabouts(k)'
  BY DEF TypeOK, Progress, Whereabouts, Held, Busy, Released, AttemptInv, SlotFree
<1> QED BY <1>1, <1>2, <1>3, <1>4

LEMMA CallDriverKeeps ==
  ASSUME IInv, NEW c \in Creations, CallDriver(c)
  PROVE  IInv'
<1> USE DEF IInv, CallDriver, stateVars
<1>1. TypeOK'
  BY DEF TypeOK, Progress, Whereabouts, Held, Busy, Released, AttemptInv, SlotFree
<1>2. AttemptInv'
  BY DEF TypeOK, Progress, AttemptInv, Released, Busy
<1>3. ASSUME NEW k \in Creations PROVE Progress(k)'
  BY DEF TypeOK, Progress, Whereabouts, Busy, Released, AttemptInv, SlotFree
<1>4. ASSUME NEW k \in Creations PROVE Whereabouts(k)'
  BY DEF TypeOK, Progress, Whereabouts, Held, Busy, Released, AttemptInv, SlotFree
<1> QED BY <1>1, <1>2, <1>3, <1>4

LEMMA DriverReturnsKeeps ==
  ASSUME IInv, NEW c \in Creations, DriverReturns(c)
  PROVE  IInv'
<1> USE DEF IInv, DriverReturns, stateVars
<1>1. TypeOK'
  BY DEF TypeOK, Progress, Whereabouts, Held, Busy, Released, AttemptInv, SlotFree
<1>2. AttemptInv'
  BY DEF TypeOK, Progress, AttemptInv, Released, Busy
<1>3. ASSUME NEW k \in Creations PROVE Progress(k)'
  BY DEF TypeOK, Progress, Whereabouts, Busy, Released, AttemptInv, SlotFree
<1>4. ASSUME NEW k \in Creations PROVE Whereabouts(k)'
  BY DEF TypeOK, Progress, Whereabouts, Held, Busy, Released, AttemptInv, SlotFree
<1> QED BY <1>1, <1>2, <1>3, <1>4

LEMMA ReleasedWakesKeeps ==
  ASSUME IInv, NEW c \in Creations, ReleasedWakes(c)
  PROVE  IInv'
<1> USE DEF IInv, ReleasedWakes, stateVars
<1>1. TypeOK'
  <2>1. published[c] \in BOOLEAN
    BY DEF TypeOK
  <2>2. local' \in [Creations -> BOOLEAN] /\ published' \in [Creations -> BOOLEAN]
    BY <2>1 DEF TypeOK
  <2> QED BY <2>2 DEF TypeOK
<1>2. AttemptInv'
  BY DEF TypeOK, Progress, AttemptInv, Released, Busy
<1>3. ASSUME NEW k \in Creations PROVE Progress(k)'
  BY DEF TypeOK, Progress, Whereabouts, Busy, Released, AttemptInv, SlotFree
<1>4. ASSUME NEW k \in Creations PROVE Whereabouts(k)'
  BY DEF TypeOK, Progress, Whereabouts, Held, Busy, Released, AttemptInv, SlotFree
<1> QED BY <1>1, <1>2, <1>3, <1>4

LEMMA FinishKeeps ==
  ASSUME IInv, NEW c \in Creations, Finish(c)
  PROVE  IInv'
<1> USE DEF IInv, Finish, stateVars
<1>1. TypeOK'
  BY DEF TypeOK, Progress, Whereabouts, Held, Busy, Released, AttemptInv, SlotFree
<1>2. AttemptInv'
  BY DEF TypeOK, Progress, AttemptInv, Released, Busy
<1>3. ASSUME NEW k \in Creations PROVE Progress(k)'
  BY DEF TypeOK, Progress, Whereabouts, Busy, Released, AttemptInv, SlotFree
<1>4. ASSUME NEW k \in Creations PROVE Whereabouts(k)'
  BY DEF TypeOK, Progress, Whereabouts, Held, Busy, Released, AttemptInv, SlotFree
<1> QED BY <1>1, <1>2, <1>3, <1>4

LEMMA StepKeeps == IInv /\ [Next]_vars => IInv'
<1> SUFFICES ASSUME IInv, [Next]_vars PROVE IInv'
  OBVIOUS
<1>1. CASE UNCHANGED vars
  BY <1>1 DEF IInv, vars, stateVars, TypeOK, AttemptInv, Progress, Whereabouts, Held,
              Busy, Released
<1>2. CASE Attempt
  BY <1>2, AbandonKeeps, TakeKeeps, SessionClosesKeeps, StartKeeps DEF Attempt
<1>3. ASSUME NEW c \in Creations, RunStep(c) PROVE IInv'
  BY <1>3, SkipKeeps, CallDriverKeeps, ReleasedWakesKeeps, FinishKeeps DEF RunStep
<1>4. ASSUME NEW c \in Creations, DriverReturns(c) PROVE IInv'
  BY <1>4, DriverReturnsKeeps
<1> QED BY <1>1, <1>2, <1>3, <1>4 DEF Next

\* In every reachable state the object of every creation is in one known place.
THEOREM Invariance == Spec => []IInv
<1>1. Init => IInv
  BY InitInv
<1>2. IInv /\ [Next]_vars => IInv'
  BY StepKeeps
<1> QED BY <1>1, <1>2, PTL DEF Spec

-----------------------------------------------------------------------------
(* The safety properties *)

\* Every variable has its type.
THEOREM TypeCorrect == Spec => []TypeOK
<1>1. IInv => TypeOK
  BY DEF IInv
<1> QED BY <1>1, Invariance, PTL

\* No creation starts while the driver call, or the Close, of another is pending:
\* a device has at most one worker (ConnectDeviceAsync's check of finished).
THEOREM NoOverlapHolds == Spec => []NoOverlap
<1>1. IInv => NoOverlap
  BY DEF IInv, Progress, NoOverlap
<1> QED BY <1>1, Invariance, PTL

\* The object of a creation is closed at most once and never under its session.
THEOREM ClosedOnceHolds == Spec => []ClosedOnce
<1>1. IInv => ClosedOnce
  <2> SUFFICES ASSUME IInv, NEW k \in Creations
               PROVE  closes[k] <= 1 /\ (Held(k) => closes[k] = 0)
    BY DEF ClosedOnce, Held
  <2> QED BY DEF IInv, Whereabouts
<1> QED BY <1>1, Invariance, PTL

\* When its thread is done, an object is in use or was closed: the claim under
\* the mutex decides between the attempt and the thread.
THEOREM NoneForgottenHolds == Spec => []NoneForgotten
<1>1. IInv => NoneForgotten
  BY DEF IInv, TypeOK, Whereabouts, Held, NoneForgotten
<1> QED BY <1>1, Invariance, PTL

-----------------------------------------------------------------------------
(* The slot *)

LEMMA StateOfSlot ==
  /\ SlotFree => SlotState = "none"
  /\ ~SlotFree /\ Released(entry) => SlotState = "released"
  /\ ~SlotFree /\ ~Released(entry) /\ ready[entry] => SlotState = "ready"
  /\ ~SlotFree /\ ~Released(entry) /\ ~ready[entry] => SlotState = "running"
  BY DEF SlotState

LEMMA StateOfNextSlot ==
  /\ SlotFree' => SlotState' = "none"
  /\ ~SlotFree' /\ Released(entry)' => SlotState' = "released"
  /\ ~SlotFree' /\ ~Released(entry)' /\ ready'[entry'] => SlotState' = "ready"
  /\ ~SlotFree' /\ ~Released(entry)' /\ ~ready'[entry'] => SlotState' = "running"
  BY DEF SlotState

\* A creation starts only in a free slot.
LEMMA StartMaps == ASSUME IInv, NEW c \in Creations, Start(c) PROVE Slot!Starts
<1>1. SlotState = "none"
  BY StateOfSlot DEF Start
<1>2. ~SlotFree' /\ ~Released(entry)' /\ ~ready'[entry']
  BY DEF Start, stateVars, SlotFree, Released, IInv, TypeOK, Progress
<1> QED BY <1>1, <1>2, StateOfNextSlot DEF Slot!Starts

LEMMA AbandonMaps == ASSUME IInv, Abandon PROVE Slot!Released
<1>1. ~SlotFree /\ ~Released(entry)
  BY DEF Abandon, SlotFree, IInv, TypeOK, AttemptInv, Progress, Released
<1>2. ~SlotFree' /\ Released(entry)'
  BY <1>1 DEF Abandon, SlotFree, Released, IInv, TypeOK, AttemptInv
<1> QED BY <1>1, <1>2, StateOfSlot, StateOfNextSlot DEF Slot!Released

LEMMA TakeMaps == ASSUME IInv, Take PROVE Slot!Released
<1>1. ~SlotFree /\ ~Released(entry)
  BY DEF Take, SlotFree, IInv, TypeOK, AttemptInv, Progress, Released
<1>2. ~SlotFree' /\ Released(entry)'
  BY <1>1 DEF Take, SlotFree, Released, IInv, TypeOK, AttemptInv
<1> QED BY <1>1, <1>2, StateOfSlot, StateOfNextSlot DEF Slot!Released

\* The result of a creation that was released meanwhile changes nothing.
LEMMA DriverReturnsMaps ==
  ASSUME IInv, NEW c \in Creations, DriverReturns(c)
  PROVE  Slot!Ready \/ SlotState' = SlotState
<1>1. entry = c /\ ~ready[c] /\ ~SlotFree
  BY DEF DriverReturns, SlotFree, IInv, TypeOK, Progress, Busy
<1>2. ~SlotFree' /\ (Released(entry)' <=> Released(entry)) /\ ready'[entry']
  BY <1>1 DEF DriverReturns, SlotFree, Released, IInv, TypeOK
<1> QED BY <1>1, <1>2, StateOfSlot, StateOfNextSlot DEF Slot!Ready

\* Only the thread of the present entry is busy, and a done one was released.
LEMMA FreesSlot ==
  ASSUME IInv, NEW c \in Creations, Busy(c), Released(c), entry' = entry,
         finished' = [finished EXCEPT ![c] = TRUE]
  PROVE  Slot!Finishes
<1>1. entry = c /\ ~SlotFree
  BY DEF SlotFree, IInv, TypeOK, Progress, Busy
<1>2. SlotFree'
  BY <1>1 DEF SlotFree, IInv, TypeOK
<1> QED BY <1>1, <1>2, StateOfSlot, StateOfNextSlot DEF Slot!Finishes

\* The slot sees nothing else of a creation.
LEMMA SlotUnseen ==
  ASSUME UNCHANGED <<entry, abandoned, claimed, ready, finished>>
  PROVE  SlotState' = SlotState
  BY DEF SlotState, SlotFree, Released

LEMMA StepMaps == IInv /\ [Next]_vars => [Slot!Next]_SlotState
<1> SUFFICES ASSUME IInv, [Next]_vars PROVE Slot!Next \/ SlotState' = SlotState
  OBVIOUS
<1> USE DEF Slot!Next
<1>1. CASE UNCHANGED vars
  BY <1>1, SlotUnseen DEF vars, stateVars
<1>2. CASE Attempt
  <2>1. CASE SessionCloses
    BY <2>1, SlotUnseen DEF SessionCloses, stateVars
  <2> QED BY <1>2, <2>1, AbandonMaps, TakeMaps, StartMaps DEF Attempt
<1>3. ASSUME NEW c \in Creations, RunStep(c) PROVE Slot!Next \/ SlotState' = SlotState
  <2>1. CASE Skip(c)
    BY <2>1, FreesSlot DEF Skip, Busy, Released, IInv, Progress
  <2>2. CASE CallDriver(c)
    BY <2>2, SlotUnseen DEF CallDriver, stateVars
  <2>3. CASE ReleasedWakes(c)
    BY <2>3, SlotUnseen DEF ReleasedWakes
  <2>4. CASE Finish(c)
    <3>1. Busy(c) /\ Released(c)
      BY <2>4 DEF Finish, Busy, IInv, Progress
    <3> QED BY <2>4, <3>1, FreesSlot DEF Finish
  <2> QED BY <1>3, <2>1, <2>2, <2>3, <2>4 DEF RunStep
<1>4. ASSUME NEW c \in Creations, DriverReturns(c)
      PROVE  Slot!Next \/ SlotState' = SlotState
  BY <1>4, DriverReturnsMaps
<1> QED BY <1>1, <1>2, <1>3, <1>4 DEF Next

\* The component is the slot that ConnectionFlow takes it for: an attempt that gave
\* up on the driver leaves a creation that keeps the device until it is done.
THEOREM SlotImplemented == Spec => ImplementsSlot
<1>1. Init => Slot!Init
  BY StateOfSlot DEF Init, SlotFree, Slot!Init
<1>2. IInv /\ [Next]_vars => [Slot!Next]_SlotState
  BY StepMaps
<1> QED BY <1>1, <1>2, Invariance, PTL DEF Spec, ImplementsSlot, Slot!Spec

=============================================================================
