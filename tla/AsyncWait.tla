----------------------------- MODULE AsyncWait -----------------------------
(***************************************************************************)
(* One bounded wait: AwaitBounded over AwaitCompletionUntil, the waiter    *)
(* that completion, cancellation and timer share, and AsyncCancellation    *)
(* (AsyncUtil.hpp).                                                        *)
(*                                                                         *)
(* The code between the check of the operation's status and the kernel     *)
(* wait runs on the thread of the caller, while the operation may end on a *)
(* thread of its own and a cancellation may be requested by the UI thread. *)
(* When the caller is on the UI thread itself, that code is one step       *)
(* (`Asleep'); on a pool thread it is three (`Started').  A composing      *)
(* module gives `waits' its domain, starts a wait, reports the end of its  *)
(* operation with `OperationOver', and reads the outcome.                  *)
(***************************************************************************)

VARIABLES
    waits,      \* per wait: place, operation and AsyncWaitSignal
    requested   \* the AsyncCancellation objects whose `requested' is set

NoCancellation == 0   \* an empty shared_ptr<AsyncCancellation>

Outcomes == {"completed", "cancelled", "timeout"}

Idle == [at |-> "idle", source |-> NoCancellation, operation |-> "none",
         registered |-> FALSE, completed |-> FALSE, cancelled |-> FALSE,
         signal |-> FALSE]

\* AwaitBounded is called; `operation' is "over" when it ended before.
Started(source, operation) ==
    [Idle EXCEPT !.at = "check", !.source = source, !.operation = operation]

\* The same on the UI thread, without a moment in which a cancellation could be
\* requested; the timer may be due at once.
Asleep(source, operation) ==
    [Idle EXCEPT !.source = source, !.operation = operation,
         !.at = IF source \in requested THEN "cancelled" ELSE "asleep",
         !.registered = source \notin requested,
         !.completed = operation = "over", !.signal = operation = "over"]

\* The operation ends: its Completed handler, once attached, sets the event.
OperationOver(wait) ==
    IF wait.at \in {"idle"} \cup Outcomes THEN wait
    ELSE [wait EXCEPT !.operation = "over",
                      !.completed = @ \/ wait.at = "asleep",
                      !.signal = @ \/ wait.at = "asleep"]

HasOutcome(w) == waits[w].at \in Outcomes

\* CheckAsyncDeadline, then the test of the operation's status.
CheckDeadline(w) ==
    /\ waits[w].at = "check"
    /\ \E next \in IF waits[w].source \in requested THEN {"cancelled"}
                   ELSE {"timeout", IF waits[w].operation = "over"
                                    THEN "completed" ELSE "register"} :
           waits' = [waits EXCEPT ![w].at = next]
    /\ UNCHANGED requested

\* Mutant: the waiter is listed without a look at `requested'.
RegisterMut(w) ==
    /\ waits[w].at = "register"
    /\ waits' = [waits EXCEPT ![w].at = "attach", ![w].registered = TRUE]
    /\ UNCHANGED requested

\* AsyncCancellation::Register, under its mutex.
Register(w) ==
    /\ waits[w].at = "register"
    /\ LET late == waits[w].source \in requested IN
       waits' = [waits EXCEPT ![w].at = "attach", ![w].registered = ~late,
                              ![w].cancelled = late, ![w].signal = late]
    /\ UNCHANGED requested

\* operation.Completed(handler): the handler of an operation that is over runs
\* at once.
Attach(w) ==
    /\ waits[w].at = "attach"
    /\ waits' = [waits EXCEPT ![w].at = "asleep",
                     ![w].completed = waits[w].operation = "over",
                     ![w].signal = @ \/ waits[w].operation = "over"]
    /\ UNCHANGED requested

\* Mutant: the wait has no timer.
ResumesMut(w) ==
    /\ waits[w].at = "asleep" /\ waits[w].signal
    /\ waits' = [waits EXCEPT
            ![w].at = IF waits[w].cancelled THEN "cancelled" ELSE "completed"]
    /\ UNCHANGED requested

\* The kernel wait ends by the event or by the timer, which may be due at once.
Resumes(w) ==
    /\ waits[w].at = "asleep"
    /\ waits' = [waits EXCEPT
            ![w].at = IF waits[w].cancelled THEN "cancelled"
                      ELSE IF waits[w].completed THEN "completed" ELSE "timeout"]
    /\ UNCHANGED requested

WaitStep(w) == CheckDeadline(w) \/ Register(w) \/ Attach(w) \/ Resumes(w)

\* AsyncCancellation::Request.
Request(c) ==
    /\ requested' = requested \cup {c}
    /\ waits' = [w \in DOMAIN waits |->
            IF waits[w].registered /\ waits[w].source = c
            THEN [waits[w] EXCEPT !.cancelled = TRUE, !.signal = TRUE,
                                  !.registered = FALSE]
            ELSE waits[w]]

-----------------------------------------------------------------------------
\* A sleeping wait has not missed the end of its operation nor a request to
\* cancel it, however the three sides were interleaved (AsyncUtil.hpp:80).
WakesAreKept ==
    \A w \in DOMAIN waits :
        waits[w].at = "asleep" /\ (waits[w].operation = "over"
                                   \/ waits[w].source \in requested)
            => waits[w].signal

=============================================================================
