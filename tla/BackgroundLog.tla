--------------------------- MODULE BackgroundLog ---------------------------
(***************************************************************************)
(* The queue of the application log and its worker (BackgroundLog.hpp).    *)
(*                                                                         *)
(* Producers push under the mutex and never wait for the disk.  The worker *)
(* sleeps on the condition variable `wake', which has no timer, takes all  *)
(* that is pending in one section of the mutex, writes it outside of it,   *)
(* and ends after the batch in whose section it saw `stopping', or after   *)
(* an exception of the output.  The output is a callback of Diagnostics;   *)
(* what is handed to it counts as written.                                 *)
(***************************************************************************)
EXTENDS Naturals, Sequences

CONSTANTS
    MaxEntries,   \* maxEntries
    MaxBytes      \* maxBytes

ASSUME LogAssumption == MaxEntries \in Nat /\ MaxBytes \in Nat

VARIABLES
    pending,      \* entries that wait for the worker
    bytes,        \* their size
    dropped,      \* entries refused for want of room, not yet reported
    stopping,
    finished,
    errors,       \* exceptions of the output
    worker,       \* where its thread is
    batch,        \* what it writes: entries, drop report, whether it is the last
    accepted,     \* history: entries for which Push returned true, in order
    refused,      \* history: how many were refused for want of room
    written,      \* history: entries handed to the output, in order
    reported      \* history: refusals that the written reports add up to

logVars == <<pending, bytes, dropped, stopping, finished, errors, worker, batch,
             accepted, refused, written, reported>>

NoBatch == [entries |-> <<>>, dropped |-> 0, last |-> FALSE]

\* Start, when its thread can be made.
LogInit ==
    /\ pending = <<>> /\ bytes = 0 /\ dropped = 0
    /\ stopping = FALSE /\ finished = FALSE /\ errors = 0
    /\ worker = "looking" /\ batch = NoBatch
    /\ accepted = <<>> /\ refused = 0 /\ written = <<>> /\ reported = 0

\* wake.notify_one, wake.notify_all: there is one waiter.
Woken == IF worker = "waiting" THEN "looking" ELSE worker

Full(size) == Len(pending) >= MaxEntries \/ size > MaxBytes - bytes

\* Push of an entry for which there is no room.
Refuses(size) ==
    /\ ~stopping /\ Full(size)
    /\ dropped' = dropped + 1 /\ refused' = refused + 1
    /\ worker' = Woken
    /\ UNCHANGED <<pending, bytes, stopping, finished, errors, batch, accepted, written,
                   reported>>

\* Mutant: nobody is notified.
AcceptsMut(entry, size) ==
    /\ ~stopping /\ ~Full(size)
    /\ pending' = Append(pending, entry) /\ accepted' = Append(accepted, entry)
    /\ bytes' = bytes + size
    /\ UNCHANGED <<dropped, stopping, finished, errors, worker, batch, refused, written,
                   reported>>

\* Push that returns true.
Accepts(entry, size) ==
    /\ ~stopping /\ ~Full(size)
    /\ pending' = Append(pending, entry) /\ accepted' = Append(accepted, entry)
    /\ bytes' = bytes + size
    /\ worker' = Woken
    /\ UNCHANGED <<dropped, stopping, finished, errors, batch, refused, written, reported>>

Push(entry, size) ==
    \/ stopping /\ UNCHANGED logVars
    \/ Refuses(size)
    \/ Accepts(entry, size)

Stop ==
    /\ stopping' = TRUE
    /\ worker' = Woken
    /\ UNCHANGED <<pending, bytes, dropped, finished, errors, batch, accepted, refused,
                   written, reported>>

-----------------------------------------------------------------------------
(* The worker *)

\* The predicate of the wait, under the mutex.
Sleeps ==
    /\ worker = "looking" /\ ~stopping /\ pending = <<>> /\ dropped = 0
    /\ worker' = "waiting"
    /\ UNCHANGED <<pending, bytes, dropped, stopping, finished, errors, batch, accepted,
                   refused, written, reported>>

\* Mutant: whether the batch is the last is decided when it has been written.
TakesMut ==
    /\ worker = "looking" /\ (stopping \/ pending # <<>> \/ dropped > 0)
    /\ \E last \in {stopping, TRUE} :
           batch' = [entries |-> pending, dropped |-> dropped, last |-> last]
    /\ pending' = <<>> /\ bytes' = 0 /\ dropped' = 0
    /\ worker' = "writing"
    /\ UNCHANGED <<stopping, finished, errors, accepted, refused, written, reported>>

\* One section of the mutex: all that is pending, the report of refusals, `last'.
Takes ==
    /\ worker = "looking" /\ (stopping \/ pending # <<>> \/ dropped > 0)
    /\ batch' = [entries |-> pending, dropped |-> dropped, last |-> stopping]
    /\ pending' = <<>> /\ bytes' = 0 /\ dropped' = 0
    /\ worker' = "writing"
    /\ UNCHANGED <<stopping, finished, errors, accepted, refused, written, reported>>

\* write(batch), for an empty one nothing; then the next round, or close.
Writes ==
    /\ worker = "writing"
    /\ written' = written \o batch.entries /\ reported' = reported + batch.dropped
    /\ worker' = IF batch.last THEN "closing" ELSE "looking"
    /\ batch' = NoBatch
    /\ UNCHANGED <<pending, bytes, dropped, stopping, finished, errors, accepted, refused>>

\* The output throws: the worker gives up, although it still accepts entries.
WriteFails ==
    /\ worker = "writing" /\ (batch.entries # <<>> \/ batch.dropped > 0)
    /\ errors' = errors + 1
    /\ worker' = "closing"
    /\ UNCHANGED <<pending, bytes, dropped, stopping, finished, batch, accepted, refused,
                   written, reported>>

\* close(), which may throw, and the end of the thread.
Closes ==
    /\ worker = "closing"
    /\ errors' \in {errors, errors + 1}
    /\ finished' = TRUE /\ stopping' = TRUE
    /\ worker' = "done"
    /\ UNCHANGED <<pending, bytes, dropped, batch, accepted, refused, written, reported>>

\* The disk does not answer any more.
Hangs ==
    /\ worker \in {"writing", "closing"}
    /\ worker' = "hung"
    /\ UNCHANGED <<pending, bytes, dropped, stopping, finished, errors, batch, accepted,
                   refused, written, reported>>

LogRuns == Sleeps \/ Takes \/ Writes \/ WriteFails \/ Closes

-----------------------------------------------------------------------------
\* Every entry is written, in the order in which it was accepted, or is at a known
\* place; every refusal is reported or will be; and a worker that ended without an
\* error left nothing behind, whenever Stop came (BackgroundLog.hpp:62-78).
LogAccounted ==
    /\ accepted = written \o batch.entries \o pending
    /\ refused = reported + batch.dropped + dropped
    /\ finished /\ errors = 0 => written = accepted /\ reported = refused

=============================================================================
