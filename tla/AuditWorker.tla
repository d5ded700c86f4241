------------------------------ MODULE AuditWorker ------------------------------
(***************************************************************************)
(* The audit writer (internal/adapters/audit/worker.go): handlers put      *)
(* entries into a bounded queue (Send), one goroutine collects them in     *)
(* batches and writes each batch as one statement, with retries (Run,      *)
(* flush, saveWithRetry), and Shutdown closes the queue and waits.         *)
(*                                                                         *)
(* The store is external.  A statement writes the whole batch or nothing;  *)
(* rows have a primary key, so a batch that is already there is refused; a *)
(* failed statement may have been committed all the same (a timeout or a   *)
(* broken connection after the commit); and building it may panic.         *)
(***************************************************************************)
EXTENDS Integers, Sequences, FiniteSets

CONSTANTS
    Entries,            \* audit entries, one Send each
    BufferSize,         \* capacity of the queue
    BatchSize,          \* entries in a full batch
    MaxSaveRetries,     \* extra attempts of a failing batch
    SendWaits           \* EnqueueTimeout # 0: Send may wait for room

\* Config.Validate asks for all of it.
ASSUME AuditWorkerAssumption ==
    /\ IsFiniteSet(Entries)
    /\ BufferSize \in Nat \ {0}
    /\ BatchSize \in Nat \ {0}
    /\ MaxSaveRetries \in Nat
    /\ SendWaits \in BOOLEAN

VARIABLES
    spc,        \* spc[e]: where the Send of e stands, or how it ended
    queue,      \* the entries channel
    closed,     \* close(w.entries) has run
    rpc,        \* where Run stands
    batch,      \* w.batch; its order is never looked at
    pending,    \* w.pending
    attempt,    \* attempt of saveWithRetry
    stored,     \* entries with a row in audit_log
    misled,     \* history: some statement was committed and reported as failed
    saveFailed, \* audit_events_lost_total, by reason: save_failed
    atShutdown, \*                                     shutdown_timeout
    broken,     \* history: some flush has panicked
    shutdown,   \* where Shutdown stands, or how it returned
    remainder   \* len(w.entries) as Shutdown read it

vars == <<spc, queue, closed, rpc, batch, pending, attempt, stored, misled,
          saveFailed, atShutdown, broken, shutdown, remainder>>
batchVars == <<batch, pending>>
saveVars == <<attempt, stored, misled, saveFailed, broken>>
shutdownVars == <<atShutdown, shutdown, remainder>>

SendState == {"new", "sending", "sent", "dropped", "panicked"}
\* "received" is between append and pending.Store, the three after "backoff"
\* between the end of saveWithRetry and the deferred clearing of the batch.
Over == {"saved", "failed", "panicked"}
RunState == {"selecting", "received", "saving", "backoff", "done"} \union Over
ShutdownState == {"serving", "closing", "counting", "drained", "timedOut"}

InQueue(e) == \E i \in DOMAIN queue : queue[i] = e

Init ==
    /\ spc = [e \in Entries |-> "new"]
    /\ queue = <<>>
    /\ closed = FALSE
    /\ rpc = "selecting"
    /\ batch = {}
    /\ pending = 0
    /\ attempt = 0
    /\ stored = {}
    /\ misled = FALSE
    /\ saveFailed = 0
    /\ atShutdown = 0
    /\ broken = FALSE
    /\ shutdown = "serving"
    /\ remainder = 0

-------------------------------------------------------------------------------
(* Send *)

Begin(e) ==
    /\ spc[e] = "new"
    /\ spc' = [spc EXCEPT ![e] = "sending"]
    /\ UNCHANGED <<queue, closed, rpc, batchVars, saveVars, shutdownVars>>

Enqueue(e) ==
    /\ spc[e] = "sending"
    /\ ~closed
    /\ Len(queue) < BufferSize
    /\ spc' = [spc EXCEPT ![e] = "sent"]
    /\ queue' = Append(queue, e)
    /\ UNCHANGED <<closed, rpc, batchVars, saveVars, shutdownVars>>

\* A mutant: without the timeout Send waits for room as long as it takes.
DropFull(e) ==
    /\ spc[e] = "sending"
    /\ ~closed
    /\ ~SendWaits
    /\ Len(queue) = BufferSize
    /\ spc' = [spc EXCEPT ![e] = "dropped"]
    /\ UNCHANGED <<queue, closed, rpc, batchVars, saveVars, shutdownVars>>

\* Counted as enqueue_timeout.  Without a timeout only a full queue drops; with
\* one the timer drops, however the queue is by then.
Drop(e) ==
    /\ spc[e] = "sending"
    /\ ~closed
    /\ SendWaits \/ Len(queue) = BufferSize
    /\ spc' = [spc EXCEPT ![e] = "dropped"]
    /\ UNCHANGED <<queue, closed, rpc, batchVars, saveVars, shutdownVars>>

\* A send on a closed channel panics, also one that was waiting for room.
SendOnClosed(e) ==
    /\ spc[e] = "sending"
    /\ closed
    /\ spc' = [spc EXCEPT ![e] = "panicked"]
    /\ UNCHANGED <<queue, closed, rpc, batchVars, saveVars, shutdownVars>>

-------------------------------------------------------------------------------
(* Run *)

Receive ==
    /\ rpc = "selecting"
    /\ queue # <<>>
    /\ batch' = batch \union {Head(queue)}
    /\ queue' = Tail(queue)
    /\ rpc' = "received"
    /\ UNCHANGED <<spc, closed, pending, saveVars, shutdownVars>>

\* pending.Store, and the size check.
Mirror ==
    /\ rpc = "received"
    /\ pending' = Cardinality(batch)
    /\ rpc' = IF Cardinality(batch) >= BatchSize THEN "saving" ELSE "selecting"
    /\ UNCHANGED <<spc, queue, closed, batch, saveVars, shutdownVars>>

\* The ticker fires, or the queue is closed and empty: what there is, is flushed.
\* The ticker does nothing to an empty batch.
FlushRest ==
    /\ rpc = "selecting"
    /\ batch # {}
    /\ rpc' = "saving"
    /\ UNCHANGED <<spc, queue, closed, batchVars, saveVars, shutdownVars>>

\* The end of Run; after the last flush nothing else can come.
RunEnds ==
    /\ rpc = "selecting"
    /\ closed
    /\ queue = <<>>
    /\ batch = {}
    /\ rpc' = "done"
    /\ UNCHANGED <<spc, queue, closed, batchVars, saveVars, shutdownVars>>

-------------------------------------------------------------------------------
(* flush and saveWithRetry *)

SaveSucceeds ==
    /\ rpc = "saving"
    /\ batch \intersect stored = {}
    /\ stored' = stored \union batch
    /\ rpc' = "saved"
    /\ UNCHANGED <<spc, queue, closed, batchVars, attempt, misled, saveFailed, broken,
                   shutdownVars>>

\* A mutant: the loss is counted for every failed attempt.
SaveFailsCountingAll ==
    /\ rpc = "saving"
    /\ stored' = stored
    /\ misled' = misled
    /\ saveFailed' = saveFailed + Cardinality(batch)
    /\ rpc' = IF attempt = MaxSaveRetries THEN "failed" ELSE "backoff"
    /\ UNCHANGED <<spc, queue, closed, batchVars, attempt, broken, shutdownVars>>

\* The attempt fails, though the rows may have been committed.  The last attempt
\* gives the batch up as lost.
SaveFails ==
    /\ rpc = "saving"
    /\ \/ /\ stored' = stored
          /\ misled' = misled
       \/ /\ batch \intersect stored = {}
          /\ stored' = stored \union batch
          /\ misled' = TRUE
    /\ \/ /\ attempt = MaxSaveRetries
          /\ saveFailed' = saveFailed + Cardinality(batch)
          /\ rpc' = "failed"
       \/ /\ attempt < MaxSaveRetries
          /\ saveFailed' = saveFailed
          /\ rpc' = "backoff"
    /\ UNCHANGED <<spc, queue, closed, batchVars, attempt, broken, shutdownVars>>

\* A mutant: the barrier is outside flush, and nothing is cleared.
SavePanicsOutside ==
    /\ rpc = "saving"
    /\ broken' = TRUE
    /\ rpc' = "selecting"
    /\ attempt' = 0
    /\ UNCHANGED <<spc, queue, closed, batchVars, stored, misled, saveFailed, shutdownVars>>

\* The barrier in flush catches a panic, and counts no lost entry.
SavePanics ==
    /\ rpc = "saving"
    /\ broken' = TRUE
    /\ rpc' = "panicked"
    /\ UNCHANGED <<spc, queue, closed, batchVars, attempt, stored, misled, saveFailed, shutdownVars>>

Retry ==
    /\ rpc = "backoff"
    /\ attempt' = attempt + 1
    /\ rpc' = "saving"
    /\ UNCHANGED <<spc, queue, closed, batchVars, stored, misled, saveFailed, broken, shutdownVars>>

\* The flush has run out of time: ErrWorkerStopped.
StopRetrying ==
    /\ rpc = "backoff"
    /\ saveFailed' = saveFailed + Cardinality(batch)
    /\ rpc' = "failed"
    /\ UNCHANGED <<spc, queue, closed, batchVars, attempt, stored, misled, broken, shutdownVars>>

\* The deferred clearing.
Clear ==
    /\ rpc \in Over
    /\ batch' = {}
    /\ pending' = 0
    /\ attempt' = 0
    /\ rpc' = "selecting"
    /\ UNCHANGED <<spc, queue, closed, stored, misled, saveFailed, broken, shutdownVars>>

-------------------------------------------------------------------------------
(* Shutdown *)

CloseQueue ==
    /\ shutdown = "serving"
    /\ closed' = TRUE
    /\ shutdown' = "closing"
    /\ UNCHANGED <<spc, queue, rpc, batchVars, saveVars, atShutdown, remainder>>

\* A mutant: Shutdown takes an empty queue for the end of Run.
DrainedByQueue ==
    /\ shutdown = "closing"
    /\ queue = <<>>
    /\ shutdown' = "drained"
    /\ UNCHANGED <<spc, queue, closed, rpc, batchVars, saveVars, atShutdown, remainder>>

Drained ==
    /\ shutdown = "closing"
    /\ rpc = "done"
    /\ shutdown' = "drained"
    /\ UNCHANGED <<spc, queue, closed, rpc, batchVars, saveVars, atShutdown, remainder>>

\* The timeout: the queue is measured first, the batch only then, while Run is
\* at work on both.
TimesOut ==
    /\ shutdown = "closing"
    /\ remainder' = Len(queue)
    /\ shutdown' = "counting"
    /\ UNCHANGED <<spc, queue, closed, rpc, batchVars, saveVars, atShutdown>>

CountLost ==
    /\ shutdown = "counting"
    /\ atShutdown' = remainder + pending
    /\ shutdown' = "timedOut"
    /\ UNCHANGED <<spc, queue, closed, rpc, batchVars, saveVars, remainder>>

-------------------------------------------------------------------------------
SendStep(e) == Enqueue(e) \/ Drop(e) \/ SendOnClosed(e)

RunStep ==
    \/ Receive \/ Mirror \/ FlushRest \/ RunEnds
    \/ SaveSucceeds \/ SaveFails \/ SavePanics
    \/ Retry \/ StopRetrying \/ Clear

ShutdownStep == Drained \/ TimesOut \/ CountLost

\* Every Send is over and both goroutines have ended.
Stopped ==
    /\ \A e \in Entries : spc[e] \notin {"new", "sending"}
    /\ rpc = "done"
    /\ shutdown \in {"drained", "timedOut"}
    /\ UNCHANGED vars

Next ==
    \/ \E e \in Entries : Begin(e) \/ SendStep(e)
    \/ RunStep
    \/ CloseQueue
    \/ ShutdownStep
    \/ Stopped

Spec == Init /\ [][Next]_vars

\* Senders, their timers and Shutdown are scheduled: a Send or a Shutdown that has
\* begun keeps going.  Nothing is assumed of the store here, which may hang.
FairSpec ==
    /\ Spec
    /\ \A e \in Entries : WF_vars(SendStep(e))
    /\ WF_vars(ShutdownStep)

\* A store that comes back: every statement runs under the deadline of its flush,
\* so Run keeps going, its ticker included.
StoreAnswers == WF_vars(RunStep)

-------------------------------------------------------------------------------
(* Properties *)

Sent == {e \in Entries : spc[e] = "sent"}
Settled == {e \in Sent : ~InQueue(e) /\ e \notin batch}

TypeOK ==
    /\ spc \in [Entries -> SendState]
    /\ queue \in Seq(Entries) /\ Len(queue) <= BufferSize
    /\ closed \in BOOLEAN
    /\ rpc \in RunState
    /\ batch \subseteq Entries
    /\ pending \in Nat
    /\ attempt \in 0..MaxSaveRetries
    /\ stored \subseteq Entries
    /\ misled \in BOOLEAN
    /\ saveFailed \in Nat
    /\ atShutdown \in Nat
    /\ broken \in BOOLEAN
    /\ shutdown \in ShutdownState
    /\ remainder \in Nat

\* An entry is in one place: waiting, in the batch, or behind the worker; what
\* the worker has not yet taken has no row.
OnePlace ==
    /\ \A e \in Entries : InQueue(e) => spc[e] = "sent" /\ e \notin batch \union stored
    /\ \A e \in batch : spc[e] = "sent"
    /\ \A i, j \in DOMAIN queue : queue[i] = queue[j] => i = j
    /\ stored \subseteq Sent
    /\ rpc = "saved" => batch \subseteq stored
    /\ rpc # "saved" /\ ~misled => batch \intersect stored = {}

\* The batch never grows past BatchSize, and pending, which Shutdown reads from
\* another goroutine, is its length except between append and Store.
BatchMirrored ==
    /\ Cardinality(batch) <= BatchSize
    /\ rpc \in {"selecting", "received"} => attempt = 0
    /\ rpc = "backoff" => attempt < MaxSaveRetries
    /\ rpc = "selecting" => Cardinality(batch) < BatchSize
    /\ rpc \in {"received", "saving", "backoff"} \union Over => batch # {}
    /\ pending = Cardinality(batch) - (IF rpc = "received" THEN 1 ELSE 0)

\* Who is in the batch and already counted, or already out of reach of the count.
Counted == IF rpc = "failed" THEN batch ELSE {}

\* "Total number of audit events lost": as long as no flush has panicked, every
\* entry the worker took and did not store is counted under save_failed...
NoUncountedLoss ==
    ~broken => saveFailed >= Cardinality(Settled \ stored)

\* ...and nothing else is, as long as a statement that failed had written nothing.
LossesExact ==
    ~broken /\ ~misled =>
        saveFailed = Cardinality((Settled \ stored) \union Counted)

\* When Shutdown returns because Run has ended, nothing was left behind: no entry
\* waits in the queue or in the batch, and none can arrive.
CleanDrain ==
    shutdown = "drained" =>
        /\ closed
        /\ queue = <<>> /\ batch = {}
        /\ ~broken => Cardinality(Sent \ stored) <= saveFailed

\* What CleanDrain holds by.
ShutdownOrder ==
    /\ closed <=> shutdown # "serving"
    /\ rpc = "done" => closed /\ queue = <<>> /\ batch = {}
    /\ shutdown = "drained" => rpc = "done"

\* The bound that keeps the count from being too small.
LossesBounded ==
    ~broken => saveFailed >= Cardinality((Settled \ stored) \union (Counted \ stored))

PanicKnown == rpc = "panicked" => broken

\* The inductive invariant of the worker.
IInv ==
    /\ TypeOK
    /\ OnePlace
    /\ BatchMirrored
    /\ ShutdownOrder
    /\ LossesBounded
    /\ LossesExact
    /\ PanicKnown

\* Every entry that was accepted is dealt with, in the face of any number of
\* failures and panics: a poisoned batch does not come round again.  And closing
\* the queue ends Run.
EntrySettles ==
    StoreAnswers =>
        /\ \A e \in Entries : spc[e] = "sent" ~> e \in Settled
        /\ closed ~> rpc = "done"

\* Send and Shutdown come back even if the store hangs: each has a timer of its own.
NobodyWaitsOnTheStore ==
    /\ \A e \in Entries : spc[e] = "sending" ~> spc[e] # "sending"
    /\ closed ~> shutdown \in {"drained", "timedOut"}

-------------------------------------------------------------------------------
\* Not kept by the code.  No run checks these: as an invariant or a property of a
\* configuration, each is refuted at once (README, section 6).

\* The counters name every entry that has been given up, whatever happened.
LossAlwaysCounted == saveFailed >= Cardinality(Settled \ stored)

\* An entry counted as lost is not in the table.
LostIsLost == rpc = "selecting" => saveFailed <= Cardinality(Settled \ stored)

\* Once a Shutdown has timed out and said how many entries were lost, no more
\* than it said, with those of the failed batches, can be missing.
TimedOutCountsAll ==
    shutdown = "timedOut" /\ ~broken =>
        Cardinality(Sent \ stored) <= atShutdown + saveFailed
===============================================================================
