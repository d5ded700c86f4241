------------------------------ MODULE GenLimiter ------------------------------
(***************************************************************************)
(* The generation half of WorkerPool (internal/core/pool.go): genLimiter,  *)
(* which lets MaxConcurrentGenerations plugin processes run, QueueSize     *)
(* more wait and refuses the rest, and poolPlugin.Generate, which holds a  *)
(* slot while it runs a plugin with retries.                               *)
(*                                                                         *)
(* The slots are golang.org/x/sync/semaphore.Weighted with unit weights: a *)
(* count, and a FIFO list of waiters that Release serves.                  *)
(***************************************************************************)
EXTENDS Integers, Sequences, FiniteSets

CONSTANTS
    Calls,      \* executions of Generate
    Slots,      \* cfg.MaxConcurrentGenerations
    Queue,      \* cfg.QueueSize
    MaxRetries  \* cfg.MaxRetries

ASSUME GenLimiterAssumption ==
    /\ IsFiniteSet(Calls)
    /\ Slots \in Nat \ {0}      \* NewWorkerPool replaces anything below 1
    /\ Queue \in Nat
    /\ MaxRetries \in Nat       \* Config.Validate refuses a negative one

VARIABLES
    pc,         \* pc[c]: where the call stands, or how it ended
    ended,      \* the calls whose own context is done
    cur,        \* slots taken, as the semaphore counts them
    waiters,    \* the semaphore's list of parked calls
    waiting,    \* genLimiter.waiting
    gauge,      \* genLimiter.inQueue, the metric pool_generations_waiting
    seen,       \* seen[c]: the count the call is about to publish, 0 when it has none
    attempt,    \* attempt[c]: the attempt under way, from 1
    runs,       \* runs[c]: how often the call ran the plugin
    outcome,    \* outcome[c]: what Generate will return once it has released
    errors      \* the calls counted in the generation error metric

vars == <<pc, ended, cur, waiters, waiting, gauge, seen, attempt, runs, outcome, errors>>
semaphoreVars == <<cur, waiters>>
countVars == <<waiting, gauge, seen>>
runVars == <<attempt, runs, outcome, errors>>

\* "killed": the plugin died because its caller went; "timedOut": by GenerationTimeout.
Outcome == {"ok", "failed", "timedOut", "killed", "cancelled", "panicked"}
Final == Outcome \union {"overloaded"}

\* Between waiting.Add(1) and waiting.Add(-1), without a slot and with one.
Queueing == {"counted", "publishing", "enqueueing", "queued", "gaveUp"}
Winning == {"granted", "won"}
Running == {"wonLeft", "checking", "executing", "accounting", "releasing"}
CallState ==
    {"start", "tried", "over", "gaveUpLeft"} \union Queueing \union Winning
        \union Running \union Final

Holders == {c \in Calls : pc[c] \in Winning \union Running}
LetIn == {c \in Calls : pc[c] \in Queueing \union Winning}
Counted == LetIn \union {c \in Calls : pc[c] = "over"}
SlotFree == cur < Slots /\ waiters = <<>>

Goto(c, l) == pc' = [pc EXCEPT ![c] = l]

Init ==
    /\ pc = [c \in Calls |-> "start"]
    /\ ended = {}
    /\ cur = 0
    /\ waiters = <<>>
    /\ waiting = 0
    /\ gauge = 0
    /\ seen = [c \in Calls |-> 0]
    /\ attempt = [c \in Calls |-> 1]
    /\ runs = [c \in Calls |-> 0]
    /\ outcome = [c \in Calls |-> "ok"]
    /\ errors = {}

ContextEnds(c) ==
    /\ c \notin ended
    /\ pc[c] \notin Final
    /\ ended' = ended \union {c}
    /\ UNCHANGED <<pc, semaphoreVars, countVars, runVars>>

-------------------------------------------------------------------------------
(* genLimiter.acquire *)

TryAcquire(c) ==
    /\ pc[c] = "start"
    /\ \/ SlotFree /\ cur' = cur + 1 /\ Goto(c, "checking")
       \/ ~SlotFree /\ cur' = cur /\ Goto(c, "tried")
    /\ UNCHANGED <<ended, waiters, countVars, runVars>>

\* A mutant: one waiter too many.
CountWaiterOffByOne(c) ==
    /\ pc[c] = "tried"
    /\ waiting' = waiting + 1
    /\ Goto(c, IF waiting > Queue THEN "over" ELSE "counted")
    /\ UNCHANGED <<ended, semaphoreVars, gauge, seen, runVars>>

CountWaiter(c) ==
    /\ pc[c] = "tried"
    /\ waiting' = waiting + 1
    /\ Goto(c, IF waiting' > Queue THEN "over" ELSE "counted")
    /\ UNCHANGED <<ended, semaphoreVars, gauge, seen, runVars>>

RejectOver(c) ==
    /\ pc[c] = "over"
    /\ waiting' = waiting - 1
    /\ Goto(c, "overloaded")
    /\ UNCHANGED <<ended, semaphoreVars, gauge, seen, runVars>>

\* inQueue.Set(waiting.Load()) is a load and, later, a store.
LoadWaiting(c) ==
    /\ pc[c] = "counted"
    /\ seen' = [seen EXCEPT ![c] = waiting]
    /\ Goto(c, "publishing")
    /\ UNCHANGED <<ended, semaphoreVars, waiting, gauge, runVars>>

PublishWaiting(c) ==
    /\ pc[c] = "publishing"
    /\ gauge' = seen[c]
    /\ seen' = [seen EXCEPT ![c] = 0]
    /\ Goto(c, "enqueueing")
    /\ UNCHANGED <<ended, semaphoreVars, waiting, runVars>>

\* slots.Acquire: a done context comes first, then a free slot, then the list.
Acquire(c) ==
    /\ pc[c] = "enqueueing"
    /\ \/ /\ c \in ended
          /\ Goto(c, "gaveUp")
          /\ UNCHANGED semaphoreVars
       \/ /\ c \notin ended
          /\ SlotFree
          /\ cur' = cur + 1
          /\ Goto(c, "won")
          /\ UNCHANGED waiters
       \/ /\ c \notin ended
          /\ ~SlotFree
          /\ waiters' = Append(waiters, c)
          /\ Goto(c, "queued")
          /\ UNCHANGED cur
    /\ UNCHANGED <<ended, countVars, runVars>>

Without(s, i) == [j \in 1..Len(s) - 1 |-> IF j < i THEN s[j] ELSE s[j + 1]]

\* A parked call whose context ends leaves the list.  While anyone is parked
\* every slot is taken, so its leaving lets nobody in.
GiveUp(c) ==
    /\ pc[c] = "queued"
    /\ c \in ended
    /\ \E i \in DOMAIN waiters : waiters[i] = c /\ waiters' = Without(waiters, i)
    /\ Goto(c, "gaveUp")
    /\ UNCHANGED <<ended, cur, countVars, runVars>>

\* A mutant: the slot is freed and the first parked call is not told.
ReleaseSlotSilently(c, l) ==
    /\ cur' = cur - 1
    /\ Goto(c, l)
    /\ UNCHANGED waiters

\* Release gives the slot straight to the first parked call, if there is one;
\* the releasing call goes on to l.
ReleaseSlot(c, l) ==
    \/ /\ waiters = <<>>
       /\ cur' = cur - 1
       /\ Goto(c, l)
       /\ UNCHANGED waiters
    \/ /\ waiters # <<>>
       /\ waiters' = Tail(waiters)
       /\ pc' = [pc EXCEPT ![c] = l, ![Head(waiters)] = "granted"]
       /\ UNCHANGED cur

\* A mutant: a grant that came with the end of the context is forgotten.
TakeGrantLeaking(c) ==
    /\ pc[c] = "granted"
    /\ Goto(c, IF c \in ended THEN "gaveUp" ELSE "won")
    /\ UNCHANGED <<ended, semaphoreVars, countVars, runVars>>

\* A call that was granted a slot keeps it, or puts it back if its context ended
\* in the meantime.
TakeGrant(c) ==
    /\ pc[c] = "granted"
    /\ \/ c \notin ended /\ Goto(c, "won") /\ UNCHANGED semaphoreVars
       \/ c \in ended /\ ReleaseSlot(c, "gaveUp")
    /\ UNCHANGED <<ended, countVars, runVars>>

\* inQueue.Set(waiting.Add(-1)): again the count first, the gauge later.
LeaveQueue(c) ==
    /\ pc[c] \in {"won", "gaveUp"}
    /\ waiting' = waiting - 1
    /\ seen' = [seen EXCEPT ![c] = waiting']
    /\ Goto(c, IF pc[c] = "won" THEN "wonLeft" ELSE "gaveUpLeft")
    /\ UNCHANGED <<ended, semaphoreVars, gauge, runVars>>

PublishLeft(c) ==
    /\ pc[c] \in {"wonLeft", "gaveUpLeft"}
    /\ gauge' = seen[c]
    /\ seen' = [seen EXCEPT ![c] = 0]
    /\ Goto(c, IF pc[c] = "wonLeft" THEN "checking" ELSE "cancelled")
    /\ UNCHANGED <<ended, semaphoreVars, waiting, runVars>>

-------------------------------------------------------------------------------
(* poolPlugin.Generate, with the slot in hand *)

MaxAttempts == MaxRetries + 1

\* The loop ends with an outcome; a panic passes the metrics by.
Conclude(c, o) ==
    /\ outcome' = [outcome EXCEPT ![c] = o]
    /\ Goto(c, IF o = "panicked" THEN "releasing" ELSE "accounting")
    /\ UNCHANGED errors

\* The head of the retry loop.  Falling out of the loop here would return an
\* empty success: RunsMatchAttempts says that attempt never gets past the bound,
\* because the last attempt breaks out first.
CheckContext(c) ==
    /\ pc[c] = "checking"
    /\ attempt[c] <= MaxAttempts
    /\ \/ /\ c \notin ended
          /\ Goto(c, "executing")
          /\ UNCHANGED <<outcome, errors>>
       \/ /\ c \in ended
          /\ Conclude(c, "cancelled")
    /\ UNCHANGED <<ended, semaphoreVars, countVars, attempt, runs>>

\* The plugin process came back, or was killed: by GenerationTimeout, or because the
\* caller's context ended.
Execute(c) ==
    /\ pc[c] = "executing"
    /\ runs' = [runs EXCEPT ![c] = @ + 1]
    /\ \E o \in Outcome \ {"cancelled"} :
          /\ o = "killed" => c \in ended
          /\ Conclude(c, o)
    /\ UNCHANGED <<ended, semaphoreVars, countVars, attempt>>

\* A transient error ("connection refused", "temporary failure").
ExecuteTransient(c) ==
    /\ pc[c] = "executing"
    /\ runs' = [runs EXCEPT ![c] = @ + 1]
    /\ \/ /\ attempt[c] = MaxAttempts
          /\ Conclude(c, "failed")
          /\ UNCHANGED attempt
       \/ /\ attempt[c] # MaxAttempts
          /\ attempt' = [attempt EXCEPT ![c] = @ + 1]
          /\ Goto(c, "checking")
          /\ UNCHANGED <<outcome, errors>>
    /\ UNCHANGED <<ended, semaphoreVars, countVars>>

\* A mutant: genCtx.Err(), which a GenerationTimeout has ended as well.
CountFailureByGenCtx(c) ==
    /\ pc[c] = "accounting"
    /\ errors' = IF outcome[c] \notin {"ok", "timedOut"} /\ c \notin ended
                 THEN errors \union {c} ELSE errors
    /\ Goto(c, "releasing")
    /\ UNCHANGED <<ended, semaphoreVars, countVars, attempt, runs, outcome>>

\* ctx.Err() is read some time after the loop came back: an error is counted as
\* the plugin's unless the caller has gone by now.
CountFailure(c) ==
    /\ pc[c] = "accounting"
    /\ errors' = IF outcome[c] # "ok" /\ c \notin ended THEN errors \union {c} ELSE errors
    /\ Goto(c, "releasing")
    /\ UNCHANGED <<ended, semaphoreVars, countVars, attempt, runs, outcome>>

\* The deferred release, after a panic too.
Release(c) ==
    /\ pc[c] = "releasing"
    /\ ReleaseSlot(c, outcome[c])
    /\ UNCHANGED <<ended, countVars, runVars>>

-------------------------------------------------------------------------------
AcquireStep(c) ==
    \/ TryAcquire(c)
    \/ CountWaiter(c)
    \/ RejectOver(c)
    \/ LoadWaiting(c)
    \/ PublishWaiting(c)
    \/ Acquire(c)
    \/ GiveUp(c)
    \/ TakeGrant(c)
    \/ LeaveQueue(c)
    \/ PublishLeft(c)

RunStep(c) ==
    \/ CheckContext(c)
    \/ Execute(c)
    \/ ExecuteTransient(c)
    \/ CountFailure(c)
    \/ Release(c)

Stopped ==
    /\ \A c \in Calls : pc[c] \in Final
    /\ UNCHANGED vars

Next ==
    \/ \E c \in Calls : ContextEnds(c) \/ AcquireStep(c) \/ RunStep(c)
    \/ Stopped

Spec == Init /\ [][Next]_vars

\* The scheduler runs every caller that has begun to acquire a slot.  Nobody has
\* to call, no context has to end, and a plugin process may hang.
Started(c) == pc[c] # "start"
FairSpec == Spec /\ \A c \in Calls : WF_vars(Started(c) /\ AcquireStep(c))

\* Plugin processes end: GenerationTimeout kills the ones that do not.
PluginsEnd == \A c \in Calls : WF_vars(RunStep(c))

-------------------------------------------------------------------------------
(* Properties *)

InList(c) == \E i \in DOMAIN waiters : waiters[i] = c

TypeOK ==
    /\ pc \in [Calls -> CallState]
    /\ ended \subseteq Calls
    /\ cur \in 0..Slots
    /\ waiters \in Seq(Calls)
    /\ waiting \in Nat
    /\ gauge \in Nat
    /\ seen \in [Calls -> Nat]
    /\ attempt \in [Calls -> Nat]
    /\ runs \in [Calls -> Nat]
    /\ outcome \in [Calls -> Outcome]
    /\ errors \subseteq Calls

\* However calls are cancelled, granted, killed or made to panic, the semaphore
\* counts exactly the calls that hold a slot: none leaks and none is given back
\* twice, and a slot is never left free while a call is parked.
SlotsConserved ==
    /\ cur = Cardinality(Holders)
    /\ waiters # <<>> => cur = Slots

\* At most MaxConcurrentGenerations plugin processes run at once: the property
\* TestGenerationConcurrencyIsBounded pins for one schedule.
GenerationsBounded ==
    Cardinality({c \in Calls : pc[c] = "executing"}) <= Slots

\* The waiting counter tells how many calls are between its two updates, on
\* every path out of the queue; at most Queue of them were let in.
WaitersCounted ==
    /\ waiting = Cardinality(Counted)
    /\ Cardinality(LetIn) <= Queue

\* A call is parked in the semaphore exactly once, and nothing else is.
ParkedOnce ==
    /\ \A c \in Calls : InList(c) <=> pc[c] = "queued"
    /\ \A i, j \in DOMAIN waiters : waiters[i] = waiters[j] => i = j

\* The retry arithmetic: at most MaxRetries + 1 runs of the plugin, and success
\* is reported only by a call that ran it.
RetriesBounded ==
    \A c \in Calls :
        /\ runs[c] <= MaxRetries + 1
        /\ pc[c] = "ok" => runs[c] > 0

\* "A caller that walked away is not a plugin failure, so it is not counted as
\* one.  A deadline hit by genCtx alone leaves ctx healthy and is counted"
\* (Generate).  The caller may leave while the plugin runs, between two attempts,
\* or between the end of the loop and the check: whoever was cancelled, or whose
\* plugin was killed for it, is not counted, and a plugin that fails or times out
\* is, if its caller stays to the end.
FailuresCounted ==
    \A c \in Calls :
        /\ c \in errors => outcome[c] \in {"failed", "timedOut"}
        /\ pc[c] \in {"failed", "timedOut"} /\ c \notin ended => c \in errors

\* What it holds by: the outcome stands from the end of the loop on, a cancelled
\* caller has gone by then, and nobody is counted before the check.
AccountsTidy ==
    \A c \in Calls :
        /\ pc[c] = "accounting" /\ outcome[c] \in {"killed", "cancelled"} => c \in ended
        /\ c \in errors => /\ pc[c] \in {"releasing"} \union Outcome
                           /\ outcome[c] \in {"failed", "timedOut"}
        /\ pc[c] = "releasing" /\ outcome[c] \in {"failed", "timedOut"}
              => c \in errors \/ c \in ended
        /\ pc[c] \in {"failed", "timedOut"} => c \in errors \/ c \in ended
        /\ pc[c] = "accounting" => outcome[c] # "panicked"

\* What RetriesBounded holds by: one run for each attempt begun.
RunsMatchAttempts ==
    \A c \in Calls :
        /\ attempt[c] \in 1..MaxRetries + 1
        /\ runs[c] <= attempt[c]
        /\ pc[c] \notin {"accounting", "releasing"} \union Final => runs[c] = attempt[c] - 1
        /\ pc[c] = "ok" => runs[c] > 0
        /\ pc[c] \in {"accounting", "releasing"} /\ outcome[c] = "ok" => runs[c] > 0

\* The inductive invariant of the limiter.
IInv ==
    /\ TypeOK
    /\ SlotsConserved
    /\ WaitersCounted
    /\ ParkedOnce
    /\ RunsMatchAttempts

\* Every call of Generate comes back, if plugins end: FIFO grants starve nobody.
\* A parked call whose context ends comes back even if every plugin hangs.
CallReturns ==
    \A c \in Calls :
        /\ PluginsEnd => (Started(c) ~> pc[c] \in Final)
        /\ pc[c] = "queued" /\ c \in ended ~> pc[c] \in Final

\* The limiter is a bounded admission too, which is what the comment on acquire
\* says: a call is refused only if it found no slot free and then the counter at
\* its limit.  What the counter holds includes calls that are over the limit, have
\* given up or won a slot, until they take themselves off it.
Outside == {c \in Calls : pc[c] = "start"}
PassedOver == {c \in Calls : pc[c] = "tried"}
InLine == {c \in Calls : pc[c] \in Queueing \ {"gaveUp"}}
OnTheWayOut == {c \in Calls : pc[c] \in {"over", "gaveUp"}}
TurnedDown == {c \in Calls : pc[c] \in {"over", "overloaded"}}

Admission == INSTANCE BoundedAdmission WITH
    Servers <- Slots,
    outside <- Outside,
    passedOver <- PassedOver,
    waiting <- InLine,
    serving <- Holders,
    leaving <- OnTheWayOut,
    refused <- TurnedDown,
    counted <- Counted,
    idle <- SlotFree

AdmissionSpec == Admission!Spec

-------------------------------------------------------------------------------
\* Not kept by the code.  No run checks these: as an invariant or a property of a
\* configuration, each is refuted at once (README, section 6).

\* "Number of requests waiting for a generation slot" (pool_generations_waiting):
\* once no call is in the limiter the gauge is back at zero.
GaugeSettles ==
    (\A c \in Calls : pc[c] \in {"start"} \union Final) => gauge = 0
===============================================================================
