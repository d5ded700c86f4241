------------------------------- MODULE JobPool -------------------------------
(***************************************************************************)
(* The plugin-lookup half of WorkerPool (internal/core/pool.go): callers   *)
(* hand a job to a bounded channel (Get), workers range over the channel   *)
(* and answer each job on its own one-place result channel (processJob),   *)
(* and Shutdown closes the channel under the callers' feet.                *)
(*                                                                         *)
(* A call is one execution of Get.  What the inner registry answers is     *)
(* arbitrary: a plugin, an error, or a panic.                              *)
(***************************************************************************)
EXTENDS Integers, Sequences, FiniteSets

CONSTANTS
    Calls,      \* executions of Get
    Workers,    \* cfg.Workers goroutines
    QueueSize,  \* capacity of the jobs channel
    NoCall      \* what a worker holds between two jobs

ASSUME JobPoolAssumption ==
    /\ IsFiniteSet(Calls)
    /\ IsFiniteSet(Workers)
    /\ Workers # {}             \* NewWorkerPool raises Workers to at least 1
    /\ QueueSize \in Nat        \* and a negative QueueSize to 0
    /\ NoCall \notin Calls

VARIABLES
    pc,         \* pc[c]: where the call stands, or what it returned
    ended,      \* the calls whose context is done
    replies,    \* replies[c]: everything ever sent on the call's result channel
    jobs,       \* the jobs channel
    chanClosed, \* close(p.jobs) has run
    closed,     \* p.closed, read by Get before it sends
    wpc,        \* wpc[w]: where the worker stands
    held,       \* held[w]: the job the worker is processing
    shutdown,   \* where Shutdown stands, or how it returned
    lost        \* what Shutdown returned

vars == <<pc, ended, replies, jobs, chanClosed, closed, wpc, held, shutdown, lost>>
callVars == <<pc, ended>>
channelVars == <<jobs, chanClosed>>
workerVars == <<wpc, held>>
shutdownVars == <<closed, shutdown, lost>>

Reply == {"plugin", "error", "generationFailed"}
Returned == Reply \union {"shuttingDown", "overloaded", "cancelled", "panicked"}
CallState == {"start", "sending", "waiting"} \union Returned

\* "ready" is between two jobs, "parked" blocked on the empty channel.
WorkerState == {"ready", "parked", "resolving", "answered", "exited"}
ShutdownState == {"serving", "marked", "draining", "drained", "timedOut"}

Parked == {w \in Workers : wpc[w] = "parked"}

Init ==
    /\ pc = [c \in Calls |-> "start"]
    /\ ended = {}
    /\ replies = [c \in Calls |-> <<>>]
    /\ jobs = <<>>
    /\ chanClosed = FALSE
    /\ closed = FALSE
    /\ wpc = [w \in Workers |-> "ready"]
    /\ held = [w \in Workers |-> NoCall]
    /\ shutdown = "serving"
    /\ lost = 0

-------------------------------------------------------------------------------
(* Get *)

\* The caller's deadline passes, or the client goes away.
ContextEnds(c) ==
    /\ c \notin ended
    /\ pc[c] \notin Returned
    /\ ended' = ended \union {c}
    /\ UNCHANGED <<pc, replies, channelVars, workerVars, shutdownVars>>

\* p.closed is read here and the channel is used only later.
CheckClosed(c) ==
    /\ pc[c] = "start"
    /\ pc' = [pc EXCEPT ![c] = IF closed THEN "shuttingDown" ELSE "sending"]
    /\ UNCHANGED <<ended, replies, channelVars, workerVars, shutdownVars>>

\* The send of a select with a default: it hands the job to a parked worker,
\* or else to the buffer, or takes the default.  A closed channel panics.
SendToWorker(c, w) ==
    /\ pc[c] = "sending"
    /\ ~chanClosed
    /\ w \in Parked
    /\ pc' = [pc EXCEPT ![c] = "waiting"]
    /\ wpc' = [wpc EXCEPT ![w] = "resolving"]
    /\ held' = [held EXCEPT ![w] = c]
    /\ UNCHANGED <<ended, replies, channelVars, shutdownVars>>

SendToBuffer(c) ==
    /\ pc[c] = "sending"
    /\ ~chanClosed
    /\ Parked = {}
    /\ Len(jobs) < QueueSize
    /\ pc' = [pc EXCEPT ![c] = "waiting"]
    /\ jobs' = Append(jobs, c)
    /\ UNCHANGED <<ended, replies, chanClosed, workerVars, shutdownVars>>

\* A mutant: a call is refused although the buffer has room.
RejectEarly(c) ==
    /\ pc[c] = "sending"
    /\ ~chanClosed
    /\ Parked = {}
    /\ pc' = [pc EXCEPT ![c] = "overloaded"]
    /\ UNCHANGED <<ended, replies, channelVars, workerVars, shutdownVars>>

RejectFull(c) ==
    /\ pc[c] = "sending"
    /\ ~chanClosed
    /\ Parked = {}
    /\ Len(jobs) = QueueSize
    /\ pc' = [pc EXCEPT ![c] = "overloaded"]
    /\ UNCHANGED <<ended, replies, channelVars, workerVars, shutdownVars>>

SendOnClosed(c) ==
    /\ pc[c] = "sending"
    /\ chanClosed
    /\ pc' = [pc EXCEPT ![c] = "panicked"]
    /\ UNCHANGED <<ended, replies, channelVars, workerVars, shutdownVars>>

\* The second select: either branch may win when both are ready.  A job whose
\* caller leaves stays where it is.
TakeReply(c) ==
    /\ pc[c] = "waiting"
    /\ replies[c] # <<>>
    /\ pc' = [pc EXCEPT ![c] = Head(replies[c])]
    /\ UNCHANGED <<ended, replies, channelVars, workerVars, shutdownVars>>

Abandon(c) ==
    /\ pc[c] = "waiting"
    /\ c \in ended
    /\ pc' = [pc EXCEPT ![c] = "cancelled"]
    /\ UNCHANGED <<ended, replies, channelVars, workerVars, shutdownVars>>

-------------------------------------------------------------------------------
(* worker and processJob *)

\* range p.jobs: the next job, an end once the channel is closed and empty, or
\* a wait.
Receive(w) ==
    /\ wpc[w] = "ready"
    /\ jobs # <<>>
    /\ wpc' = [wpc EXCEPT ![w] = "resolving"]
    /\ held' = [held EXCEPT ![w] = Head(jobs)]
    /\ jobs' = Tail(jobs)
    /\ UNCHANGED <<callVars, replies, chanClosed, shutdownVars>>

Park(w) ==
    /\ wpc[w] = "ready"
    /\ jobs = <<>>
    /\ ~chanClosed
    /\ wpc' = [wpc EXCEPT ![w] = "parked"]
    /\ UNCHANGED <<callVars, replies, channelVars, held, shutdownVars>>

Exit(w) ==
    /\ wpc[w] = "ready"
    /\ jobs = <<>>
    /\ chanClosed
    /\ wpc' = [wpc EXCEPT ![w] = "exited"]
    /\ UNCHANGED <<callVars, replies, channelVars, held, shutdownVars>>

\* inner.Get came back and its answer went out.
Resolve(w, r) ==
    /\ wpc[w] = "resolving"
    /\ replies' = [replies EXCEPT ![held[w]] = Append(@, r)]
    /\ wpc' = [wpc EXCEPT ![w] = "answered"]
    /\ UNCHANGED <<callVars, channelVars, held, shutdownVars>>

\* A mutant: the barrier of processJob without the answer after it.
PanicUnanswered(w) ==
    /\ wpc[w] \in {"resolving", "answered"}
    /\ wpc' = [wpc EXCEPT ![w] = "ready"]
    /\ held' = [held EXCEPT ![w] = NoCall]
    /\ UNCHANGED <<callVars, replies, channelVars, shutdownVars>>

\* The panic barrier: the caller is told, unless it was already answered, and
\* the worker goes back to its loop.
Panic(w) ==
    /\ wpc[w] \in {"resolving", "answered"}
    /\ replies' = IF wpc[w] = "answered"
                  THEN replies
                  ELSE [replies EXCEPT ![held[w]] = Append(@, "generationFailed")]
    /\ wpc' = [wpc EXCEPT ![w] = "ready"]
    /\ held' = [held EXCEPT ![w] = NoCall]
    /\ UNCHANGED <<callVars, channelVars, shutdownVars>>

Finish(w) ==
    /\ wpc[w] = "answered"
    /\ wpc' = [wpc EXCEPT ![w] = "ready"]
    /\ held' = [held EXCEPT ![w] = NoCall]
    /\ UNCHANGED <<callVars, replies, channelVars, shutdownVars>>

-------------------------------------------------------------------------------
(* Shutdown *)

MarkClosed ==
    /\ shutdown = "serving"
    /\ closed' = TRUE
    /\ shutdown' = "marked"
    /\ UNCHANGED <<callVars, replies, channelVars, workerVars, lost>>

\* A mutant: the flag alone, and the channel stays open.
CloseNothing ==
    /\ shutdown = "marked"
    /\ shutdown' = "draining"
    /\ UNCHANGED <<callVars, replies, channelVars, workerVars, closed, lost>>

\* Closing the channel wakes every worker parked on it.
CloseJobs ==
    /\ shutdown = "marked"
    /\ chanClosed' = TRUE
    /\ wpc' = [w \in Workers |-> IF w \in Parked THEN "ready" ELSE wpc[w]]
    /\ shutdown' = "draining"
    /\ UNCHANGED <<callVars, replies, jobs, held, closed, lost>>

\* A mutant: Shutdown waits for the queue to empty, not for the workers.
DrainedEarly ==
    /\ shutdown = "draining"
    /\ jobs = <<>>
    /\ shutdown' = "drained"
    /\ lost' = 0
    /\ UNCHANGED <<callVars, replies, channelVars, workerVars, closed>>

\* wg.Wait came back before the timeout.
Drained ==
    /\ shutdown = "draining"
    /\ \A w \in Workers : wpc[w] = "exited"
    /\ shutdown' = "drained"
    /\ lost' = 0
    /\ UNCHANGED <<callVars, replies, channelVars, workerVars, closed>>

DrainTimesOut ==
    /\ shutdown = "draining"
    /\ shutdown' = "timedOut"
    /\ lost' = Len(jobs)
    /\ UNCHANGED <<callVars, replies, channelVars, workerVars, closed>>

-------------------------------------------------------------------------------
CallStep(c) ==
    \/ CheckClosed(c)
    \/ \E w \in Workers : SendToWorker(c, w)
    \/ SendToBuffer(c)
    \/ RejectFull(c)
    \/ SendOnClosed(c)
    \/ TakeReply(c)
    \/ Abandon(c)

WorkerStep(w) ==
    \/ Receive(w)
    \/ Park(w)
    \/ Exit(w)
    \/ \E r \in {"plugin", "error"} : Resolve(w, r)
    \/ Panic(w)
    \/ Finish(w)

ShutdownStep == MarkClosed \/ CloseJobs \/ Drained \/ DrainTimesOut

\* Every call is back and Shutdown has returned; that no worker goroutine is left
\* behind is WorkersEnd.
Stopped ==
    /\ \A c \in Calls : pc[c] \in Returned
    /\ shutdown \in {"drained", "timedOut"}
    /\ UNCHANGED vars

Next ==
    \/ \E c \in Calls : ContextEnds(c) \/ CallStep(c)
    \/ \E w \in Workers : WorkerStep(w)
    \/ ShutdownStep
    \/ Stopped

Spec == Init /\ [][Next]_vars

\* The scheduler runs every caller that can run.  No context has to end, Shutdown
\* need not be called, and nothing is assumed of the workers: inner.Get may hang.
FairSpec == Spec /\ \A c \in Calls : WF_vars(CallStep(c))

\* An inner registry that always comes back.
RegistryAnswers == \A w \in Workers : WF_vars(WorkerStep(w))

\* A Shutdown that has set the flag goes on; its own context may end.
ShutdownGoesOn == WF_vars(CloseJobs) /\ WF_vars(Drained \/ DrainTimesOut)

-------------------------------------------------------------------------------
InQueue(c) == \E i \in DOMAIN jobs : jobs[i] = c
InHand(c) == \E w \in Workers : held[w] = c
Unanswered == {c \in Calls : (InQueue(c) \/ InHand(c)) /\ replies[c] = <<>>}

\* Every variable has its type.
TypeOK ==
    /\ pc \in [Calls -> CallState]
    /\ ended \subseteq Calls
    /\ replies \in [Calls -> Seq(Reply)]
    /\ jobs \in Seq(Calls)
    /\ Len(jobs) <= QueueSize
    /\ chanClosed \in BOOLEAN
    /\ closed \in BOOLEAN
    /\ wpc \in [Workers -> WorkerState]
    /\ held \in [Workers -> Calls \union {NoCall}]
    /\ shutdown \in ShutdownState
    /\ lost \in 0..QueueSize

\* A caller that waits is never forgotten: its job is still queued, or a worker
\* is resolving it, or its answer is already in its channel.  This is what the
\* panic barrier of processJob and the draining of a closed channel are for.
NoCallerStranded ==
    \A c \in Calls : pc[c] = "waiting" =>
        \/ InQueue(c)
        \/ InHand(c)
        \/ replies[c] # <<>>

\* A job is answered at most once, however its resolution ends, so the send on
\* the one-place result channel never blocks a worker, also when the caller is
\* long gone.
OneReply ==
    /\ \A c \in Calls : Len(replies[c]) <= 1
    /\ \A w \in Workers : wpc[w] = "resolving" => replies[held[w]] = <<>>

\* The pool sheds no worker, whatever panics: one that has exited found the
\* channel closed and empty.
WorkersSurvive ==
    \A w \in Workers : wpc[w] = "exited" => chanClosed /\ jobs = <<>>

\* When Shutdown reports a clean drain, every job that was ever accepted has
\* its answer, and nothing can be accepted any more.
CleanDrainAnswersAll ==
    shutdown = "drained" =>
        \A c \in Calls : /\ pc[c] = "waiting" => replies[c] # <<>>
                         /\ ~InQueue(c) /\ ~InHand(c)

\* One place for one job: the queue holds it once, one worker holds it, and
\* never both.
JobInOnePlace ==
    /\ \A i, j \in DOMAIN jobs : jobs[i] = jobs[j] => i = j
    /\ \A v, w \in Workers : held[v] = held[w] /\ held[v] # NoCall => v = w
    /\ \A c \in Calls : ~(InQueue(c) /\ InHand(c))

\* What the three hold by: who holds what in which state, the order of a
\* shutdown, and where the one answer of a job can be.
WorkersTidy ==
    \A w \in Workers :
        /\ held[w] = NoCall <=> wpc[w] \in {"ready", "parked", "exited"}
        /\ wpc[w] = "parked" => jobs = <<>> /\ ~chanClosed

ShutdownOrder ==
    /\ closed <=> shutdown # "serving"
    /\ chanClosed <=> shutdown \in {"draining", "drained", "timedOut"}
    /\ shutdown = "drained" => \A w \in Workers : wpc[w] = "exited"

Custody ==
    /\ \A c \in Calls :
          /\ Len(replies[c]) <= 1
          /\ replies[c] # <<>> => pc[c] \notin {"start", "sending"}
          /\ InQueue(c) => replies[c] = <<>> /\ pc[c] \notin {"start", "sending"}
    /\ \A w \in Workers : held[w] # NoCall =>
          /\ pc[held[w]] \notin {"start", "sending"}
          /\ wpc[w] = "resolving" <=> replies[held[w]] = <<>>

\* The inductive invariant of the pool.
IInv ==
    /\ TypeOK
    /\ WorkersTidy
    /\ ShutdownOrder
    /\ JobInOnePlace
    /\ Custody
    /\ NoCallerStranded
    /\ WorkersSurvive

\* Every call that was accepted gets back to its caller, though its context may
\* never end; and one whose context has ended does even if every worker hangs.
CallReturns ==
    \A c \in Calls :
        /\ RegistryAnswers => (pc[c] = "waiting" ~> pc[c] \in Returned)
        /\ pc[c] = "waiting" /\ c \in ended ~> pc[c] \in Returned

\* Once Shutdown has begun, Shutdown returns and every worker goroutine ends:
\* none is left behind on the channel or on a caller that has gone.
WorkersEnd ==
    RegistryAnswers /\ ShutdownGoesOn =>
        (closed ~> /\ shutdown \in {"drained", "timedOut"}
                   /\ \A w \in Workers : wpc[w] = "exited")

\* The job queue is a bounded admission: the workers serve, the channel queues,
\* and a call is refused only when no worker is parked and the channel is full,
\* with a queue of zero too.
Outside == {c \in Calls : pc[c] \in {"start", "sending"}}
Queued == {c \in Calls : InQueue(c)}
InHands == {c \in Calls : InHand(c)}
TurnedDown == {c \in Calls : pc[c] = "overloaded"}

Admission == INSTANCE BoundedAdmission WITH
    Servers <- Cardinality(Workers),
    Queue <- QueueSize,
    outside <- Outside,
    passedOver <- {},
    waiting <- Queued,
    serving <- InHands,
    leaving <- {},
    refused <- TurnedDown,
    counted <- Queued,
    idle <- Parked # {}

AdmissionSpec == Admission!Spec

-------------------------------------------------------------------------------
\* Not kept by the code.  No run checks these: as an invariant or a property of a
\* configuration, each is refuted at once (README, section 6).

\* "Returns the number of lost jobs" (Shutdown's comment): at least as many as
\* the accepted jobs nobody has answered.
LostCountsUnanswered ==
    shutdown = "timedOut" => lost >= Cardinality(Unanswered)

\* A call that meets a shutdown is told so: GenerateCode documents UNAVAILABLE.
NoPanicOnShutdown == \A c \in Calls : pc[c] # "panicked"
===============================================================================
