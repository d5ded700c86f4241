--------------------------- MODULE BoundedAdmission ---------------------------
(***************************************************************************)
(* What both limiters of internal/core/pool.go promise: the pool's job     *)
(* queue (WorkerPool.Get) and the generation limiter (genLimiter.acquire). *)
(* The comment on acquire says that the second one repeats the semantics   *)
(* of the first: admit up to a limit, then a bounded queue, then an        *)
(* explicit refusal.                                                       *)
(*                                                                         *)
(* A call that finds a server idle is served.  One that finds none has     *)
(* been passed over: it queues, or is refused with ErrServerOverloaded     *)
(* when the limiter counts Queue calls in its queue.  A call may also be   *)
(* turned away for a reason that has nothing to do with load (shutdown).   *)
(*                                                                         *)
(* The module is an abstraction of the two, never of their data:           *)
(* JobPool and GenLimiter each implement it under a mapping.               *)
(***************************************************************************)
EXTENDS Naturals, FiniteSets

CONSTANTS
    Calls,      \* the calls made of the limiter
    Servers,    \* how many calls it serves at once
    Queue       \* how many more it lets wait

VARIABLES
    outside,    \* calls that the limiter has not dealt with
    passedOver, \* calls that have found no server idle and wait for the decision
    waiting,    \* in the queue
    serving,    \* in the hands of a server
    leaving,    \* refused or done with, and still on the way out
    refused,    \* every call that was ever answered ErrServerOverloaded
    counted,    \* the calls the limiter counts in its queue
    idle        \* a server stands ready to take a call

vars == <<outside, passedOver, waiting, serving, leaving, refused, counted, idle>>

\* Who waits is counted, and who is counted is still here; nobody is served or
\* waits beyond the limits, and a server that is idle serves nobody.
WithinLimits ==
    /\ waiting \subseteq counted
    /\ counted \subseteq waiting \union serving \union leaving
    /\ Cardinality(waiting) <= Queue
    /\ Cardinality(serving) <= Servers
    /\ idle => Cardinality(serving) < Servers

Init ==
    /\ outside = Calls
    /\ passedOver = {}
    /\ waiting = {}
    /\ serving = {}
    /\ leaving = {}
    /\ refused = {}
    /\ counted = {}
    /\ idle \in BOOLEAN

\* A call may be passed over some time before the decision.
PassOver(c) ==
    /\ c \in outside /\ ~idle
    /\ outside' = outside \ {c}
    /\ passedOver' = passedOver \union {c}
    /\ UNCHANGED <<waiting, serving, leaving, refused>>

PassedOver(c) == c \in passedOver \/ (c \in outside /\ ~idle)

Admit(c) ==
    /\ c \in outside /\ idle
    /\ outside' = outside \ {c}
    /\ serving' = serving \union {c}
    /\ UNCHANGED <<passedOver, waiting, leaving, refused>>

Enqueue(c) ==
    /\ PassedOver(c)
    /\ outside' = outside \ {c}
    /\ passedOver' = passedOver \ {c}
    /\ waiting' = waiting \union {c}
    /\ UNCHANGED <<serving, leaving, refused>>

\* Only a call that found no server idle is refused, and only while the queue is
\* counted full.
Refuse(c) ==
    /\ PassedOver(c)
    /\ Cardinality(counted) >= Queue
    /\ outside' = outside \ {c}
    /\ passedOver' = passedOver \ {c}
    /\ leaving' \in {leaving, leaving \union {c}}
    /\ refused' = refused \union {c}
    /\ UNCHANGED <<waiting, serving>>

\* Gone without a decision: shutdown.
TurnAway(c) ==
    /\ c \in outside
    /\ outside' = outside \ {c}
    /\ UNCHANGED <<passedOver, waiting, serving, leaving, refused>>

StartService(c) ==
    /\ c \in waiting
    /\ waiting' = waiting \ {c}
    /\ serving' = serving \union {c}
    /\ UNCHANGED <<outside, passedOver, leaving, refused>>

\* An admitted call is done, or gives up waiting.
Leave(c) ==
    /\ c \in waiting \union serving
    /\ waiting' = waiting \ {c}
    /\ serving' = serving \ {c}
    /\ leaving' \in {leaving, leaving \union {c}}
    /\ UNCHANGED <<outside, passedOver, refused>>

\* A server done with one call may take the next in the same step.
HandOver(c, d) ==
    /\ c \in serving
    /\ d \in waiting
    /\ waiting' = waiting \ {d}
    /\ serving' = (serving \ {c}) \union {d}
    /\ leaving' \in {leaving, leaving \union {c}}
    /\ UNCHANGED <<outside, passedOver, refused>>

Depart(c) ==
    /\ c \in leaving
    /\ leaving' = leaving \ {c}
    /\ UNCHANGED <<outside, passedOver, waiting, serving, refused>>

\* A server becomes idle or stops being so, a call comes off the counter.
Recount == UNCHANGED <<outside, passedOver, waiting, serving, leaving, refused>>

Next ==
    /\ \/ \E c \in Calls :
             \/ PassOver(c) \/ Admit(c) \/ Enqueue(c) \/ Refuse(c) \/ TurnAway(c)
             \/ StartService(c) \/ Leave(c) \/ Depart(c)
       \/ \E c, d \in Calls : HandOver(c, d)
       \/ Recount
    /\ idle' \in BOOLEAN
    /\ WithinLimits'

Spec == Init /\ [][Next]_vars
===============================================================================
