--------------------------------- MODULE Gates ---------------------------------
(* What a request goes through before its handler: the rate limiter             *)
(* (ratelimiter/ratelimiter.go) with the sweeper of its buckets, the slots per  *)
(* client (ratelimiter/concurrency.go), and authentication                      *)
(* (api/auth_interceptor.go, auth/static.go), in the order in which             *)
(* buildExtraInterceptors chains them.  A bucket is named after the request     *)
(* that made it: a request may go on using one that the sweeper has deleted.    *)
(* Time is counted in steps, in each of which a bucket gets Rate tokens.        *)
(* Left out: the licence check, whose table of methods is empty; the gate of    *)
(* the limiters, which both tiers of licence open (module License); metrics.    *)
EXTENDS Integers, FiniteSets

CONSTANTS
    Requests,           \* numbered in the order of their arrival
    Clients,            \* addresses of callers
    Unknown,            \* the address of a caller who has none
    None,               \* no bucket
    Burst, Rate,        \* size of a bucket, tokens per step of time
    Interval,           \* CleanupInterval: the sweeper's period and its threshold
    Limit,              \* MaxConcurrentPerIP, 0 to let everybody in
    MaxTime,            \* bound: the clock stops here
    MaxSweepPanics      \* bound: sweeps that panic

\* The positive ones are RateLimiter.setDefault's and Validate's.
ASSUME GatesAssumption ==
    /\ Burst \in Nat \ {0} /\ Rate \in Nat \ {0} /\ Interval \in Nat \ {0}
    /\ Limit \in Nat /\ MaxTime \in Nat /\ MaxSweepPanics \in Nat
    /\ Requests \subseteq Nat /\ IsFiniteSet(Requests)
    /\ Unknown \notin Clients /\ None \notin Requests

VARIABLES
    clock,              \* the clock
    pc,                 \* where a request is
    client,             \* who sent it
    buckets,            \* RateLimiter.buckets
    held,               \* the bucket a request has loaded
    tokens, lastSeen,   \* of each bucket
    sweep,              \* the sweeper: where it is, and what it has to visit
    sweepPanics,        \* sweeps that have panicked
    inFlight,           \* ConcurrencyLimiter.inFlight; 0 is no entry
    slotOf,             \* whose slot a request's release gives back
    due, swept, late, spent, stampedAt  \* history: see RateKept

limiter == <<buckets, held, tokens, lastSeen>>
slots == <<inFlight, slotOf>>
history == <<due, swept, late, spent, stampedAt>>
gatesVars == <<clock, pc, client, limiter, sweep, sweepPanics, slots, history>>

Callers == Clients \union {Unknown}

\* stamp, take: a request has its bucket, and goes on to lastSeen and to Allow.
\* denied, answered, panicked: it is on its way out, its release is deferred.
\* refused: by a limiter, without a slot.
Leaving == {"denied", "answered", "panicked"}
RequestState == {"new", "stamp", "take", "acquire", "authorize", "handle",
                 "refused", "done"} \union Leaving

\* What a request presents: nothing, to a public method (GenerateCode, Plugins,
\* health); or, to any other, a configured token, another, or none.
Credentials == {"public", "valid", "unknown", "none"}

\* idle: between two ticks.  range: in buckets.Range, with clients to visit.
\* judge: it has read when the bucket of victim was seen.  delete: found it stale.
Resting == [at |-> "idle", todo |-> {}, victim |-> Unknown, seen |-> 0]

GatesInit ==
    /\ clock = 0
    /\ pc = [r \in Requests |-> "new"]
    /\ client = [r \in Requests |-> Unknown]
    /\ buckets = [c \in Clients |-> None]
    /\ held = [r \in Requests |-> None]
    /\ tokens = [r \in Requests |-> Burst]
    /\ lastSeen = [r \in Requests |-> 0]
    /\ sweep = Resting
    /\ sweepPanics = 0
    /\ inFlight = [c \in Clients |-> 0]
    /\ slotOf = [r \in Requests |-> Unknown]
    /\ due = [c \in Clients |-> Burst]
    /\ swept = [c \in Clients |-> 0]
    /\ late = [c \in Clients |-> 0]
    /\ spent = [b \in Requests |-> 0]
    /\ stampedAt = [r \in Requests |-> 0]

Goto(r, from, to) == pc[r] = from /\ pc' = [pc EXCEPT ![r] = to]

Refill(level) == IF level + Rate > Burst THEN Burst ELSE level + Rate

Tick ==
    /\ clock < MaxTime
    /\ clock' = clock + 1
    /\ tokens' = [b \in Requests |-> Refill(tokens[b])]
    /\ due' = [c \in Clients |-> Refill(due[c])]
    /\ UNCHANGED <<pc, client, buckets, held, lastSeen, sweep, sweepPanics, slots,
                   swept, late, spent, stampedAt>>

-------------------------------------------------------------------------------
(* RateLimiter.Limit *)

Arrives(r, c) ==
    /\ \A q \in Requests : q < r => pc[q] # "new"
    /\ client' = [client EXCEPT ![r] = c]

\* A request whose address could not be found out: an empty key fails open.
Unaddressed(r) ==
    /\ Goto(r, "new", "acquire")
    /\ Arrives(r, Unknown)
    /\ UNCHANGED <<clock, limiter, sweep, sweepPanics, slots, history>>

\* LoadOrStore.
LoadOrStore(r, c) ==
    LET isNew == buckets[c] = None
        b == IF isNew THEN r ELSE buckets[c]
    IN /\ Goto(r, "new", "stamp")
       /\ Arrives(r, c)
       /\ buckets' = [buckets EXCEPT ![c] = b]
       /\ held' = [held EXCEPT ![r] = b]
       /\ tokens' = [tokens EXCEPT ![b] = IF isNew THEN Burst ELSE @]
       /\ lastSeen' = [lastSeen EXCEPT ![b] = IF isNew THEN clock ELSE @]
       /\ spent' = [spent EXCEPT ![b] = IF isNew THEN 0 ELSE @]
       /\ UNCHANGED <<clock, sweep, sweepPanics, slots, due, swept, late, stampedAt>>

Stamp(r) ==
    /\ Goto(r, "stamp", "take")
    /\ lastSeen' = [lastSeen EXCEPT ![held[r]] = clock]
    /\ stampedAt' = [stampedAt EXCEPT ![r] = clock]
    /\ UNCHANGED <<clock, client, buckets, held, tokens, sweep, sweepPanics, slots,
                   due, swept, late, spent>>

\* Whether this is the bucket that the sweeper has looked at and may delete.
IsVictim(b) == sweep.at \in {"judge", "delete"} /\ buckets[sweep.victim] = b

\* A request that takes its token late: in a later step of time than it stamped the
\* bucket, or from a bucket that the sweeper has deleted or has in hand.
Late(r) ==
    clock > stampedAt[r] \/ held[r] # buckets[client[r]] \/ IsVictim(held[r])

\* Allow.  The reference bucket due pays as well: it is never swept.
TakeToken(r) ==
    LET more == IF Late(r) THEN 1 ELSE 0
    IN /\ Goto(r, "take", "acquire")
       /\ tokens[held[r]] > 0
       /\ tokens' = [tokens EXCEPT ![held[r]] = @ - 1]
       /\ due' = [due EXCEPT ![client[r]] = @ - 1]
       /\ late' = [late EXCEPT ![client[r]] = @ + more]
       /\ spent' = [spent EXCEPT ![held[r]] = @ + more]
       /\ stampedAt' = [stampedAt EXCEPT ![r] = 0]
       /\ UNCHANGED <<clock, client, buckets, held, lastSeen, sweep, sweepPanics, slots, swept>>

RejectRate(r) ==
    /\ Goto(r, "take", "refused")
    /\ tokens[held[r]] = 0
    /\ UNCHANGED <<clock, client, limiter, sweep, sweepPanics, slots, history>>

-------------------------------------------------------------------------------
(* ConcurrencyLimiter, and what it encloses *)

\* Nothing is counted without a limit or without an address.
Counted(r) == Limit > 0 /\ client[r] \in Clients

Full(r) == Counted(r) /\ inFlight[client[r]] >= Limit

Acquire(r) ==
    /\ Goto(r, "acquire", "authorize")
    /\ ~Full(r)
    /\ inFlight' = IF Counted(r) THEN [inFlight EXCEPT ![client[r]] = @ + 1] ELSE inFlight
    /\ slotOf' = [slotOf EXCEPT ![r] = IF Counted(r) THEN client[r] ELSE Unknown]
    /\ UNCHANGED <<clock, client, limiter, sweep, sweepPanics, history>>

RejectSlots(r) ==
    /\ Goto(r, "acquire", "refused")
    /\ Full(r)
    /\ UNCHANGED <<clock, client, limiter, sweep, sweepPanics, slots, history>>

\* A public method is not asked for credentials; any other has to present a
\* token whose digest is configured.
Authorize(r, presents) ==
    /\ Goto(r, "authorize", IF presents \in {"public", "valid"} THEN "handle" ELSE "denied")
    /\ UNCHANGED <<clock, client, limiter, sweep, sweepPanics, slots, history>>

\* The handler returns, or panics into the recovery interceptor, which is outside
\* of the limiters.
Handle(r, how) ==
    /\ Goto(r, "handle", how)
    /\ UNCHANGED <<clock, client, limiter, sweep, sweepPanics, slots, history>>

\* A mutant: the slot is given back after the handler, and not in a defer.
ReleaseUnlessPanicked(r) ==
    LET c == slotOf[r] IN
    /\ pc[r] \in Leaving /\ pc' = [pc EXCEPT ![r] = "done"]
    /\ inFlight' = IF c = Unknown \/ pc[r] = "panicked" THEN inFlight
                   ELSE [inFlight EXCEPT ![c] = @ - 1]
    /\ slotOf' = [slotOf EXCEPT ![r] = Unknown]
    /\ UNCHANGED <<clock, client, limiter, sweep, sweepPanics, history>>

\* The deferred release, on every way out.
Release(r) ==
    LET c == slotOf[r] IN
    /\ pc[r] \in Leaving /\ pc' = [pc EXCEPT ![r] = "done"]
    /\ inFlight' = IF c = Unknown THEN inFlight ELSE [inFlight EXCEPT ![c] = @ - 1]
    /\ slotOf' = [slotOf EXCEPT ![r] = Unknown]
    /\ UNCHANGED <<clock, client, limiter, sweep, sweepPanics, history>>

-------------------------------------------------------------------------------
(* The sweeper *)

\* A tick of StartCleanup.  Range visits the clients it finds, in any order.
BeginSweep ==
    /\ sweep.at = "idle"
    /\ \E c \in Clients : buckets[c] # None
    /\ sweep' = [Resting EXCEPT !.at = "range",
                                !.todo = {c \in Clients : buckets[c] # None}]
    /\ UNCHANGED <<clock, pc, client, limiter, sweepPanics, slots, history>>

\* A bucket is looked at under its own lock, and judged after the lock was released.
Visit(c) ==
    /\ sweep.at = "range" /\ c \in sweep.todo
    /\ sweep' = [at |-> "judge", todo |-> sweep.todo \ {c}, victim |-> c,
                 seen |-> lastSeen[buckets[c]]]
    /\ UNCHANGED <<clock, pc, client, limiter, sweepPanics, slots, history>>

\* A mutant: whoever is not calling right now is stale.
IsStaleAtOnce(seen) == clock - seen >= 0

\* time.Since(lastSeen) > CleanupInterval.
IsStale(seen) == clock - seen > Interval

Judge ==
    /\ sweep.at = "judge"
    /\ sweep' = IF IsStale(sweep.seen) THEN [sweep EXCEPT !.at = "delete"]
                ELSE [Resting EXCEPT !.at = "range", !.todo = sweep.todo]
    /\ UNCHANGED <<clock, pc, client, limiter, sweepPanics, slots, history>>

\* buckets.Delete: somebody may have the bucket, and may have used it meanwhile.
Delete ==
    LET c == sweep.victim
    IN /\ sweep.at = "delete"
       /\ buckets' = [buckets EXCEPT ![c] = None]
       /\ swept' = [swept EXCEPT ![c] = @ + 1]
       /\ sweep' = [Resting EXCEPT !.at = "range", !.todo = sweep.todo]
       /\ UNCHANGED <<clock, pc, client, held, tokens, lastSeen, sweepPanics, slots,
                      due, late, spent, stampedAt>>

EndSweep ==
    /\ sweep.at = "range" /\ sweep.todo = {}
    /\ sweep' = Resting
    /\ UNCHANGED <<clock, pc, client, limiter, sweepPanics, slots, history>>

\* A panic in cleanup costs one sweep: the barrier is around one tick.
SweepPanics ==
    /\ sweep.at # "idle" /\ sweepPanics < MaxSweepPanics
    /\ sweepPanics' = sweepPanics + 1
    /\ sweep' = Resting
    /\ UNCHANGED <<clock, pc, client, limiter, slots, history>>

-------------------------------------------------------------------------------
Arrive(r) == Unaddressed(r) \/ \E c \in Clients : LoadOrStore(r, c)

RequestStep(r) ==
    \/ Stamp(r) \/ TakeToken(r) \/ RejectRate(r)
    \/ Acquire(r) \/ RejectSlots(r)
    \/ \E presents \in Credentials : Authorize(r, presents)
    \/ \E how \in {"answered", "panicked"} : Handle(r, how)
    \/ Release(r)

SweepStep == BeginSweep \/ (\E c \in Clients : Visit(c)) \/ Judge \/ Delete \/ EndSweep

\* Nothing is left to happen within the bounds.
AllServed ==
    /\ \A r \in Requests : pc[r] \in {"refused", "done"}
    /\ clock = MaxTime /\ sweep.at = "idle"
    /\ UNCHANGED gatesVars

GatesNext ==
    \/ \E r \in Requests : Arrive(r) \/ RequestStep(r)
    \/ SweepStep \/ SweepPanics
    \/ Tick
    \/ AllServed

GatesSpec == GatesInit /\ [][GatesNext]_gatesVars

\* The sweeper's ticker and goroutine go on, and so does every request.
FairGatesSpec ==
    GatesSpec /\ WF_gatesVars(SweepStep) /\ \A r \in Requests : WF_gatesVars(RequestStep(r))

-------------------------------------------------------------------------------
(* Properties *)

GatesTypeOK ==
    /\ clock \in 0..MaxTime
    /\ pc \in [Requests -> RequestState]
    /\ client \in [Requests -> Callers]
    /\ buckets \in [Clients -> Requests \union {None}]
    /\ held \in [Requests -> Requests \union {None}]
    /\ tokens \in [Requests -> 0..Burst]
    /\ lastSeen \in [Requests -> 0..MaxTime]
    /\ sweep \in [at : {"idle", "range", "judge", "delete"}, todo : SUBSET Clients,
                  victim : Callers, seen : 0..MaxTime]
    /\ sweepPanics \in 0..MaxSweepPanics
    /\ inFlight \in [Clients -> Nat]
    /\ slotOf \in [Requests -> Callers]
    /\ due \in [Clients -> Int]
    /\ swept \in [Clients -> Nat]
    /\ late \in [Clients -> Nat]
    /\ spent \in [Requests -> Nat]
    /\ stampedAt \in [Requests -> 0..MaxTime]

\* What a bucket that was not seen for an interval may still lack: nothing, if the
\* interval fills it.
Early == IF Rate * Interval >= Burst THEN 0 ELSE Burst - Rate * Interval

\* A client gets what one bucket that is never swept (due) would have given it, and
\* no more than one token for every request that took its own late, and Early for
\* every time the sweeper deleted its bucket.
RateKept == \A c \in Clients : due[c] >= 0 - (Early * swept[c] + late[c])

\* The requests of a client that the limiter has let in and that have not left.
Inside(c) ==
    {r \in Requests : client[r] = c /\ pc[r] \in {"authorize", "handle"} \union Leaving}

\* The requests of a client that are past the limiter and have not given their
\* slot back are counted exactly, whether they are denied, answered or panic, and
\* are never more than the limit.
SlotsExact ==
    Limit > 0 =>
        \A c \in Clients :
            inFlight[c] = Cardinality(Inside(c)) /\ inFlight[c] <= Limit

\* Between LoadOrStore and Allow a request holds a bucket of its client.
Holds(r) == pc[r] \in {"stamp", "take"}

\* A slot is given back to the client it was taken from.
SlotOwners ==
    \A r \in Requests :
        slotOf[r] = IF Limit > 0 /\ r \in Inside(client[r]) THEN client[r] ELSE Unknown

\* A bucket is its client's, in the map and in the hands of a request.
BucketOwners ==
    /\ \A r \in Requests : pc[r] = "new" => client[r] = Unknown
    /\ \A c \in Clients : buckets[c] # None => client[buckets[c]] = c
    /\ \A r \in Requests :
           Holds(r) => client[r] \in Clients /\ held[r] \in Requests /\ client[held[r]] = client[r]

\* A bucket has had the time since it was last seen to fill, but for late takes.
Filling ==
    /\ \A r \in Requests :
           /\ stampedAt[r] <= clock
           /\ pc[r] = "take" => stampedAt[r] <= lastSeen[held[r]]
    /\ \A b \in Requests :
           /\ lastSeen[b] <= clock
           /\ \/ tokens[b] + spent[b] >= Burst
              \/ tokens[b] + spent[b] >= Rate * (clock - lastSeen[b])

\* The bucket in the sweeper's hand has had the time since it was seen, and one about
\* to be deleted is full but for Early; late takes are made up for.
Sweeping ==
    /\ \A c \in sweep.todo : buckets[c] # None
    /\ sweep.at \in {"judge", "delete"} =>
           LET b == buckets[sweep.victim]
           IN /\ sweep.victim \in Clients \ sweep.todo /\ b # None
              /\ sweep.seen <= clock
              /\ sweep.at = "judge" => \/ tokens[b] + spent[b] >= Burst
                                       \/ tokens[b] + spent[b] >= Rate * (clock - sweep.seen)
              /\ sweep.at = "delete" => tokens[b] + spent[b] >= Burst - Early

\* What a client can still take from its bucket, or the one it would be given, and
\* what was taken late from that bucket, is covered.
Level(c) == IF buckets[c] = None THEN Burst ELSE tokens[buckets[c]]
Spent(c) == IF buckets[c] = None THEN 0 ELSE spent[buckets[c]]
Allowance(c) == Early * swept[c] + late[c]

Covered ==
    \A c \in Clients :
        /\ Spent(c) <= late[c]
        /\ due[c] + Allowance(c) >= Level(c) + Spent(c)

\* The inductive invariant.
GatesInv ==
    /\ GatesTypeOK
    /\ SlotsExact /\ SlotOwners
    /\ BucketOwners /\ Filling /\ Sweeping /\ Covered

\* A client who has gone away is forgotten, a sweep that panics notwithstanding.
StaleForgotten ==
    \A c \in Clients, b \in Requests :
        (buckets[c] = b /\ IsStale(lastSeen[b])) ~> (buckets[c] # b \/ ~IsStale(lastSeen[b]))

-------------------------------------------------------------------------------
(* Not kept by the code *)

\* A client gets what one bucket would have given it, and no more.
RateNeverExceeded == \A c \in Clients : due[c] >= 0
================================================================================
