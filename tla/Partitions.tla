------------------------------ MODULE Partitions ------------------------------
(* The partitions of audit_log: adapters/audit/partitions.go, run by every      *)
(* replica of the service.  A pass (Maintain) reads the clock once, creates the *)
(* coming months in one transaction and drops the expired ones in another.  An  *)
(* advisory lock of the database, tried and never waited for, lets one replica  *)
(* at a time into either.  A month is a natural number and a partition is the   *)
(* month it holds.  Rows of a month that has no partition land in the default   *)
(* partition, and from then on the month cannot be created.                     *)
(* Left out: hand-made partitions other than those of the runbook, the gauges,  *)
(* and the check of the default partition, which only reports.                  *)
EXTENDS Integers, FiniteSets

CONSTANTS
    Replicas,
    PreCreate,          \* PreCreateMonths
    Retention,          \* RetentionMonths, 0 to keep everything
    Migrated,           \* months after the first that the migration has created
    LastMonth,          \* bound: the calendar stops here
    MaxFaults,          \* bound: passes that break
    None                \* nobody has the lock

ASSUME PartitionsAssumption ==
    /\ PreCreate \in Nat /\ Retention \in Nat /\ Migrated \in Nat
    /\ LastMonth \in Nat /\ MaxFaults \in Nat
    /\ Retention > 0 => PreCreate <= Retention
    /\ None \notin Replicas

VARIABLES
    month,              \* the calendar
    parts,              \* the generated partitions that are attached
    handmade,           \* months an operator has created while draining the default
    strays,             \* months with rows in the default partition
    lock,               \* the replica whose transaction holds the advisory lock
    pc,                 \* where a replica is in its pass
    now,                \* the month a pass has read
    next,               \* the month EnsurePartitions is at
    staged,             \* what the open transaction has created
    faults              \* passes that have broken

vars == <<month, parts, handmade, strays, lock, pc, now, next, staged, faults>>
table == <<parts, handmade, strays>>

\* idle: between two ticks.  ensure, retain: about to begin a transaction.
\* creating: in the loop of EnsurePartitions.  dropping: the expired are listed.
PassState == {"idle", "ensure", "creating", "retain", "dropping"}

\* upcomingMonths and retentionCutoff.
Upcoming(m) == m..(m + PreCreate)
Cutoff(m) == m - Retention

\* Another partition covers the month, or rows of the default do.
Blocked(m) == m \notin parts /\ m \in strays \union handmade

Init ==
    /\ month = 0
    /\ parts = 0..Migrated
    /\ handmade = {}
    /\ strays = {}
    /\ lock = None
    /\ pc = [r \in Replicas |-> "idle"]
    /\ now = [r \in Replicas |-> 0]
    /\ next = [r \in Replicas |-> 0]
    /\ staged = [r \in Replicas |-> {}]
    /\ faults = 0

Goto(r, state) == pc' = [pc EXCEPT ![r] = state]

\* The lock belongs to the transaction: it goes with a commit or a rollback.
Release(r) == lock' = IF lock = r THEN None ELSE lock

-------------------------------------------------------------------------------
(* A pass *)

\* The ticker, or the start of the process: Maintain reads the clock.
StartPass(r) ==
    /\ pc[r] = "idle"
    /\ now' = [now EXCEPT ![r] = month]
    /\ Goto(r, "ensure")
    /\ UNCHANGED <<month, table, lock, next, staged, faults>>

\* A mutant: only months ahead, without the current one.
EnsureFromNextMonth(r) ==
    /\ pc[r] = "ensure" /\ lock = None
    /\ lock' = r
    /\ next' = [next EXCEPT ![r] = now[r] + 1]
    /\ Goto(r, "creating")
    /\ UNCHANGED <<month, table, now, staged, faults>>

\* EnsurePartitions wins the lock.
EnsureLocked(r) ==
    /\ pc[r] = "ensure" /\ lock = None
    /\ lock' = r
    /\ next' = [next EXCEPT ![r] = now[r]]
    /\ Goto(r, "creating")
    /\ UNCHANGED <<month, table, now, staged, faults>>

\* Or does not, which is no error: the pass goes on.
EnsureSkipped(r) ==
    /\ pc[r] = "ensure" /\ lock \notin {None, r}
    /\ Goto(r, IF Retention > 0 THEN "retain" ELSE "idle")
    /\ UNCHANGED <<month, table, lock, now, next, staged, faults>>

\* CREATE TABLE IF NOT EXISTS of one month.
CreateMonth(r) ==
    /\ pc[r] = "creating" /\ next[r] \in Upcoming(now[r])
    /\ ~Blocked(next[r])
    /\ staged' = [staged EXCEPT ![r] = @ \union ({next[r]} \ parts)]
    /\ next' = [next EXCEPT ![r] = @ + 1]
    /\ UNCHANGED <<month, table, lock, pc, now, faults>>

CommitCreated(r) ==
    /\ pc[r] = "creating" /\ next[r] \notin Upcoming(now[r])
    /\ parts' = parts \union staged[r]
    /\ staged' = [staged EXCEPT ![r] = {}]
    /\ Release(r)
    /\ Goto(r, IF Retention > 0 THEN "retain" ELSE "idle")
    /\ UNCHANGED <<month, handmade, strays, now, next, faults>>

\* The month overlaps rows of the default partition, or a partition an operator
\* has made: the transaction is rolled back, and Maintain returns before it comes
\* to retention.
CreateRefused(r) ==
    /\ pc[r] = "creating" /\ next[r] \in Upcoming(now[r])
    /\ Blocked(next[r])
    /\ staged' = [staged EXCEPT ![r] = {}]
    /\ Release(r)
    /\ Goto(r, "idle")
    /\ UNCHANGED <<month, table, now, next, faults>>

\* DropExpiredPartitions wins the lock, or does not.
RetainLocked(r) ==
    /\ pc[r] = "retain" /\ lock = None
    /\ lock' = r
    /\ Goto(r, "dropping")
    /\ UNCHANGED <<month, table, now, next, staged, faults>>

RetainSkipped(r) ==
    /\ pc[r] = "retain" /\ lock \notin {None, r}
    /\ Goto(r, "idle")
    /\ UNCHANGED <<month, table, lock, now, next, staged, faults>>

\* A mutant: the month of the cutoff goes too.
ExpiredWithCutoff(m) == {p \in parts : p <= Cutoff(m)}

\* expiredPartitions.
Expired(m) == {p \in parts : p < Cutoff(m)}

\* The listing, the guard, the drops and the commit.
DropExpired(r) ==
    /\ pc[r] = "dropping"
    /\ parts' = IF Expired(now[r]) = parts THEN parts ELSE parts \ Expired(now[r])
    /\ Release(r)
    /\ Goto(r, "idle")
    /\ UNCHANGED <<month, handmade, strays, now, next, staged, faults>>

Fault ==
    /\ faults < MaxFaults
    /\ faults' = faults + 1

\* An error, a time-out, or the end of the replica, at any step: what is open is
\* rolled back.
PassFails(r) ==
    /\ pc[r] # "idle"
    /\ Fault
    /\ staged' = [staged EXCEPT ![r] = {}]
    /\ Release(r)
    /\ Goto(r, "idle")
    /\ UNCHANGED <<month, table, now, next>>

\* A commit whose answer is lost: the months are there, and the pass is over.
CommitUnanswered(r) ==
    /\ pc[r] = "creating" /\ next[r] \notin Upcoming(now[r])
    /\ Fault
    /\ parts' = parts \union staged[r]
    /\ staged' = [staged EXCEPT ![r] = {}]
    /\ Release(r)
    /\ Goto(r, "idle")
    /\ UNCHANGED <<month, handmade, strays, now, next>>

-------------------------------------------------------------------------------
(* The calendar, the audit writer and the operator *)

\* DDL holds ACCESS EXCLUSIVE on the table until its transaction ends.
TableFree == \A r \in Replicas : staged[r] = {}

NextMonth ==
    /\ month < LastMonth
    /\ month' = month + 1
    /\ UNCHANGED <<table, lock, pc, now, next, staged, faults>>

\* A row of this month, or one that was written just before the month began.
InsertStray(m) ==
    /\ TableFree
    /\ m \in Nat /\ m \notin parts \union handmade \union strays
    /\ strays' = strays \union {m}
    /\ UNCHANGED <<month, parts, handmade, lock, pc, now, next, staged, faults>>

\* docs/RUNBOOKS.md, EasypAuditDefaultPartitionUsed: the operator takes the rows
\* out of the default partition, into one named after the month in another way.
OperatorDrains(m) ==
    /\ TableFree /\ m \in strays
    /\ handmade' = handmade \union {m}
    /\ strays' = strays \ {m}
    /\ UNCHANGED <<month, parts, lock, pc, now, next, staged, faults>>

-------------------------------------------------------------------------------
PassStep(r) ==
    \/ StartPass(r)
    \/ EnsureLocked(r) \/ EnsureSkipped(r)
    \/ CreateMonth(r) \/ CreateRefused(r) \/ CommitCreated(r)
    \/ RetainLocked(r) \/ RetainSkipped(r) \/ DropExpired(r)

PassBreaks(r) == PassFails(r) \/ CommitUnanswered(r)

Next ==
    \/ \E r \in Replicas : PassStep(r) \/ PassBreaks(r)
    \/ NextMonth
    \/ \E m \in {month - 1, month} : InsertStray(m)
    \/ \E m \in strays : OperatorDrains(m)

Spec == Init /\ [][Next]_vars

\* The tickers go on, and so does a pass that has begun.
FairSpec == Spec /\ \A r \in Replicas : WF_vars(PassStep(r))

\* The lock is tried and never waited for: two replicas whose every pass began
\* inside the other's transaction would skip each other's work for ever, and no
\* fairness of theirs excludes it.  A transaction takes milliseconds and a tick
\* hours: somebody wins the lock again and again.
LockIsWon == []<><<\E r \in Replicas : EnsureLocked(r)>>_vars

-------------------------------------------------------------------------------
(* Properties *)

TypeOK ==
    /\ month \in 0..LastMonth
    /\ parts \subseteq Nat /\ handmade \subseteq Nat /\ strays \subseteq Nat
    /\ lock \in Replicas \union {None}
    /\ pc \in [Replicas -> PassState]
    /\ now \in [Replicas -> 0..LastMonth]
    /\ next \in [Replicas -> Nat]
    /\ staged \in [Replicas -> SUBSET Nat]
    /\ faults \in 0..MaxFaults

\* The table always has a monthly partition (ErrRetentionWouldEmptyTable), also
\* when a replica skips its creations because another has the lock, and that
\* other then fails.
TableNeverEmpty == parts # {}

\* The parts of the inductive invariant.  A transaction that is open holds the
\* lock, and only the creating one has staged anything.
OneMaintainer ==
    \A r \in Replicas :
        /\ pc[r] \in {"creating", "dropping"} <=> lock = r
        /\ staged[r] # {} => pc[r] = "creating"

\* No month has two places for its rows, what is about to be committed included.
OnePlacePerMonth ==
    /\ parts \intersect (strays \union handmade) = {}
    /\ \A r \in Replicas : staged[r] \intersect (strays \union handmade) = {}

\* A pass is never ahead of the calendar.
ClockRead == \A r \in Replicas : now[r] <= month

IInv ==
    /\ TypeOK
    /\ TableNeverEmpty
    /\ OneMaintainer
    /\ OnePlacePerMonth
    /\ ClockRead

\* "RetentionMonths is how many months of history to keep": a month is dropped
\* only when it is that old by the calendar, and not only by the clock of a pass
\* that began before.
RetainedKept == [][\A m \in parts : m \notin parts' => m < Cutoff(month)]_vars

\* "pre-create upcoming partitions" (Maintain): after the last fault the
\* months to come get their partitions, unless one of them is blocked.
MonthsCovered ==
    LockIsWon =>
        <>[](\/ Upcoming(month) \subseteq parts
             \/ \E m \in Upcoming(month) : Blocked(m))

-------------------------------------------------------------------------------
(* Not kept by the code *)

\* "The two halves run in separate transactions so a wedged month cannot stop
\* retention" (Maintain): what is expired is dropped, though a month is blocked.
\* Stated of one replica, whose lock nobody takes.
RetentionGoesOn == <>[](Expired(month) \in {{}, parts})
===============================================================================
