--------------------------- MODULE PartitionsProofs ---------------------------
(* What is proved of the partition maintainer, for every number of replicas and *)
(* months: the invariant IInv, and that retention never touches what is kept.   *)
EXTENDS Partitions, TLAPS

LEMMA InitInv == Init => IInv
<1> SUFFICES ASSUME Init PROVE IInv
    OBVIOUS
<1> USE PartitionsAssumption DEF Init
<1>1. TypeOK
    BY DEF TypeOK, PassState
<1>2. TableNeverEmpty
    BY 0 \in 0..Migrated DEF TableNeverEmpty
<1>3. OneMaintainer
    BY DEF OneMaintainer
<1>4. OnePlacePerMonth
    BY DEF OnePlacePerMonth
<1>5. ClockRead
    BY DEF ClockRead
<1> QED
    BY <1>1, <1>2, <1>3, <1>4, <1>5 DEF IInv

\* The months of a pass are natural numbers.
LEMMA UpcomingIsNat ==
    ASSUME NEW m \in Nat, NEW k \in Upcoming(m) PROVE k \in Nat /\ k + 1 \in Nat
BY PartitionsAssumption DEF Upcoming

\* Types are kept: in the loop by UpcomingIsNat, elsewhere by the assignments.
LEMMA TypeStep == TypeOK /\ [Next]_vars => TypeOK'
<1> SUFFICES ASSUME TypeOK, [Next]_vars PROVE TypeOK'
    OBVIOUS
<1> USE PartitionsAssumption DEF TypeOK
<1>1. CASE UNCHANGED vars
    BY <1>1 DEF vars, table
<1>2. ASSUME NEW r \in Replicas, StartPass(r) PROVE TypeOK'
    BY <1>2 DEF StartPass, Goto, PassState, table
<1>3. ASSUME NEW r \in Replicas, EnsureLocked(r) PROVE TypeOK'
    BY <1>3 DEF EnsureLocked, Goto, PassState, table
<1>4. ASSUME NEW r \in Replicas, EnsureSkipped(r) \/ RetainSkipped(r) PROVE TypeOK'
    BY <1>4 DEF EnsureSkipped, RetainSkipped, Goto, PassState, table
<1>5. ASSUME NEW r \in Replicas, CreateMonth(r) PROVE TypeOK'
  <2>1. now[r] \in Nat /\ next[r] \in Upcoming(now[r])
      BY <1>5 DEF CreateMonth
  <2>2. next[r] \in Nat /\ next[r] + 1 \in Nat
      BY <2>1, UpcomingIsNat
  <2> QED
      BY <1>5, <2>2 DEF CreateMonth, table
<1>6. ASSUME NEW r \in Replicas, CommitCreated(r) \/ CommitUnanswered(r) PROVE TypeOK'
  <2>1. staged[r] \subseteq Nat
      OBVIOUS
  <2>2. parts' \subseteq Nat
      BY <1>6, <2>1 DEF CommitCreated, CommitUnanswered
  <2>3. faults' \in 0..MaxFaults
      BY <1>6 DEF CommitCreated, CommitUnanswered, Fault
  <2> QED
      BY <1>6, <2>2, <2>3 DEF CommitCreated, CommitUnanswered, Goto, Release, PassState
<1>7. ASSUME NEW r \in Replicas, CreateRefused(r) \/ PassFails(r) PROVE TypeOK'
  <2>1. faults' \in 0..MaxFaults
      BY <1>7 DEF CreateRefused, PassFails, Fault
  <2> QED
      BY <1>7, <2>1 DEF CreateRefused, PassFails, Goto, Release, PassState, table
<1>8. ASSUME NEW r \in Replicas, RetainLocked(r) PROVE TypeOK'
    BY <1>8 DEF RetainLocked, Goto, PassState, table
<1>9. ASSUME NEW r \in Replicas, DropExpired(r) PROVE TypeOK'
    BY <1>9 DEF DropExpired, Goto, Release, PassState
<1>10. CASE NextMonth
    BY <1>10 DEF NextMonth, table
<1>11. ASSUME NEW m, InsertStray(m) \/ (m \in strays /\ OperatorDrains(m)) PROVE TypeOK'
    BY <1>11 DEF InsertStray, OperatorDrains
<1> QED
    BY <1>1, <1>2, <1>3, <1>4, <1>5, <1>6, <1>7, <1>8, <1>9, <1>10, <1>11
       DEF Next, PassStep, PassBreaks

\* The guard of DropExpiredPartitions leaves something behind.
LEMMA TableStep == TypeOK /\ TableNeverEmpty /\ [Next]_vars => TableNeverEmpty'
<1> SUFFICES ASSUME TypeOK, TableNeverEmpty, [Next]_vars PROVE TableNeverEmpty'
    OBVIOUS
<1>1. ASSUME NEW r \in Replicas, DropExpired(r) PROVE TableNeverEmpty'
  <2>1. Expired(now[r]) \subseteq parts
      BY DEF Expired
  <2> QED
      BY <1>1, <2>1 DEF DropExpired, TableNeverEmpty
<1>2. ASSUME NEW r \in Replicas, CommitCreated(r) \/ CommitUnanswered(r) PROVE TableNeverEmpty'
    BY <1>2 DEF CommitCreated, CommitUnanswered, TableNeverEmpty
<1>3. ASSUME UNCHANGED parts PROVE TableNeverEmpty'
    BY <1>3 DEF TableNeverEmpty
<1> QED
    BY <1>1, <1>2, <1>3
       DEF Next, PassStep, PassBreaks, vars, table, StartPass, EnsureLocked, EnsureSkipped,
           CreateMonth, CreateRefused, RetainLocked, RetainSkipped, PassFails, NextMonth,
           InsertStray, OperatorDrains

\* What a step that ends a transaction does to the lock.
LEMMA ReleaseFrees ==
    ASSUME NEW r \in Replicas, OneMaintainer, Release(r), pc[r] \in {"creating", "dropping"}
    PROVE lock' = None
BY DEF OneMaintainer, Release

LEMMA LockStep == TypeOK /\ OneMaintainer /\ [Next]_vars => OneMaintainer'
<1> SUFFICES ASSUME TypeOK, OneMaintainer, [Next]_vars PROVE OneMaintainer'
    OBVIOUS
<1> USE PartitionsAssumption DEF TypeOK, OneMaintainer
<1>1. CASE UNCHANGED vars
    BY <1>1 DEF vars
<1>2. ASSUME NEW r \in Replicas, StartPass(r) \/ EnsureSkipped(r) \/ RetainSkipped(r)
      PROVE OneMaintainer'
    BY <1>2 DEF StartPass, EnsureSkipped, RetainSkipped, Goto
<1>3. ASSUME NEW r \in Replicas, EnsureLocked(r) \/ RetainLocked(r) PROVE OneMaintainer'
    BY <1>3 DEF EnsureLocked, RetainLocked, Goto
<1>4. ASSUME NEW r \in Replicas, CreateMonth(r) PROVE OneMaintainer'
    BY <1>4 DEF CreateMonth
<1>5. ASSUME NEW r \in Replicas, CommitCreated(r) \/ CommitUnanswered(r) PROVE OneMaintainer'
    BY <1>5, ReleaseFrees DEF CommitCreated, CommitUnanswered, Goto
<1>6. ASSUME NEW r \in Replicas, CreateRefused(r) PROVE OneMaintainer'
    BY <1>6, ReleaseFrees DEF CreateRefused, Goto
<1>7. ASSUME NEW r \in Replicas, DropExpired(r) PROVE OneMaintainer'
    BY <1>7, ReleaseFrees DEF DropExpired, Goto
<1>8. ASSUME NEW r \in Replicas, PassFails(r) PROVE OneMaintainer'
    BY <1>8 DEF PassFails, Goto, Release
<1>9. CASE NextMonth
    BY <1>9 DEF NextMonth
<1>10. ASSUME NEW m, InsertStray(m) \/ (m \in strays /\ OperatorDrains(m)) PROVE OneMaintainer'
    BY <1>10 DEF InsertStray, OperatorDrains
<1> QED
    BY <1>1, <1>2, <1>3, <1>4, <1>5, <1>6, <1>7, <1>8, <1>9, <1>10
       DEF Next, PassStep, PassBreaks

\* A month is staged only when nothing blocks it, and while it is staged the
\* table is locked against rows and operators.
LEMMA PlaceStep ==
    TypeOK /\ OnePlacePerMonth /\ [Next]_vars => OnePlacePerMonth'
<1> SUFFICES ASSUME TypeOK, OnePlacePerMonth, [Next]_vars PROVE OnePlacePerMonth'
    OBVIOUS
<1> USE DEF TypeOK, OnePlacePerMonth
<1>1. CASE UNCHANGED <<parts, handmade, strays, staged>>
    BY <1>1
<1>2. ASSUME NEW r \in Replicas, CreateMonth(r) PROVE OnePlacePerMonth'
    BY <1>2 DEF CreateMonth, Blocked, table
<1>3. ASSUME NEW r \in Replicas, CommitCreated(r) \/ CommitUnanswered(r) PROVE OnePlacePerMonth'
    BY <1>3 DEF CommitCreated, CommitUnanswered
<1>4. ASSUME NEW r \in Replicas, CreateRefused(r) \/ PassFails(r) PROVE OnePlacePerMonth'
    BY <1>4 DEF CreateRefused, PassFails, table
<1>5. ASSUME NEW r \in Replicas, DropExpired(r) PROVE OnePlacePerMonth'
    BY <1>5 DEF DropExpired
<1>6. ASSUME NEW m, InsertStray(m) PROVE OnePlacePerMonth'
    BY <1>6 DEF InsertStray, TableFree
<1>7. ASSUME NEW m \in strays, OperatorDrains(m) PROVE OnePlacePerMonth'
    BY <1>7 DEF OperatorDrains, TableFree
<1> QED
    BY <1>1, <1>2, <1>3, <1>4, <1>5, <1>6, <1>7
       DEF Next, PassStep, PassBreaks, vars, table, StartPass, EnsureLocked, EnsureSkipped,
           RetainLocked, RetainSkipped, NextMonth

LEMMA ClockStep == TypeOK /\ ClockRead /\ [Next]_vars => ClockRead'
<1> SUFFICES ASSUME TypeOK, ClockRead, [Next]_vars PROVE ClockRead'
    OBVIOUS
<1> USE PartitionsAssumption DEF TypeOK, ClockRead
<1>1. CASE UNCHANGED <<month, now>>
    BY <1>1
<1>2. ASSUME NEW r \in Replicas, StartPass(r) PROVE ClockRead'
    BY <1>2 DEF StartPass
<1>3. CASE NextMonth
    BY <1>3 DEF NextMonth
<1> QED
    BY <1>1, <1>2, <1>3
       DEF Next, PassStep, PassBreaks, vars, table, EnsureLocked, EnsureSkipped, CreateMonth,
           CreateRefused, CommitCreated, CommitUnanswered, RetainLocked, RetainSkipped,
           DropExpired, PassFails, InsertStray, OperatorDrains

\* The invariant of the maintainer holds, whatever fails and whoever skips.
THEOREM Invariance == Spec => []IInv
<1>1. Init => IInv
    BY InitInv
<1>2. IInv /\ [Next]_vars => IInv'
    BY TypeStep, TableStep, LockStep, PlaceStep, ClockStep DEF IInv
<1> QED
    BY <1>1, <1>2, PTL DEF Spec

\* Every variable keeps its type.
THEOREM TypeCorrect == Spec => []TypeOK
<1>1. IInv => TypeOK
    BY DEF IInv
<1> QED
    BY <1>1, Invariance, PTL

\* Retention leaves a partition, whatever the clock says (ErrRetentionWouldEmptyTable).
THEOREM TableKept == Spec => []TableNeverEmpty
<1>1. IInv => TableNeverEmpty
    BY DEF IInv
<1> QED
    BY <1>1, Invariance, PTL

\* Retention drops nothing that the calendar says is to be kept: a pass is never
\* ahead of the calendar, so its cutoff is not either.
THEOREM RetentionKeeps == Spec => RetainedKept
<1>1. IInv /\ [Next]_vars => [\A m \in parts : m \notin parts' => m < Cutoff(month)]_vars
  <2> SUFFICES ASSUME IInv, [Next]_vars, NEW m \in parts, m \notin parts'
               PROVE m < Cutoff(month)
      OBVIOUS
  <2>1. PICK r \in Replicas : DropExpired(r)
      BY DEF Next, PassStep, PassBreaks, vars, table, StartPass, EnsureLocked, EnsureSkipped,
             CreateMonth, CreateRefused, CommitCreated, CommitUnanswered, RetainLocked,
             RetainSkipped, PassFails, NextMonth, InsertStray, OperatorDrains
  <2>2. m < Cutoff(now[r])
      BY <2>1 DEF DropExpired, Expired
  <2>3. now[r] <= month /\ now[r] \in Int /\ month \in Int /\ m \in Int /\ Retention \in Int
      BY PartitionsAssumption DEF IInv, ClockRead, TypeOK
  <2> QED
      BY <2>2, <2>3 DEF Cutoff
<1> QED
    BY <1>1, Invariance, PTL DEF Spec, RetainedKept
===============================================================================
