--------------------------- MODULE GenLimiterProofs ---------------------------
(***************************************************************************)
(* Proofs about GenLimiter, for any finite set of calls and any limits:    *)
(* slots are conserved, so generations are bounded; the waiting counter    *)
(* is exact; the retry arithmetic holds; a caller that has gone is not     *)
(* counted as a failure; and the limiter implements BoundedAdmission.      *)
(***************************************************************************)
EXTENDS GenLimiter, FiniteSetTheorems, SequenceTheorems, TLAPS

-------------------------------------------------------------------------------
(* Counting calls by their state *)

\* The calls whose state is in S.
CallsIn(S) == {d \in Calls : pc[d] \in S}

\* 1 when state l is one of S, else 0.
Has(l, S) == IF l \in S THEN 1 ELSE 0

\* One call changes state: a count changes by what the call leaves and enters.
LEMMA CountOne ==
    ASSUME TypeOK, NEW c \in Calls, NEW l, Goto(c, l), NEW S
    PROVE  /\ Cardinality(CallsIn(S)) \in Nat
           /\ Cardinality(CallsIn(S)') = Cardinality(CallsIn(S)) - Has(pc[c], S) + Has(l, S)
<1> DEFINE A == CallsIn(S)
           B == {d \in Calls : pc'[d] \in S}
<1>1. IsFiniteSet(A) /\ Cardinality(A) \in Nat
  BY FS_Subset, FS_CardinalityType, GenLimiterAssumption DEF CallsIn
<1>2. \A d \in Calls : pc'[d] = IF d = c THEN l ELSE pc[d]
  BY DEF Goto, TypeOK
<1>3. CASE pc[c] \in S <=> l \in S
  <2>1. B = A
    BY <1>2, <1>3 DEF CallsIn
  <2>2. Has(pc[c], S) = Has(l, S) /\ Has(l, S) \in Nat
    BY <1>3 DEF Has
  <2>. QED  BY <1>1, <2>1, <2>2 DEF CallsIn
<1>4. CASE pc[c] \in S /\ l \notin S
  <2>1. B = A \ {c} /\ c \in A
    BY <1>2, <1>4 DEF CallsIn
  <2>2. Cardinality(B) = Cardinality(A) - 1
    BY <1>1, <2>1, FS_RemoveElement
  <2>3. Has(pc[c], S) = 1 /\ Has(l, S) = 0
    BY <1>4 DEF Has
  <2>. QED  BY <1>1, <2>2, <2>3 DEF CallsIn
<1>5. CASE pc[c] \notin S /\ l \in S
  <2>1. B = A \union {c} /\ c \notin A
    BY <1>2, <1>5 DEF CallsIn
  <2>2. Cardinality(B) = Cardinality(A) + 1
    BY <1>1, <2>1, FS_AddElement
  <2>3. Has(pc[c], S) = 0 /\ Has(l, S) = 1
    BY <1>5 DEF Has
  <2>. QED  BY <1>1, <2>2, <2>3 DEF CallsIn
<1>. QED  BY <1>3, <1>4, <1>5

\* A call that goes to state l changes the three counts by its own membership.
LEMMA GotoCounts ==
    ASSUME TypeOK, NEW c \in Calls, NEW l, Goto(c, l)
    PROVE  /\ Cardinality(Holders) \in Nat /\ Cardinality(LetIn) \in Nat /\ Cardinality(Counted) \in Nat
           /\ Cardinality(Holders') = Cardinality(Holders)
                - Has(pc[c], Winning \union Running) + Has(l, Winning \union Running)
           /\ Cardinality(LetIn') = Cardinality(LetIn)
                - Has(pc[c], Queueing \union Winning) + Has(l, Queueing \union Winning)
           /\ Cardinality(Counted') = Cardinality(Counted)
                - Has(pc[c], {"over"} \union Queueing \union Winning)
                + Has(l, {"over"} \union Queueing \union Winning)
<1>1. /\ Holders = CallsIn(Winning \union Running)
      /\ LetIn = CallsIn(Queueing \union Winning)
      /\ Counted = CallsIn({"over"} \union Queueing \union Winning)
  BY DEF Holders, LetIn, Counted, CallsIn
<1>2. /\ Holders' = CallsIn(Winning \union Running)'
      /\ LetIn' = CallsIn(Queueing \union Winning)'
      /\ Counted' = CallsIn({"over"} \union Queueing \union Winning)'
  BY DEF Holders, LetIn, Counted, CallsIn
<1>. QED  BY <1>1, <1>2, CountOne

\* The counts are counts after the step too.
LEMMA TypeAfterGoto ==
    ASSUME TypeOK, NEW c \in Calls, NEW l, Goto(c, l)
    PROVE  /\ Cardinality(Holders') \in Nat
           /\ Cardinality(LetIn') \in Nat
           /\ Cardinality(Counted') \in Nat
<1>1. IsFiniteSet(Holders') /\ IsFiniteSet(LetIn') /\ IsFiniteSet(Counted')
  BY FS_Subset, GenLimiterAssumption DEF Holders, LetIn, Counted
<1>. QED  BY <1>1, FS_CardinalityType

\* The counts only depend on pc.
LEMMA SameCounts ==
    ASSUME pc' = pc
    PROVE  Holders' = Holders /\ LetIn' = LetIn /\ Counted' = Counted
  BY DEF Holders, LetIn, Counted

LEMMA LetInCounted == Cardinality(LetIn) <= Cardinality(Counted)
<1>1. IsFiniteSet(Counted) /\ LetIn \subseteq Counted
  BY FS_Subset, GenLimiterAssumption DEF Counted, LetIn
<1>. QED  BY <1>1, FS_Subset

-------------------------------------------------------------------------------
(* The list of parked calls *)

LEMMA AppendToList ==
    ASSUME waiters \in Seq(Calls), NEW c \in Calls, waiters' = Append(waiters, c),
           \A i, j \in DOMAIN waiters : waiters[i] = waiters[j] => i = j, ~InList(c)
    PROVE  /\ waiters' \in Seq(Calls)
           /\ waiters' # <<>>
           /\ \A d : InList(d)' <=> InList(d) \/ d = c
           /\ \A i, j \in DOMAIN waiters' : waiters'[i] = waiters'[j] => i = j
<1>1. /\ waiters' \in Seq(Calls)
      /\ Len(waiters') = Len(waiters) + 1
      /\ \A i \in 1..Len(waiters) : waiters'[i] = waiters[i]
      /\ waiters'[Len(waiters) + 1] = c
  BY AppendProperties
<1>2. DOMAIN waiters = 1..Len(waiters) /\ DOMAIN waiters' = 1..Len(waiters) + 1 /\ Len(waiters) \in Nat
  BY <1>1, LenProperties
<1>3. waiters' # <<>>
  BY <1>1, <1>2, EmptySeq
<1>. QED  BY <1>1, <1>2, <1>3 DEF InList

LEMMA TakeFirstParked ==
    ASSUME waiters \in Seq(Calls), waiters # <<>>, waiters' = Tail(waiters),
           \A i, j \in DOMAIN waiters : waiters[i] = waiters[j] => i = j
    PROVE  /\ waiters' \in Seq(Calls)
           /\ Head(waiters) \in Calls
           /\ InList(Head(waiters))
           /\ \A d : InList(d)' <=> InList(d) /\ d # Head(waiters)
           /\ \A i, j \in DOMAIN waiters' : waiters'[i] = waiters'[j] => i = j
<1>1. /\ waiters' \in Seq(Calls)
      /\ Head(waiters) \in Calls
      /\ Len(waiters') = Len(waiters) - 1
      /\ \A i \in 1..Len(waiters') : waiters'[i] = waiters[i + 1]
      /\ Head(waiters) = waiters[1]
  BY HeadTailProperties
<1>2. /\ DOMAIN waiters = 1..Len(waiters)
      /\ DOMAIN waiters' = 1..Len(waiters')
      /\ Len(waiters) \in Nat \ {0}
      /\ Len(waiters') \in Nat
  BY <1>1, LenProperties, EmptySeq
<1>3. InList(Head(waiters))
  BY <1>1, <1>2 DEF InList
<1>4. ASSUME NEW d PROVE InList(d)' <=> InList(d) /\ d # Head(waiters)
  <2>1. ASSUME InList(d)' PROVE InList(d) /\ d # Head(waiters)
    BY <1>1, <1>2, <2>1 DEF InList
  <2>2. ASSUME InList(d), d # Head(waiters) PROVE InList(d)'
    <3>1. PICK i \in 1..Len(waiters) : waiters[i] = d
      BY <1>2, <2>2 DEF InList
    <3>2. i - 1 \in 1..Len(waiters') /\ waiters'[i - 1] = d
      BY <1>1, <1>2, <2>2, <3>1
    <3>. QED  BY <1>2, <3>2 DEF InList
  <2>. QED  BY <2>1, <2>2
<1>5. \A i, j \in DOMAIN waiters' : waiters'[i] = waiters'[j] => i = j
  BY <1>1, <1>2
<1>. QED  BY <1>1, <1>3, <1>4, <1>5

\* A call that gives up is taken out of the middle of the list.
LEMMA RemoveFromList ==
    ASSUME waiters \in Seq(Calls), NEW k \in DOMAIN waiters, waiters' = Without(waiters, k),
           \A i, j \in DOMAIN waiters : waiters[i] = waiters[j] => i = j
    PROVE  /\ waiters' \in Seq(Calls)
           /\ \A d : InList(d)' <=> InList(d) /\ d # waiters[k]
           /\ \A i, j \in DOMAIN waiters' : waiters'[i] = waiters'[j] => i = j
<1> DEFINE n == Len(waiters)
<1>1. DOMAIN waiters = 1..n /\ n \in Nat /\ k \in 1..n /\ \A i \in 1..n : waiters[i] \in Calls
  BY LenProperties, ElementOfSeq
<1>2. /\ DOMAIN waiters' = 1..n - 1
      /\ \A j \in 1..n - 1 : waiters'[j] = IF j < k THEN waiters[j] ELSE waiters[j + 1]
  BY DEF Without
<1>. HIDE DEF n
<1>3. waiters' \in Seq(Calls)
  <2>1. n - 1 \in Nat
    BY <1>1
  <2>2. waiters' \in [1..n - 1 -> Calls]
    <3>1. waiters' = [j \in 1..n - 1 |-> IF j < k THEN waiters[j] ELSE waiters[j + 1]]
      BY DEF Without, n
    <3>2. \A j \in 1..n - 1 : (IF j < k THEN waiters[j] ELSE waiters[j + 1]) \in Calls
      BY <1>1
    <3>. QED  BY <3>1, <3>2
  <2>. QED  BY <2>1, <2>2, IsASeq
<1>4. ASSUME NEW d PROVE InList(d)' <=> InList(d) /\ d # waiters[k]
  <2>1. ASSUME InList(d)' PROVE InList(d) /\ d # waiters[k]
    BY <1>1, <1>2, <2>1 DEF InList
  <2>2. ASSUME InList(d), d # waiters[k] PROVE InList(d)'
    <3>1. PICK i \in 1..n : waiters[i] = d
      BY <1>1, <2>2 DEF InList
    <3>2. CASE i < k
      BY <1>1, <1>2, <3>1, <3>2 DEF InList
    <3>3. CASE i > k
      <4>1. i - 1 \in 1..n - 1 /\ waiters'[i - 1] = d
        BY <1>1, <1>2, <3>1, <3>3
      <4>. QED  BY <1>2, <4>1 DEF InList
    <3>. QED  BY <1>1, <2>2, <3>1, <3>2, <3>3
  <2>. QED  BY <2>1, <2>2
<1>5. ASSUME NEW i \in 1..n - 1, NEW j \in 1..n - 1, waiters'[i] = waiters'[j] PROVE i = j
  <2> DEFINE at(m) == IF m < k THEN m ELSE m + 1
  <2>1. waiters'[i] = waiters[at(i)] /\ waiters'[j] = waiters[at(j)]
    BY <1>2
  <2>2. at(i) \in 1..n /\ at(j) \in 1..n
    BY <1>1
  <2>3. at(i) = at(j)
    BY <1>1, <1>5, <2>1, <2>2
  <2>. QED  BY <1>1, <2>3
<1>. QED  BY <1>2, <1>3, <1>4, <1>5

-------------------------------------------------------------------------------
(* The invariant *)

LEMMA InitInv == Init => IInv
<1> SUFFICES ASSUME Init PROVE IInv
  OBVIOUS
<1>. USE GenLimiterAssumption DEF Init
<1>1. TypeOK
  BY EmptySeq DEF TypeOK, CallState, Outcome
<1>2. Holders = {} /\ LetIn = {} /\ Counted = {}
  BY DEF Holders, LetIn, Counted, Winning, Running, Queueing
<1>3. SlotsConserved /\ WaitersCounted
  BY <1>2, FS_EmptySet DEF SlotsConserved, WaitersCounted
<1>4. ParkedOnce
  BY DEF ParkedOnce, InList
<1>5. RunsMatchAttempts
  BY DEF RunsMatchAttempts, Final, Outcome
<1>. QED  BY <1>1, <1>3, <1>4, <1>5 DEF IInv

LEMMA ContextEndsInv ==
    ASSUME TypeOK, SlotsConserved, WaitersCounted, ParkedOnce, RunsMatchAttempts,
           NEW c \in Calls, ContextEnds(c)
    PROVE  IInv'
<1>a. pc' = pc /\ Holders' = Holders /\ LetIn' = LetIn /\ Counted' = Counted
  BY SameCounts DEF ContextEnds
<1>1. TypeOK'
  BY <1>a, GenLimiterAssumption DEF ContextEnds, TypeOK, Goto, Conclude, semaphoreVars, countVars, runVars, CallState, Outcome, Final, Queueing, Winning, Running
<1>2. SlotsConserved'
  BY <1>a DEF ContextEnds, SlotsConserved, semaphoreVars, countVars, runVars
<1>3. WaitersCounted'
  BY <1>a DEF ContextEnds, WaitersCounted, semaphoreVars, countVars, runVars
<1>4. ParkedOnce'
  BY <1>a DEF ContextEnds, ParkedOnce, TypeOK, InList, Goto, semaphoreVars, countVars, runVars
<1>5. RunsMatchAttempts'
  BY <1>a, GenLimiterAssumption DEF ContextEnds, RunsMatchAttempts, TypeOK, Goto, Conclude, semaphoreVars, countVars, runVars, CallState, Outcome, Final, Queueing, Winning, Running
<1>. QED  BY <1>1, <1>2, <1>3, <1>4, <1>5 DEF IInv

LEMMA TryAcquireFreeInv ==
    ASSUME TypeOK, SlotsConserved, WaitersCounted, ParkedOnce, RunsMatchAttempts,
           NEW c \in Calls, TryAcquire(c), SlotFree
    PROVE  IInv'
<1>a. Goto(c, "checking")
  BY DEF TryAcquire
<1>b. /\ Cardinality(Holders') = Cardinality(Holders) + 1
      /\ Cardinality(LetIn') = Cardinality(LetIn)
      /\ Cardinality(Counted') = Cardinality(Counted)
  BY <1>a, GotoCounts DEF TryAcquire, Has, Winning, Running, Queueing, Outcome
<1>c. Cardinality(Holders) \in Nat /\ Cardinality(LetIn) \in Nat /\ Cardinality(Counted) \in Nat
  BY <1>a, GotoCounts
<1>1. TypeOK'
  BY <1>a, GenLimiterAssumption DEF TryAcquire, SlotFree, TypeOK, Goto, Conclude, semaphoreVars, countVars, runVars, CallState, Outcome, Final, Queueing, Winning, Running
<1>2. SlotsConserved'
  BY <1>b, <1>c, GenLimiterAssumption DEF TryAcquire, SlotsConserved, SlotFree, TypeOK
<1>3. WaitersCounted'
  BY <1>b, <1>c, GenLimiterAssumption DEF TryAcquire, WaitersCounted, semaphoreVars, countVars, runVars
<1>4. ParkedOnce'
  BY <1>a DEF TryAcquire, ParkedOnce, TypeOK, InList, Goto, semaphoreVars, countVars, runVars
<1>5. RunsMatchAttempts'
  BY <1>a, GenLimiterAssumption DEF TryAcquire, RunsMatchAttempts, TypeOK, Goto, Conclude, semaphoreVars, countVars, runVars, CallState, Outcome, Final, Queueing, Winning, Running
<1>. QED  BY <1>1, <1>2, <1>3, <1>4, <1>5 DEF IInv

LEMMA TryAcquireBusyInv ==
    ASSUME TypeOK, SlotsConserved, WaitersCounted, ParkedOnce, RunsMatchAttempts,
           NEW c \in Calls, TryAcquire(c), ~SlotFree
    PROVE  IInv'
<1>a. Goto(c, "tried")
  BY DEF TryAcquire
<1>b. /\ Cardinality(Holders') = Cardinality(Holders)
      /\ Cardinality(LetIn') = Cardinality(LetIn)
      /\ Cardinality(Counted') = Cardinality(Counted)
  BY <1>a, GotoCounts DEF TryAcquire, Has, Winning, Running, Queueing, Outcome
<1>c. Cardinality(Holders) \in Nat /\ Cardinality(LetIn) \in Nat /\ Cardinality(Counted) \in Nat
  BY <1>a, GotoCounts
<1>1. TypeOK'
  BY <1>a, GenLimiterAssumption DEF TryAcquire, TypeOK, Goto, Conclude, semaphoreVars, countVars, runVars, CallState, Outcome, Final, Queueing, Winning, Running
<1>2. SlotsConserved'
  BY <1>b, <1>c DEF TryAcquire, SlotsConserved, semaphoreVars, countVars, runVars
<1>3. WaitersCounted'
  BY <1>b, <1>c, GenLimiterAssumption DEF TryAcquire, WaitersCounted, semaphoreVars, countVars, runVars
<1>4. ParkedOnce'
  BY <1>a DEF TryAcquire, ParkedOnce, TypeOK, InList, Goto, semaphoreVars, countVars, runVars
<1>5. RunsMatchAttempts'
  BY <1>a, GenLimiterAssumption DEF TryAcquire, RunsMatchAttempts, TypeOK, Goto, Conclude, semaphoreVars, countVars, runVars, CallState, Outcome, Final, Queueing, Winning, Running
<1>. QED  BY <1>1, <1>2, <1>3, <1>4, <1>5 DEF IInv

LEMMA CountWaiterOverInv ==
    ASSUME TypeOK, SlotsConserved, WaitersCounted, ParkedOnce, RunsMatchAttempts,
           NEW c \in Calls, CountWaiter(c), waiting + 1 > Queue
    PROVE  IInv'
<1>a. Goto(c, "over")
  BY DEF CountWaiter
<1>b. /\ Cardinality(Holders') = Cardinality(Holders)
      /\ Cardinality(LetIn') = Cardinality(LetIn)
      /\ Cardinality(Counted') = Cardinality(Counted) + 1
  BY <1>a, GotoCounts DEF CountWaiter, Has, Winning, Running, Queueing, Outcome
<1>c. Cardinality(Holders) \in Nat /\ Cardinality(LetIn) \in Nat /\ Cardinality(Counted) \in Nat
  BY <1>a, GotoCounts
<1>1. TypeOK'
  BY <1>a, GenLimiterAssumption DEF CountWaiter, TypeOK, Goto, Conclude, semaphoreVars, countVars, runVars, CallState, Outcome, Final, Queueing, Winning, Running
<1>2. SlotsConserved'
  BY <1>b, <1>c DEF CountWaiter, SlotsConserved, semaphoreVars, countVars, runVars
<1>3. WaitersCounted'
  BY <1>b, <1>c, GenLimiterAssumption DEF CountWaiter, WaitersCounted, TypeOK
<1>4. ParkedOnce'
  BY <1>a DEF CountWaiter, ParkedOnce, TypeOK, InList, Goto, semaphoreVars, countVars, runVars
<1>5. RunsMatchAttempts'
  BY <1>a, GenLimiterAssumption DEF CountWaiter, RunsMatchAttempts, TypeOK, Goto, Conclude, semaphoreVars, countVars, runVars, CallState, Outcome, Final, Queueing, Winning, Running
<1>. QED  BY <1>1, <1>2, <1>3, <1>4, <1>5 DEF IInv

LEMMA CountWaiterInInv ==
    ASSUME TypeOK, SlotsConserved, WaitersCounted, ParkedOnce, RunsMatchAttempts,
           NEW c \in Calls, CountWaiter(c), ~(waiting + 1 > Queue)
    PROVE  IInv'
<1>a. Goto(c, "counted")
  BY DEF CountWaiter
<1>b. /\ Cardinality(Holders') = Cardinality(Holders)
      /\ Cardinality(LetIn') = Cardinality(LetIn) + 1
      /\ Cardinality(Counted') = Cardinality(Counted) + 1
  BY <1>a, GotoCounts DEF CountWaiter, Has, Winning, Running, Queueing, Outcome
<1>c. Cardinality(Holders) \in Nat /\ Cardinality(LetIn) \in Nat /\ Cardinality(Counted) \in Nat
  BY <1>a, GotoCounts
<1>d. Cardinality(LetIn) <= Cardinality(Counted)
  BY LetInCounted
<1>1. TypeOK'
  BY <1>a, GenLimiterAssumption DEF CountWaiter, TypeOK, Goto, Conclude, semaphoreVars, countVars, runVars, CallState, Outcome, Final, Queueing, Winning, Running
<1>2. SlotsConserved'
  BY <1>b, <1>c DEF CountWaiter, SlotsConserved, semaphoreVars, countVars, runVars
<1>3. WaitersCounted'
  BY <1>b, <1>c, <1>d, GenLimiterAssumption DEF CountWaiter, WaitersCounted, TypeOK
<1>4. ParkedOnce'
  BY <1>a DEF CountWaiter, ParkedOnce, TypeOK, InList, Goto, semaphoreVars, countVars, runVars
<1>5. RunsMatchAttempts'
  BY <1>a, GenLimiterAssumption DEF CountWaiter, RunsMatchAttempts, TypeOK, Goto, Conclude, semaphoreVars, countVars, runVars, CallState, Outcome, Final, Queueing, Winning, Running
<1>. QED  BY <1>1, <1>2, <1>3, <1>4, <1>5 DEF IInv

LEMMA RejectOverInv ==
    ASSUME TypeOK, SlotsConserved, WaitersCounted, ParkedOnce, RunsMatchAttempts,
           NEW c \in Calls, RejectOver(c)
    PROVE  IInv'
<1>a. Goto(c, "overloaded")
  BY DEF RejectOver
<1>b. /\ Cardinality(Holders') = Cardinality(Holders)
      /\ Cardinality(LetIn') = Cardinality(LetIn)
      /\ Cardinality(Counted') = Cardinality(Counted) - 1
  BY <1>a, GotoCounts DEF RejectOver, Has, Winning, Running, Queueing, Outcome
<1>c. Cardinality(Holders) \in Nat /\ Cardinality(LetIn) \in Nat /\ Cardinality(Counted) \in Nat
  BY <1>a, GotoCounts
<1>d. Cardinality(LetIn) <= Cardinality(Counted)
  BY LetInCounted
<1>e. Cardinality(Counted') \in Nat
  BY <1>a, TypeAfterGoto
<1>f. waiting' = waiting - 1 /\ waiting' \in Nat
  BY <1>b, <1>c, <1>d, <1>e DEF RejectOver, WaitersCounted
<1>1. TypeOK'
  BY <1>a, <1>f DEF RejectOver, TypeOK, Goto, semaphoreVars, countVars, runVars, CallState, Outcome, Final, Queueing, Winning, Running
<1>2. SlotsConserved'
  BY <1>b, <1>c DEF RejectOver, SlotsConserved, semaphoreVars, countVars, runVars
<1>3. WaitersCounted'
  BY <1>b, <1>c, GenLimiterAssumption DEF RejectOver, WaitersCounted, semaphoreVars, countVars, runVars
<1>4. ParkedOnce'
  BY <1>a DEF RejectOver, ParkedOnce, TypeOK, InList, Goto, semaphoreVars, countVars, runVars
<1>5. RunsMatchAttempts'
  BY <1>a, GenLimiterAssumption DEF RejectOver, RunsMatchAttempts, TypeOK, Goto, Conclude, semaphoreVars, countVars, runVars, CallState, Outcome, Final, Queueing, Winning, Running
<1>. QED  BY <1>1, <1>2, <1>3, <1>4, <1>5 DEF IInv

LEMMA LoadWaitingInv ==
    ASSUME TypeOK, SlotsConserved, WaitersCounted, ParkedOnce, RunsMatchAttempts,
           NEW c \in Calls, LoadWaiting(c)
    PROVE  IInv'
<1>a. Goto(c, "publishing")
  BY DEF LoadWaiting
<1>b. /\ Cardinality(Holders') = Cardinality(Holders)
      /\ Cardinality(LetIn') = Cardinality(LetIn)
      /\ Cardinality(Counted') = Cardinality(Counted)
  BY <1>a, GotoCounts DEF LoadWaiting, Has, Winning, Running, Queueing, Outcome
<1>c. Cardinality(Holders) \in Nat /\ Cardinality(LetIn) \in Nat /\ Cardinality(Counted) \in Nat
  BY <1>a, GotoCounts
<1>1. TypeOK'
  BY <1>a, GenLimiterAssumption DEF LoadWaiting, TypeOK, Goto, Conclude, semaphoreVars, countVars, runVars, CallState, Outcome, Final, Queueing, Winning, Running
<1>2. SlotsConserved'
  BY <1>b, <1>c DEF LoadWaiting, SlotsConserved, semaphoreVars, countVars, runVars
<1>3. WaitersCounted'
  BY <1>b, <1>c, GenLimiterAssumption DEF LoadWaiting, WaitersCounted, semaphoreVars, countVars, runVars
<1>4. ParkedOnce'
  BY <1>a DEF LoadWaiting, ParkedOnce, TypeOK, InList, Goto, semaphoreVars, countVars, runVars
<1>5. RunsMatchAttempts'
  BY <1>a, GenLimiterAssumption DEF LoadWaiting, RunsMatchAttempts, TypeOK, Goto, Conclude, semaphoreVars, countVars, runVars, CallState, Outcome, Final, Queueing, Winning, Running
<1>. QED  BY <1>1, <1>2, <1>3, <1>4, <1>5 DEF IInv

LEMMA PublishWaitingInv ==
    ASSUME TypeOK, SlotsConserved, WaitersCounted, ParkedOnce, RunsMatchAttempts,
           NEW c \in Calls, PublishWaiting(c)
    PROVE  IInv'
<1>a. Goto(c, "enqueueing")
  BY DEF PublishWaiting
<1>b. /\ Cardinality(Holders') = Cardinality(Holders)
      /\ Cardinality(LetIn') = Cardinality(LetIn)
      /\ Cardinality(Counted') = Cardinality(Counted)
  BY <1>a, GotoCounts DEF PublishWaiting, Has, Winning, Running, Queueing, Outcome
<1>c. Cardinality(Holders) \in Nat /\ Cardinality(LetIn) \in Nat /\ Cardinality(Counted) \in Nat
  BY <1>a, GotoCounts
<1>1. TypeOK'
  BY <1>a, GenLimiterAssumption DEF PublishWaiting, TypeOK, Goto, Conclude, semaphoreVars, countVars, runVars, CallState, Outcome, Final, Queueing, Winning, Running
<1>2. SlotsConserved'
  BY <1>b, <1>c DEF PublishWaiting, SlotsConserved, semaphoreVars, countVars, runVars
<1>3. WaitersCounted'
  BY <1>b, <1>c, GenLimiterAssumption DEF PublishWaiting, WaitersCounted, semaphoreVars, countVars, runVars
<1>4. ParkedOnce'
  BY <1>a DEF PublishWaiting, ParkedOnce, TypeOK, InList, Goto, semaphoreVars, countVars, runVars
<1>5. RunsMatchAttempts'
  BY <1>a, GenLimiterAssumption DEF PublishWaiting, RunsMatchAttempts, TypeOK, Goto, Conclude, semaphoreVars, countVars, runVars, CallState, Outcome, Final, Queueing, Winning, Running
<1>. QED  BY <1>1, <1>2, <1>3, <1>4, <1>5 DEF IInv

LEMMA AcquireEndedInv ==
    ASSUME TypeOK, SlotsConserved, WaitersCounted, ParkedOnce, RunsMatchAttempts,
           NEW c \in Calls, Acquire(c), c \in ended
    PROVE  IInv'
<1>a. Goto(c, "gaveUp")
  BY DEF Acquire
<1>b. /\ Cardinality(Holders') = Cardinality(Holders)
      /\ Cardinality(LetIn') = Cardinality(LetIn)
      /\ Cardinality(Counted') = Cardinality(Counted)
  BY <1>a, GotoCounts DEF Acquire, Has, Winning, Running, Queueing, Outcome
<1>c. Cardinality(Holders) \in Nat /\ Cardinality(LetIn) \in Nat /\ Cardinality(Counted) \in Nat
  BY <1>a, GotoCounts
<1>1. TypeOK'
  BY <1>a, GenLimiterAssumption DEF Acquire, TypeOK, Goto, Conclude, semaphoreVars, countVars, runVars, CallState, Outcome, Final, Queueing, Winning, Running
<1>2. SlotsConserved'
  BY <1>b, <1>c DEF Acquire, SlotsConserved, semaphoreVars, countVars, runVars
<1>3. WaitersCounted'
  BY <1>b, <1>c, GenLimiterAssumption DEF Acquire, WaitersCounted, semaphoreVars, countVars, runVars
<1>4. ParkedOnce'
  BY <1>a DEF Acquire, ParkedOnce, TypeOK, InList, Goto, semaphoreVars, countVars, runVars
<1>5. RunsMatchAttempts'
  BY <1>a, GenLimiterAssumption DEF Acquire, RunsMatchAttempts, TypeOK, Goto, Conclude, semaphoreVars, countVars, runVars, CallState, Outcome, Final, Queueing, Winning, Running
<1>. QED  BY <1>1, <1>2, <1>3, <1>4, <1>5 DEF IInv

LEMMA AcquireFreeInv ==
    ASSUME TypeOK, SlotsConserved, WaitersCounted, ParkedOnce, RunsMatchAttempts,
           NEW c \in Calls, Acquire(c), c \notin ended, SlotFree
    PROVE  IInv'
<1>a. Goto(c, "won")
  BY DEF Acquire
<1>b. /\ Cardinality(Holders') = Cardinality(Holders) + 1
      /\ Cardinality(LetIn') = Cardinality(LetIn)
      /\ Cardinality(Counted') = Cardinality(Counted)
  BY <1>a, GotoCounts DEF Acquire, Has, Winning, Running, Queueing, Outcome
<1>c. Cardinality(Holders) \in Nat /\ Cardinality(LetIn) \in Nat /\ Cardinality(Counted) \in Nat
  BY <1>a, GotoCounts
<1>d. cur' = cur + 1 /\ cur' \in 0..Slots
  BY GenLimiterAssumption DEF Acquire, SlotFree, TypeOK
<1>1. TypeOK'
  BY <1>a, <1>d DEF Acquire, SlotFree, TypeOK, Goto, semaphoreVars, countVars, runVars, CallState, Outcome, Final, Queueing, Winning, Running
<1>2. SlotsConserved'
  BY <1>b, <1>c, GenLimiterAssumption DEF Acquire, SlotsConserved, SlotFree, TypeOK
<1>3. WaitersCounted'
  BY <1>b, <1>c, GenLimiterAssumption DEF Acquire, WaitersCounted, semaphoreVars, countVars, runVars
<1>4. ParkedOnce'
  BY <1>a DEF Acquire, ParkedOnce, TypeOK, InList, Goto, semaphoreVars, countVars, runVars
<1>5. RunsMatchAttempts'
  BY <1>a, GenLimiterAssumption DEF Acquire, RunsMatchAttempts, TypeOK, Goto, Conclude, semaphoreVars, countVars, runVars, CallState, Outcome, Final, Queueing, Winning, Running
<1>. QED  BY <1>1, <1>2, <1>3, <1>4, <1>5 DEF IInv

LEMMA AcquireParkInv ==
    ASSUME TypeOK, SlotsConserved, WaitersCounted, ParkedOnce, RunsMatchAttempts,
           NEW c \in Calls, Acquire(c), c \notin ended, ~SlotFree
    PROVE  IInv'
<1>a. Goto(c, "queued") /\ pc[c] = "enqueueing"
  BY DEF Acquire
<1>b. /\ Cardinality(Holders') = Cardinality(Holders)
      /\ Cardinality(LetIn') = Cardinality(LetIn)
      /\ Cardinality(Counted') = Cardinality(Counted)
  BY <1>a, GotoCounts DEF Has, Winning, Running, Queueing
<1>c. Cardinality(Holders) \in Nat /\ Cardinality(LetIn) \in Nat /\ Cardinality(Counted) \in Nat
  BY <1>a, GotoCounts
<1>d. /\ waiters' \in Seq(Calls)
      /\ waiters' # <<>>
      /\ \A d : InList(d)' <=> InList(d) \/ d = c
      /\ \A i, j \in DOMAIN waiters' : waiters'[i] = waiters'[j] => i = j
  BY AppendToList DEF Acquire, TypeOK, ParkedOnce
<1>1. TypeOK'
  BY <1>a, <1>d DEF Acquire, TypeOK, Goto, semaphoreVars, countVars, runVars, CallState, Outcome, Final, Queueing, Winning, Running
<1>2. SlotsConserved'
  BY <1>b, <1>c, <1>d, GenLimiterAssumption DEF Acquire, SlotsConserved, SlotFree, TypeOK
<1>3. WaitersCounted'
  BY <1>b, <1>c, GenLimiterAssumption DEF Acquire, WaitersCounted, semaphoreVars, countVars, runVars
<1>4. ParkedOnce'
  BY <1>a, <1>d DEF Acquire, ParkedOnce, TypeOK, Goto
<1>5. RunsMatchAttempts'
  BY <1>a, GenLimiterAssumption DEF Acquire, RunsMatchAttempts, TypeOK, Goto, Conclude, semaphoreVars, countVars, runVars, CallState, Outcome, Final, Queueing, Winning, Running
<1>. QED  BY <1>1, <1>2, <1>3, <1>4, <1>5 DEF IInv

LEMMA GiveUpInv ==
    ASSUME TypeOK, SlotsConserved, WaitersCounted, ParkedOnce, RunsMatchAttempts,
           NEW c \in Calls, GiveUp(c)
    PROVE  IInv'
<1>a. Goto(c, "gaveUp")
  BY DEF GiveUp
<1>b. /\ Cardinality(Holders') = Cardinality(Holders)
      /\ Cardinality(LetIn') = Cardinality(LetIn)
      /\ Cardinality(Counted') = Cardinality(Counted)
  BY <1>a, GotoCounts DEF GiveUp, Has, Winning, Running, Queueing, Outcome
<1>c. Cardinality(Holders) \in Nat /\ Cardinality(LetIn) \in Nat /\ Cardinality(Counted) \in Nat
  BY <1>a, GotoCounts
<1>d. /\ waiters' \in Seq(Calls)
      /\ waiters # <<>>
      /\ \A d : InList(d)' <=> InList(d) /\ d # c
      /\ \A i, j \in DOMAIN waiters' : waiters'[i] = waiters'[j] => i = j
  <2>1. PICK k \in DOMAIN waiters : waiters[k] = c /\ waiters' = Without(waiters, k)
    BY DEF GiveUp
  <2>2. waiters # <<>>
    BY <2>1, EmptySeq, LenProperties DEF TypeOK
  <2>. QED  BY <2>1, <2>2, RemoveFromList DEF TypeOK, ParkedOnce
<1>1. TypeOK'
  BY <1>a, <1>d DEF GiveUp, TypeOK, Goto, semaphoreVars, countVars, runVars, CallState, Outcome, Final, Queueing, Winning, Running
<1>2. SlotsConserved'
  BY <1>b, <1>c, <1>d DEF GiveUp, SlotsConserved
<1>3. WaitersCounted'
  BY <1>b, <1>c, GenLimiterAssumption DEF GiveUp, WaitersCounted, semaphoreVars, countVars, runVars
<1>4. ParkedOnce'
  BY <1>a, <1>d DEF GiveUp, ParkedOnce, TypeOK, Goto
<1>5. RunsMatchAttempts'
  BY <1>a, GenLimiterAssumption DEF GiveUp, RunsMatchAttempts, TypeOK, Goto, Conclude, semaphoreVars, countVars, runVars, CallState, Outcome, Final, Queueing, Winning, Running
<1>. QED  BY <1>1, <1>2, <1>3, <1>4, <1>5 DEF IInv

LEMMA TakeGrantKeepInv ==
    ASSUME TypeOK, SlotsConserved, WaitersCounted, ParkedOnce, RunsMatchAttempts,
           NEW c \in Calls, TakeGrant(c), c \notin ended
    PROVE  IInv'
<1>a. Goto(c, "won")
  BY DEF TakeGrant
<1>b. /\ Cardinality(Holders') = Cardinality(Holders)
      /\ Cardinality(LetIn') = Cardinality(LetIn)
      /\ Cardinality(Counted') = Cardinality(Counted)
  BY <1>a, GotoCounts DEF TakeGrant, Has, Winning, Running, Queueing, Outcome
<1>c. Cardinality(Holders) \in Nat /\ Cardinality(LetIn) \in Nat /\ Cardinality(Counted) \in Nat
  BY <1>a, GotoCounts
<1>1. TypeOK'
  BY <1>a, GenLimiterAssumption DEF TakeGrant, TypeOK, Goto, Conclude, semaphoreVars, countVars, runVars, CallState, Outcome, Final, Queueing, Winning, Running
<1>2. SlotsConserved'
  BY <1>b, <1>c DEF TakeGrant, SlotsConserved, semaphoreVars, countVars, runVars
<1>3. WaitersCounted'
  BY <1>b, <1>c, GenLimiterAssumption DEF TakeGrant, WaitersCounted, semaphoreVars, countVars, runVars
<1>4. ParkedOnce'
  BY <1>a DEF TakeGrant, ParkedOnce, TypeOK, InList, Goto, semaphoreVars, countVars, runVars
<1>5. RunsMatchAttempts'
  BY <1>a, GenLimiterAssumption DEF TakeGrant, RunsMatchAttempts, TypeOK, Goto, Conclude, semaphoreVars, countVars, runVars, CallState, Outcome, Final, Queueing, Winning, Running
<1>. QED  BY <1>1, <1>2, <1>3, <1>4, <1>5 DEF IInv

LEMMA LeaveQueueWonInv ==
    ASSUME TypeOK, SlotsConserved, WaitersCounted, ParkedOnce, RunsMatchAttempts,
           NEW c \in Calls, LeaveQueue(c), pc[c] = "won"
    PROVE  IInv'
<1>a. Goto(c, "wonLeft")
  BY DEF LeaveQueue
<1>b. /\ Cardinality(Holders') = Cardinality(Holders)
      /\ Cardinality(LetIn') = Cardinality(LetIn) - 1
      /\ Cardinality(Counted') = Cardinality(Counted) - 1
  BY <1>a, GotoCounts DEF LeaveQueue, Has, Winning, Running, Queueing, Outcome
<1>c. Cardinality(Holders) \in Nat /\ Cardinality(LetIn) \in Nat /\ Cardinality(Counted) \in Nat
  BY <1>a, GotoCounts
<1>e. Cardinality(Counted') \in Nat
  BY <1>a, TypeAfterGoto
<1>f. waiting' = waiting - 1 /\ waiting' \in Nat
  BY <1>b, <1>c, <1>e DEF LeaveQueue, WaitersCounted
<1>1. TypeOK'
  BY <1>a, <1>f DEF LeaveQueue, TypeOK, Goto, semaphoreVars, countVars, runVars, CallState, Outcome, Final, Queueing, Winning, Running
<1>2. SlotsConserved'
  BY <1>b, <1>c DEF LeaveQueue, SlotsConserved, semaphoreVars, countVars, runVars
<1>3. WaitersCounted'
  BY <1>b, <1>c, GenLimiterAssumption DEF LeaveQueue, WaitersCounted, semaphoreVars, countVars, runVars
<1>4. ParkedOnce'
  BY <1>a DEF LeaveQueue, ParkedOnce, TypeOK, InList, Goto, semaphoreVars, countVars, runVars
<1>5. RunsMatchAttempts'
  BY <1>a, GenLimiterAssumption DEF LeaveQueue, RunsMatchAttempts, TypeOK, Goto, Conclude, semaphoreVars, countVars, runVars, CallState, Outcome, Final, Queueing, Winning, Running
<1>. QED  BY <1>1, <1>2, <1>3, <1>4, <1>5 DEF IInv

LEMMA LeaveQueueGaveUpInv ==
    ASSUME TypeOK, SlotsConserved, WaitersCounted, ParkedOnce, RunsMatchAttempts,
           NEW c \in Calls, LeaveQueue(c), pc[c] = "gaveUp"
    PROVE  IInv'
<1>a. Goto(c, "gaveUpLeft")
  BY DEF LeaveQueue
<1>b. /\ Cardinality(Holders') = Cardinality(Holders)
      /\ Cardinality(LetIn') = Cardinality(LetIn) - 1
      /\ Cardinality(Counted') = Cardinality(Counted) - 1
  BY <1>a, GotoCounts DEF LeaveQueue, Has, Winning, Running, Queueing, Outcome
<1>c. Cardinality(Holders) \in Nat /\ Cardinality(LetIn) \in Nat /\ Cardinality(Counted) \in Nat
  BY <1>a, GotoCounts
<1>e. Cardinality(Counted') \in Nat
  BY <1>a, TypeAfterGoto
<1>f. waiting' = waiting - 1 /\ waiting' \in Nat
  BY <1>b, <1>c, <1>e DEF LeaveQueue, WaitersCounted
<1>1. TypeOK'
  BY <1>a, <1>f DEF LeaveQueue, TypeOK, Goto, semaphoreVars, countVars, runVars, CallState, Outcome, Final, Queueing, Winning, Running
<1>2. SlotsConserved'
  BY <1>b, <1>c DEF LeaveQueue, SlotsConserved, semaphoreVars, countVars, runVars
<1>3. WaitersCounted'
  BY <1>b, <1>c, GenLimiterAssumption DEF LeaveQueue, WaitersCounted, semaphoreVars, countVars, runVars
<1>4. ParkedOnce'
  BY <1>a DEF LeaveQueue, ParkedOnce, TypeOK, InList, Goto, semaphoreVars, countVars, runVars
<1>5. RunsMatchAttempts'
  BY <1>a, GenLimiterAssumption DEF LeaveQueue, RunsMatchAttempts, TypeOK, Goto, Conclude, semaphoreVars, countVars, runVars, CallState, Outcome, Final, Queueing, Winning, Running
<1>. QED  BY <1>1, <1>2, <1>3, <1>4, <1>5 DEF IInv

LEMMA PublishLeftWonInv ==
    ASSUME TypeOK, SlotsConserved, WaitersCounted, ParkedOnce, RunsMatchAttempts,
           NEW c \in Calls, PublishLeft(c), pc[c] = "wonLeft"
    PROVE  IInv'
<1>a. Goto(c, "checking")
  BY DEF PublishLeft
<1>b. /\ Cardinality(Holders') = Cardinality(Holders)
      /\ Cardinality(LetIn') = Cardinality(LetIn)
      /\ Cardinality(Counted') = Cardinality(Counted)
  BY <1>a, GotoCounts DEF PublishLeft, Has, Winning, Running, Queueing, Outcome
<1>c. Cardinality(Holders) \in Nat /\ Cardinality(LetIn) \in Nat /\ Cardinality(Counted) \in Nat
  BY <1>a, GotoCounts
<1>1. TypeOK'
  BY <1>a, GenLimiterAssumption DEF PublishLeft, TypeOK, Goto, Conclude, semaphoreVars, countVars, runVars, CallState, Outcome, Final, Queueing, Winning, Running
<1>2. SlotsConserved'
  BY <1>b, <1>c DEF PublishLeft, SlotsConserved, semaphoreVars, countVars, runVars
<1>3. WaitersCounted'
  BY <1>b, <1>c, GenLimiterAssumption DEF PublishLeft, WaitersCounted, semaphoreVars, countVars, runVars
<1>4. ParkedOnce'
  BY <1>a DEF PublishLeft, ParkedOnce, TypeOK, InList, Goto, semaphoreVars, countVars, runVars
<1>5. RunsMatchAttempts'
  BY <1>a, GenLimiterAssumption DEF PublishLeft, RunsMatchAttempts, TypeOK, Goto, Conclude, semaphoreVars, countVars, runVars, CallState, Outcome, Final, Queueing, Winning, Running
<1>. QED  BY <1>1, <1>2, <1>3, <1>4, <1>5 DEF IInv

LEMMA PublishLeftGaveUpInv ==
    ASSUME TypeOK, SlotsConserved, WaitersCounted, ParkedOnce, RunsMatchAttempts,
           NEW c \in Calls, PublishLeft(c), pc[c] = "gaveUpLeft"
    PROVE  IInv'
<1>a. Goto(c, "cancelled")
  BY DEF PublishLeft
<1>b. /\ Cardinality(Holders') = Cardinality(Holders)
      /\ Cardinality(LetIn') = Cardinality(LetIn)
      /\ Cardinality(Counted') = Cardinality(Counted)
  BY <1>a, GotoCounts DEF PublishLeft, Has, Winning, Running, Queueing, Outcome
<1>c. Cardinality(Holders) \in Nat /\ Cardinality(LetIn) \in Nat /\ Cardinality(Counted) \in Nat
  BY <1>a, GotoCounts
<1>1. TypeOK'
  BY <1>a, GenLimiterAssumption DEF PublishLeft, TypeOK, Goto, Conclude, semaphoreVars, countVars, runVars, CallState, Outcome, Final, Queueing, Winning, Running
<1>2. SlotsConserved'
  BY <1>b, <1>c DEF PublishLeft, SlotsConserved, semaphoreVars, countVars, runVars
<1>3. WaitersCounted'
  BY <1>b, <1>c, GenLimiterAssumption DEF PublishLeft, WaitersCounted, semaphoreVars, countVars, runVars
<1>4. ParkedOnce'
  BY <1>a DEF PublishLeft, ParkedOnce, TypeOK, InList, Goto, semaphoreVars, countVars, runVars
<1>5. RunsMatchAttempts'
  BY <1>a, GenLimiterAssumption DEF PublishLeft, RunsMatchAttempts, TypeOK, Goto, Conclude, semaphoreVars, countVars, runVars, CallState, Outcome, Final, Queueing, Winning, Running
<1>. QED  BY <1>1, <1>2, <1>3, <1>4, <1>5 DEF IInv

LEMMA CheckContextRunInv ==
    ASSUME TypeOK, SlotsConserved, WaitersCounted, ParkedOnce, RunsMatchAttempts,
           NEW c \in Calls, CheckContext(c), c \notin ended
    PROVE  IInv'
<1>a. Goto(c, "executing")
  BY GenLimiterAssumption DEF CheckContext, TypeOK
<1>b. /\ Cardinality(Holders') = Cardinality(Holders)
      /\ Cardinality(LetIn') = Cardinality(LetIn)
      /\ Cardinality(Counted') = Cardinality(Counted)
  BY <1>a, GotoCounts DEF CheckContext, Has, Winning, Running, Queueing, Outcome
<1>c. Cardinality(Holders) \in Nat /\ Cardinality(LetIn) \in Nat /\ Cardinality(Counted) \in Nat
  BY <1>a, GotoCounts
<1>1. TypeOK'
  BY <1>a, GenLimiterAssumption DEF CheckContext, TypeOK, Goto, Conclude, semaphoreVars, countVars, runVars, CallState, Outcome, Final, Queueing, Winning, Running
<1>2. SlotsConserved'
  BY <1>b, <1>c DEF CheckContext, SlotsConserved, semaphoreVars, countVars, runVars
<1>3. WaitersCounted'
  BY <1>b, <1>c, GenLimiterAssumption DEF CheckContext, WaitersCounted, semaphoreVars, countVars, runVars
<1>4. ParkedOnce'
  BY <1>a DEF CheckContext, ParkedOnce, TypeOK, InList, Goto, semaphoreVars, countVars, runVars
<1>5. RunsMatchAttempts'
  BY <1>a, GenLimiterAssumption DEF CheckContext, RunsMatchAttempts, TypeOK, Goto, Conclude, semaphoreVars, countVars, runVars, CallState, Outcome, Final, Queueing, Winning, Running
<1>. QED  BY <1>1, <1>2, <1>3, <1>4, <1>5 DEF IInv

LEMMA CheckContextCancelInv ==
    ASSUME TypeOK, SlotsConserved, WaitersCounted, ParkedOnce, RunsMatchAttempts,
           NEW c \in Calls, CheckContext(c), c \in ended
    PROVE  IInv'
<1>a. Goto(c, "accounting")
  BY DEF CheckContext, Conclude
<1>b. /\ Cardinality(Holders') = Cardinality(Holders)
      /\ Cardinality(LetIn') = Cardinality(LetIn)
      /\ Cardinality(Counted') = Cardinality(Counted)
  BY <1>a, GotoCounts DEF CheckContext, Has, Winning, Running, Queueing, Outcome, Conclude
<1>c. Cardinality(Holders) \in Nat /\ Cardinality(LetIn) \in Nat /\ Cardinality(Counted) \in Nat
  BY <1>a, GotoCounts
<1>1. TypeOK'
  BY <1>a, GenLimiterAssumption DEF CheckContext, TypeOK, Goto, Conclude, semaphoreVars, countVars, runVars, CallState, Outcome, Final, Queueing, Winning, Running
<1>2. SlotsConserved'
  BY <1>b, <1>c DEF CheckContext, SlotsConserved, semaphoreVars, countVars, runVars
<1>3. WaitersCounted'
  BY <1>b, <1>c, GenLimiterAssumption DEF CheckContext, WaitersCounted, semaphoreVars, countVars, runVars
<1>4. ParkedOnce'
  BY <1>a DEF CheckContext, ParkedOnce, TypeOK, InList, Goto, semaphoreVars, countVars, runVars
<1>5. RunsMatchAttempts'
  BY <1>a, GenLimiterAssumption DEF CheckContext, RunsMatchAttempts, TypeOK, Goto, Conclude, semaphoreVars, countVars, runVars, CallState, Outcome, Final, Queueing, Winning, Running
<1>. QED  BY <1>1, <1>2, <1>3, <1>4, <1>5 DEF IInv

LEMMA ExecuteInv ==
    ASSUME TypeOK, SlotsConserved, WaitersCounted, ParkedOnce, RunsMatchAttempts,
           NEW c \in Calls, Execute(c)
    PROVE  IInv'
<1>a. PICK l \in {"accounting", "releasing"} : Goto(c, l)
  BY DEF Execute, Conclude
<1>b. /\ Cardinality(Holders') = Cardinality(Holders)
      /\ Cardinality(LetIn') = Cardinality(LetIn)
      /\ Cardinality(Counted') = Cardinality(Counted)
  BY <1>a, GotoCounts DEF Execute, Has, Winning, Running, Queueing, Outcome, Conclude
<1>c. Cardinality(Holders) \in Nat /\ Cardinality(LetIn) \in Nat /\ Cardinality(Counted) \in Nat
  BY <1>a, GotoCounts
<1>1. TypeOK'
  BY <1>a, GenLimiterAssumption DEF Execute, TypeOK, Goto, Conclude, semaphoreVars, countVars, runVars, CallState, Outcome, Final, Queueing, Winning, Running
<1>2. SlotsConserved'
  BY <1>b, <1>c DEF Execute, SlotsConserved, semaphoreVars, countVars, runVars
<1>3. WaitersCounted'
  BY <1>b, <1>c, GenLimiterAssumption DEF Execute, WaitersCounted, semaphoreVars, countVars, runVars
<1>4. ParkedOnce'
  BY <1>a DEF Execute, ParkedOnce, TypeOK, InList, Goto, semaphoreVars, countVars, runVars
<1>5. RunsMatchAttempts'
  BY <1>a, GenLimiterAssumption DEF Execute, RunsMatchAttempts, TypeOK, Goto, Conclude, semaphoreVars, countVars, runVars, CallState, Outcome, Final, Queueing, Winning, Running
<1>. QED  BY <1>1, <1>2, <1>3, <1>4, <1>5 DEF IInv

LEMMA CountFailureInv ==
    ASSUME TypeOK, SlotsConserved, WaitersCounted, ParkedOnce, RunsMatchAttempts,
           NEW c \in Calls, CountFailure(c)
    PROVE  IInv'
<1>a. Goto(c, "releasing")
  BY DEF CountFailure
<1>b. /\ Cardinality(Holders') = Cardinality(Holders)
      /\ Cardinality(LetIn') = Cardinality(LetIn)
      /\ Cardinality(Counted') = Cardinality(Counted)
  BY <1>a, GotoCounts DEF CountFailure, Has, Winning, Running, Queueing
<1>c. Cardinality(Holders) \in Nat /\ Cardinality(LetIn) \in Nat /\ Cardinality(Counted) \in Nat
  BY <1>a, GotoCounts
<1>1. TypeOK'
  BY <1>a DEF CountFailure, TypeOK, Goto, semaphoreVars, countVars, CallState, Running
<1>2. SlotsConserved'
  BY <1>b, <1>c DEF CountFailure, SlotsConserved, semaphoreVars
<1>3. WaitersCounted'
  BY <1>b, <1>c, GenLimiterAssumption DEF CountFailure, WaitersCounted, countVars
<1>4. ParkedOnce'
  BY <1>a DEF CountFailure, ParkedOnce, TypeOK, InList, Goto, semaphoreVars
<1>5. RunsMatchAttempts'
  BY <1>a, GenLimiterAssumption DEF CountFailure, RunsMatchAttempts, TypeOK, Goto, Final, Outcome
<1>. QED  BY <1>1, <1>2, <1>3, <1>4, <1>5 DEF IInv

LEMMA ExecuteLastInv ==
    ASSUME TypeOK, SlotsConserved, WaitersCounted, ParkedOnce, RunsMatchAttempts,
           NEW c \in Calls, ExecuteTransient(c), attempt[c] = MaxAttempts
    PROVE  IInv'
<1>a. Goto(c, "accounting")
  BY DEF ExecuteTransient, Conclude
<1>b. /\ Cardinality(Holders') = Cardinality(Holders)
      /\ Cardinality(LetIn') = Cardinality(LetIn)
      /\ Cardinality(Counted') = Cardinality(Counted)
  BY <1>a, GotoCounts DEF ExecuteTransient, Has, Winning, Running, Queueing, Outcome, Conclude
<1>c. Cardinality(Holders) \in Nat /\ Cardinality(LetIn) \in Nat /\ Cardinality(Counted) \in Nat
  BY <1>a, GotoCounts
<1>d. runs' \in [Calls -> Nat] /\ attempt' \in [Calls -> Nat]
  BY DEF ExecuteTransient, TypeOK
<1>1. TypeOK'
  BY <1>a, <1>d DEF ExecuteTransient, TypeOK, Goto, Conclude, semaphoreVars, countVars, CallState, Outcome, Final, Queueing, Winning, Running
<1>2. SlotsConserved'
  BY <1>b, <1>c DEF ExecuteTransient, SlotsConserved, semaphoreVars, countVars, runVars
<1>3. WaitersCounted'
  BY <1>b, <1>c, GenLimiterAssumption DEF ExecuteTransient, WaitersCounted, semaphoreVars, countVars, runVars
<1>4. ParkedOnce'
  BY <1>a DEF ExecuteTransient, ParkedOnce, TypeOK, InList, Goto, semaphoreVars, countVars, runVars
<1>5. RunsMatchAttempts'
  BY <1>a, GenLimiterAssumption DEF ExecuteTransient, MaxAttempts, RunsMatchAttempts, TypeOK, Goto, Conclude, semaphoreVars, countVars, runVars, CallState, Outcome, Final, Queueing, Winning, Running
<1>. QED  BY <1>1, <1>2, <1>3, <1>4, <1>5 DEF IInv

LEMMA ExecuteRetryInv ==
    ASSUME TypeOK, SlotsConserved, WaitersCounted, ParkedOnce, RunsMatchAttempts,
           NEW c \in Calls, ExecuteTransient(c), attempt[c] # MaxAttempts
    PROVE  IInv'
<1>a. Goto(c, "checking")
  BY DEF ExecuteTransient, Conclude
<1>b. /\ Cardinality(Holders') = Cardinality(Holders)
      /\ Cardinality(LetIn') = Cardinality(LetIn)
      /\ Cardinality(Counted') = Cardinality(Counted)
  BY <1>a, GotoCounts DEF ExecuteTransient, Has, Winning, Running, Queueing, Outcome, Conclude
<1>c. Cardinality(Holders) \in Nat /\ Cardinality(LetIn) \in Nat /\ Cardinality(Counted) \in Nat
  BY <1>a, GotoCounts
<1>d. runs' \in [Calls -> Nat] /\ attempt' \in [Calls -> Nat]
  <2>1. runs' = [runs EXCEPT ![c] = @ + 1] /\ attempt' = [attempt EXCEPT ![c] = @ + 1]
    BY DEF ExecuteTransient
  <2>2. runs[c] + 1 \in Nat /\ attempt[c] + 1 \in Nat
    BY DEF TypeOK
  <2>. QED  BY <2>1, <2>2 DEF TypeOK
<1>1. TypeOK'
  BY <1>a, <1>d DEF ExecuteTransient, TypeOK, Goto, Conclude, semaphoreVars, countVars, CallState, Outcome, Final, Queueing, Winning, Running
<1>2. SlotsConserved'
  BY <1>b, <1>c DEF ExecuteTransient, SlotsConserved, semaphoreVars, countVars, runVars
<1>3. WaitersCounted'
  BY <1>b, <1>c, GenLimiterAssumption DEF ExecuteTransient, WaitersCounted, semaphoreVars, countVars, runVars
<1>4. ParkedOnce'
  BY <1>a DEF ExecuteTransient, ParkedOnce, TypeOK, InList, Goto, semaphoreVars, countVars, runVars
<1>5. RunsMatchAttempts'
  BY <1>a, GenLimiterAssumption DEF ExecuteTransient, MaxAttempts, RunsMatchAttempts, TypeOK, Goto, Conclude, semaphoreVars, countVars, runVars, CallState, Outcome, Final, Queueing, Winning, Running
<1>. QED  BY <1>1, <1>2, <1>3, <1>4, <1>5 DEF IInv

\* What ReleaseSlot does to the three counts and to the list, when it is called
\* by a call that holds a slot and leaves for a state without one.
LEMMA ReleaseSlotEffect ==
    ASSUME TypeOK, SlotsConserved, ParkedOnce, NEW c \in Calls, NEW l,
           ReleaseSlot(c, l), pc[c] \in {"granted", "releasing"},
           pc[c] = "granted" => l = "gaveUp",
           pc[c] = "releasing" => l \in Outcome
    PROVE  /\ cur' = Cardinality(Holders') /\ cur' \in 0..Slots
           /\ waiters' # <<>> => cur' = Slots
           /\ waiters' \in Seq(Calls)
           /\ pc' \in [Calls -> CallState]
           /\ LetIn' = LetIn /\ Counted' = Counted
           /\ ParkedOnce'
           /\ pc'[c] = l
           /\ \A d \in Calls \ {c} :
                 pc'[d] = pc[d] \/ (pc[d] = "queued" /\ pc'[d] = "granted")
<1>a. l \in CallState /\ l \notin Winning \union Running /\ l # "queued" /\ l # "over"
  BY DEF CallState, Final, Outcome, Queueing, Winning, Running
<1>b. c \in Holders /\ IsFiniteSet(Holders) /\ Cardinality(Holders) \in Nat
  BY FS_Subset, FS_CardinalityType, GenLimiterAssumption DEF Holders, Winning, Running
<1>1. CASE waiters = <<>>
  <2>1. waiters' = waiters /\ cur' = cur - 1 /\ pc' = [pc EXCEPT ![c] = l]
    BY <1>1, EmptySeq DEF ReleaseSlot, Goto
  <2>2. \A d \in Calls : pc'[d] = IF d = c THEN l ELSE pc[d]
    BY <2>1 DEF TypeOK
  <2>3. Holders' = Holders \ {c}
    BY <1>a, <2>2 DEF Holders
  <2>4. Cardinality(Holders') = Cardinality(Holders) - 1 /\ Cardinality(Holders') \in Nat
    BY <1>b, <2>3, FS_RemoveElement, FS_CardinalityType
  <2>5. cur' = Cardinality(Holders') /\ cur' \in 0..Slots
    BY <2>1, <2>4, GenLimiterAssumption DEF SlotsConserved, TypeOK
  <2>6. pc' \in [Calls -> CallState]
    BY <1>a, <2>1 DEF TypeOK
  <2>7. LetIn' = LetIn /\ Counted' = Counted
    BY <1>a, <2>2 DEF LetIn, Counted, Outcome, Queueing, Winning
  <2>8. ParkedOnce'
    BY <1>a, <2>1, <2>2 DEF ParkedOnce, InList
  <2>. QED  BY <1>1, <2>1, <2>2, <2>5, <2>6, <2>7, <2>8 DEF TypeOK
<1>2. CASE waiters # <<>>
  <2> DEFINE h == Head(waiters)
  <2>1. waiters' = Tail(waiters) /\ cur' = cur /\ pc' = [pc EXCEPT ![c] = l, ![h] = "granted"]
    BY <1>2 DEF ReleaseSlot
  <2>2. /\ waiters' \in Seq(Calls)
        /\ h \in Calls /\ InList(h)
        /\ \A d : InList(d)' <=> InList(d) /\ d # h
        /\ \A i, j \in DOMAIN waiters' : waiters'[i] = waiters'[j] => i = j
    BY <1>2, <2>1, TakeFirstParked DEF TypeOK, ParkedOnce
  <2>3. pc[h] = "queued" /\ h # c
    BY <2>2 DEF ParkedOnce
  <2>. HIDE DEF h
  <2>4. \A d \in Calls : pc'[d] = IF d = h THEN "granted" ELSE IF d = c THEN l ELSE pc[d]
    BY <2>1, <2>2, <2>3 DEF TypeOK
  <2>5. Holders' = (Holders \ {c}) \union {h} /\ h \notin Holders \ {c}
    BY <1>a, <2>2, <2>3, <2>4 DEF Holders, Winning, Running
  <2>6. /\ IsFiniteSet(Holders \ {c})
        /\ Cardinality(Holders \ {c}) = Cardinality(Holders) - 1
    BY <1>b, FS_RemoveElement
  <2>7. Cardinality(Holders') = Cardinality(Holders \ {c}) + 1
    BY <2>5, <2>6, FS_AddElement
  <2>8. cur' = Cardinality(Holders') /\ cur' \in 0..Slots /\ cur' = Slots
    BY <1>2, <1>b, <2>1, <2>6, <2>7, GenLimiterAssumption DEF SlotsConserved, TypeOK
  <2>9. pc' \in [Calls -> CallState]
    BY <1>a, <2>1 DEF TypeOK, CallState, Winning
  <2>10. LetIn' = LetIn /\ Counted' = Counted
    BY <1>a, <2>2, <2>3, <2>4 DEF LetIn, Counted, Outcome, Queueing, Winning
  <2>11. ParkedOnce'
    BY <1>a, <2>2, <2>3, <2>4 DEF ParkedOnce
  <2>12. pc'[c] = l /\ \A d \in Calls \ {c} :
            pc'[d] = pc[d] \/ (pc[d] = "queued" /\ pc'[d] = "granted")
    BY <2>2, <2>3, <2>4
  <2>. QED  BY <2>2, <2>8, <2>9, <2>10, <2>11, <2>12
<1>. QED  BY <1>1, <1>2

LEMMA TakeGrantBackInv ==
    ASSUME TypeOK, SlotsConserved, WaitersCounted, ParkedOnce, RunsMatchAttempts,
           NEW c \in Calls, TakeGrant(c), c \in ended
    PROVE  IInv'
<1>a. pc[c] = "granted" /\ ReleaseSlot(c, "gaveUp") /\ UNCHANGED <<ended, countVars, runVars>>
  BY DEF TakeGrant
<1>b. /\ cur' = Cardinality(Holders') /\ cur' \in 0..Slots
      /\ waiters' # <<>> => cur' = Slots
      /\ waiters' \in Seq(Calls)
      /\ pc' \in [Calls -> CallState]
      /\ LetIn' = LetIn /\ Counted' = Counted
      /\ ParkedOnce'
      /\ pc'[c] = "gaveUp"
      /\ \A d \in Calls \ {c} :
            pc'[d] = pc[d] \/ (pc[d] = "queued" /\ pc'[d] = "granted")
  BY <1>a, ReleaseSlotEffect
<1>1. TypeOK'
  BY <1>a, <1>b DEF TypeOK, countVars, runVars
<1>2. SlotsConserved'
  BY <1>b DEF SlotsConserved
<1>3. WaitersCounted'
  BY <1>a, <1>b DEF WaitersCounted, countVars
<1>4. RunsMatchAttempts'
  BY <1>a, <1>b DEF RunsMatchAttempts, runVars, Final, Outcome
<1>. QED  BY <1>1, <1>2, <1>3, <1>4, <1>b DEF IInv

LEMMA ReleaseInv ==
    ASSUME TypeOK, SlotsConserved, WaitersCounted, ParkedOnce, RunsMatchAttempts,
           NEW c \in Calls, Release(c)
    PROVE  IInv'
<1>a. pc[c] = "releasing" /\ ReleaseSlot(c, outcome[c]) /\ UNCHANGED <<ended, countVars, runVars>>
  BY DEF Release
<1>b. outcome[c] \in Outcome
  BY DEF TypeOK
<1>c. /\ cur' = Cardinality(Holders') /\ cur' \in 0..Slots
      /\ waiters' # <<>> => cur' = Slots
      /\ waiters' \in Seq(Calls)
      /\ pc' \in [Calls -> CallState]
      /\ LetIn' = LetIn /\ Counted' = Counted
      /\ ParkedOnce'
      /\ pc'[c] = outcome[c]
      /\ \A d \in Calls \ {c} :
            pc'[d] = pc[d] \/ (pc[d] = "queued" /\ pc'[d] = "granted")
  BY <1>a, <1>b, ReleaseSlotEffect
<1>1. TypeOK'
  BY <1>a, <1>c DEF TypeOK, countVars, runVars
<1>2. SlotsConserved'
  BY <1>c DEF SlotsConserved
<1>3. WaitersCounted'
  BY <1>a, <1>c DEF WaitersCounted, countVars
<1>4. RunsMatchAttempts'
  BY <1>a, <1>b, <1>c DEF RunsMatchAttempts, runVars, Final, Outcome
<1>. QED  BY <1>1, <1>2, <1>3, <1>4, <1>c DEF IInv

-------------------------------------------------------------------------------
LEMMA CallStepInv ==
    ASSUME TypeOK, SlotsConserved, WaitersCounted, ParkedOnce, RunsMatchAttempts,
           NEW c \in Calls, AcquireStep(c) \/ RunStep(c)
    PROVE  IInv'
<1>1. CASE TryAcquire(c)
  BY <1>1, TryAcquireFreeInv, TryAcquireBusyInv
<1>2. CASE CountWaiter(c)
  BY <1>2, CountWaiterOverInv, CountWaiterInInv
<1>3. CASE RejectOver(c)
  BY <1>3, RejectOverInv
<1>4. CASE LoadWaiting(c)
  BY <1>4, LoadWaitingInv
<1>5. CASE PublishWaiting(c)
  BY <1>5, PublishWaitingInv
<1>6. CASE Acquire(c)
  BY <1>6, AcquireEndedInv, AcquireFreeInv, AcquireParkInv
<1>7. CASE GiveUp(c)
  BY <1>7, GiveUpInv
<1>8. CASE TakeGrant(c)
  BY <1>8, TakeGrantKeepInv, TakeGrantBackInv
<1>9. CASE LeaveQueue(c)
  <2>1. pc[c] = "won" \/ pc[c] = "gaveUp"
    BY <1>9 DEF LeaveQueue
  <2>. QED  BY <1>9, <2>1, LeaveQueueWonInv, LeaveQueueGaveUpInv
<1>10. CASE PublishLeft(c)
  <2>1. pc[c] = "wonLeft" \/ pc[c] = "gaveUpLeft"
    BY <1>10 DEF PublishLeft
  <2>. QED  BY <1>10, <2>1, PublishLeftWonInv, PublishLeftGaveUpInv
<1>11. CASE CheckContext(c)
  BY <1>11, CheckContextRunInv, CheckContextCancelInv
<1>12. CASE Execute(c)
  BY <1>12, ExecuteInv
<1>13. CASE ExecuteTransient(c)
  BY <1>13, ExecuteLastInv, ExecuteRetryInv
<1>14. CASE Release(c)
  BY <1>14, ReleaseInv
<1>15. CASE CountFailure(c)
  BY <1>15, CountFailureInv
<1>. QED
  BY <1>1, <1>2, <1>3, <1>4, <1>5, <1>6, <1>7, <1>8, <1>9, <1>10, <1>11, <1>12, <1>13, <1>14, <1>15
     DEF AcquireStep, RunStep

LEMMA StutterInv == IInv /\ UNCHANGED vars => IInv'
<1>. SUFFICES ASSUME IInv, UNCHANGED vars PROVE IInv'
  OBVIOUS
<1>1. TypeOK'
  BY DEF IInv, TypeOK, vars
<1>2. SlotsConserved' /\ WaitersCounted'
  BY DEF IInv, SlotsConserved, WaitersCounted, Holders, LetIn, Counted, vars
<1>3. ParkedOnce'
  BY DEF IInv, ParkedOnce, InList, vars
<1>4. RunsMatchAttempts'
  BY DEF IInv, RunsMatchAttempts, vars
<1>. QED  BY <1>1, <1>2, <1>3, <1>4 DEF IInv

LEMMA NextInv == IInv /\ [Next]_vars => IInv'
<1>. SUFFICES ASSUME IInv, [Next]_vars PROVE IInv'
  OBVIOUS
<1>1. TypeOK /\ SlotsConserved /\ WaitersCounted /\ ParkedOnce /\ RunsMatchAttempts
  BY DEF IInv
<1>2. CASE UNCHANGED vars
  BY <1>2, StutterInv
<1>3. ASSUME NEW c \in Calls, ContextEnds(c) PROVE IInv'
  BY <1>1, <1>3, ContextEndsInv
<1>4. ASSUME NEW c \in Calls, AcquireStep(c) \/ RunStep(c) PROVE IInv'
  BY <1>1, <1>4, CallStepInv
<1>. QED  BY <1>2, <1>3, <1>4 DEF Next, Stopped

-------------------------------------------------------------------------------
(* The theorems *)

\* The invariant holds in every reachable state, whatever the limits are.
THEOREM Invariance == Spec => []IInv
<1>. QED  BY InitInv, NextInv, PTL DEF Spec

\* Every variable keeps its type: in particular the semaphore's count stays
\* within the configured number of slots.
THEOREM TypeCorrect == Spec => []TypeOK
<1>1. IInv => TypeOK
  BY DEF IInv
<1>. QED  BY <1>1, Invariance, PTL

\* acquire and release: no interleaving of cancellations, hand-overs and panics
\* leaks a slot or frees one twice.
THEOREM SlotsNeverLeak == Spec => []SlotsConserved
<1>1. IInv => SlotsConserved
  BY DEF IInv
<1>. QED  BY <1>1, Invariance, PTL

\* poolPlugin.Generate: no more than MaxConcurrentGenerations processes at once.
THEOREM BoundedGenerations == Spec => []GenerationsBounded
<1>1. IInv => GenerationsBounded
  <2>. SUFFICES ASSUME IInv PROVE GenerationsBounded
    OBVIOUS
  <2> DEFINE Ex == {c \in Calls : pc[c] = "executing"}
  <2>1. IsFiniteSet(Holders) /\ Ex \subseteq Holders
    BY FS_Subset, GenLimiterAssumption DEF Holders, Running
  <2>2. Cardinality(Ex) <= Cardinality(Holders) /\ Cardinality(Ex) \in Nat
    BY <2>1, FS_Subset, FS_CardinalityType
  <2>3. Cardinality(Holders) <= Slots /\ Cardinality(Holders) \in Nat
    BY GenLimiterAssumption DEF IInv, TypeOK, SlotsConserved
  <2>. QED  BY <2>2, <2>3, GenLimiterAssumption DEF GenerationsBounded
<1>. QED  BY <1>1, Invariance, PTL

\* acquire: the waiting counter is exact, and no more than QueueSize calls are
\* let in to wait.
THEOREM WaitersExact == Spec => []WaitersCounted
<1>1. IInv => WaitersCounted
  BY DEF IInv
<1>. QED  BY <1>1, Invariance, PTL

\* generateWithRetries: never more than MaxRetries + 1 runs, and no success
\* without one.
THEOREM BoundedRetries == Spec => []RetriesBounded
<1>1. IInv => RetriesBounded
  BY GenLimiterAssumption DEF IInv, RetriesBounded, RunsMatchAttempts, TypeOK
<1>. QED  BY <1>1, Invariance, PTL

-------------------------------------------------------------------------------
(* The limiter as a bounded admission *)

\* The abstraction counts as FiniteSets does.
LEMMA SameCardinality == \A S : Admission!Cardinality(S) = Cardinality(S)
  BY DEF Cardinality, Admission!Cardinality

\* One call goes from one state to another, and is all that moves.
LEMMA OneMoves ==
    ASSUME TypeOK, NEW c \in Calls, NEW l \in CallState, Goto(c, l)
    PROVE  /\ Outside' = IF l = "start" THEN Outside \union {c}
                         ELSE IF pc[c] = "start" THEN Outside \ {c} ELSE Outside
           /\ PassedOver' = IF l = "tried" THEN PassedOver \union {c}
                          ELSE IF pc[c] = "tried" THEN PassedOver \ {c} ELSE PassedOver
           /\ InLine' = IF l \in Queueing \ {"gaveUp"} THEN InLine \union {c}
                        ELSE IF pc[c] \in Queueing \ {"gaveUp"} THEN InLine \ {c}
                        ELSE InLine
           /\ Holders' = IF l \in Winning \union Running THEN Holders \union {c}
                         ELSE IF pc[c] \in Winning \union Running THEN Holders \ {c}
                         ELSE Holders
           /\ OnTheWayOut' = IF l \in {"over", "gaveUp"} THEN OnTheWayOut \union {c}
                             ELSE IF pc[c] \in {"over", "gaveUp"} THEN OnTheWayOut \ {c}
                             ELSE OnTheWayOut
           /\ TurnedDown' = IF l \in {"over", "overloaded"} THEN TurnedDown \union {c}
                            ELSE IF pc[c] \in {"over", "overloaded"} THEN TurnedDown \ {c}
                            ELSE TurnedDown
<1>1. \A d \in Calls : pc'[d] = IF d = c THEN l ELSE pc[d]
  BY DEF Goto, TypeOK
<1>2. Outside' = IF l = "start" THEN Outside \union {c}
                 ELSE IF pc[c] = "start" THEN Outside \ {c} ELSE Outside
  BY <1>1 DEF Outside
<1>3. PassedOver' = IF l = "tried" THEN PassedOver \union {c}
                  ELSE IF pc[c] = "tried" THEN PassedOver \ {c} ELSE PassedOver
  BY <1>1 DEF PassedOver
<1>4. InLine' = IF l \in Queueing \ {"gaveUp"} THEN InLine \union {c}
                ELSE IF pc[c] \in Queueing \ {"gaveUp"} THEN InLine \ {c} ELSE InLine
  BY <1>1 DEF InLine
<1>5. Holders' = IF l \in Winning \union Running THEN Holders \union {c}
                 ELSE IF pc[c] \in Winning \union Running THEN Holders \ {c} ELSE Holders
  BY <1>1 DEF Holders
<1>6. OnTheWayOut' = IF l \in {"over", "gaveUp"} THEN OnTheWayOut \union {c}
                     ELSE IF pc[c] \in {"over", "gaveUp"} THEN OnTheWayOut \ {c}
                     ELSE OnTheWayOut
  BY <1>1 DEF OnTheWayOut
<1>7. TurnedDown' = IF l \in {"over", "overloaded"} THEN TurnedDown \union {c}
                    ELSE IF pc[c] \in {"over", "overloaded"} THEN TurnedDown \ {c}
                    ELSE TurnedDown
  BY <1>1 DEF TurnedDown
<1>. QED  BY <1>2, <1>3, <1>4, <1>5, <1>6, <1>7

\* Where a call is, by its state.
LEMMA Whereabouts ==
    ASSUME NEW c \in Calls
    PROVE  /\ c \in Outside <=> pc[c] = "start"
           /\ c \in PassedOver <=> pc[c] = "tried"
           /\ c \in InLine <=> pc[c] \in Queueing \ {"gaveUp"}
           /\ c \in Holders <=> pc[c] \in Winning \union Running
           /\ c \in OnTheWayOut <=> pc[c] \in {"over", "gaveUp"}
           /\ c \in TurnedDown <=> pc[c] \in {"over", "overloaded"}
  BY DEF Outside, PassedOver, InLine, Holders, OnTheWayOut, TurnedDown

\* The abstraction sees nothing of a step within the queue, or with the slot.
LEMMA Unseen ==
    ASSUME TypeOK, NEW c \in Calls, NEW l, Goto(c, l),
           \/ pc[c] \in Queueing \ {"gaveUp"} /\ l \in Queueing \ {"gaveUp"}
           \/ pc[c] \in Winning \union Running /\ l \in Winning \union Running
           \/ pc[c] = "gaveUpLeft" /\ l = "cancelled"
    PROVE  Admission!Recount
<1>1. l \in CallState
  BY DEF CallState, Final, Outcome
<1>. QED
  BY <1>1, OneMoves, Whereabouts DEF Admission!Recount, Queueing, Winning, Running

\* The limits of the abstraction are kept.
LEMMA LimitsKeptNext ==
    ASSUME IInv'
    PROVE  Admission!WithinLimits'
<1>1. InLine' \subseteq LetIn' /\ LetIn' \in SUBSET Calls
  BY DEF InLine, LetIn
<1>2. /\ Cardinality(InLine') <= Cardinality(LetIn')
      /\ Cardinality(InLine') \in Nat /\ Cardinality(LetIn') \in Nat
  BY <1>1, FS_Subset, FS_CardinalityType, GenLimiterAssumption
<1>3. Cardinality(InLine') <= Queue
  BY <1>2, GenLimiterAssumption DEF IInv, WaitersCounted
<1>4. /\ Cardinality(Holders') <= Slots
      /\ SlotFree' => Cardinality(Holders') < Slots
  BY GenLimiterAssumption DEF IInv, TypeOK, SlotsConserved, SlotFree
<1>5. /\ InLine' \subseteq Counted'
      /\ Counted' \subseteq InLine' \union Holders' \union OnTheWayOut'
  BY DEF InLine, Counted, LetIn, Holders, OnTheWayOut, Queueing, Winning
<1>. QED  BY <1>3, <1>4, <1>5, SameCardinality DEF Admission!WithinLimits

\* A step of the abstraction, whatever it does to the counter and the free slots.
LEMMA AStep ==
    ASSUME IInv',
           \/ \E c \in Calls : \/ Admission!PassOver(c) \/ Admission!Admit(c)
                               \/ Admission!Enqueue(c) \/ Admission!Refuse(c)
                               \/ Admission!StartService(c) \/ Admission!Leave(c)
                               \/ Admission!Depart(c)
                               \/ \E d \in Calls : Admission!HandOver(c, d)
           \/ Admission!Recount
    PROVE  Admission!Next
<1>1. SlotFree' \in BOOLEAN
  BY DEF SlotFree
<1>. QED  BY <1>1, LimitsKeptNext DEF Admission!Next

LEMMA TryAcquireMapped ==
    ASSUME IInv, NEW c \in Calls, TryAcquire(c)
    PROVE  Admission!PassOver(c) \/ Admission!Admit(c)
<1>1. TypeOK /\ pc[c] = "start" /\ "checking" \in CallState /\ "tried" \in CallState
  BY DEF IInv, TryAcquire, CallState, Running
<1>2. CASE SlotFree /\ Goto(c, "checking")
  <2>1. /\ c \in Outside
        /\ Outside' = Outside \ {c} /\ PassedOver' = PassedOver
        /\ InLine' = InLine /\ Holders' = Holders \union {c}
        /\ OnTheWayOut' = OnTheWayOut /\ TurnedDown' = TurnedDown
    BY <1>1, <1>2, OneMoves, Whereabouts DEF Queueing, Winning, Running
  <2>2. Admission!Admit(c)
    BY <1>2, <2>1 DEF Admission!Admit
  <2>. QED  BY <2>2
<1>3. CASE ~SlotFree /\ Goto(c, "tried")
  <2>1. /\ c \in Outside
        /\ Outside' = Outside \ {c} /\ PassedOver' = PassedOver \union {c}
        /\ InLine' = InLine /\ Holders' = Holders
        /\ OnTheWayOut' = OnTheWayOut /\ TurnedDown' = TurnedDown
    BY <1>1, <1>3, OneMoves, Whereabouts DEF Queueing, Winning, Running
  <2>2. Admission!PassOver(c)
    BY <1>3, <2>1 DEF Admission!PassOver
  <2>. QED  BY <2>2
<1>. QED  BY <1>2, <1>3 DEF TryAcquire

\* A refusal is explained: the counter stands at Queue at least.
LEMMA CountWaiterMapped ==
    ASSUME IInv, NEW c \in Calls, CountWaiter(c)
    PROVE  Admission!Refuse(c) \/ Admission!Enqueue(c)
<1>1. TypeOK /\ pc[c] = "tried" /\ "over" \in CallState /\ "counted" \in CallState
  BY DEF IInv, CountWaiter, CallState, Queueing
<1>2. c \in PassedOver /\ c \notin Outside /\ Outside \ {c} = Outside
  BY <1>1, Whereabouts
<1>3. CASE waiting' > Queue /\ Goto(c, "over")
  <2>1. waiting' = waiting + 1 /\ waiting = Cardinality(Counted) /\ waiting \in Nat
    BY DEF CountWaiter, IInv, WaitersCounted, TypeOK
  <2>2. Admission!Cardinality(Counted) >= Queue
    BY <1>3, <2>1, SameCardinality, GenLimiterAssumption
  <2>3. /\ Outside' = Outside /\ PassedOver' = PassedOver \ {c}
        /\ InLine' = InLine /\ Holders' = Holders
        /\ OnTheWayOut' = OnTheWayOut \union {c} /\ TurnedDown' = TurnedDown \union {c}
    BY <1>1, <1>3, OneMoves DEF Queueing, Winning, Running
  <2>4. Admission!Refuse(c)
    BY <1>2, <2>2, <2>3 DEF Admission!Refuse, Admission!PassedOver
  <2>. QED  BY <2>4
<1>4. CASE Goto(c, "counted")
  <2>1. /\ Outside' = Outside /\ PassedOver' = PassedOver \ {c}
        /\ InLine' = InLine \union {c} /\ Holders' = Holders
        /\ OnTheWayOut' = OnTheWayOut /\ TurnedDown' = TurnedDown
    BY <1>1, <1>4, OneMoves DEF Queueing, Winning, Running
  <2>2. Admission!Enqueue(c)
    BY <1>2, <2>1 DEF Admission!Enqueue, Admission!PassedOver
  <2>. QED  BY <2>2
<1>. QED  BY <1>3, <1>4 DEF CountWaiter

LEMMA AcquireMapped ==
    ASSUME IInv, NEW c \in Calls, Acquire(c)
    PROVE  Admission!Leave(c) \/ Admission!StartService(c) \/ Admission!Recount
<1>1. /\ TypeOK /\ pc[c] = "enqueueing"
      /\ "gaveUp" \in CallState /\ "won" \in CallState /\ "queued" \in CallState
  BY DEF IInv, Acquire, CallState, Queueing, Winning
<1>2. CASE Goto(c, "gaveUp")
  <2>1. Admission!Leave(c)
    BY <1>1, <1>2, OneMoves, Whereabouts DEF Admission!Leave, Queueing, Winning, Running
  <2>. QED  BY <2>1
<1>3. CASE SlotFree /\ Goto(c, "won")
  <2>1. /\ c \in InLine
        /\ Outside' = Outside /\ PassedOver' = PassedOver
        /\ InLine' = InLine \ {c} /\ Holders' = Holders \union {c}
        /\ OnTheWayOut' = OnTheWayOut /\ TurnedDown' = TurnedDown
    BY <1>1, <1>3, OneMoves, Whereabouts DEF Queueing, Winning, Running
  <2>2. Admission!StartService(c)
    BY <2>1 DEF Admission!StartService
  <2>. QED  BY <2>2
<1>4. CASE Goto(c, "queued")
  BY <1>1, <1>4, Unseen DEF Queueing
<1>. QED  BY <1>2, <1>3, <1>4 DEF Acquire

\* A slot that is given back is free, or goes to the first in line at once.
LEMMA ReleaseSlotMapped ==
    ASSUME IInv, NEW c \in Calls, NEW l, ReleaseSlot(c, l),
           \/ pc[c] = "granted" /\ l = "gaveUp"
           \/ pc[c] = "releasing" /\ l \in Outcome
    PROVE  Admission!Leave(c) \/ \E d \in Calls : Admission!HandOver(c, d)
<1>1. /\ TypeOK /\ l \in CallState /\ l \notin Winning \union Running
      /\ l \notin Queueing \ {"gaveUp"} /\ l \notin {"start", "tried", "over", "overloaded"}
  BY DEF IInv, CallState, Final, Outcome, Queueing, Winning, Running
<1>2. CASE Goto(c, l)
  <2>1. /\ c \in Holders
        /\ Outside' = Outside /\ PassedOver' = PassedOver
        /\ InLine' = InLine \ {c} /\ Holders' = Holders \ {c}
        /\ TurnedDown' = TurnedDown
    BY <1>1, <1>2, OneMoves, Whereabouts DEF Queueing, Winning, Running
  <2>2. OnTheWayOut' \in {OnTheWayOut, OnTheWayOut \union {c}}
    BY <1>1, <1>2, OneMoves, Whereabouts DEF Winning
  <2>3. Admission!Leave(c)
    BY <2>1, <2>2 DEF Admission!Leave
  <2>. QED  BY <2>3
<1>3. CASE waiters # <<>> /\ pc' = [pc EXCEPT ![c] = l, ![Head(waiters)] = "granted"]
  <2> DEFINE h == Head(waiters)
  <2>1. h \in Calls /\ pc[h] = "queued" /\ h # c
    <3>1. waiters' = Tail(waiters)
      BY <1>3 DEF ReleaseSlot
    <3>2. h \in Calls /\ InList(h)
      BY <1>3, <3>1, TakeFirstParked DEF IInv, TypeOK, ParkedOnce
    <3>. QED  BY <3>2 DEF IInv, ParkedOnce
  <2>. HIDE DEF h
  <2>2. \A d \in Calls : pc'[d] = IF d = h THEN "granted" ELSE IF d = c THEN l ELSE pc[d]
    BY <1>1, <1>3, <2>1 DEF h, TypeOK
  <2>3. c \in Holders /\ h \in InLine
    BY <2>1, Whereabouts DEF Queueing, Winning, Running
  <2>4. InLine' = InLine \ {h}
    BY <1>1, <2>1, <2>2 DEF InLine, Queueing, Winning, Running
  <2>5. Holders' = (Holders \ {c}) \union {h}
    BY <1>1, <2>1, <2>2 DEF Holders, Winning, Running
  <2>6. Outside' = Outside /\ PassedOver' = PassedOver
    BY <1>1, <2>1, <2>2 DEF Outside, PassedOver
  <2>7. TurnedDown' = TurnedDown
    BY <1>1, <2>1, <2>2 DEF TurnedDown
  <2>8. OnTheWayOut' \in {OnTheWayOut, OnTheWayOut \union {c}}
    <3>1. CASE l = "gaveUp"
      BY <1>1, <2>1, <2>2, <3>1 DEF OnTheWayOut
    <3>2. CASE l # "gaveUp"
      BY <1>1, <2>1, <2>2, <3>2 DEF OnTheWayOut
    <3>. QED  BY <3>1, <3>2
  <2>9. Admission!HandOver(c, h)
    BY <2>3, <2>4, <2>5, <2>6, <2>7, <2>8 DEF Admission!HandOver
  <2>. QED  BY <2>1, <2>9
<1>. QED  BY <1>2, <1>3 DEF ReleaseSlot

LEMMA GiveUpMapped ==
    ASSUME IInv, NEW c \in Calls, GiveUp(c)
    PROVE  Admission!Leave(c)
<1>1. TypeOK /\ pc[c] = "queued" /\ Goto(c, "gaveUp") /\ "gaveUp" \in CallState
  BY DEF IInv, GiveUp, CallState, Queueing
<1>. QED
  BY <1>1, OneMoves, Whereabouts DEF Admission!Leave, Queueing, Winning, Running

LEMMA RejectOverMapped ==
    ASSUME IInv, NEW c \in Calls, RejectOver(c)
    PROVE  Admission!Depart(c)
<1>1. TypeOK /\ pc[c] = "over" /\ Goto(c, "overloaded") /\ "overloaded" \in CallState
  BY DEF IInv, RejectOver, CallState, Final
<1>. QED
  BY <1>1, OneMoves, Whereabouts DEF Admission!Depart, Queueing, Winning, Running

LEMMA LeaveQueueMapped ==
    ASSUME IInv, NEW c \in Calls, LeaveQueue(c)
    PROVE  Admission!Depart(c) \/ Admission!Recount
<1>1. TypeOK /\ "gaveUpLeft" \in CallState
  BY DEF IInv, CallState
<1>2. CASE pc[c] = "won"
  <2>1. Goto(c, "wonLeft")
    BY <1>2 DEF LeaveQueue
  <2>. QED  BY <1>1, <1>2, <2>1, Unseen DEF Winning, Running
<1>3. CASE pc[c] = "gaveUp"
  <2>1. Goto(c, "gaveUpLeft")
    BY <1>3 DEF LeaveQueue
  <2>2. Admission!Depart(c)
    BY <1>1, <1>3, <2>1, OneMoves, Whereabouts
       DEF Admission!Depart, Queueing, Winning, Running
  <2>. QED  BY <2>2
<1>. QED  BY <1>2, <1>3 DEF LeaveQueue

\* What is left are the steps that the abstraction does not see.
LEMMA OtherStepsUnseen ==
    ASSUME IInv, NEW c \in Calls,
           \/ LoadWaiting(c) \/ PublishWaiting(c) \/ PublishLeft(c)
           \/ CheckContext(c) \/ Execute(c) \/ ExecuteTransient(c) \/ CountFailure(c)
    PROVE  Admission!Recount
<1>1. PICK l : Goto(c, l) /\
           \/ pc[c] \in Queueing \ {"gaveUp"} /\ l \in Queueing \ {"gaveUp"}
           \/ pc[c] \in Winning \union Running /\ l \in Winning \union Running
           \/ pc[c] = "gaveUpLeft" /\ l = "cancelled"
  BY DEF LoadWaiting, PublishWaiting, PublishLeft, CheckContext, Execute, ExecuteTransient,
     CountFailure, Conclude, Queueing, Running
<1>. QED  BY <1>1, Unseen DEF IInv

LEMMA StepMapped ==
    ASSUME IInv, IInv', NEW c \in Calls, AcquireStep(c) \/ RunStep(c)
    PROVE  Admission!Next
<1>1. CASE TryAcquire(c)
  BY <1>1, TryAcquireMapped, AStep
<1>2. CASE CountWaiter(c)
  BY <1>2, CountWaiterMapped, AStep
<1>3. CASE RejectOver(c)
  BY <1>3, RejectOverMapped, AStep
<1>4. CASE Acquire(c)
  BY <1>4, AcquireMapped, AStep
<1>5. CASE GiveUp(c)
  BY <1>5, GiveUpMapped, AStep
<1>6. CASE TakeGrant(c)
  <2>1. CASE Goto(c, "won")
    <3>1. Admission!Recount
      BY <1>6, <2>1, Unseen DEF IInv, TakeGrant, Winning
    <3>. QED  BY <3>1, AStep
  <2>2. CASE ReleaseSlot(c, "gaveUp")
    <3>1. Admission!Leave(c) \/ \E d \in Calls : Admission!HandOver(c, d)
      BY <1>6, <2>2, ReleaseSlotMapped DEF TakeGrant
    <3>. QED  BY <3>1, AStep
  <2>. QED  BY <1>6, <2>1, <2>2 DEF TakeGrant
<1>7. CASE LeaveQueue(c)
  BY <1>7, LeaveQueueMapped, AStep
<1>8. CASE Release(c)
  <2>1. outcome[c] \in Outcome /\ pc[c] = "releasing" /\ ReleaseSlot(c, outcome[c])
    BY <1>8 DEF IInv, TypeOK, Release
  <2>2. Admission!Leave(c) \/ \E d \in Calls : Admission!HandOver(c, d)
    BY <2>1, ReleaseSlotMapped
  <2>. QED  BY <2>2, AStep
<1>9. CASE \/ LoadWaiting(c) \/ PublishWaiting(c) \/ PublishLeft(c)
           \/ CheckContext(c) \/ Execute(c) \/ ExecuteTransient(c) \/ CountFailure(c)
  BY <1>9, OtherStepsUnseen, AStep
<1>. QED
  BY <1>1, <1>2, <1>3, <1>4, <1>5, <1>6, <1>7, <1>8, <1>9 DEF AcquireStep, RunStep

\* The limiter is a bounded admission, as the comment on acquire says: whoever is
\* refused found no slot free and then the counter at its limit, no more than the
\* limit wait, and a slot goes from hand to hand, for every number of slots and places
\* in the queue, none included.
THEOREM LimiterIsBoundedAdmission == Spec => AdmissionSpec
<1>1. Init => Admission!Init
  <2>. SUFFICES ASSUME Init PROVE Admission!Init
    OBVIOUS
  <2>1. SlotFree \in BOOLEAN
    BY DEF SlotFree
  <2>. QED
    BY <2>1 DEF Init, Admission!Init, Outside, PassedOver, InLine, Holders, OnTheWayOut,
       TurnedDown, Counted, LetIn, Queueing, Winning, Running
<1>2. IInv /\ IInv' /\ [Next]_vars => [Admission!Next]_Admission!vars
  <2>. SUFFICES ASSUME IInv, IInv', [Next]_vars PROVE [Admission!Next]_Admission!vars
    OBVIOUS
  <2>1. ASSUME NEW c \in Calls, AcquireStep(c) \/ RunStep(c) PROVE Admission!Next
    BY <2>1, StepMapped
  <2>2. CASE pc' = pc
    <3>1. Admission!Recount
      BY <2>2 DEF Admission!Recount, Outside, PassedOver, InLine, Holders, OnTheWayOut, TurnedDown
    <3>. QED  BY <3>1, AStep
  <2>. QED  BY <2>1, <2>2 DEF Next, ContextEnds, Stopped, vars
<1>. QED  BY <1>1, <1>2, Invariance, PTL DEF Spec, AdmissionSpec, Admission!Spec

-------------------------------------------------------------------------------
(* Who is counted as a failure of the plugin *)

\* A step that counts nobody and tells nobody's outcome: whoever is at its end stays
\* there and ends with its outcome.
LEMMA NobodyAccounted ==
    ASSUME IInv, AccountsTidy, UNCHANGED <<outcome, errors>>, ended \subseteq ended',
           \A d \in Calls :
              \/ pc'[d] = pc[d]
              \/ pc[d] = "releasing" /\ pc'[d] = outcome[d]
              \/ /\ pc[d] \notin {"accounting", "releasing"} \union Outcome
                 /\ pc'[d] \notin {"accounting", "releasing", "failed", "timedOut"}
    PROVE  AccountsTidy'
<1>. SUFFICES ASSUME NEW d \in Calls
     PROVE /\ pc'[d] = "accounting" /\ outcome'[d] \in {"killed", "cancelled"} => d \in ended'
           /\ d \in errors' => /\ pc'[d] \in {"releasing"} \union Outcome
                               /\ outcome'[d] \in {"failed", "timedOut"}
           /\ pc'[d] = "releasing" /\ outcome'[d] \in {"failed", "timedOut"}
                 => d \in errors' \/ d \in ended'
           /\ pc'[d] \in {"failed", "timedOut"} => d \in errors' \/ d \in ended'
           /\ pc'[d] = "accounting" => outcome'[d] # "panicked"
  BY DEF AccountsTidy
<1>1. outcome[d] \in Outcome
  BY DEF IInv, TypeOK
<1>. QED  BY <1>1 DEF AccountsTidy, Outcome

LEMMA AcquireStepAccounts ==
    ASSUME IInv, AccountsTidy, NEW c \in Calls, AcquireStep(c)
    PROVE  AccountsTidy'
<1>1. TypeOK /\ UNCHANGED <<outcome, errors, ended>>
  BY DEF IInv, AcquireStep, TryAcquire, CountWaiter, RejectOver, LoadWaiting,
     PublishWaiting, Acquire, GiveUp, TakeGrant, LeaveQueue, PublishLeft, runVars
<1>2. CASE pc[c] = "gaveUpLeft"
  <2>1. Goto(c, "cancelled")
    BY <1>2 DEF AcquireStep, TryAcquire, CountWaiter, RejectOver, LoadWaiting,
       PublishWaiting, Acquire, GiveUp, TakeGrant, LeaveQueue, PublishLeft
  <2>2. \A d \in Calls : pc'[d] = IF d = c THEN "cancelled" ELSE pc[d]
    BY <1>1, <2>1 DEF Goto, TypeOK
  <2>. QED  BY <1>1, <1>2, <2>2, NobodyAccounted DEF Outcome
<1>3. CASE pc[c] # "gaveUpLeft" /\ ~(TakeGrant(c) /\ ReleaseSlot(c, "gaveUp"))
  <2>0. \/ Goto(c, "checking") \/ Goto(c, "tried") \/ Goto(c, "over") \/ Goto(c, "counted")
        \/ Goto(c, "overloaded") \/ Goto(c, "publishing") \/ Goto(c, "enqueueing")
        \/ Goto(c, "gaveUp") \/ Goto(c, "won") \/ Goto(c, "queued")
        \/ Goto(c, "wonLeft") \/ Goto(c, "gaveUpLeft")
    BY <1>3 DEF AcquireStep, TryAcquire, CountWaiter, RejectOver, LoadWaiting,
       PublishWaiting, Acquire, GiveUp, TakeGrant, LeaveQueue, PublishLeft
  <2>1. PICK l \in {"checking", "tried", "over", "counted", "overloaded", "publishing",
                    "enqueueing", "gaveUp", "won", "queued", "wonLeft", "gaveUpLeft"} : Goto(c, l)
    BY <2>0
  <2>2. pc[c] \notin {"accounting", "releasing"} \union Outcome
    BY <1>3 DEF AcquireStep, TryAcquire, CountWaiter, RejectOver, LoadWaiting,
       PublishWaiting, Acquire, GiveUp, TakeGrant, LeaveQueue, PublishLeft, Outcome
  <2>3. \A d \in Calls : pc'[d] = IF d = c THEN l ELSE pc[d]
    BY <1>1, <2>1 DEF Goto, TypeOK
  <2>. QED  BY <1>1, <2>1, <2>2, <2>3, NobodyAccounted DEF Outcome
<1>4. CASE TakeGrant(c) /\ ReleaseSlot(c, "gaveUp")
  <2>1. /\ pc[c] = "granted" /\ pc'[c] = "gaveUp"
        /\ \A d \in Calls \ {c} :
              pc'[d] = pc[d] \/ (pc[d] = "queued" /\ pc'[d] = "granted")
    BY <1>4, ReleaseSlotEffect DEF TakeGrant, IInv
  <2>. QED  BY <1>1, <2>1, NobodyAccounted DEF Outcome
<1>. QED  BY <1>2, <1>3, <1>4

\* The loop ends with an outcome that nobody has been counted for.
LEMMA ConcludeAccounts ==
    ASSUME TypeOK, AccountsTidy, NEW c \in Calls, NEW o \in Outcome, Conclude(c, o),
           pc[c] \in {"checking", "executing"}, UNCHANGED ended,
           o \in {"killed", "cancelled"} => c \in ended
    PROVE  AccountsTidy'
<1>1. \A d \in Calls :
         pc'[d] = IF d = c THEN IF o = "panicked" THEN "releasing" ELSE "accounting" ELSE pc[d]
  BY DEF Conclude, Goto, TypeOK
<1>2. \A d \in Calls : outcome'[d] = IF d = c THEN o ELSE outcome[d]
  BY DEF Conclude, TypeOK
<1>3. c \notin errors /\ errors' = errors
  BY DEF AccountsTidy, Conclude, Outcome
<1>. QED  BY <1>1, <1>2, <1>3 DEF AccountsTidy

LEMMA RunStepAccounts ==
    ASSUME IInv, AccountsTidy, NEW c \in Calls, RunStep(c)
    PROVE  AccountsTidy'
<1>1. TypeOK /\ UNCHANGED ended
  BY DEF IInv, RunStep, CheckContext, Execute, ExecuteTransient, CountFailure, Release
<1>2. ASSUME NEW l \in {"checking", "executing"}, Goto(c, l), UNCHANGED <<outcome, errors>>,
             pc[c] \in {"checking", "executing"}
      PROVE  AccountsTidy'
  <2>1. \A d \in Calls : pc'[d] = IF d = c THEN l ELSE pc[d]
    BY <1>1, <1>2 DEF Goto, TypeOK
  <2>. QED  BY <1>1, <1>2, <2>1, NobodyAccounted DEF Outcome
<1>3. CASE CheckContext(c)
  <2>1. CASE Goto(c, "executing") /\ UNCHANGED <<outcome, errors>>
    BY <1>2, <1>3, <2>1 DEF CheckContext
  <2>2. CASE c \in ended /\ Conclude(c, "cancelled")
    BY <1>1, <1>3, <2>2, ConcludeAccounts DEF CheckContext, Outcome
  <2>. QED  BY <1>3, <2>1, <2>2 DEF CheckContext
<1>4. CASE Execute(c)
  <2>1. PICK o \in Outcome : Conclude(c, o) /\ (o \in {"killed", "cancelled"} => c \in ended)
    BY <1>4 DEF Execute
  <2>. QED  BY <1>1, <1>4, <2>1, ConcludeAccounts DEF Execute
<1>5. CASE ExecuteTransient(c)
  <2>1. CASE Conclude(c, "failed")
    BY <1>1, <1>5, <2>1, ConcludeAccounts DEF ExecuteTransient, Outcome
  <2>2. CASE Goto(c, "checking") /\ UNCHANGED <<outcome, errors>>
    BY <1>2, <1>5, <2>2 DEF ExecuteTransient
  <2>. QED  BY <1>5, <2>1, <2>2 DEF ExecuteTransient
<1>6. CASE CountFailure(c)
  <2>1. /\ pc[c] = "accounting" /\ outcome' = outcome
        /\ \A d \in Calls : pc'[d] = IF d = c THEN "releasing" ELSE pc[d]
    BY <1>1, <1>6 DEF CountFailure, Goto, TypeOK
  <2>2. outcome[c] \in Outcome
    BY <1>1 DEF TypeOK
  <2>3. errors' = IF outcome[c] # "ok" /\ c \notin ended THEN errors \union {c} ELSE errors
    BY <1>6 DEF CountFailure
  <2>4. outcome[c] # "ok" /\ c \notin ended => outcome[c] \in {"failed", "timedOut"}
    BY <2>1, <2>2 DEF AccountsTidy, Outcome
  <2>. QED  BY <1>1, <2>1, <2>3, <2>4 DEF AccountsTidy
<1>7. CASE Release(c)
  <2>1. /\ pc[c] = "releasing" /\ outcome[c] \in Outcome /\ UNCHANGED <<outcome, errors>>
        /\ pc'[c] = outcome[c]
        /\ \A d \in Calls \ {c} :
              pc'[d] = pc[d] \/ (pc[d] = "queued" /\ pc'[d] = "granted")
    BY <1>7, ReleaseSlotEffect DEF Release, IInv, TypeOK, runVars
  <2>. QED  BY <1>1, <2>1, NobodyAccounted DEF Outcome
<1>. QED  BY <1>3, <1>4, <1>5, <1>6, <1>7 DEF RunStep

\* Generate: a caller that has gone is not counted as a failure of the plugin, and a
\* plugin that fails or times out under a caller that stays is, however the end of the
\* plugin, the end of the caller and the check fall together.
THEOREM FailuresExact == Spec => []FailuresCounted
<1>1. Init => AccountsTidy
  BY DEF Init, AccountsTidy
<1>2. IInv /\ AccountsTidy /\ [Next]_vars => AccountsTidy'
  <2>. SUFFICES ASSUME IInv, AccountsTidy, [Next]_vars PROVE AccountsTidy'
    OBVIOUS
  <2>1. ASSUME NEW c \in Calls, AcquireStep(c) \/ RunStep(c) PROVE AccountsTidy'
    BY <2>1, AcquireStepAccounts, RunStepAccounts
  <2>2. CASE UNCHANGED <<pc, outcome, errors>> /\ ended \subseteq ended'
    BY <2>2, NobodyAccounted
  <2>. QED  BY <2>1, <2>2 DEF Next, ContextEnds, Stopped, vars, runVars
<1>3. AccountsTidy => FailuresCounted
  BY DEF AccountsTidy, FailuresCounted
<1>. QED  BY <1>1, <1>2, <1>3, Invariance, PTL DEF Spec

===============================================================================
