-------------------------- MODULE AuditWorkerProofs ---------------------------
(***************************************************************************)
(* Proofs about AuditWorker, for any entries and any configuration: no     *)
(* loss goes uncounted while no flush panics, the count is exact when a    *)
(* failed statement writes nothing, and a clean drain leaves nothing.      *)
(***************************************************************************)
EXTENDS AuditWorker, FiniteSetTheorems, SequenceTheorems, TLAPS

-------------------------------------------------------------------------------
(* The queue *)

LEMMA EnqueueEffect ==
    ASSUME queue \in Seq(Entries), NEW e \in Entries, queue' = Append(queue, e), ~InQueue(e),
           \A i, j \in DOMAIN queue : queue[i] = queue[j] => i = j
    PROVE  /\ queue' \in Seq(Entries)
           /\ Len(queue') = Len(queue) + 1
           /\ \A d : InQueue(d)' <=> InQueue(d) \/ d = e
           /\ \A i, j \in DOMAIN queue' : queue'[i] = queue'[j] => i = j
<1>1. /\ queue' \in Seq(Entries)
      /\ Len(queue') = Len(queue) + 1
      /\ \A i \in 1..Len(queue) : queue'[i] = queue[i]
      /\ queue'[Len(queue) + 1] = e
  BY AppendProperties
<1>2. DOMAIN queue = 1..Len(queue) /\ DOMAIN queue' = 1..Len(queue) + 1 /\ Len(queue) \in Nat
  BY <1>1, LenProperties
<1>. QED  BY <1>1, <1>2 DEF InQueue

LEMMA DequeueEffect ==
    ASSUME queue \in Seq(Entries), queue # <<>>, queue' = Tail(queue),
           \A i, j \in DOMAIN queue : queue[i] = queue[j] => i = j
    PROVE  /\ queue' \in Seq(Entries)
           /\ Len(queue') = Len(queue) - 1
           /\ Head(queue) \in Entries /\ InQueue(Head(queue))
           /\ \A d : InQueue(d)' <=> InQueue(d) /\ d # Head(queue)
           /\ \A i, j \in DOMAIN queue' : queue'[i] = queue'[j] => i = j
<1>1. /\ queue' \in Seq(Entries)
      /\ Head(queue) \in Entries
      /\ Len(queue') = Len(queue) - 1
      /\ \A i \in 1..Len(queue') : queue'[i] = queue[i + 1]
      /\ Head(queue) = queue[1]
  BY HeadTailProperties
<1>2. /\ DOMAIN queue = 1..Len(queue)
      /\ DOMAIN queue' = 1..Len(queue')
      /\ Len(queue) \in Nat \ {0}
      /\ Len(queue') \in Nat
  BY <1>1, LenProperties, EmptySeq
<1>3. InQueue(Head(queue))
  BY <1>1, <1>2 DEF InQueue
<1>4. ASSUME NEW d PROVE InQueue(d)' <=> InQueue(d) /\ d # Head(queue)
  <2>1. ASSUME InQueue(d)' PROVE InQueue(d) /\ d # Head(queue)
    BY <1>1, <1>2, <2>1 DEF InQueue
  <2>2. ASSUME InQueue(d), d # Head(queue) PROVE InQueue(d)'
    <3>1. PICK i \in 1..Len(queue) : queue[i] = d
      BY <1>2, <2>2 DEF InQueue
    <3>2. i - 1 \in 1..Len(queue') /\ queue'[i - 1] = d
      BY <1>1, <1>2, <2>2, <3>1
    <3>. QED  BY <1>2, <3>2 DEF InQueue
  <2>. QED  BY <2>1, <2>2
<1>5. \A i, j \in DOMAIN queue' : queue'[i] = queue'[j] => i = j
  BY <1>1, <1>2
<1>. QED  BY <1>1, <1>3, <1>4, <1>5

-------------------------------------------------------------------------------
(* Counting *)

LEMMA EntriesFinite ==
    ASSUME NEW S \in SUBSET Entries
    PROVE  IsFiniteSet(S) /\ Cardinality(S) \in Nat
  BY FS_Subset, FS_CardinalityType, AuditWorkerAssumption

LEMMA SubsetCount ==
    ASSUME NEW S \in SUBSET Entries, NEW T \in SUBSET S
    PROVE  Cardinality(T) <= Cardinality(S)
  BY EntriesFinite, FS_Subset

LEMMA DisjointCount ==
    ASSUME NEW S \in SUBSET Entries, NEW T \in SUBSET Entries, S \intersect T = {}
    PROVE  Cardinality(S \union T) = Cardinality(S) + Cardinality(T)
<1>1. IsFiniteSet(S) /\ IsFiniteSet(T) /\ Cardinality(S) \in Nat /\ Cardinality(T) \in Nat
  BY EntriesFinite
<1>2. Cardinality(S \union T) = Cardinality(S) + Cardinality(T) - Cardinality(S \intersect T)
  BY <1>1, FS_Union
<1>3. Cardinality(S \intersect T) = 0
  BY FS_EmptySet
<1>. QED  BY <1>1, <1>2, <1>3

LEMMA AddOneCount ==
    ASSUME NEW S \in SUBSET Entries, NEW e \in Entries, e \notin S
    PROVE  Cardinality(S \union {e}) = Cardinality(S) + 1
  BY EntriesFinite, FS_AddElement

LEMMA NonEmptyCount ==
    ASSUME NEW S \in SUBSET Entries
    PROVE  (S = {} <=> Cardinality(S) = 0)
  BY EntriesFinite, FS_EmptySet

\* What the two loss invariants compare saveFailed with.
Missing == (Settled \ stored) \union Counted
MissingForSure == (Settled \ stored) \union (Counted \ stored)

\* A step that settles, stores and counts nothing keeps both.
LEMMA LossesKept ==
    ASSUME LossesBounded, LossesExact, Settled' = Settled, stored' = stored,
           Counted' = Counted, saveFailed' = saveFailed, broken' = broken, misled' = misled
    PROVE  LossesBounded' /\ LossesExact'
  BY DEF LossesBounded, LossesExact

-------------------------------------------------------------------------------
(* The invariant *)

LEMMA InitInv == Init => IInv
<1>. SUFFICES ASSUME Init PROVE IInv
  OBVIOUS
<1>1. Cardinality({}) = 0
  BY FS_EmptySet
<1>2. queue \in Seq(Entries) /\ Len(queue) = 0 /\ DOMAIN queue = {}
  BY EmptySeq DEF Init
<1>3. Settled = {} /\ Sent = {}
  BY DEF Init, Settled, Sent
<1>4. TypeOK
  <2>1. Len(queue) <= BufferSize /\ 0 \in 0..MaxSaveRetries
    BY <1>2, AuditWorkerAssumption
  <2>. QED  BY <1>2, <2>1 DEF Init, TypeOK, SendState, RunState, ShutdownState
<1>5. OnePlace
  BY <1>2, <1>3 DEF Init, OnePlace, InQueue
<1>6. BatchMirrored
  BY <1>1, AuditWorkerAssumption DEF Init, BatchMirrored, Over
<1>7. ShutdownOrder /\ PanicKnown
  BY DEF Init, ShutdownOrder, PanicKnown
<1>8. LossesBounded /\ LossesExact
  BY <1>1, <1>3 DEF Init, LossesBounded, LossesExact, Counted
<1>. QED  BY <1>4, <1>5, <1>6, <1>7, <1>8 DEF IInv

\* A Send that puts nothing in the queue.
LEMMA SendAsideInv ==
    ASSUME TypeOK, OnePlace, BatchMirrored, ShutdownOrder,
           LossesBounded, LossesExact, PanicKnown,
           NEW e \in Entries, Begin(e) \/ Drop(e) \/ SendOnClosed(e)
    PROVE  IInv'
<1>1. TypeOK'
  BY DEF Begin, Drop, SendOnClosed, TypeOK, SendState, RunState, ShutdownState, Over, batchVars, saveVars, shutdownVars
<1>2. OnePlace'
  BY DEF Begin, Drop, SendOnClosed, OnePlace, InQueue, Sent, Over, TypeOK, batchVars, saveVars, shutdownVars
<1>3. BatchMirrored'
  BY DEF Begin, Drop, SendOnClosed, BatchMirrored, Over, batchVars, saveVars, shutdownVars
<1>4. (ShutdownOrder /\ PanicKnown)'
  BY DEF Begin, Drop, SendOnClosed, ShutdownOrder, PanicKnown, Over, batchVars, saveVars, shutdownVars
<1>5. (LossesBounded /\ LossesExact)'
  <2>1. Sent' = Sent
    BY DEF Begin, Drop, SendOnClosed, Sent, TypeOK
  <2>2. Settled' = Settled /\ Counted' = Counted
    BY <2>1 DEF Begin, Drop, SendOnClosed, Settled, Counted, InQueue, batchVars, saveVars, shutdownVars
  <2>. QED  BY <2>2, LossesKept DEF Begin, Drop, SendOnClosed, saveVars
<1>. QED  BY <1>1, <1>2, <1>3, <1>4, <1>5 DEF IInv

LEMMA EnqueueInv ==
    ASSUME TypeOK, OnePlace, BatchMirrored, ShutdownOrder,
           LossesBounded, LossesExact, PanicKnown,
           NEW e \in Entries, Enqueue(e)
    PROVE  IInv'
<1>a. ~InQueue(e) /\ spc[e] = "sending" /\ e \notin batch \union stored
  BY DEF Enqueue, OnePlace, Sent
<1>b. /\ queue' \in Seq(Entries)
      /\ Len(queue') = Len(queue) + 1 /\ Len(queue) \in Nat
      /\ \A d : InQueue(d)' <=> InQueue(d) \/ d = e
      /\ \A i, j \in DOMAIN queue' : queue'[i] = queue'[j] => i = j
  BY <1>a, EnqueueEffect, LenProperties DEF Enqueue, TypeOK, OnePlace
<1>1. TypeOK'
  BY <1>b, AuditWorkerAssumption DEF Enqueue, TypeOK, SendState, batchVars, saveVars, shutdownVars
<1>2. OnePlace'
  BY <1>a, <1>b DEF Enqueue, OnePlace, Sent, Over, TypeOK, batchVars, saveVars, shutdownVars
<1>3. BatchMirrored'
  BY DEF Enqueue, BatchMirrored, Over, batchVars, saveVars, shutdownVars
<1>4. (ShutdownOrder /\ PanicKnown)'
  BY DEF Enqueue, ShutdownOrder, PanicKnown, batchVars, saveVars, shutdownVars
<1>5. (LossesBounded /\ LossesExact)'
  <2>1. Settled' = Settled
    BY <1>a, <1>b DEF Enqueue, Settled, Sent, TypeOK, batchVars
  <2>2. Counted' = Counted
    BY DEF Enqueue, Counted, batchVars
  <2>. QED  BY <2>1, <2>2, LossesKept DEF Enqueue, saveVars
<1>. QED  BY <1>1, <1>2, <1>3, <1>4, <1>5 DEF IInv

LEMMA ReceiveInv ==
    ASSUME TypeOK, OnePlace, BatchMirrored, ShutdownOrder,
           LossesBounded, LossesExact, PanicKnown,
           Receive
    PROVE  IInv'
<1>b. /\ queue' \in Seq(Entries)
      /\ Len(queue') = Len(queue) - 1 /\ Len(queue) \in Nat
      /\ Head(queue) \in Entries /\ InQueue(Head(queue)) /\ Head(queue) \notin batch \union stored
      /\ spc[Head(queue)] = "sent"
      /\ batch' = batch \union {Head(queue)}
      /\ \A d : InQueue(d)' <=> InQueue(d) /\ d # Head(queue)
      /\ \A i, j \in DOMAIN queue' : queue'[i] = queue'[j] => i = j
  BY DequeueEffect, LenProperties DEF Receive, TypeOK, OnePlace
<1>1. TypeOK'
  BY <1>b, AuditWorkerAssumption DEF Receive, TypeOK, RunState, saveVars, shutdownVars
<1>2. OnePlace'
  BY <1>b DEF Receive, OnePlace, Sent, Over, TypeOK, saveVars, shutdownVars
<1>3. BatchMirrored'
  <2>1. Cardinality(batch') = Cardinality(batch) + 1 /\ Cardinality(batch) \in Nat
    BY <1>b, AddOneCount, EntriesFinite DEF Receive, TypeOK
  <2>2. /\ Cardinality(batch) < BatchSize /\ pending = Cardinality(batch) /\ attempt = 0
        /\ rpc' = "received" /\ pending' = pending /\ attempt' = attempt /\ batch' # {}
    BY <1>b, <2>1 DEF Receive, BatchMirrored, saveVars
  <2>3. Cardinality(batch') <= BatchSize /\ pending' = Cardinality(batch') - 1
    BY <2>1, <2>2, AuditWorkerAssumption
  <2>. QED  BY <2>2, <2>3 DEF BatchMirrored, Over
<1>4. (ShutdownOrder /\ PanicKnown)'
  BY DEF Receive, ShutdownOrder, PanicKnown, saveVars, shutdownVars
<1>5. (LossesBounded /\ LossesExact)'
  <2>1. Settled' = Settled
    BY <1>b DEF Receive, Settled, Sent
  <2>2. Counted' = Counted
    BY DEF Receive, Counted
  <2>. QED  BY <2>1, <2>2, LossesKept DEF Receive, saveVars
<1>. QED  BY <1>1, <1>2, <1>3, <1>4, <1>5 DEF IInv

LEMMA MirrorInv ==
    ASSUME TypeOK, OnePlace, BatchMirrored, ShutdownOrder,
           LossesBounded, LossesExact, PanicKnown,
           Mirror
    PROVE  IInv'
<1>a. Cardinality(batch) \in Nat
  BY EntriesFinite DEF TypeOK
<1>1. TypeOK'
  BY <1>a DEF Mirror, TypeOK, RunState, saveVars, shutdownVars
<1>2. OnePlace'
  BY DEF Mirror, OnePlace, InQueue, Sent, Over, batchVars, saveVars, shutdownVars
<1>3. BatchMirrored'
  BY <1>a, AuditWorkerAssumption DEF Mirror, BatchMirrored, Over, saveVars
<1>4. (ShutdownOrder /\ PanicKnown)'
  BY DEF Mirror, ShutdownOrder, PanicKnown, saveVars, shutdownVars
<1>5. (LossesBounded /\ LossesExact)'
  <2>1. Settled' = Settled
    BY DEF Mirror, Settled, Sent, InQueue, batchVars
  <2>2. Counted' = Counted
    BY DEF Mirror, Counted, batchVars
  <2>. QED  BY <2>1, <2>2, LossesKept DEF Mirror, saveVars
<1>. QED  BY <1>1, <1>2, <1>3, <1>4, <1>5 DEF IInv

LEMMA FlushRestInv ==
    ASSUME TypeOK, OnePlace, BatchMirrored, ShutdownOrder,
           LossesBounded, LossesExact, PanicKnown,
           FlushRest
    PROVE  IInv'
<1>1. TypeOK'
  BY DEF FlushRest, TypeOK, SendState, RunState, ShutdownState, Over, batchVars, saveVars, shutdownVars
<1>2. OnePlace'
  BY DEF FlushRest, OnePlace, InQueue, Sent, Over, batchVars, saveVars, shutdownVars
<1>3. BatchMirrored'
  BY DEF FlushRest, BatchMirrored, Over, batchVars, saveVars, shutdownVars
<1>4. (ShutdownOrder /\ PanicKnown)'
  BY DEF FlushRest, ShutdownOrder, PanicKnown, Over, batchVars, saveVars, shutdownVars
<1>5. (LossesBounded /\ LossesExact)'
  <2>1. Settled' = Settled
    BY DEF FlushRest, Settled, Sent, InQueue, batchVars
  <2>2. Counted' = Counted
    BY DEF FlushRest, Counted, batchVars
  <2>. QED  BY <2>1, <2>2, LossesKept DEF FlushRest, saveVars
<1>. QED  BY <1>1, <1>2, <1>3, <1>4, <1>5 DEF IInv

LEMMA RunEndsInv ==
    ASSUME TypeOK, OnePlace, BatchMirrored, ShutdownOrder,
           LossesBounded, LossesExact, PanicKnown,
           RunEnds
    PROVE  IInv'
<1>1. TypeOK'
  BY DEF RunEnds, TypeOK, SendState, RunState, ShutdownState, Over, batchVars, saveVars, shutdownVars
<1>2. OnePlace'
  BY DEF RunEnds, OnePlace, InQueue, Sent, Over, batchVars, saveVars, shutdownVars
<1>3. BatchMirrored'
  BY DEF RunEnds, BatchMirrored, Over, batchVars, saveVars, shutdownVars
<1>4. (ShutdownOrder /\ PanicKnown)'
  BY DEF RunEnds, ShutdownOrder, PanicKnown, Over, batchVars, saveVars, shutdownVars
<1>5. (LossesBounded /\ LossesExact)'
  <2>1. Settled' = Settled
    BY DEF RunEnds, Settled, Sent, InQueue, batchVars
  <2>2. Counted' = Counted
    BY DEF RunEnds, Counted, batchVars
  <2>. QED  BY <2>1, <2>2, LossesKept DEF RunEnds, saveVars
<1>. QED  BY <1>1, <1>2, <1>3, <1>4, <1>5 DEF IInv

\* The rows of the batch are in, and no settled entry changes its mind.
LEMMA SaveSucceedsInv ==
    ASSUME TypeOK, OnePlace, BatchMirrored, ShutdownOrder,
           LossesBounded, LossesExact, PanicKnown,
           SaveSucceeds
    PROVE  IInv'
<1>1. TypeOK'
  BY DEF SaveSucceeds, TypeOK, SendState, RunState, ShutdownState, Over, batchVars, saveVars, shutdownVars
<1>2. OnePlace'
  <2>1. /\ spc' = spc /\ queue' = queue /\ batch' = batch /\ stored' = stored \union batch /\ rpc' = "saved"
        /\ Sent' = Sent /\ \A e : InQueue(e)' <=> InQueue(e)
    BY DEF SaveSucceeds, batchVars, Sent, InQueue
  <2>2. batch \subseteq Sent
    BY DEF OnePlace, Sent, TypeOK
  <2>. QED  BY <2>1, <2>2 DEF OnePlace
<1>3. BatchMirrored'
  BY DEF SaveSucceeds, BatchMirrored, Over, batchVars, saveVars, shutdownVars
<1>4. (ShutdownOrder /\ PanicKnown)'
  BY DEF SaveSucceeds, ShutdownOrder, PanicKnown, Over, batchVars, saveVars, shutdownVars
<1>5. (LossesBounded /\ LossesExact)'
  <2>1. Settled' = Settled /\ stored' = stored \union batch /\ Settled \intersect batch = {}
    BY DEF SaveSucceeds, Settled, Sent, InQueue, batchVars
  <2>2. Counted' = {} /\ Counted = {}
    BY DEF SaveSucceeds, Counted
  <2>3. Settled' \ stored' = Settled \ stored
    BY <2>1
  <2>. QED  BY <2>2, <2>3 DEF SaveSucceeds, LossesBounded, LossesExact
<1>. QED  BY <1>1, <1>2, <1>3, <1>4, <1>5 DEF IInv

\* Settled entries do not change; after the last attempt the batch is counted.
LEMMA SaveFailsInv ==
    ASSUME TypeOK, OnePlace, BatchMirrored, ShutdownOrder,
           LossesBounded, LossesExact, PanicKnown,
           SaveFails
    PROVE  IInv'
<1>a. Cardinality(batch) \in Nat /\ saveFailed \in Nat
  BY EntriesFinite DEF TypeOK
<1>b. /\ Settled' = Settled /\ Settled \intersect batch = {}
      /\ batch' = batch /\ broken' = broken
      /\ stored \subseteq stored' /\ stored' \subseteq stored \union batch
      /\ ~misled' => stored' = stored /\ ~misled
      /\ Settled' \ stored' = Settled \ stored
  BY DEF SaveFails, Settled, Sent, InQueue, batchVars
<1>d. Cardinality(Settled \ stored) \in Nat
  BY EntriesFinite DEF Settled, Sent
<1>1. TypeOK'
  <2>1. misled' \in BOOLEAN
    BY Zenon DEF SaveFails, TypeOK
  <2>. QED  BY <1>a, <1>b, <2>1, AuditWorkerAssumption DEF SaveFails, TypeOK, RunState, Over, batchVars, shutdownVars
<1>2. OnePlace'
  <2>1. /\ spc' = spc /\ queue' = queue /\ Sent' = Sent /\ \A e : InQueue(e)' <=> InQueue(e)
        /\ rpc = "saving" /\ rpc' # "saved"
    BY DEF SaveFails, Sent, InQueue
  <2>2. batch \subseteq Sent
    BY DEF OnePlace, Sent, TypeOK
  <2>. QED  BY <1>b, <2>1, <2>2 DEF OnePlace
<1>3. BatchMirrored'
  BY DEF SaveFails, BatchMirrored, Over, batchVars, saveVars, shutdownVars
<1>4. (ShutdownOrder /\ PanicKnown)'
  BY DEF SaveFails, ShutdownOrder, PanicKnown, batchVars, shutdownVars
<1>5. (LossesBounded /\ LossesExact)'
  <2>1. CASE rpc' = "backoff"
    <3>1. saveFailed' = saveFailed /\ Counted' = {} /\ Counted = {}
      BY <2>1 DEF SaveFails, Counted
    <3>2. LossesBounded'
      BY <1>b, <3>1 DEF LossesBounded
    <3>3. LossesExact'
      BY <1>b, <3>1 DEF LossesExact
    <3>. QED  BY <3>2, <3>3
  <2>2. CASE rpc' = "failed"
    <3>1. /\ saveFailed' = saveFailed + Cardinality(batch)
          /\ Counted' = batch /\ Counted = {}
      BY <2>2 DEF SaveFails, Counted, batchVars
    <3>2. Cardinality((Settled \ stored) \union batch) = Cardinality(Settled \ stored) + Cardinality(batch)
      BY <1>b, DisjointCount DEF TypeOK, Settled, Sent
    <3>3. Cardinality((Settled' \ stored') \union (batch \ stored')) <= Cardinality((Settled \ stored) \union batch)
      BY <1>b, SubsetCount DEF TypeOK, Settled, Sent
    <3>4. Cardinality((Settled' \ stored') \union (batch \ stored')) \in Nat
      BY <1>b, EntriesFinite DEF TypeOK, Settled, Sent
    <3>5. LossesBounded'
      <4>1. ASSUME ~broken' PROVE saveFailed >= Cardinality(Settled \ stored)
        BY <3>1, <4>1 DEF LossesBounded, SaveFails
      <4>. QED  BY <1>a, <1>d, <3>1, <3>2, <3>3, <3>4, <4>1 DEF LossesBounded, TypeOK
    <3>6. LossesExact'
      <4>1. ASSUME ~broken', ~misled'
            PROVE  saveFailed = Cardinality(Settled \ stored) /\ stored' = stored
        BY <1>b, <3>1, <4>1 DEF LossesExact, SaveFails
      <4>. QED  BY <1>a, <1>b, <3>1, <3>2, <4>1 DEF LossesExact
    <3>. QED  BY <3>5, <3>6
  <2>. QED  BY <2>1, <2>2 DEF SaveFails
<1>. QED  BY <1>1, <1>2, <1>3, <1>4, <1>5 DEF IInv

\* From the first panic on the counts promise nothing.
LEMMA SavePanicsInv ==
    ASSUME TypeOK, OnePlace, BatchMirrored, ShutdownOrder,
           LossesBounded, LossesExact, PanicKnown,
           SavePanics
    PROVE  IInv'
<1>1. TypeOK'
  BY DEF SavePanics, TypeOK, SendState, RunState, ShutdownState, Over, batchVars, saveVars, shutdownVars
<1>2. OnePlace'
  BY DEF SavePanics, OnePlace, InQueue, Sent, Over, batchVars, saveVars, shutdownVars
<1>3. BatchMirrored'
  BY DEF SavePanics, BatchMirrored, Over, batchVars, saveVars, shutdownVars
<1>4. (ShutdownOrder /\ PanicKnown)'
  BY DEF SavePanics, ShutdownOrder, PanicKnown, TypeOK, batchVars, shutdownVars
<1>5. (LossesBounded /\ LossesExact)'
  BY DEF SavePanics, LossesBounded, LossesExact, TypeOK
<1>. QED  BY <1>1, <1>2, <1>3, <1>4, <1>5 DEF IInv

LEMMA RetryInv ==
    ASSUME TypeOK, OnePlace, BatchMirrored, ShutdownOrder,
           LossesBounded, LossesExact, PanicKnown,
           Retry
    PROVE  IInv'
<1>1. TypeOK'
  <2>1. attempt + 1 \in 0..MaxSaveRetries
    BY AuditWorkerAssumption DEF Retry, BatchMirrored, TypeOK
  <2>. QED  BY <2>1 DEF Retry, TypeOK, RunState, batchVars, shutdownVars
<1>2. OnePlace'
  BY DEF Retry, OnePlace, InQueue, Sent, Over, batchVars, saveVars, shutdownVars
<1>3. BatchMirrored'
  BY DEF Retry, BatchMirrored, Over, batchVars, saveVars, shutdownVars
<1>4. (ShutdownOrder /\ PanicKnown)'
  BY DEF Retry, ShutdownOrder, PanicKnown, Over, batchVars, saveVars, shutdownVars
<1>5. (LossesBounded /\ LossesExact)'
  <2>1. Settled' = Settled
    BY DEF Retry, Settled, Sent, InQueue, batchVars
  <2>2. Counted' = Counted
    BY DEF Retry, Counted, batchVars
  <2>. QED  BY <2>1, <2>2, LossesKept DEF Retry
<1>. QED  BY <1>1, <1>2, <1>3, <1>4, <1>5 DEF IInv

LEMMA StopRetryingInv ==
    ASSUME TypeOK, OnePlace, BatchMirrored, ShutdownOrder,
           LossesBounded, LossesExact, PanicKnown,
           StopRetrying
    PROVE  IInv'
<1>a. Cardinality(batch) \in Nat /\ saveFailed \in Nat
  BY EntriesFinite DEF TypeOK
<1>1. TypeOK'
  BY <1>a DEF StopRetrying, TypeOK, RunState, Over, batchVars, shutdownVars
<1>2. OnePlace'
  BY DEF StopRetrying, OnePlace, InQueue, Sent, Over, batchVars, saveVars, shutdownVars
<1>3. BatchMirrored'
  BY DEF StopRetrying, BatchMirrored, Over, batchVars, saveVars, shutdownVars
<1>4. (ShutdownOrder /\ PanicKnown)'
  BY DEF StopRetrying, ShutdownOrder, PanicKnown, Over, batchVars, saveVars, shutdownVars
<1>5. (LossesBounded /\ LossesExact)'
  <2>1. /\ Settled' = Settled /\ Settled \intersect batch = {} /\ stored' = stored /\ broken' = broken
        /\ misled' = misled /\ saveFailed' = saveFailed + Cardinality(batch)
        /\ Counted' = batch /\ Counted = {}
    BY DEF StopRetrying, Settled, Sent, InQueue, Counted, batchVars
  <2>2. Cardinality((Settled \ stored) \union batch) = Cardinality(Settled \ stored) + Cardinality(batch)
    BY <2>1, DisjointCount DEF TypeOK, Settled, Sent
  <2>3. /\ Cardinality((Settled \ stored) \union (batch \ stored)) <= Cardinality((Settled \ stored) \union batch)
        /\ Cardinality((Settled \ stored) \union (batch \ stored)) \in Nat
        /\ Cardinality(Settled \ stored) \in Nat
    BY SubsetCount, EntriesFinite DEF TypeOK, Settled, Sent
  <2>4. ~broken => saveFailed >= Cardinality(Settled \ stored)
    BY <2>1 DEF LossesBounded
  <2>5. ~broken /\ ~misled => saveFailed = Cardinality(Settled \ stored)
    BY <2>1 DEF LossesExact
  <2>6. LossesBounded'
    BY <1>a, <2>1, <2>2, <2>3, <2>4 DEF LossesBounded
  <2>7. LossesExact'
    BY <1>a, <2>1, <2>2, <2>5 DEF LossesExact
  <2>. QED  BY <2>6, <2>7
<1>. QED  BY <1>1, <1>2, <1>3, <1>4, <1>5 DEF IInv

\* The batch settles: what was saved has its rows, what failed was counted.
LEMMA ClearInv ==
    ASSUME TypeOK, OnePlace, BatchMirrored, ShutdownOrder,
           LossesBounded, LossesExact, PanicKnown,
           Clear
    PROVE  IInv'
<1>1. TypeOK'
  BY AuditWorkerAssumption DEF Clear, TypeOK, RunState, shutdownVars
<1>2. OnePlace'
  BY DEF Clear, OnePlace, InQueue, Sent, Over, batchVars, saveVars, shutdownVars
<1>3. BatchMirrored'
  <2>1. Cardinality({}) = 0
    BY FS_EmptySet
  <2>. QED  BY <2>1, AuditWorkerAssumption DEF Clear, BatchMirrored, Over
<1>4. (ShutdownOrder /\ PanicKnown)'
  BY DEF Clear, ShutdownOrder, PanicKnown, Over, batchVars, saveVars, shutdownVars
<1>5. (LossesBounded /\ LossesExact)'
  <2>1. /\ Settled' = Settled \union batch /\ Counted' = {} /\ stored' = stored
        /\ saveFailed' = saveFailed /\ broken' = broken /\ misled' = misled
    <3>1. /\ Sent' = Sent /\ batch' = {} /\ stored' = stored /\ saveFailed' = saveFailed /\ broken' = broken
          /\ misled' = misled /\ rpc' = "selecting" /\ \A e : InQueue(e)' <=> InQueue(e)
      BY DEF Clear, Sent, InQueue
    <3>2. batch \subseteq Sent /\ \A e \in batch : ~InQueue(e)
      BY DEF OnePlace, Sent, TypeOK
    <3>. QED  BY <3>1, <3>2 DEF Settled, Counted
  <2>2. CASE rpc = "panicked"
    <3>1. broken'
      BY <2>1, <2>2 DEF PanicKnown, TypeOK
    <3>. QED  BY <3>1 DEF LossesBounded, LossesExact
  <2>3. CASE rpc = "saved"
    <3>1. Settled' \ stored' = Settled \ stored /\ Counted = {}
      BY <2>1, <2>3 DEF OnePlace, Counted
    <3>. QED  BY <2>1, <3>1 DEF LossesBounded, LossesExact
  <2>4. CASE rpc = "failed"
    <3>1. Counted = batch /\ (Settled' \ stored') = (Settled \ stored) \union (batch \ stored)
      BY <2>1, <2>4 DEF Counted
    <3>2. ~misled => batch \ stored = batch
      BY <2>4 DEF OnePlace
    <3>. QED  BY <2>1, <3>1, <3>2 DEF LossesBounded, LossesExact
  <2>. QED  BY <2>2, <2>3, <2>4 DEF Clear, Over
<1>. QED  BY <1>1, <1>2, <1>3, <1>4, <1>5 DEF IInv

\* Shutdown only reads what Run owns.
LEMMA ShutdownInv ==
    ASSUME TypeOK, OnePlace, BatchMirrored, ShutdownOrder,
           LossesBounded, LossesExact, PanicKnown,
           CloseQueue \/ ShutdownStep
    PROVE  IInv'
<1>1. TypeOK'
  <2>1. Len(queue) \in Nat /\ (remainder + pending) \in Nat
    BY LenProperties DEF TypeOK
  <2>. QED  BY <2>1 DEF CloseQueue, ShutdownStep, Drained, TimesOut, CountLost, TypeOK, ShutdownState, batchVars, saveVars
<1>2. OnePlace'
  BY DEF CloseQueue, ShutdownStep, Drained, TimesOut, CountLost, OnePlace, InQueue, Sent, Over, batchVars, saveVars, shutdownVars
<1>3. BatchMirrored'
  BY DEF CloseQueue, ShutdownStep, Drained, TimesOut, CountLost, BatchMirrored, Over, batchVars, saveVars, shutdownVars
<1>4. (ShutdownOrder /\ PanicKnown)'
  BY DEF CloseQueue, ShutdownStep, Drained, TimesOut, CountLost, ShutdownOrder, PanicKnown, Over, batchVars, saveVars, shutdownVars
<1>5. (LossesBounded /\ LossesExact)'
  <2>1. Settled' = Settled
    BY DEF CloseQueue, ShutdownStep, Drained, TimesOut, CountLost, Settled, Sent, InQueue, batchVars
  <2>2. Counted' = Counted
    BY DEF CloseQueue, ShutdownStep, Drained, TimesOut, CountLost, Counted, batchVars
  <2>. QED  BY <2>1, <2>2, LossesKept DEF CloseQueue, ShutdownStep, Drained, TimesOut, CountLost, saveVars
<1>. QED  BY <1>1, <1>2, <1>3, <1>4, <1>5 DEF IInv

LEMMA StutterInv == IInv /\ UNCHANGED vars => IInv'
<1>. SUFFICES ASSUME IInv, UNCHANGED vars PROVE IInv'
  OBVIOUS
<1>1. TypeOK' /\ BatchMirrored'
  BY DEF IInv, TypeOK, BatchMirrored, vars
<1>2. OnePlace'
  BY DEF IInv, OnePlace, InQueue, Sent, vars
<1>3. ShutdownOrder' /\ PanicKnown'
  BY DEF IInv, ShutdownOrder, PanicKnown, vars
<1>4. Settled' = Settled /\ Counted' = Counted
  BY DEF Settled, Sent, InQueue, Counted, vars
<1>5. LossesBounded' /\ LossesExact'
  BY <1>4, LossesKept DEF IInv, vars
<1>. QED  BY <1>1, <1>2, <1>3, <1>5 DEF IInv

LEMMA NextInv == IInv /\ [Next]_vars => IInv'
<1>. SUFFICES ASSUME IInv, [Next]_vars PROVE IInv'
  OBVIOUS
<1>1. /\ TypeOK /\ OnePlace /\ BatchMirrored /\ ShutdownOrder
      /\ LossesBounded /\ LossesExact /\ PanicKnown
  BY DEF IInv
<1>2. CASE UNCHANGED vars
  BY <1>2, StutterInv
<1>3. ASSUME NEW e \in Entries, Begin(e) \/ SendStep(e) PROVE IInv'
  BY <1>1, <1>3, SendAsideInv, EnqueueInv DEF SendStep
<1>4. CASE RunStep
  BY <1>1, <1>4, ReceiveInv, MirrorInv, FlushRestInv, RunEndsInv, SaveSucceedsInv, SaveFailsInv,
     SavePanicsInv, RetryInv, StopRetryingInv, ClearInv DEF RunStep
<1>5. CASE CloseQueue \/ ShutdownStep
  BY <1>1, <1>5, ShutdownInv
<1>. QED  BY <1>2, <1>3, <1>4, <1>5 DEF Next, Stopped

-------------------------------------------------------------------------------
(* The theorems *)

\* The invariant holds in every reachable state.
THEOREM Invariance == Spec => []IInv
<1>. QED  BY InitInv, NextInv, PTL DEF Spec

\* Every variable keeps its type; in particular the queue keeps its capacity.
THEOREM TypeCorrect == Spec => []TypeOK
<1>1. IInv => TypeOK
  BY DEF IInv
<1>. QED  BY <1>1, Invariance, PTL

\* flush and saveWithRetry: whatever the store does, short of a panic, an entry
\* that was given up without a row is counted under save_failed.
THEOREM LossesCounted == Spec => []NoUncountedLoss
<1>1. IInv => NoUncountedLoss
  <2>. SUFFICES ASSUME IInv, ~broken PROVE saveFailed >= Cardinality(Settled \ stored)
    BY DEF NoUncountedLoss
  <2>1. saveFailed >= Cardinality((Settled \ stored) \union (Counted \ stored)) /\ saveFailed \in Nat
    BY DEF IInv, LossesBounded, TypeOK
  <2>2. Counted \subseteq Entries /\ Settled \subseteq Entries
    BY DEF Counted, Settled, Sent, IInv, TypeOK
  <2>3. /\ Cardinality(Settled \ stored) <= Cardinality((Settled \ stored) \union (Counted \ stored))
        /\ Cardinality(Settled \ stored) \in Nat
        /\ Cardinality((Settled \ stored) \union (Counted \ stored)) \in Nat
    BY <2>2, SubsetCount, EntriesFinite
  <2>. QED  BY <2>1, <2>3
<1>. QED  BY <1>1, Invariance, PTL

\* saveWithRetry: when a failed statement has written nothing, save_failed is
\* exactly the number of entries lost to it.
THEOREM LossesCountedExactly == Spec => []LossesExact
<1>1. IInv => LossesExact
  BY DEF IInv
<1>. QED  BY <1>1, Invariance, PTL

\* Run and Shutdown: a Shutdown that was not cut short leaves nothing in the queue
\* or in the batch, and every accepted entry has its row or is counted.
THEOREM DrainLeavesNothing == Spec => []CleanDrain
<1>1. IInv => CleanDrain
  <2>. SUFFICES ASSUME IInv, shutdown = "drained"
                PROVE  /\ closed /\ queue = <<>> /\ batch = {}
                       /\ ~broken => Cardinality(Sent \ stored) <= saveFailed
    BY DEF CleanDrain
  <2>1. closed /\ queue = <<>> /\ batch = {} /\ rpc = "done"
    BY DEF IInv, ShutdownOrder
  <2>2. Settled = Sent /\ Counted = {}
    BY <2>1, EmptySeq DEF Settled, InQueue, Counted
  <2>3. Cardinality(Sent \ stored) \in Nat /\ saveFailed \in Nat
    BY EntriesFinite DEF Sent, IInv, TypeOK
  <2>4. ~broken => saveFailed >= Cardinality(Sent \ stored)
    BY <2>2 DEF IInv, LossesBounded
  <2>. QED  BY <2>1, <2>3, <2>4
<1>. QED  BY <1>1, Invariance, PTL

===============================================================================
