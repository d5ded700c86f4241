---------------------------- MODULE JobPoolProofs ----------------------------
(***************************************************************************)
(* Proofs about JobPool, for any finite sets of calls and workers and any  *)
(* queue size: the pool never forgets a caller, never answers a job twice, *)
(* loses no worker to a panic, a clean drain has answered everything, and  *)
(* the queue implements BoundedAdmission.                                  *)
(***************************************************************************)
EXTENDS JobPool, FiniteSetTheorems, SequenceTheorems, TLAPS

-------------------------------------------------------------------------------
(* The queue as a set *)

\* Appending adds exactly one member to the queue and keeps the others apart.
LEMMA AppendToQueue ==
    ASSUME jobs \in Seq(Calls), NEW c \in Calls, jobs' = Append(jobs, c)
    PROVE  /\ jobs' \in Seq(Calls)
           /\ Len(jobs') = Len(jobs) + 1
           /\ \A d : InQueue(d)' <=> InQueue(d) \/ d = c
           /\ (\A i, j \in DOMAIN jobs : jobs[i] = jobs[j] => i = j) /\ ~InQueue(c)
                 => \A i, j \in DOMAIN jobs' : jobs'[i] = jobs'[j] => i = j
<1>1. /\ jobs' \in Seq(Calls)
      /\ Len(jobs') = Len(jobs) + 1
      /\ \A i \in 1..Len(jobs) : jobs'[i] = jobs[i]
      /\ jobs'[Len(jobs) + 1] = c
  BY AppendProperties
<1>2. DOMAIN jobs = 1..Len(jobs) /\ DOMAIN jobs' = 1..Len(jobs) + 1 /\ Len(jobs) \in Nat
  BY <1>1, LenProperties
<1>3. \A d : InQueue(d)' <=> InQueue(d) \/ d = c
  BY <1>1, <1>2 DEF InQueue
<1>4. ASSUME \A i, j \in DOMAIN jobs : jobs[i] = jobs[j] => i = j, ~InQueue(c)
      PROVE  \A i, j \in DOMAIN jobs' : jobs'[i] = jobs'[j] => i = j
  BY <1>1, <1>2, <1>4 DEF InQueue
<1>. QED  BY <1>1, <1>3, <1>4

\* Taking the head removes exactly that member when no job is queued twice.
LEMMA TakeFromQueue ==
    ASSUME jobs \in Seq(Calls), jobs # <<>>, jobs' = Tail(jobs),
           \A i, j \in DOMAIN jobs : jobs[i] = jobs[j] => i = j
    PROVE  /\ jobs' \in Seq(Calls)
           /\ Len(jobs') = Len(jobs) - 1
           /\ Head(jobs) \in Calls
           /\ InQueue(Head(jobs))
           /\ \A d : InQueue(d)' <=> InQueue(d) /\ d # Head(jobs)
           /\ \A i, j \in DOMAIN jobs' : jobs'[i] = jobs'[j] => i = j
<1>1. /\ jobs' \in Seq(Calls)
      /\ Head(jobs) \in Calls
      /\ Len(jobs') = Len(jobs) - 1
      /\ \A i \in 1..Len(jobs') : jobs'[i] = jobs[i + 1]
      /\ Head(jobs) = jobs[1]
  BY HeadTailProperties
<1>2. /\ DOMAIN jobs = 1..Len(jobs)
      /\ DOMAIN jobs' = 1..Len(jobs')
      /\ Len(jobs) \in Nat \ {0}
      /\ Len(jobs') \in Nat
  BY <1>1, LenProperties, EmptySeq
<1>3. InQueue(Head(jobs))
  BY <1>1, <1>2 DEF InQueue
<1>4. ASSUME NEW d PROVE InQueue(d)' <=> InQueue(d) /\ d # Head(jobs)
  <2>1. ASSUME InQueue(d)' PROVE InQueue(d) /\ d # Head(jobs)
    BY <1>1, <1>2, <2>1 DEF InQueue
  <2>2. ASSUME InQueue(d), d # Head(jobs) PROVE InQueue(d)'
    <3>1. PICK i \in 1..Len(jobs) : jobs[i] = d
      BY <1>2, <2>2 DEF InQueue
    <3>2. i - 1 \in 1..Len(jobs') /\ jobs'[i - 1] = d
      BY <1>1, <1>2, <2>2, <3>1
    <3>. QED  BY <1>2, <3>2 DEF InQueue
  <2>. QED  BY <2>1, <2>2
<1>5. \A i, j \in DOMAIN jobs' : jobs'[i] = jobs'[j] => i = j
  BY <1>1, <1>2
<1>. QED  BY <1>1, <1>3, <1>4, <1>5

-------------------------------------------------------------------------------
(* The invariant *)

LEMMA InitInv == Init => IInv
<1> SUFFICES ASSUME Init PROVE IInv
  OBVIOUS
<1>. USE JobPoolAssumption DEF Init
<1>1. TypeOK
  <2>1. /\ pc \in [Calls -> CallState] /\ wpc \in [Workers -> WorkerState]
        /\ shutdown \in ShutdownState
    BY DEF CallState, WorkerState, ShutdownState
  <2>2. jobs \in Seq(Calls) /\ Len(jobs) <= QueueSize /\ lost \in 0..QueueSize
    OBVIOUS
  <2>3. replies \in [Calls -> Seq(Reply)]
    BY EmptySeq
  <2>. QED  BY <2>1, <2>2, <2>3 DEF TypeOK
<1>2. WorkersTidy /\ ShutdownOrder /\ WorkersSurvive
  BY DEF WorkersTidy, ShutdownOrder, WorkersSurvive
<1>3. JobInOnePlace
  BY DEF JobInOnePlace, InQueue
<1>4. Custody
  BY DEF Custody, InQueue
<1>5. NoCallerStranded
  BY DEF NoCallerStranded
<1>. QED  BY <1>1, <1>2, <1>3, <1>4, <1>5 DEF IInv

LEMMA ContextEndsInv ==
    ASSUME IInv, NEW c \in Calls, ContextEnds(c)
    PROVE  IInv'
<1>. USE JobPoolAssumption DEF IInv, ContextEnds, callVars, channelVars, workerVars, shutdownVars
<1>1. TypeOK'
  BY DEF TypeOK, CallState, WorkerState, ShutdownState, Returned, Reply
<1>2. WorkersTidy'
  BY DEF WorkersTidy, TypeOK
<1>3. ShutdownOrder'
  BY DEF ShutdownOrder, TypeOK
<1>4. JobInOnePlace'
  BY DEF JobInOnePlace, TypeOK, InQueue, InHand
<1>5. Custody'
  BY DEF Custody, TypeOK, InQueue, Returned
<1>6. NoCallerStranded'
  BY DEF NoCallerStranded, TypeOK, InQueue, InHand, Returned
<1>7. WorkersSurvive'
  BY DEF WorkersSurvive, TypeOK
<1>. QED  BY <1>1, <1>2, <1>3, <1>4, <1>5, <1>6, <1>7

LEMMA CheckClosedInv ==
    ASSUME IInv, NEW c \in Calls, CheckClosed(c)
    PROVE  IInv'
<1>. USE JobPoolAssumption DEF IInv, CheckClosed, callVars, channelVars, workerVars, shutdownVars
<1>1. TypeOK'
  BY DEF TypeOK, CallState, WorkerState, ShutdownState, Returned, Reply
<1>2. WorkersTidy'
  BY DEF WorkersTidy, TypeOK
<1>3. ShutdownOrder'
  BY DEF ShutdownOrder, TypeOK
<1>4. JobInOnePlace'
  BY DEF JobInOnePlace, TypeOK, InQueue, InHand
<1>5. Custody'
  BY DEF Custody, TypeOK, InQueue, Returned
<1>6. NoCallerStranded'
  BY DEF NoCallerStranded, TypeOK, InQueue, InHand, Returned
<1>7. WorkersSurvive'
  BY DEF WorkersSurvive, TypeOK
<1>. QED  BY <1>1, <1>2, <1>3, <1>4, <1>5, <1>6, <1>7

LEMMA RejectFullInv ==
    ASSUME IInv, NEW c \in Calls, RejectFull(c)
    PROVE  IInv'
<1>. USE JobPoolAssumption DEF IInv, RejectFull, callVars, channelVars, workerVars, shutdownVars
<1>1. TypeOK'
  BY DEF TypeOK, CallState, WorkerState, ShutdownState, Returned, Reply
<1>2. WorkersTidy'
  BY DEF WorkersTidy, TypeOK
<1>3. ShutdownOrder'
  BY DEF ShutdownOrder, TypeOK
<1>4. JobInOnePlace'
  BY DEF JobInOnePlace, TypeOK, InQueue, InHand
<1>5. Custody'
  BY DEF Custody, TypeOK, InQueue, Returned
<1>6. NoCallerStranded'
  BY DEF NoCallerStranded, TypeOK, InQueue, InHand, Returned
<1>7. WorkersSurvive'
  BY DEF WorkersSurvive, TypeOK
<1>. QED  BY <1>1, <1>2, <1>3, <1>4, <1>5, <1>6, <1>7

LEMMA SendOnClosedInv ==
    ASSUME IInv, NEW c \in Calls, SendOnClosed(c)
    PROVE  IInv'
<1>. USE JobPoolAssumption DEF IInv, SendOnClosed, callVars, channelVars, workerVars, shutdownVars
<1>1. TypeOK'
  BY DEF TypeOK, CallState, WorkerState, ShutdownState, Returned, Reply
<1>2. WorkersTidy'
  BY DEF WorkersTidy, TypeOK
<1>3. ShutdownOrder'
  BY DEF ShutdownOrder, TypeOK
<1>4. JobInOnePlace'
  BY DEF JobInOnePlace, TypeOK, InQueue, InHand
<1>5. Custody'
  BY DEF Custody, TypeOK, InQueue, Returned
<1>6. NoCallerStranded'
  BY DEF NoCallerStranded, TypeOK, InQueue, InHand, Returned
<1>7. WorkersSurvive'
  BY DEF WorkersSurvive, TypeOK
<1>. QED  BY <1>1, <1>2, <1>3, <1>4, <1>5, <1>6, <1>7

LEMMA TakeReplyInv ==
    ASSUME IInv, NEW c \in Calls, TakeReply(c)
    PROVE  IInv'
<1>. USE JobPoolAssumption DEF IInv, TakeReply, callVars, channelVars, workerVars, shutdownVars
<1>0. Head(replies[c]) \in Reply
  BY HeadTailProperties DEF TypeOK
<1>1. TypeOK'
  BY DEF TypeOK, CallState, WorkerState, ShutdownState, Returned, Reply
<1>2. WorkersTidy'
  BY DEF WorkersTidy, TypeOK
<1>3. ShutdownOrder'
  BY DEF ShutdownOrder, TypeOK
<1>4. JobInOnePlace'
  BY DEF JobInOnePlace, TypeOK, InQueue, InHand
<1>5. Custody'
  BY <1>0 DEF Custody, TypeOK, InQueue, Reply
<1>6. NoCallerStranded'
  BY DEF NoCallerStranded, TypeOK, InQueue, InHand, Returned
<1>7. WorkersSurvive'
  BY DEF WorkersSurvive, TypeOK
<1>. QED  BY <1>1, <1>2, <1>3, <1>4, <1>5, <1>6, <1>7

LEMMA AbandonInv ==
    ASSUME IInv, NEW c \in Calls, Abandon(c)
    PROVE  IInv'
<1>. USE JobPoolAssumption DEF IInv, Abandon, callVars, channelVars, workerVars, shutdownVars
<1>1. TypeOK'
  BY DEF TypeOK, CallState, WorkerState, ShutdownState, Returned, Reply
<1>2. WorkersTidy'
  BY DEF WorkersTidy, TypeOK
<1>3. ShutdownOrder'
  BY DEF ShutdownOrder, TypeOK
<1>4. JobInOnePlace'
  BY DEF JobInOnePlace, TypeOK, InQueue, InHand
<1>5. Custody'
  BY DEF Custody, TypeOK, InQueue, Returned
<1>6. NoCallerStranded'
  BY DEF NoCallerStranded, TypeOK, InQueue, InHand, Returned
<1>7. WorkersSurvive'
  BY DEF WorkersSurvive, TypeOK
<1>. QED  BY <1>1, <1>2, <1>3, <1>4, <1>5, <1>6, <1>7

LEMMA SendToWorkerInv ==
    ASSUME IInv, NEW c \in Calls, NEW w \in Workers, SendToWorker(c, w)
    PROVE  IInv'
<1>. USE JobPoolAssumption DEF IInv, SendToWorker, callVars, channelVars, workerVars, shutdownVars
<1>1. TypeOK'
  BY DEF TypeOK, CallState, WorkerState, ShutdownState, Returned, Reply
<1>2. WorkersTidy'
  BY DEF WorkersTidy, TypeOK
<1>3. ShutdownOrder'
  BY DEF ShutdownOrder, TypeOK
<1>4. JobInOnePlace'
  <2>1. \A d : InQueue(d)' <=> InQueue(d)
    BY DEF InQueue
  <2>2. ~InQueue(c) /\ \A v \in Workers : held[v] # c
    BY DEF Custody, TypeOK
  <2>3. \A v \in Workers : held'[v] = IF v = w THEN c ELSE held[v]
    BY DEF TypeOK
  <2>. QED  BY <2>1, <2>2, <2>3 DEF JobInOnePlace, InHand
<1>5. Custody'
  BY DEF Custody, TypeOK, InQueue, Returned
<1>6. NoCallerStranded'
  <2>1. \A d : InQueue(d)' <=> InQueue(d)
    BY DEF InQueue
  <2>2. \A v \in Workers : held'[v] = IF v = w THEN c ELSE held[v]
    BY DEF TypeOK
  <2>3. held[w] = NoCall
    BY DEF WorkersTidy, Parked
  <2>4. \A d \in Calls : InHand(d) => InHand(d)'
    BY <2>2, <2>3 DEF InHand
  <2>5. InHand(c)'
    BY <2>2 DEF InHand
  <2>. QED  BY <2>1, <2>4, <2>5 DEF NoCallerStranded, TypeOK
<1>7. WorkersSurvive'
  BY DEF WorkersSurvive, TypeOK
<1>. QED  BY <1>1, <1>2, <1>3, <1>4, <1>5, <1>6, <1>7

LEMMA SendToBufferInv ==
    ASSUME IInv, NEW c \in Calls, SendToBuffer(c)
    PROVE  IInv'
<1>. USE JobPoolAssumption DEF IInv, SendToBuffer, callVars, channelVars, workerVars, shutdownVars
<1>0. /\ \A d : InQueue(d)' <=> InQueue(d) \/ d = c
      /\ ~InQueue(c) /\ ~InHand(c)
      /\ \A d : InHand(d)' <=> InHand(d)
  BY AppendToQueue DEF TypeOK, Custody, InHand
<1>1. TypeOK'
  BY DEF TypeOK, CallState, WorkerState, ShutdownState, Returned, Reply
<1>2. WorkersTidy'
  BY DEF WorkersTidy, TypeOK, Parked
<1>3. ShutdownOrder'
  BY DEF ShutdownOrder, TypeOK
<1>4. JobInOnePlace'
  <2>1. \A i, j \in DOMAIN jobs' : jobs'[i] = jobs'[j] => i = j
    BY <1>0, AppendToQueue DEF TypeOK, JobInOnePlace
  <2>2. \A d \in Calls : ~(InQueue(d)' /\ InHand(d)')
    BY <1>0 DEF JobInOnePlace
  <2>. QED  BY <2>1, <2>2 DEF JobInOnePlace
<1>5. Custody'
  BY <1>0 DEF Custody, TypeOK
<1>6. NoCallerStranded'
  BY <1>0 DEF NoCallerStranded, TypeOK
<1>7. WorkersSurvive'
  BY DEF WorkersSurvive, TypeOK
<1>. QED  BY <1>1, <1>2, <1>3, <1>4, <1>5, <1>6, <1>7

LEMMA ReceiveInv ==
    ASSUME IInv, NEW w \in Workers, Receive(w)
    PROVE  IInv'
<1>. USE JobPoolAssumption DEF IInv, Receive, callVars, channelVars, workerVars, shutdownVars
<1>0. /\ Head(jobs) \in Calls
      /\ InQueue(Head(jobs))
      /\ \A d : InQueue(d)' <=> InQueue(d) /\ d # Head(jobs)
      /\ \A i, j \in DOMAIN jobs' : jobs'[i] = jobs'[j] => i = j
  BY TakeFromQueue DEF TypeOK, JobInOnePlace
<1>a. /\ held[w] = NoCall
      /\ \A v \in Workers : held'[v] = IF v = w THEN Head(jobs) ELSE held[v]
      /\ \A v \in Workers : held[v] # Head(jobs)
  BY <1>0 DEF WorkersTidy, TypeOK, JobInOnePlace, InHand
<1>b. \A d : InHand(d)' /\ d # NoCall => InHand(d) \/ d = Head(jobs)
  BY <1>a DEF InHand
<1>c. \A d : (d # NoCall /\ InHand(d)) \/ d = Head(jobs) => InHand(d)'
  BY <1>a DEF InHand
<1>1. TypeOK'
  BY DEF TypeOK, CallState, WorkerState, ShutdownState, Returned, Reply
<1>2. WorkersTidy'
  BY DEF WorkersTidy, TypeOK
<1>3. ShutdownOrder'
  BY DEF ShutdownOrder, TypeOK
<1>4. JobInOnePlace'
  <2>1. \A u, v \in Workers : held'[u] = held'[v] /\ held'[u] # NoCall => u = v
    BY <1>a DEF JobInOnePlace
  <2>2. \A d \in Calls : ~(InQueue(d)' /\ InHand(d)')
    BY <1>0, <1>b DEF JobInOnePlace
  <2>. QED  BY <1>0, <2>1, <2>2 DEF JobInOnePlace
<1>5. Custody'
  BY <1>0, <1>a DEF Custody, TypeOK
<1>6. NoCallerStranded'
  BY <1>0, <1>c DEF NoCallerStranded, TypeOK
<1>7. WorkersSurvive'
  BY DEF WorkersSurvive, TypeOK
<1>. QED  BY <1>1, <1>2, <1>3, <1>4, <1>5, <1>6, <1>7

LEMMA ParkInv ==
    ASSUME IInv, NEW w \in Workers, Park(w)
    PROVE  IInv'
<1>. USE JobPoolAssumption DEF IInv, Park, callVars, channelVars, workerVars, shutdownVars
<1>1. TypeOK'
  BY DEF TypeOK, CallState, WorkerState, ShutdownState, Returned, Reply
<1>2. WorkersTidy'
  BY DEF WorkersTidy, TypeOK
<1>3. ShutdownOrder'
  BY DEF ShutdownOrder, TypeOK
<1>4. JobInOnePlace'
  BY DEF JobInOnePlace, TypeOK, InQueue, InHand
<1>5. Custody'
  BY DEF Custody, TypeOK, InQueue, Returned
<1>6. NoCallerStranded'
  BY DEF NoCallerStranded, TypeOK, InQueue, InHand, Returned
<1>7. WorkersSurvive'
  BY DEF WorkersSurvive, TypeOK
<1>. QED  BY <1>1, <1>2, <1>3, <1>4, <1>5, <1>6, <1>7

LEMMA ExitInv ==
    ASSUME IInv, NEW w \in Workers, Exit(w)
    PROVE  IInv'
<1>. USE JobPoolAssumption DEF IInv, Exit, callVars, channelVars, workerVars, shutdownVars
<1>1. TypeOK'
  BY DEF TypeOK, CallState, WorkerState, ShutdownState, Returned, Reply
<1>2. WorkersTidy'
  BY DEF WorkersTidy, TypeOK
<1>3. ShutdownOrder'
  BY DEF ShutdownOrder, TypeOK
<1>4. JobInOnePlace'
  BY DEF JobInOnePlace, TypeOK, InQueue, InHand
<1>5. Custody'
  BY DEF Custody, TypeOK, InQueue, Returned
<1>6. NoCallerStranded'
  BY DEF NoCallerStranded, TypeOK, InQueue, InHand, Returned
<1>7. WorkersSurvive'
  BY DEF WorkersSurvive, TypeOK
<1>. QED  BY <1>1, <1>2, <1>3, <1>4, <1>5, <1>6, <1>7

LEMMA ResolveInv ==
    ASSUME IInv, NEW w \in Workers, NEW r \in {"plugin", "error"}, Resolve(w, r)
    PROVE  IInv'
<1>a. TypeOK /\ WorkersTidy /\ Custody
  BY DEF IInv
<1>b. wpc[w] = "resolving"
  BY DEF Resolve
<1>c. held[w] # NoCall
  BY <1>a, <1>b DEF WorkersTidy
<1>d. held[w] \in Calls
  BY <1>a, <1>c DEF TypeOK
<1>e. replies[held[w]] = <<>>
  BY <1>a, <1>b, <1>c DEF Custody
<1>f. r \in Reply
  BY DEF Reply
<1>g. /\ Append(replies[held[w]], r) \in Seq(Reply)
      /\ Len(Append(replies[held[w]], r)) = 1
      /\ Append(replies[held[w]], r) # <<>>
  <2>1. <<>> \in Seq(Reply) /\ Len(<<>>) = 0
    OBVIOUS
  <2>2. /\ Append(<<>>, r) \in Seq(Reply)
        /\ Len(Append(<<>>, r)) = 1
    BY <1>f, <2>1, AppendProperties
  <2>3. Append(<<>>, r) # <<>>
    BY <2>1, <2>2
  <2>. QED  BY <1>e, <2>2, <2>3
<1>0. /\ held[w] \in Calls
      /\ r \in Reply
      /\ replies[held[w]] = <<>>
      /\ Append(replies[held[w]], r) \in Seq(Reply)
      /\ Len(Append(replies[held[w]], r)) = 1
      /\ Append(replies[held[w]], r) # <<>>
  BY <1>d, <1>e, <1>f, <1>g
<1>. USE JobPoolAssumption DEF IInv, Resolve, callVars, channelVars, workerVars, shutdownVars
<1>1. TypeOK'
  BY <1>0 DEF TypeOK, WorkerState
<1>2. WorkersTidy'
  BY DEF WorkersTidy, TypeOK
<1>3. ShutdownOrder'
  BY DEF ShutdownOrder, TypeOK
<1>4. JobInOnePlace'
  BY DEF JobInOnePlace, TypeOK, InQueue, InHand
<1>5. Custody'
  <2>1. ASSUME NEW d \in Calls PROVE Custody!1!(d)'
    BY <1>0 DEF Custody, TypeOK, InQueue, JobInOnePlace, InHand
  <2>2. ASSUME NEW v \in Workers PROVE Custody!2!(v)'
    BY <1>0 DEF Custody, TypeOK, JobInOnePlace
  <2>. QED  BY <2>1, <2>2 DEF Custody
<1>6. NoCallerStranded'
  BY DEF NoCallerStranded, TypeOK, InQueue, InHand, Returned
<1>7. WorkersSurvive'
  BY DEF WorkersSurvive, TypeOK
<1>. QED  BY <1>1, <1>2, <1>3, <1>4, <1>5, <1>6, <1>7

LEMMA PanicInv ==
    ASSUME IInv, NEW w \in Workers, Panic(w)
    PROVE  IInv'
<1>. USE JobPoolAssumption DEF IInv, Panic, callVars, channelVars, workerVars, shutdownVars
<1>0. /\ held[w] \in Calls
      /\ wpc[w] = "resolving" => replies[held[w]] = <<>>
      /\ wpc[w] = "answered" => replies[held[w]] # <<>>
      /\ replies[held[w]] \in Seq(Reply)
  BY DEF WorkersTidy, Custody, TypeOK
<1>n. /\ Append(replies[held[w]], "generationFailed") \in Seq(Reply)
      /\ wpc[w] = "resolving" => Len(Append(replies[held[w]], "generationFailed")) = 1
      /\ Append(replies[held[w]], "generationFailed") # <<>>
  BY <1>0, AppendProperties DEF Reply
<1>a. \A v \in Workers : held'[v] = IF v = w THEN NoCall ELSE held[v]
  BY DEF TypeOK
<1>b. /\ replies'[held[w]] # <<>>
      /\ \A d \in Calls \ {held[w]} : replies'[d] = replies[d]
      /\ \A d \in Calls : Len(replies'[d]) <= 1
  BY <1>0, <1>n DEF Custody, TypeOK
<1>1. TypeOK'
  BY <1>0, <1>n DEF TypeOK, WorkerState
<1>2. WorkersTidy'
  BY DEF WorkersTidy, TypeOK
<1>3. ShutdownOrder'
  BY DEF ShutdownOrder, TypeOK
<1>4. JobInOnePlace'
  BY DEF JobInOnePlace, TypeOK, InQueue, InHand
<1>5. Custody'
  <2>1. ASSUME NEW d \in Calls PROVE Custody!1!(d)'
    BY <1>0, <1>b DEF Custody, InQueue, JobInOnePlace, InHand
  <2>2. ASSUME NEW v \in Workers PROVE Custody!2!(v)'
    BY <1>0, <1>a, <1>b DEF Custody, TypeOK, JobInOnePlace
  <2>. QED  BY <2>1, <2>2 DEF Custody
<1>6. NoCallerStranded'
  <2>1. \A d \in Calls \ {held[w]} : InHand(d) => InHand(d)'
    BY <1>a DEF InHand
  <2>2. \A d \in Calls : replies[d] # <<>> => replies'[d] # <<>>
    BY <1>b
  <2>. QED  BY <1>b, <2>1, <2>2 DEF NoCallerStranded, InQueue
<1>7. WorkersSurvive'
  BY DEF WorkersSurvive, TypeOK
<1>. QED  BY <1>1, <1>2, <1>3, <1>4, <1>5, <1>6, <1>7

LEMMA FinishInv ==
    ASSUME IInv, NEW w \in Workers, Finish(w)
    PROVE  IInv'
<1>. USE JobPoolAssumption DEF IInv, Finish, callVars, channelVars, workerVars, shutdownVars
<1>1. TypeOK'
  BY DEF TypeOK, CallState, WorkerState, ShutdownState, Returned, Reply
<1>2. WorkersTidy'
  BY DEF WorkersTidy, TypeOK
<1>3. ShutdownOrder'
  BY DEF ShutdownOrder, TypeOK
<1>4. JobInOnePlace'
  BY DEF JobInOnePlace, TypeOK, InQueue, InHand
<1>5. Custody'
  BY DEF Custody, TypeOK, InQueue, Returned
<1>6. NoCallerStranded'
  <2>1. held[w] \in Calls /\ replies[held[w]] # <<>>
    BY DEF WorkersTidy, Custody, TypeOK
  <2>2. \A v \in Workers \ {w} : held'[v] = held[v]
    BY DEF TypeOK
  <2>3. \A d \in Calls \ {held[w]} : InHand(d) => InHand(d)'
    BY <2>2 DEF InHand
  <2>. QED  BY <2>1, <2>3 DEF NoCallerStranded, InQueue
<1>7. WorkersSurvive'
  BY DEF WorkersSurvive, TypeOK
<1>. QED  BY <1>1, <1>2, <1>3, <1>4, <1>5, <1>6, <1>7

LEMMA MarkClosedInv ==
    ASSUME IInv, MarkClosed
    PROVE  IInv'
<1>. USE JobPoolAssumption DEF IInv, MarkClosed, callVars, channelVars, workerVars, shutdownVars
<1>1. TypeOK'
  BY DEF TypeOK, CallState, WorkerState, ShutdownState, Returned, Reply
<1>2. WorkersTidy'
  BY DEF WorkersTidy, TypeOK
<1>3. ShutdownOrder'
  BY DEF ShutdownOrder, TypeOK
<1>4. JobInOnePlace'
  BY DEF JobInOnePlace, TypeOK, InQueue, InHand
<1>5. Custody'
  BY DEF Custody, TypeOK, InQueue, Returned
<1>6. NoCallerStranded'
  BY DEF NoCallerStranded, TypeOK, InQueue, InHand, Returned
<1>7. WorkersSurvive'
  BY DEF WorkersSurvive, TypeOK
<1>. QED  BY <1>1, <1>2, <1>3, <1>4, <1>5, <1>6, <1>7

LEMMA CloseJobsInv ==
    ASSUME IInv, CloseJobs
    PROVE  IInv'
<1>. USE JobPoolAssumption DEF IInv, CloseJobs, callVars, channelVars, workerVars, shutdownVars
<1>0. \A w \in Workers : wpc'[w] = IF wpc[w] = "parked" THEN "ready" ELSE wpc[w]
  BY DEF Parked
<1>1. TypeOK'
  BY DEF TypeOK, CallState, WorkerState, ShutdownState, Returned, Reply
<1>2. WorkersTidy'
  BY <1>0 DEF WorkersTidy
<1>3. ShutdownOrder'
  BY DEF ShutdownOrder, TypeOK
<1>4. JobInOnePlace'
  BY DEF JobInOnePlace, TypeOK, InQueue, InHand
<1>5. Custody'
  <2>1. ASSUME NEW d \in Calls PROVE Custody!1!(d)'
    BY DEF Custody, InQueue
  <2>2. ASSUME NEW v \in Workers PROVE Custody!2!(v)'
    BY <1>0 DEF Custody
  <2>. QED  BY <2>1, <2>2 DEF Custody
<1>6. NoCallerStranded'
  BY DEF NoCallerStranded, TypeOK, InQueue, InHand, Returned
<1>7. WorkersSurvive'
  BY DEF WorkersSurvive, TypeOK
<1>. QED  BY <1>1, <1>2, <1>3, <1>4, <1>5, <1>6, <1>7

LEMMA DrainedInv ==
    ASSUME IInv, Drained
    PROVE  IInv'
<1>. USE JobPoolAssumption DEF IInv, Drained, callVars, channelVars, workerVars, shutdownVars
<1>1. TypeOK'
  BY DEF TypeOK, CallState, WorkerState, ShutdownState, Returned, Reply
<1>2. WorkersTidy'
  BY DEF WorkersTidy, TypeOK
<1>3. ShutdownOrder'
  BY DEF ShutdownOrder, TypeOK
<1>4. JobInOnePlace'
  BY DEF JobInOnePlace, TypeOK, InQueue, InHand
<1>5. Custody'
  BY DEF Custody, TypeOK, InQueue, Returned
<1>6. NoCallerStranded'
  BY DEF NoCallerStranded, TypeOK, InQueue, InHand, Returned
<1>7. WorkersSurvive'
  BY DEF WorkersSurvive, TypeOK
<1>. QED  BY <1>1, <1>2, <1>3, <1>4, <1>5, <1>6, <1>7

LEMMA DrainTimesOutInv ==
    ASSUME IInv, DrainTimesOut
    PROVE  IInv'
<1>. USE JobPoolAssumption DEF IInv, DrainTimesOut, callVars, channelVars, workerVars, shutdownVars
<1>1. TypeOK'
  BY DEF TypeOK, CallState, WorkerState, ShutdownState, Returned, Reply
<1>2. WorkersTidy'
  BY DEF WorkersTidy, TypeOK
<1>3. ShutdownOrder'
  BY DEF ShutdownOrder, TypeOK
<1>4. JobInOnePlace'
  BY DEF JobInOnePlace, TypeOK, InQueue, InHand
<1>5. Custody'
  BY DEF Custody, TypeOK, InQueue, Returned
<1>6. NoCallerStranded'
  BY DEF NoCallerStranded, TypeOK, InQueue, InHand, Returned
<1>7. WorkersSurvive'
  BY DEF WorkersSurvive, TypeOK
<1>. QED  BY <1>1, <1>2, <1>3, <1>4, <1>5, <1>6, <1>7

LEMMA StutterInv ==
    ASSUME IInv, UNCHANGED vars
    PROVE  IInv'
  BY DEF IInv, vars, TypeOK, WorkersTidy, ShutdownOrder, JobInOnePlace, Custody,
         NoCallerStranded, WorkersSurvive, InQueue, InHand

\* Every step keeps the invariant: one lemma per action.
LEMMA NextInv == IInv /\ [Next]_vars => IInv'
<1> SUFFICES ASSUME IInv, [Next]_vars PROVE IInv'
  OBVIOUS
<1>1. ASSUME NEW c \in Calls, ContextEnds(c) \/ CallStep(c) PROVE IInv'
  BY <1>1, ContextEndsInv, CheckClosedInv, SendToWorkerInv, SendToBufferInv,
     RejectFullInv, SendOnClosedInv, TakeReplyInv, AbandonInv DEF CallStep
<1>2. ASSUME NEW w \in Workers, WorkerStep(w) PROVE IInv'
  BY <1>2, ReceiveInv, ParkInv, ExitInv, ResolveInv, PanicInv, FinishInv DEF WorkerStep
<1>3. CASE ShutdownStep
  BY <1>3, MarkClosedInv, CloseJobsInv, DrainedInv, DrainTimesOutInv DEF ShutdownStep
<1>4. CASE Stopped \/ UNCHANGED vars
  BY <1>4, StutterInv DEF Stopped
<1>. QED  BY <1>1, <1>2, <1>3, <1>4 DEF Next

\* The inductive invariant holds throughout.
THEOREM Invariance == Spec => []IInv
  BY InitInv, NextInv, PTL DEF Spec

-------------------------------------------------------------------------------
(* What the invariant gives *)

\* Every variable keeps its type; the channel never holds more than QueueSize
\* jobs.
THEOREM TypeCorrect == Spec => []TypeOK
<1>1. IInv => TypeOK
  BY DEF IInv
<1>. QED  BY <1>1, Invariance, PTL

\* No accepted call is forgotten by the queue, the workers and its own channel
\* at once: processJob's panic barrier answers, and close drains.
THEOREM CallersKept == Spec => []NoCallerStranded
<1>1. IInv => NoCallerStranded
  BY DEF IInv
<1>. QED  BY <1>1, Invariance, PTL

\* A job is answered at most once, so no worker blocks on a result channel.
THEOREM AnsweredOnce == Spec => []OneReply
<1>1. IInv => OneReply
  BY DEF IInv, OneReply, Custody, WorkersTidy
<1>. QED  BY <1>1, Invariance, PTL

\* No panic costs the pool a worker.
THEOREM WorkersKept == Spec => []WorkersSurvive
<1>1. IInv => WorkersSurvive
  BY DEF IInv
<1>. QED  BY <1>1, Invariance, PTL

\* A Shutdown that reports no lost job has left none without an answer.
THEOREM CleanDrain == Spec => []CleanDrainAnswersAll
<1>1. IInv => CleanDrainAnswersAll
  <2> SUFFICES ASSUME IInv, shutdown = "drained", NEW c \in Calls
               PROVE  /\ pc[c] = "waiting" => replies[c] # <<>>
                      /\ ~InQueue(c) /\ ~InHand(c)
    BY DEF CleanDrainAnswersAll
  <2>1. jobs = <<>>
    BY JobPoolAssumption DEF IInv, ShutdownOrder, WorkersSurvive
  <2>2. ~InQueue(c)
    BY <2>1 DEF InQueue
  <2>3. ~InHand(c)
    BY JobPoolAssumption DEF IInv, ShutdownOrder, WorkersTidy, InHand
  <2>. QED  BY <2>2, <2>3 DEF IInv, NoCallerStranded
<1>. QED  BY <1>1, Invariance, PTL

-------------------------------------------------------------------------------
(* The job queue as a bounded admission *)

\* The abstraction counts as FiniteSets does.
LEMMA SameCardinality == \A S : Admission!Cardinality(S) = Cardinality(S)
  BY DEF Cardinality, Admission!Cardinality

\* A queue has as many jobs as members, at most, and exactly if none is in it twice.
LEMMA CountQueued ==
    ASSUME NEW s \in Seq(Calls), NEW Q \in SUBSET Calls,
           \A c \in Calls : c \in Q <=> \E i \in DOMAIN s : s[i] = c
    PROVE  /\ IsFiniteSet(Q) /\ Cardinality(Q) \in Nat
           /\ Cardinality(Q) <= Len(s)
           /\ (\A i, j \in DOMAIN s : s[i] = s[j] => i = j) => Cardinality(Q) = Len(s)
<1>1. /\ Len(s) \in Nat /\ DOMAIN s = 1..Len(s)
      /\ \A i \in 1..Len(s) : s[i] \in Calls
      /\ s = [i \in 1..Len(s) |-> s[i]]
  BY LenProperties, ElementOfSeq
<1>2. s \in [1..Len(s) -> Q]
  BY <1>1
<1>3. s \in Surjection(1..Len(s), Q)
  BY <1>1, <1>2 DEF Surjection
<1>4. IsFiniteSet(1..Len(s)) /\ Cardinality(1..Len(s)) = Len(s)
  <2>1. ASSUME NEW n \in Nat PROVE IsFiniteSet(1..n) /\ Cardinality(1..n) = n
    <3>1. IsFiniteSet(1..n) /\ Cardinality(1..n) = IF 1 > n THEN 0 ELSE n - 1 + 1
      BY FS_Interval
    <3>. QED  BY <3>1
  <2>. QED  BY <1>1, <2>1
<1>5. /\ IsFiniteSet(Q) /\ Cardinality(Q) <= Len(s)
      /\ Cardinality(Q) = Len(s) <=> s \in Injection(1..Len(s), Q)
  BY <1>3, <1>4, FS_Surjection
<1>6. Cardinality(Q) \in Nat
  BY <1>5, FS_CardinalityType
<1>7. (\A i, j \in DOMAIN s : s[i] = s[j] => i = j) => s \in Injection(1..Len(s), Q)
  BY <1>1, <1>2 DEF Injection, IsInjective
<1>. QED  BY <1>5, <1>6, <1>7

\* Workers have no more jobs in their hands than they are, and fewer if one has none.
LEMMA CountInHands ==
    ASSUME NEW h \in [Workers -> Calls \union {NoCall}], NEW H \in SUBSET Calls,
           \A c \in Calls : c \in H <=> \E w \in Workers : h[w] = c
    PROVE  /\ Cardinality(H) <= Cardinality(Workers)
           /\ (\E w \in Workers : h[w] = NoCall)
                 => Cardinality(H) < Cardinality(Workers)
<1> DEFINE Busy == {w \in Workers : h[w] # NoCall}
           f == [w \in Busy |-> h[w]]
<1>1. IsFiniteSet(Workers) /\ Cardinality(Workers) \in Nat
  BY FS_CardinalityType, JobPoolAssumption
<1>2. /\ IsFiniteSet(Busy) /\ Cardinality(Busy) \in Nat
      /\ Cardinality(Busy) <= Cardinality(Workers)
  BY <1>1, FS_Subset, FS_CardinalityType
<1>3. f \in Surjection(Busy, H)
  BY JobPoolAssumption DEF Surjection
<1>4. Cardinality(H) <= Cardinality(Busy) /\ Cardinality(H) \in Nat
  <2>. HIDE DEF Busy, f
  <2>. QED  BY <1>2, <1>3, FS_Surjection, FS_CardinalityType
<1>5. ASSUME NEW w \in Workers, h[w] = NoCall
      PROVE  Cardinality(Busy) < Cardinality(Workers)
  <2>1. Busy \subseteq Workers \ {w}
    BY <1>5
  <2>2. IsFiniteSet(Workers \ {w}) /\ Cardinality(Workers \ {w}) = Cardinality(Workers) - 1
    BY <1>1, FS_RemoveElement
  <2>3. Cardinality(Busy) <= Cardinality(Workers \ {w})
    BY <2>1, <2>2, FS_Subset
  <2>. QED  BY <1>1, <1>2, <2>2, <2>3
<1>. HIDE DEF Busy
<1>. QED  BY <1>1, <1>2, <1>4, <1>5

\* The abstract queue is as long as the channel.
LEMMA QueuedLen == ASSUME IInv PROVE Cardinality(Queued) = Len(jobs)
<1>1. jobs \in Seq(Calls)
  BY DEF IInv, TypeOK
<1>2. Queued \in SUBSET Calls /\ \A c \in Calls : c \in Queued <=> InQueue(c)
  BY DEF Queued
<1>3. \A i, j \in DOMAIN jobs : jobs[i] = jobs[j] => i = j
  BY DEF IInv, JobInOnePlace
<1>. QED  BY <1>1, <1>2, <1>3, CountQueued DEF InQueue

\* The limits of the abstraction are kept.
LEMMA LimitsKeptNext ==
    ASSUME IInv'
    PROVE  Admission!WithinLimits'
<1>1. /\ jobs' \in Seq(Calls) /\ held' \in [Workers -> Calls \union {NoCall}]
      /\ Len(jobs') <= QueueSize /\ Len(jobs') \in Nat
  BY LenProperties DEF IInv, TypeOK
<1>2. Queued' \in SUBSET Calls
      /\ \A c \in Calls : c \in Queued' <=> \E i \in DOMAIN jobs' : jobs'[i] = c
  BY DEF Queued, InQueue
<1>3. InHands' \in SUBSET Calls
      /\ \A c \in Calls : c \in InHands' <=> \E w \in Workers : held'[w] = c
  BY DEF InHands, InHand
<1>4. Cardinality(Queued') <= QueueSize
  <2>1. Cardinality(Queued') <= Len(jobs') /\ Cardinality(Queued') \in Nat
    BY <1>1, <1>2, CountQueued
  <2>. QED  BY <1>1, <2>1, JobPoolAssumption
<1>5. /\ Cardinality(InHands') <= Cardinality(Workers)
      /\ (\E w \in Workers : held'[w] = NoCall)
            => Cardinality(InHands') < Cardinality(Workers)
  BY <1>1, <1>3, CountInHands
<1>6. Parked' # {} => \E w \in Workers : held'[w] = NoCall
  BY DEF IInv, WorkersTidy, Parked
<1>. QED  BY <1>4, <1>5, <1>6, SameCardinality DEF Admission!WithinLimits

\* A step of the abstraction, whatever it does to the counter and the idle workers.
LEMMA AStep ==
    ASSUME IInv',
           \/ \E c \in Calls : \/ Admission!Admit(c) \/ Admission!Enqueue(c)
                               \/ Admission!Refuse(c) \/ Admission!TurnAway(c)
                               \/ Admission!StartService(c) \/ Admission!Leave(c)
           \/ Admission!Recount
    PROVE  Admission!Next
  BY LimitsKeptNext DEF Admission!Next

\* One call goes from one state to another, and is all that moves.
LEMMA OneMoves ==
    ASSUME TypeOK, NEW c \in Calls, NEW l \in CallState, pc' = [pc EXCEPT ![c] = l]
    PROVE  /\ l \in {"start", "sending"} /\ pc[c] \in {"start", "sending"}
                 => Outside' = Outside
           /\ l \notin {"start", "sending"} => Outside' = Outside \ {c}
           /\ TurnedDown' = IF l = "overloaded" THEN TurnedDown \union {c}
                            ELSE IF pc[c] = "overloaded" THEN TurnedDown \ {c}
                            ELSE TurnedDown
           /\ c \in Outside <=> pc[c] \in {"start", "sending"}
<1>1. \A d \in Calls : pc'[d] = IF d = c THEN l ELSE pc[d]
  BY DEF TypeOK
<1>2. /\ l \in {"start", "sending"} /\ pc[c] \in {"start", "sending"} => Outside' = Outside
      /\ l \notin {"start", "sending"} => Outside' = Outside \ {c}
  BY <1>1 DEF Outside
<1>3. TurnedDown' = IF l = "overloaded" THEN TurnedDown \union {c}
                    ELSE IF pc[c] = "overloaded" THEN TurnedDown \ {c} ELSE TurnedDown
  BY <1>1 DEF TurnedDown
<1>4. c \in Outside <=> pc[c] \in {"start", "sending"}
  BY DEF Outside
<1>. QED  BY <1>2, <1>3, <1>4

\* A step that moves no call and leaves a variable alone leaves its sets alone.
LEMMA SameSets ==
    /\ UNCHANGED pc => UNCHANGED <<Outside, TurnedDown>>
    /\ UNCHANGED jobs => UNCHANGED Queued
    /\ UNCHANGED held => UNCHANGED InHands
<1>1. UNCHANGED pc => UNCHANGED <<Outside, TurnedDown>>
  BY DEF Outside, TurnedDown
<1>2. UNCHANGED jobs => UNCHANGED Queued
  BY DEF Queued, InQueue
<1>3. UNCHANGED held => UNCHANGED InHands
  BY DEF InHands, InHand
<1>. QED  BY <1>1, <1>2, <1>3

\* The channel deals with a call that is outside, and refuses it only when full.
LEMMA CallStepMapped ==
    ASSUME IInv, IInv', NEW c \in Calls, CallStep(c)
    PROVE  Admission!Next
<1>1. /\ TypeOK
      /\ {"sending", "waiting", "shuttingDown", "overloaded", "panicked"} \subseteq CallState
  BY DEF IInv, CallState, Returned
<1>2. CASE CheckClosed(c)
  <2>1. UNCHANGED <<Queued, InHands>> /\ pc[c] = "start"
    BY <1>2, SameSets DEF CheckClosed, channelVars, workerVars
  <2>2. CASE closed
    <3>1. pc' = [pc EXCEPT ![c] = "shuttingDown"]
      BY <1>2, <2>2 DEF CheckClosed
    <3>2. c \in Outside /\ Outside' = Outside \ {c} /\ TurnedDown' = TurnedDown
      BY <1>1, <2>1, <3>1, OneMoves
    <3>3. Admission!TurnAway(c)
      BY <2>1, <3>2 DEF Admission!TurnAway
    <3>. QED  BY <3>3, AStep
  <2>3. CASE ~closed
    <3>1. pc' = [pc EXCEPT ![c] = "sending"]
      BY <1>2, <2>3 DEF CheckClosed
    <3>2. Outside' = Outside /\ TurnedDown' = TurnedDown
      BY <1>1, <2>1, <3>1, OneMoves
    <3>3. Admission!Recount
      BY <2>1, <3>2 DEF Admission!Recount
    <3>. QED  BY <3>3, AStep
  <2>. QED  BY <2>2, <2>3
<1>3. ASSUME NEW w \in Workers, SendToWorker(c, w)
      PROVE  Admission!Next
  <2>1. UNCHANGED Queued
    BY <1>3, SameSets DEF SendToWorker, channelVars
  <2>2. held[w] = NoCall /\ Parked # {}
    BY <1>3 DEF IInv, WorkersTidy, SendToWorker, Parked
  <2>3. \A v \in Workers : held'[v] = IF v = w THEN c ELSE held[v]
    BY <1>1, <1>3 DEF SendToWorker, TypeOK
  <2>4. InHands' = InHands \union {c}
    BY <2>2, <2>3, JobPoolAssumption DEF InHands, InHand
  <2>5. c \in Outside /\ Outside' = Outside \ {c} /\ TurnedDown' = TurnedDown
    <3>1. pc[c] = "sending" /\ pc' = [pc EXCEPT ![c] = "waiting"]
      BY <1>3 DEF SendToWorker
    <3>. QED  BY <1>1, <3>1, OneMoves
  <2>6. Admission!Admit(c)
    BY <2>1, <2>2, <2>4, <2>5 DEF Admission!Admit
  <2>. QED  BY <2>6, AStep
<1>4. CASE SendToBuffer(c)
  <2>1. UNCHANGED InHands /\ Parked = {}
    BY <1>4, SameSets DEF SendToBuffer, workerVars
  <2>2. \A d \in Calls : InQueue(d)' <=> InQueue(d) \/ d = c
    BY <1>1, <1>4, AppendToQueue DEF SendToBuffer, TypeOK
  <2>3. Queued' = Queued \union {c}
    BY <2>2 DEF Queued
  <2>4. c \in Outside /\ Outside' = Outside \ {c} /\ TurnedDown' = TurnedDown
    <3>1. pc[c] = "sending" /\ pc' = [pc EXCEPT ![c] = "waiting"]
      BY <1>4 DEF SendToBuffer
    <3>. QED  BY <1>1, <3>1, OneMoves
  <2>5. Admission!Enqueue(c)
    BY <2>1, <2>3, <2>4 DEF Admission!Enqueue, Admission!PassedOver
  <2>. QED  BY <2>5, AStep
<1>5. CASE RejectFull(c)
  <2>1. UNCHANGED <<Queued, InHands>> /\ Parked = {}
    BY <1>5, SameSets DEF RejectFull, channelVars, workerVars
  <2>2. Admission!Cardinality(Queued) >= QueueSize
    BY <1>5, QueuedLen, SameCardinality, JobPoolAssumption DEF RejectFull
  <2>3. c \in Outside /\ Outside' = Outside \ {c} /\ TurnedDown' = TurnedDown \union {c}
    BY <1>1, <1>5, OneMoves DEF RejectFull
  <2>4. Admission!Refuse(c)
    BY <2>1, <2>2, <2>3 DEF Admission!Refuse, Admission!PassedOver
  <2>. QED  BY <2>4, AStep
<1>6. CASE SendOnClosed(c)
  <2>1. UNCHANGED <<Queued, InHands>>
    BY <1>6, SameSets DEF SendOnClosed, channelVars, workerVars
  <2>2. pc[c] = "sending" /\ pc' = [pc EXCEPT ![c] = "panicked"]
    BY <1>6 DEF SendOnClosed
  <2>3. c \in Outside /\ Outside' = Outside \ {c} /\ TurnedDown' = TurnedDown
    BY <1>1, <2>2, OneMoves
  <2>4. Admission!TurnAway(c)
    BY <2>1, <2>3 DEF Admission!TurnAway
  <2>. QED  BY <2>4, AStep
<1>7. CASE TakeReply(c) \/ Abandon(c)
  <2>1. UNCHANGED <<Queued, InHands>>
    BY <1>7, SameSets DEF TakeReply, Abandon, channelVars, workerVars
  <2>2. PICK l \in Reply \union {"cancelled"} :
            pc' = [pc EXCEPT ![c] = l] /\ pc[c] = "waiting"
    <3>1. CASE TakeReply(c)
      <4>1. replies[c] \in Seq(Reply) /\ replies[c] # <<>>
        BY <3>1 DEF TakeReply, IInv, TypeOK
      <4>2. Head(replies[c]) \in Reply
        BY <4>1, HeadTailProperties
      <4>. QED  BY <3>1, <4>2 DEF TakeReply
    <3>2. CASE Abandon(c)
      BY <3>2 DEF Abandon
    <3>. QED  BY <1>7, <3>1, <3>2
  <2>3. l \in CallState /\ l \notin {"start", "sending", "overloaded"}
    BY DEF Reply, CallState, Returned
  <2>4. c \notin Outside /\ Outside' = Outside \ {c} /\ UNCHANGED TurnedDown
    BY <1>1, <2>2, <2>3, OneMoves
  <2>5. UNCHANGED Outside
    BY <2>4
  <2>. QED  BY <2>1, <2>4, <2>5, AStep DEF Admission!Recount
<1>. QED  BY <1>2, <1>3, <1>4, <1>5, <1>6, <1>7 DEF CallStep

\* A worker takes the first of the queue when its own hands are empty, and puts it down.
LEMMA WorkerStepMapped ==
    ASSUME IInv, IInv', NEW w \in Workers, WorkerStep(w)
    PROVE  Admission!Next
<1>1. TypeOK
  BY DEF IInv
<1>2. UNCHANGED <<Outside, TurnedDown>>
  BY SameSets DEF WorkerStep, Receive, Park, Exit, Resolve, Panic, Finish, callVars
<1>3. CASE Receive(w)
  <2> DEFINE h == Head(jobs)
  <2>1. /\ h \in Calls /\ InQueue(h)
        /\ \A d : InQueue(d)' <=> InQueue(d) /\ d # h
    BY <1>1, <1>3, TakeFromQueue DEF Receive, IInv, TypeOK, JobInOnePlace
  <2>2. held' = [held EXCEPT ![w] = h]
    BY <1>3 DEF Receive
  <2>. HIDE DEF h
  <2>3. Queued' = Queued \ {h} /\ h \in Queued
    BY <2>1 DEF Queued
  <2>4. held[w] = NoCall
    BY <1>3 DEF IInv, WorkersTidy, Receive
  <2>5. \A v \in Workers : held'[v] = IF v = w THEN h ELSE held[v]
    BY <1>1, <2>2 DEF TypeOK
  <2>6. InHands' = InHands \union {h}
    BY <2>1, <2>4, <2>5, JobPoolAssumption DEF InHands, InHand
  <2>7. Admission!StartService(h)
    BY <1>2, <2>3, <2>6 DEF Admission!StartService
  <2>. QED  BY <2>1, <2>7, AStep
<1>4. CASE Panic(w) \/ Finish(w)
  <2> DEFINE h == held[w]
  <2>1. /\ wpc[w] \in {"resolving", "answered"} /\ UNCHANGED jobs
        /\ held' = [held EXCEPT ![w] = NoCall]
    BY <1>4 DEF Panic, Finish, channelVars
  <2>2. h \in Calls /\ h # NoCall
    BY <1>1, <2>1 DEF IInv, WorkersTidy, TypeOK
  <2>3. \A v \in Workers : held[v] = h => v = w
    BY <2>2 DEF IInv, JobInOnePlace
  <2>4. \A v \in Workers : held'[v] = IF v = w THEN NoCall ELSE held[v]
    BY <1>1, <2>1 DEF TypeOK
  <2>5. InHands' = InHands \ {h} /\ h \in InHands
    BY <2>2, <2>3, <2>4, JobPoolAssumption DEF InHands, InHand
  <2>6. UNCHANGED Queued /\ h \notin Queued
    BY <2>1, <2>2, SameSets DEF IInv, JobInOnePlace, InHand, Queued
  <2>7. Admission!Leave(h)
    BY <1>2, <2>5, <2>6 DEF Admission!Leave
  <2>. QED  BY <2>2, <2>7, AStep
<1>5. CASE Park(w) \/ Exit(w) \/ \E r \in {"plugin", "error"} : Resolve(w, r)
  <2>1. UNCHANGED <<Queued, InHands>>
    BY <1>5, SameSets DEF Park, Exit, Resolve, channelVars
  <2>. QED  BY <1>2, <2>1, AStep DEF Admission!Recount
<1>. QED  BY <1>3, <1>4, <1>5 DEF WorkerStep

\* The job queue is a bounded admission, for every number of workers and places, none
\* included: a call is refused only when no worker is parked and the channel is full,
\* one is handed over only to a parked worker, and no worker has two jobs in its hands.
THEOREM PoolIsBoundedAdmission == Spec => AdmissionSpec
<1>1. Init => Admission!Init
  <2>. SUFFICES ASSUME Init PROVE Admission!Init
    OBVIOUS
  <2>1. Outside = Calls /\ TurnedDown = {}
    BY DEF Init, Outside, TurnedDown
  <2>2. Queued = {}
    BY DEF Init, Queued, InQueue
  <2>3. InHands = {}
    BY JobPoolAssumption DEF Init, InHands, InHand
  <2>. QED  BY <2>1, <2>2, <2>3 DEF Admission!Init
<1>2. IInv /\ IInv' /\ [Next]_vars => [Admission!Next]_Admission!vars
  <2>. SUFFICES ASSUME IInv, IInv', [Next]_vars PROVE [Admission!Next]_Admission!vars
    OBVIOUS
  <2>1. ASSUME NEW c \in Calls, CallStep(c) PROVE Admission!Next
    BY <2>1, CallStepMapped
  <2>2. ASSUME NEW w \in Workers, WorkerStep(w) PROVE Admission!Next
    BY <2>2, WorkerStepMapped
  <2>3. CASE UNCHANGED <<pc, jobs, held>>
    <3>1. Admission!Recount
      BY <2>3, SameSets DEF Admission!Recount
    <3>. QED  BY <3>1, AStep
  <2>. QED
    BY <2>1, <2>2, <2>3 DEF Next, ContextEnds, ShutdownStep, MarkClosed, CloseJobs, Drained,
       DrainTimesOut, Stopped, vars, callVars, channelVars, workerVars
<1>. QED  BY <1>1, <1>2, Invariance, PTL DEF Spec, AdmissionSpec, Admission!Spec
===============================================================================
