---------------------- MODULE GeneratorEnqueuerProofs ----------------------
(***************************************************************************)
(* Safety of the batch pipeline for any number of workers, any queue size  *)
(* and both kinds of workers.                                               *)
(***************************************************************************)
EXTENDS GeneratorEnqueuer, FiniteSetTheorems, TLAPS

\* The workers that have compared the size and not put their batch yet.
Pending == {w \in Workers : wpc[w] \in {"call", "next", "put"}}

\* Each pending thread may add one batch to those that are there.
SizeInv ==
    IF use_multiprocessing
    THEN qsize <= MAX_QUEUE_SIZE
    ELSE qsize + Cardinality(Pending) <= MAX_QUEUE_SIZE + Cardinality(Workers) - 1

\* Before stop() only a failing worker sets the event.
NewsInv ==
    /\ pc \in {"start", "poll", "get"} => output = "None"
    /\ pc \in {"start", "poll", "get", "yield", "ended"} /\ stop_event = "set"
          => failed # {}

\* Every worker that is alive is known to stop() or has been terminated.
KnownInv ==
    /\ \A w \in Workers : Alive(w) => w \in threads \cup killed
    /\ pc = "stopped" => threads = {}

IInv ==
    TypeOK /\ SizeInv /\ GetNeverBlocks /\ NoneMeansFailure /\ NewsInv /\ KnownInv

-----------------------------------------------------------------------------

\* Pending is finite and no larger than the set of workers.
LEMMA PendingFinite ==
    /\ IsFiniteSet(Pending)
    /\ Cardinality(Pending) \in Nat
    /\ Cardinality(Workers) \in Nat
    /\ Cardinality(Pending) <= Cardinality(Workers)
<1>1. Pending \subseteq Workers
  BY DEF Pending
<1> QED BY <1>1, WorkersAssumption, FS_Subset, FS_CardinalityType

\* A step that adds nobody to Pending and nothing to the queue is harmless.
LEMMA SizeShrinks ==
    ASSUME TypeOK, SizeInv, UNCHANGED use_multiprocessing, qsize' \in Int, qsize' <= qsize, Pending' \subseteq Pending
    PROVE  SizeInv'
<1>1. /\ Cardinality(Pending') \in Nat
      /\ Cardinality(Pending') <= Cardinality(Pending)
  BY PendingFinite, FS_Subset, FS_CardinalityType
<1> QED BY <1>1, PendingFinite, SizeAssumption DEF SizeInv, TypeOK

\* The constructor and the head of start() establish the invariant.
LEMMA InitIInv == Init => IInv
<1> SUFFICES ASSUME Init PROVE IInv
  OBVIOUS
<1>1. TypeOK
  BY DEF Init, TypeOK, Labels, WorkerLabels
<1>2. SizeInv
  <2>1. Pending = {}
    BY DEF Init, Pending
  <2>2. Cardinality(Pending) = 0 /\ Cardinality(Workers) \in Nat \ {0}
    BY <2>1, WorkersAssumption, FS_EmptySet, FS_CardinalityType
  <2> QED BY <2>2, SizeAssumption DEF Init, SizeInv
<1>3. GetNeverBlocks /\ NoneMeansFailure /\ NewsInv /\ KnownInv
  BY DEF Init, GetNeverBlocks, NoneMeansFailure, NewsInv, KnownInv, Alive
<1> QED BY <1>1, <1>2, <1>3 DEF IInv

\* The steps of data_generator_task, its feeder and its death preserve it.
LEMMA WorkerStep ==
    ASSUME IInv, NEW w \in Workers, Work(w) \/ Feed(w) \/ Die(w)
    PROVE  IInv'
<1> USE DEF Goto, parent, store
<1>1. CASE Test(w)
  <2>1. TypeOK'
    BY <1>1 DEF IInv, TypeOK, Test, WorkerLabels
  <2>2. Pending' \subseteq Pending
    BY <1>1 DEF IInv, TypeOK, Pending, Test
  <2>3. SizeInv'
    BY <1>1, <2>1, <2>2, SizeShrinks DEF IInv, TypeOK, Test
  <2>4. GetNeverBlocks' /\ NoneMeansFailure' /\ NewsInv' /\ KnownInv'
    BY <1>1 DEF IInv, TypeOK, GetNeverBlocks, NoneMeansFailure, NewsInv, KnownInv, Alive, Test
  <2> QED BY <2>1, <2>3, <2>4 DEF IInv
<1>2. CASE Check(w)
  <2>1. TypeOK'
    BY <1>2 DEF IInv, TypeOK, Check, WorkerLabels
  <2>2. SizeInv'
    <3>1. CASE use_multiprocessing
      BY <1>2, <3>1 DEF IInv, SizeInv, Check
    <3>2. CASE ~use_multiprocessing /\ qsize < MAX_QUEUE_SIZE
      <4>1. Pending' \subseteq Workers
        BY DEF Pending
      <4>2. /\ Cardinality(Pending') \in Nat
            /\ Cardinality(Pending') <= Cardinality(Workers)
        BY <4>1, WorkersAssumption, FS_Subset, FS_CardinalityType
      <4> QED BY <1>2, <3>2, <4>2, PendingFinite, SizeAssumption DEF IInv, TypeOK, SizeInv, Check
    <3>3. CASE ~use_multiprocessing /\ ~(qsize < MAX_QUEUE_SIZE)
      <4>1. Pending' \subseteq Pending
        BY <1>2, <3>3 DEF IInv, TypeOK, Pending, Check
      <4> QED BY <1>2, <2>1, <4>1, SizeShrinks DEF IInv, TypeOK, Check
    <3> QED BY <3>1, <3>2, <3>3
  <2>3. GetNeverBlocks' /\ NoneMeansFailure' /\ NewsInv' /\ KnownInv'
    BY <1>2 DEF IInv, TypeOK, GetNeverBlocks, NoneMeansFailure, NewsInv, KnownInv, Alive, Check
  <2> QED BY <2>1, <2>2, <2>3 DEF IInv
<1>3. CASE Raise(w) /\ wpc[w] \in {"call", "next"}
  <2>1. TypeOK'
    BY <1>3 DEF IInv, TypeOK, Raise, SetEvent, WorkerLabels
  <2>2. Pending' \subseteq Pending
    BY <1>3 DEF IInv, TypeOK, Pending, Raise, SetEvent
  <2>3. SizeInv'
    BY <1>3, <2>1, <2>2, SizeShrinks DEF IInv, TypeOK, Raise, SetEvent
  <2>4. GetNeverBlocks' /\ NoneMeansFailure' /\ NewsInv' /\ KnownInv'
    BY <1>3 DEF IInv, TypeOK, GetNeverBlocks, NoneMeansFailure, NewsInv, KnownInv, Alive, Raise, SetEvent
  <2> QED BY <2>1, <2>3, <2>4 DEF IInv
<1>4. CASE /\ \/ wpc[w] = "call" /\ Goto(w, "next")
              \/ wpc[w] = "next" /\ Goto(w, "put")
           /\ UNCHANGED <<parent, store, stop_event, failed, use_multiprocessing>>
  <2>1. TypeOK'
    BY <1>4 DEF IInv, TypeOK, WorkerLabels
  <2>2. Pending' \subseteq Pending
    BY <1>4 DEF IInv, TypeOK, Pending
  <2>3. SizeInv'
    BY <1>4, <2>1, <2>2, SizeShrinks DEF IInv, TypeOK
  <2>4. GetNeverBlocks' /\ NoneMeansFailure' /\ NewsInv' /\ KnownInv'
    BY <1>4 DEF IInv, TypeOK, GetNeverBlocks, NoneMeansFailure, NewsInv, KnownInv, Alive
  <2> QED BY <2>1, <2>3, <2>4 DEF IInv
<1>5. CASE Put(w)
  <2>1. TypeOK'
    <3>1. CASE use_multiprocessing
      BY <1>5, <3>1 DEF IInv, TypeOK, Put, WorkerLabels
    <3>2. CASE ~use_multiprocessing
      BY <1>5, <3>2 DEF IInv, TypeOK, Put, WorkerLabels
    <3> QED BY <3>1, <3>2
  <2>2. SizeInv'
    <3>1. CASE use_multiprocessing
      BY <1>5, <3>1, SizeAssumption DEF IInv, TypeOK, SizeInv, Put, HasRoom
    <3>2. CASE ~use_multiprocessing
      <4>1. w \in Pending /\ Pending' = Pending \ {w}
        BY <1>5 DEF IInv, TypeOK, Pending, Put
      <4>2. Cardinality(Pending') = Cardinality(Pending) - 1
        BY <4>1, PendingFinite, FS_RemoveElement
      <4> QED BY <1>5, <3>2, <4>2, PendingFinite, SizeAssumption DEF IInv, TypeOK, SizeInv, Put
    <3> QED BY <3>1, <3>2
  <2>3. KnownInv'
    <3>1. Alive(w) /\ \A v \in Workers : Alive(v)' => Alive(v)
      BY <1>5 DEF IInv, TypeOK, Put, Alive
    <3> QED BY <1>5, <3>1 DEF IInv, KnownInv, Put
  <2>4. GetNeverBlocks' /\ NoneMeansFailure' /\ NewsInv'
    BY <1>5 DEF IInv, TypeOK, GetNeverBlocks, NoneMeansFailure, NewsInv, Put
  <2> QED BY <2>1, <2>2, <2>3, <2>4 DEF IInv
<1>6. CASE Feed(w)
  <2>1. TypeOK'
    BY <1>6 DEF IInv, TypeOK, Feed
  <2>2. Pending' \subseteq Pending
    BY <1>6 DEF Pending, Feed
  <2>3. SizeInv'
    BY <1>6, <2>1, <2>2, SizeShrinks DEF IInv, TypeOK, Feed
  <2>4. GetNeverBlocks' /\ NoneMeansFailure' /\ NewsInv' /\ KnownInv'
    BY <1>6 DEF IInv, TypeOK, GetNeverBlocks, NoneMeansFailure, NewsInv, KnownInv, Alive, Feed
  <2> QED BY <2>1, <2>3, <2>4 DEF IInv
<1>7. CASE Die(w)
  <2>1. TypeOK'
    BY <1>7 DEF IInv, TypeOK, Die, WorkerLabels
  <2>2. Pending' \subseteq Pending
    BY <1>7 DEF IInv, TypeOK, Pending, Die
  <2>3. SizeInv'
    BY <1>7, <2>1, <2>2, SizeShrinks DEF IInv, TypeOK, Die
  <2>4. GetNeverBlocks' /\ NoneMeansFailure' /\ NewsInv' /\ KnownInv'
    BY <1>7 DEF IInv, TypeOK, GetNeverBlocks, NoneMeansFailure, NewsInv, KnownInv, Alive, Die
  <2> QED BY <2>1, <2>3, <2>4 DEF IInv
<1>8. CASE Call(w)
  BY <1>3, <1>4, <1>8 DEF Call
<1>9. CASE Generate(w)
  BY <1>3, <1>4, <1>9 DEF Generate
<1> QED BY <1>1, <1>2, <1>5, <1>6, <1>7, <1>8, <1>9 DEF Work

\* start(), the consumer, the trainer and stop() preserve it.
LEMMA ParentStep ==
    ASSUME IInv, Consumer \/ StartFails \/ Resume \/ Close \/ Stop
    PROVE  IInv'
<1> USE DEF store
<1>1. CASE \E w \in Workers : Spawn(w)
  <2>1. PICK w \in Workers : Spawn(w)
    BY <1>1
  <2>2. TypeOK'
    BY <2>1 DEF IInv, TypeOK, Spawn, Goto, WorkerLabels
  <2>3. Pending' \subseteq Pending
    BY <2>1 DEF IInv, TypeOK, Pending, Spawn, Goto
  <2>4. SizeInv'
    BY <2>1, <2>2, <2>3, SizeShrinks DEF IInv, TypeOK, Spawn
  <2>5. GetNeverBlocks' /\ NoneMeansFailure' /\ NewsInv' /\ KnownInv'
    BY <2>1 DEF IInv, TypeOK, GetNeverBlocks, NoneMeansFailure, NewsInv, KnownInv, Alive, Spawn, Goto
  <2> QED BY <2>2, <2>4, <2>5 DEF IInv
<1>2. CASE Get
  <2>1. TypeOK'
    BY <1>2 DEF IInv, TypeOK, Get, BatchWaiting, Labels
  <2>2. SizeInv'
    BY <1>2, <2>1, SizeShrinks DEF IInv, TypeOK, Get, BatchWaiting, Pending
  <2>3. GetNeverBlocks' /\ NoneMeansFailure' /\ NewsInv' /\ KnownInv'
    BY <1>2 DEF IInv, TypeOK, GetNeverBlocks, NoneMeansFailure, NewsInv, KnownInv, Alive, Get, BatchWaiting
  <2> QED BY <2>1, <2>2, <2>3 DEF IInv
<1>3. CASE \E w \in Workers : Reap(w)
  <2>1. PICK w \in Workers : Reap(w)
    BY <1>3
  <2>2. TypeOK'
    BY <2>1 DEF IInv, TypeOK, Reap, StopNeedNotWait, Terminated
  <2>3. SizeInv'
    BY <2>1, <2>2, SizeShrinks DEF IInv, TypeOK, Reap, StopNeedNotWait, Terminated, Pending
  <2>4. GetNeverBlocks' /\ NoneMeansFailure' /\ NewsInv' /\ KnownInv'
    BY <2>1 DEF IInv, TypeOK, GetNeverBlocks, NoneMeansFailure, NewsInv, KnownInv, Alive, Reap, StopNeedNotWait, Terminated
  <2> QED BY <2>2, <2>3, <2>4 DEF IInv
<1>4. CASE StartDone \/ StartFails \/ PollReady \/ PollStopped \/ Resume \/ Close \/ StopSet \/ StopReset
  <2>1. TypeOK'
    BY <1>4 DEF IInv, TypeOK, StartDone, StartFails, PollReady, BatchWaiting, PollStopped, PollOver, Resume, Close, StopSet, StopReset, Labels
  <2>2. SizeInv'
    BY <1>4, <2>1, SizeShrinks DEF IInv, TypeOK, Pending, StartDone, StartFails, PollReady, BatchWaiting, PollStopped, PollOver, Resume, Close, StopSet, StopReset
  <2>3. KnownInv'
    BY <1>4 DEF IInv, TypeOK, KnownInv, Alive, StartDone, StartFails, PollReady, BatchWaiting, PollStopped, PollOver, Resume, Close, StopSet, StopReset
  <2>4. GetNeverBlocks' /\ NoneMeansFailure' /\ NewsInv'
    <3> USE DEF IInv, TypeOK, GetNeverBlocks, NoneMeansFailure, NewsInv
    <3>1. CASE PollStopped
      BY <3>1 DEF PollStopped, PollOver, Running
    <3>2. CASE PollReady
      BY <3>2 DEF PollReady, BatchWaiting
    <3>3. CASE Resume \/ Close
      BY <3>3 DEF Resume, Close
    <3>4. CASE StartDone
      BY <3>4 DEF StartDone
    <3>5. CASE StartFails \/ StopSet \/ StopReset
      BY <3>5 DEF StartFails, StopSet, StopReset
    <3> QED BY <1>4, <3>1, <3>2, <3>3, <3>4, <3>5
  <2> QED BY <2>1, <2>2, <2>3, <2>4 DEF IInv
<1> QED BY <1>1, <1>2, <1>3, <1>4 DEF Consumer, Stop

\* Every step preserves the invariant.
LEMMA NextIInv == IInv /\ [Next]_vars => IInv'
<1> SUFFICES ASSUME IInv, [Next]_vars PROVE IInv'
  OBVIOUS
<1>1. CASE UNCHANGED vars
  BY <1>1 DEF vars, IInv, TypeOK, SizeInv, Pending, GetNeverBlocks, NoneMeansFailure, NewsInv, KnownInv, Alive
<1> QED BY <1>1, WorkerStep, ParentStep DEF Next

\* The strengthened invariant holds in every reachable state.
THEOREM Invariant == Safety => []IInv
BY InitIInv, NextIInv, PTL DEF Safety

-----------------------------------------------------------------------------

\* Every variable keeps its type.
THEOREM TypeCorrect == Safety => []TypeOK
<1>1. IInv => TypeOK
  BY DEF IInv
<1> QED BY <1>1, Invariant, PTL

\* For any number of workers the queue keeps to its limit: exactly with
\* processes, up to one batch per further worker with threads.
THEOREM QueueIsBounded == Safety => []QueueBounded
<1>1. IInv => QueueBounded
  BY PendingFinite, SizeAssumption DEF IInv, TypeOK, SizeInv, QueueBounded, QueueLimit
<1> QED BY <1>1, Invariant, PTL

\* The blocking get() of the consumer always finds a batch.
THEOREM GetIsReady == Safety => []GetNeverBlocks
<1>1. IInv => GetNeverBlocks
  BY DEF IInv
<1> QED BY <1>1, Invariant, PTL

\* get_batch yields None only after a worker has raised an exception.
THEOREM NoneIsNews == Safety => []NoneMeansFailure
<1>1. IInv => NoneMeansFailure
  BY DEF IInv
<1> QED BY <1>1, Invariant, PTL

\* stop() leaves no worker that it has neither terminated nor seen end.
THEOREM StopIsThorough == Safety => []StopLeavesNobody
<1>1. IInv => StopLeavesNobody
  BY DEF IInv, KnownInv, StopLeavesNobody
<1> QED BY <1>1, Invariant, PTL
=============================================================================
