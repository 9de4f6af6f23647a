------------------------- MODULE GeneratorEnqueuer -------------------------
(***************************************************************************)
(* The batch pipeline of the trainer: GeneratorEnqueuer (dataset/          *)
(* data_util.py) with its workers, and the consumer that drains it, which   *)
(* is get_batch (dataset/data_provider.py) when the workers are processes   *)
(* and get() when they are threads.  A batch is a token: only how many of   *)
(* them are where matters.                                                  *)
(***************************************************************************)
EXTENDS Integers, FiniteSets

CONSTANTS
    Workers,              \* one per worker that start() creates
    MAX_QUEUE_SIZE        \* max_queue_size of start()

ASSUME WorkersAssumption == IsFiniteSet(Workers) /\ Workers # {}
ASSUME SizeAssumption == MAX_QUEUE_SIZE \in Nat \ {0}

VARIABLES
    pc,          \* where the consumer's process is: see Labels
    output,      \* generator_output: "batch" or "None"
    stop_event,  \* the Event: "clear" or "set"
    threads,     \* self._threads, the workers stop() has still to deal with
    wpc,         \* where each worker is: see WorkerLabels
    qsize,       \* places of the queue that are taken
    ready,       \* batches that empty() and get() see
    buffered,    \* batches each process has put but not yet sent to the pipe
    killed,      \* the processes terminate() was called on
    failed,      \* history: the workers that raised an exception
    use_multiprocessing  \* the constructor's argument: processes or threads

parent == <<pc, output, threads, killed>>
store  == <<qsize, ready, buffered>>
vars   == <<pc, output, stop_event, threads, wpc, qsize, ready, buffered, killed, failed,
            use_multiprocessing>>

Labels == {"start", "poll", "get", "yield", "ended", "stop", "reap", "stopped"}
WorkerLabels == {"unstarted", "test", "check", "call", "next", "put", "dead"}

Running == stop_event = "clear"      \* is_running()

\* is_alive(): a process also lives on while it feeds what it has put.
Alive(w) == wpc[w] \notin {"unstarted", "dead"} \/ buffered[w] > 0

Goto(w, label) == wpc' = [wpc EXCEPT ![w] = label]

-----------------------------------------------------------------------------
(* data_generator_task, in each worker.                                      *)

Test(w) ==
    /\ wpc[w] = "test"
    /\ Goto(w, IF stop_event = "set" THEN "dead" ELSE "check")
    /\ UNCHANGED <<parent, store, stop_event, failed, use_multiprocessing>>

\* A process relies on the bounded queue, a thread compares the queue's size.
Check(w) ==
    /\ wpc[w] = "check"
    /\ Goto(w, IF use_multiprocessing \/ qsize < MAX_QUEUE_SIZE
               THEN "call" ELSE "test")
    /\ UNCHANGED <<parent, store, stop_event, failed, use_multiprocessing>>

\* Threads share one generator, and next() on a generator that another thread
\* is executing raises ValueError.  Processes have a copy each.
Executing(w) ==
    ~use_multiprocessing /\ \E v \in Workers \ {w} : wpc[v] = "next"

\* Mutant: a worker that fails does not set the event.
SetEvent_Lost == UNCHANGED stop_event

SetEvent == stop_event' = "set"

Raise(w) ==
    /\ Goto(w, "dead")
    /\ SetEvent
    /\ failed' = failed \cup {w}
    /\ UNCHANGED <<parent, store, use_multiprocessing>>

Call(w) ==
    /\ wpc[w] = "call"
    /\ \/ Executing(w) /\ Raise(w)
       \/ /\ ~Executing(w)
          /\ Goto(w, "next")
          /\ UNCHANGED <<parent, store, stop_event, failed, use_multiprocessing>>

\* generator() skips unreadable images and images without labels and yields
\* the next good one; what it does not catch ends the worker.
Generate(w) ==
    /\ wpc[w] = "next"
    /\ \/ Raise(w)
       \/ /\ Goto(w, "put")
          /\ UNCHANGED <<parent, store, stop_event, failed, use_multiprocessing>>

\* Mutant: multiprocessing.Queue() without maxsize.
HasRoom_Unlimited == TRUE

\* Places that put() waits for: the queue of the threads has no limit.
HasRoom == use_multiprocessing => qsize < MAX_QUEUE_SIZE

Put(w) ==
    /\ wpc[w] = "put"
    /\ HasRoom
    /\ Goto(w, "test")
    /\ qsize' = qsize + 1
    /\ IF use_multiprocessing
       THEN /\ buffered' = [buffered EXCEPT ![w] = @ + 1]
            /\ UNCHANGED ready
       ELSE /\ ready' = ready + 1
            /\ UNCHANGED buffered
    /\ UNCHANGED <<parent, stop_event, failed, use_multiprocessing>>

Work(w) == Test(w) \/ Check(w) \/ Call(w) \/ Generate(w) \/ Put(w)

\* multiprocessing.Queue: a thread in each process feeds the pipe, also while
\* the process exits after an exception.
Feed(w) ==
    /\ buffered[w] > 0
    /\ buffered' = [buffered EXCEPT ![w] = @ - 1]
    /\ ready' = ready + 1
    /\ UNCHANGED <<parent, stop_event, wpc, qsize, failed, use_multiprocessing>>

\* A terminated process ends wherever it is, and what it buffered is lost.
Die(w) ==
    /\ w \in killed
    /\ Alive(w)
    /\ Goto(w, "dead")
    /\ buffered' = [buffered EXCEPT ![w] = 0]
    /\ UNCHANGED <<parent, stop_event, qsize, ready, failed, use_multiprocessing>>

-----------------------------------------------------------------------------
(* start(), the consumer and stop().                                         *)

Spawn(w) ==
    /\ pc = "start"
    /\ wpc[w] = "unstarted"
    /\ threads' = threads \cup {w}
    /\ Goto(w, "test")
    /\ UNCHANGED <<pc, output, killed, store, stop_event, failed, use_multiprocessing>>

\* The consumer enters its loop once every worker runs; when creating one
\* fails, the except clause of start() stops the others.
StartDone ==
    /\ pc = "start"
    /\ threads = Workers
    /\ pc' = "poll"
    /\ UNCHANGED <<output, threads, killed, wpc, store, stop_event, failed, use_multiprocessing>>

StartFails ==
    /\ pc = "start"
    /\ threads # Workers
    /\ pc' = "stop"
    /\ UNCHANGED <<output, threads, killed, wpc, store, stop_event, failed, use_multiprocessing>>

\* Mutant: the queue is not asked.
BatchWaiting_Assumed == TRUE

BatchWaiting == ready > 0    \* not empty(), or a get() that returns

PollReady ==
    /\ pc = "poll"
    /\ Running
    /\ BatchWaiting
    /\ pc' = "get"
    /\ UNCHANGED <<output, threads, killed, wpc, store, stop_event, failed, use_multiprocessing>>

\* Mutant: the poll gives up when the queue is empty.
PollOver_Empty == ~Running \/ ready = 0

PollOver == ~Running

\* get_batch then yields None; get() of the enqueuer just ends.
PollStopped ==
    /\ pc = "poll"
    /\ PollOver
    /\ pc' = IF use_multiprocessing THEN "yield" ELSE "ended"
    /\ UNCHANGED <<output, threads, killed, wpc, store, stop_event, failed, use_multiprocessing>>

Get ==
    /\ pc = "get"
    /\ BatchWaiting
    /\ ready' = ready - 1
    /\ qsize' = qsize - 1
    /\ output' = "batch"
    /\ pc' = "yield"
    /\ UNCHANGED <<threads, killed, wpc, buffered, stop_event, failed, use_multiprocessing>>

\* The trainer takes the batch and asks for another one.
Resume ==
    /\ pc = "yield"
    /\ output = "batch"
    /\ output' = "None"
    /\ pc' = "poll"
    /\ UNCHANGED <<threads, killed, wpc, store, stop_event, failed, use_multiprocessing>>

\* The trainer is through, or data[0] of None raised TypeError: the generator
\* is closed and its finally clause calls stop().
Close ==
    /\ pc \in {"yield", "ended"}
    /\ pc' = "stop"
    /\ UNCHANGED <<output, threads, killed, wpc, store, stop_event, failed, use_multiprocessing>>

StopSet ==
    /\ pc = "stop"
    /\ stop_event' = "set"
    /\ pc' = "reap"
    /\ UNCHANGED <<output, threads, killed, wpc, store, failed, use_multiprocessing>>

\* Mutant: processes are joined, as threads are.
StopNeedNotWait_Joins(w) == ~Alive(w)

StopNeedNotWait(w) == Alive(w) => use_multiprocessing

\* Mutant: nobody is terminated.
Terminated_Nobody(w) == {}

Terminated(w) == IF Alive(w) THEN {w} ELSE {}

\* The loop of stop() over self._threads: a worker that is alive is terminated
\* if it is a process and waited for if it is a thread.
Reap(w) ==
    /\ pc = "reap"
    /\ w \in threads
    /\ StopNeedNotWait(w)
    /\ threads' = threads \ {w}
    /\ killed' = killed \cup Terminated(w)
    /\ UNCHANGED <<pc, output, wpc, store, stop_event, failed, use_multiprocessing>>

StopReset ==
    /\ pc = "reap"
    /\ threads = {}
    /\ pc' = "stopped"
    /\ UNCHANGED <<output, threads, killed, wpc, store, stop_event, failed, use_multiprocessing>>

Stop == StopSet \/ StopReset \/ \E w \in Workers : Reap(w)

Consumer ==
    \/ StartDone \/ PollReady \/ PollStopped \/ Get
    \/ \E w \in Workers : Spawn(w)

Init ==
    /\ pc = "start"
    /\ output = "None"
    /\ stop_event = "clear"
    /\ threads = {}
    /\ wpc = [w \in Workers |-> "unstarted"]
    /\ qsize = 0
    /\ ready = 0
    /\ buffered = [w \in Workers |-> 0]
    /\ killed = {}
    /\ failed = {}
    /\ use_multiprocessing \in BOOLEAN

Next ==
    \/ Consumer \/ StartFails \/ Resume \/ Close \/ Stop
    \/ \E w \in Workers : Work(w) \/ Feed(w) \/ Die(w)

Safety == Init /\ [][Next]_vars

\* Processes, threads and feeders are scheduled, next() returns or raises
\* (there is a labelled image), a signal arrives.  When the trainer resumes or
\* closes the generator is free.
Spec ==
    /\ Safety
    /\ WF_vars(Consumer)
    /\ WF_vars(Stop)
    /\ \A w \in Workers : WF_vars(Work(w)) /\ WF_vars(Feed(w)) /\ WF_vars(Die(w))

-----------------------------------------------------------------------------
(* Properties.                                                               *)

\* What the queue may hold: threads compare the size before they produce, so
\* all of them may have seen the last free place.
QueueLimit ==
    IF use_multiprocessing THEN MAX_QUEUE_SIZE
                           ELSE MAX_QUEUE_SIZE + Cardinality(Workers) - 1

TypeOK ==
    /\ pc \in Labels
    /\ output \in {"batch", "None"}
    /\ stop_event \in {"clear", "set"}
    /\ threads \in SUBSET Workers
    /\ wpc \in [Workers -> WorkerLabels]
    /\ qsize \in Int
    /\ ready \in Nat
    /\ buffered \in [Workers -> Nat]
    /\ killed \in SUBSET Workers
    /\ failed \in SUBSET Workers
    /\ use_multiprocessing \in BOOLEAN

\* However the workers interleave, the queue never outgrows its limit by more
\* than the threads that check before they put (data_util.py:30).
QueueBounded == qsize <= QueueLimit

\* The consumer asks empty() and then calls a blocking get(): no other step may
\* take the batch from under it.
GetNeverBlocks == pc = "get" => ready > 0

\* get_batch hands out None only when a worker has raised: never because the
\* queue was empty for a while.
NoneMeansFailure == pc = "yield" /\ output = "None" => failed # {}

\* When stop() returns every worker is over or has been sent a signal, also
\* when stop() runs because start() failed half way.
StopLeavesNobody ==
    pc = "stopped" => \A w \in Workers : Alive(w) => w \in killed

\* The trainer always gets an answer from next(): a batch, or the news of a
\* failure, even when every worker failed or start() did.
BatchOrNews == pc \in {"start", "poll"} ~> pc \in {"yield", "ended", "stop"}

\* stop() returns, even if workers wait for room in a queue nobody reads.
StopCompletes == pc = "stop" ~> pc = "stopped"

\* After stop() no worker stays behind.
WorkersEnd == pc = "stopped" ~> \A w \in Workers : ~Alive(w)
=============================================================================
