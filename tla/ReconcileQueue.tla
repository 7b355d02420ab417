--------------------------- MODULE ReconcileQueue ---------------------------
(***************************************************************************)
(* ReconcilerSvc: the requests POST /api/v1/reconcile, the bounded in-memory *)
(* queue of jobs, the worker pool that runs them and the shutdown.          *)
(*                                                                         *)
(* Everything runs on one asyncio event loop.  A task runs from one await to *)
(* the next without interruption, in the order in which tasks became ready;  *)
(* the loop's FIFO of ready tasks is the variable `ready`, and an action is  *)
(* one such step of the task at its head.  Requests, timers, the end of an   *)
(* ansible run (a thread) and the shutdown come from outside the loop.       *)
(***************************************************************************)
EXTENDS Integers, SequencesExt

CONSTANTS
    MaxRequests,    \* bound: POSTs
    MaxParallel,    \* max_parallel_reconciliations: tasks of the pool
    Capacity        \* queue_capacity

ASSUME QueueAssumption ==
    MaxRequests \in Nat /\ MaxParallel \in Nat \ {0} /\ Capacity \in Nat \ {0}

\* The tasks.  A request is also the name of its job and is numbered by its arrival.
Requests == {"request"} \X (1..MaxRequests)
Workers  == {"worker"} \X (1..MaxParallel)
Stop     == <<"stop", 0>>           \* runs ApplicationRuntime.stop
Sentinel == <<"sentinel", 0>>
NoJob    == <<"no job", 0>>

VARIABLES
    \* ReconcileTaskQueue
    running, accepting,
    \* asyncio.Queue: its items, the count of unfinished tasks, the tasks that wait
    \* for an item, the tasks that wait for room
    items, unfinished, getters, putters,
    \* the event loop
    ready,
    \* the tasks: a request's state or answer, a worker's place and job, the place of
    \* the shutdown and the number of sentinels it has put
    call, at, job, stopping, sentinels,
    \* history: the jobs whose ansible run has ended
    ended,
    \* who calls: a server that waits for its open requests before it stops the queue
    \* (uvicorn), or anyone at any time; it never changes
    drains

aqueue == <<items, unfinished, getters, putters>>
tasks  == <<call, at, job, stopping, sentinels, ended>>
vars   == <<running, accepting, aqueue, ready, tasks, drains>>

Answers == {"accepted", "saturated", "not_running", "no_plan"}
InFlight == {"arrived", "putting", "expired", "expired_awake"}

------------------------------------------------------------------------------
(* asyncio *)

\* _wakeup_next: the first waiter becomes ready and leaves the deque.
First(waiters) == IF waiters = << >> THEN << >> ELSE <<Head(waiters)>>
Rest(waiters)  == IF waiters = << >> THEN << >> ELSE Tail(waiters)

\* deque.remove
Without(waiters, t) ==
    LET i == CHOOSE k \in DOMAIN waiters : waiters[k] = t
    IN  SubSeq(waiters, 1, i - 1) \o SubSeq(waiters, i + 1, Len(waiters))

\* The task t runs.
Runs(t) == ready # << >> /\ Head(ready) = t

Full == Len(items) >= Capacity

------------------------------------------------------------------------------
(* Start *)

Init ==
    /\ running = FALSE /\ accepting = FALSE
    /\ items = << >> /\ unfinished = 0 /\ getters = << >> /\ putters = << >>
    /\ ready = << >>
    /\ call = [r \in Requests |-> "new"]
    /\ at = [w \in Workers |-> "off"] /\ job = [w \in Workers |-> NoJob]
    /\ stopping = "no" /\ sentinels = 0
    /\ ended = {}
    /\ drains \in BOOLEAN

\* ApplicationRuntime.start: the tasks of the workers are created, none has run.
Start ==
    /\ ~running /\ stopping = "no"
    /\ running' = TRUE /\ accepting' = TRUE
    /\ at' = [w \in Workers |-> "get"]
    /\ ready' = ready \o [i \in 1..MaxParallel |-> <<"worker", i>>]
    /\ UNCHANGED <<aqueue, call, job, stopping, sentinels, ended, drains>>

------------------------------------------------------------------------------
(* A request *)

Arrive(r) ==
    /\ call[r] = "new" /\ \A q \in Requests : q[2] < r[2] => call[q] # "new"
    /\ drains => running /\ stopping = "no"
    /\ call' = [call EXCEPT ![r] = "arrived"]
    /\ ready' = Append(ready, r)
    /\ UNCHANGED <<running, accepting, aqueue, at, job, stopping, sentinels, ended, drains>>

\* The request's last step, without a job in the queue.
Answer(r, answer) ==
    /\ call' = [call EXCEPT ![r] = answer]
    /\ ready' = Tail(ready)
    /\ UNCHANGED <<running, accepting, aqueue, at, job, stopping, sentinels, ended, drains>>

\* 400 when no operator is enabled for the component of the request, 500 when its
\* playbook is not on the disk.
NoPlan(r) == Runs(r) /\ call[r] = "arrived" /\ Answer(r, "no_plan")

\* enqueue's first condition.
Accepts == running /\ accepting

NotRunning(r) ==
    /\ Runs(r) /\ call[r] = "arrived"
    /\ ~Accepts
    /\ Answer(r, "not_running")

\* The request reaches asyncio.Queue.put, or is woken inside it.
Offers(r) ==
    /\ Runs(r)
    /\ \/ call[r] = "arrived" /\ Accepts
       \/ call[r] = "putting"

\* put_nowait; the 202 follows in the same step.
Enqueue(r) ==
    /\ Offers(r) /\ ~Full
    /\ items' = Append(items, r) /\ unfinished' = unfinished + 1
    /\ getters' = Rest(getters)
    /\ ready' = Tail(ready) \o First(getters)
    /\ call' = [call EXCEPT ![r] = "accepted"]
    /\ UNCHANGED <<running, accepting, putters, at, job, stopping, sentinels, ended, drains>>

WaitForRoom(r) ==
    /\ Offers(r) /\ Full
    /\ putters' = Append(putters, r)
    /\ ready' = Tail(ready)
    /\ call' = [call EXCEPT ![r] = "putting"]
    /\ UNCHANGED <<running, accepting, items, unfinished, getters, at, job, stopping,
                   sentinels, ended, drains>>

\* Mutation only: the waiter leaves the deque and nobody tells it.
TimeoutUnheard(r) ==
    /\ call[r] = "putting" /\ r \in Range(putters)
    /\ call' = [call EXCEPT ![r] = "expired"]
    /\ putters' = Without(putters, r)
    /\ UNCHANGED <<running, accepting, items, unfinished, getters, ready, at, job, stopping,
                   sentinels, ended, drains>>

\* wait_for's timer cancels the task: a waiter becomes ready, one that is ready keeps
\* its place and will find the cancellation there.
TimeoutFires(r) ==
    /\ call[r] = "putting"
    /\ IF r \in Range(putters)
       THEN /\ call' = [call EXCEPT ![r] = "expired"]
            /\ putters' = Without(putters, r)
            /\ ready' = Append(ready, r)
       ELSE /\ call' = [call EXCEPT ![r] = "expired_awake"]
            /\ UNCHANGED <<putters, ready>>
    /\ UNCHANGED <<running, accepting, items, unfinished, getters, at, job, stopping,
                   sentinels, ended, drains>>

\* Mutations only: the job is put although the caller is told 503; the cancelled waiter
\* keeps the room it was woken for.
SaturatedButPut(r) ==
    /\ Runs(r) /\ call[r] \in {"expired", "expired_awake"}
    /\ items' = Append(items, r) /\ unfinished' = unfinished + 1
    /\ getters' = Rest(getters)
    /\ ready' = Tail(ready) \o First(getters)
    /\ call' = [call EXCEPT ![r] = "saturated"]
    /\ UNCHANGED <<running, accepting, putters, at, job, stopping, sentinels, ended, drains>>

KeepRoom(r) == Runs(r) /\ call[r] \in {"expired", "expired_awake"} /\ Answer(r, "saturated")

\* 503.  A waiter cancelled after it was woken passes its turn to the next one.
Saturated(r) ==
    /\ Runs(r)
    /\ \/ call[r] = "expired" /\ Answer(r, "saturated")
       \/ /\ call[r] = "expired_awake"
          /\ call' = [call EXCEPT ![r] = "saturated"]
          /\ IF Full
             THEN ready' = Tail(ready) /\ UNCHANGED putters
             ELSE ready' = Tail(ready) \o First(putters) /\ putters' = Rest(putters)
          /\ UNCHANGED <<running, accepting, items, unfinished, getters, at, job, stopping,
                         sentinels, ended, drains>>

------------------------------------------------------------------------------
(* A worker *)

\* Mutation only: an exception of the handler skips task_done.
LeftUncounted(w) == unfinished

\* The handler returned or raised, and `finally` marks the task done before the next
\* get; the last of the unfinished tasks wakes whoever waits in join.
Left(w) == IF at[w] = "ended" THEN unfinished - 1 ELSE unfinished

JoinEnds(w) ==
    at[w] = "ended" /\ Left(w) = 0 /\ stopping = "join" /\ Stop \notin Range(ready)

ReadyAfter(w) == Tail(ready) \o (IF JoinEnds(w) THEN <<Stop>> ELSE << >>)

Looks(w) == Runs(w) /\ at[w] \in {"get", "ended"}

WaitForItem(w) ==
    /\ Looks(w) /\ items = << >>
    /\ getters' = Append(getters, w)
    /\ unfinished' = Left(w)
    /\ ready' = ReadyAfter(w)
    /\ at' = [at EXCEPT ![w] = "get"]
    /\ job' = [job EXCEPT ![w] = NoJob]
    /\ UNCHANGED <<running, accepting, items, putters, call, stopping, sentinels, ended, drains>>

\* Mutation only: a stack for a queue.
BeginNewest(w) ==
    /\ Looks(w) /\ items # << >> /\ items[Len(items)] # Sentinel
    /\ items' = SubSeq(items, 1, Len(items) - 1) /\ putters' = Rest(putters)
    /\ unfinished' = Left(w)
    /\ ready' = ReadyAfter(w) \o First(putters)
    /\ at' = [at EXCEPT ![w] = "busy"]
    /\ job' = [job EXCEPT ![w] = items[Len(items)]]
    /\ UNCHANGED <<running, accepting, getters, call, stopping, sentinels, ended, drains>>

\* get_nowait, then the handler up to the thread it waits for.
BeginJob(w) ==
    /\ Looks(w) /\ items # << >> /\ Head(items) # Sentinel
    /\ items' = Tail(items) /\ putters' = Rest(putters)
    /\ unfinished' = Left(w)
    /\ ready' = ReadyAfter(w) \o First(putters)
    /\ at' = [at EXCEPT ![w] = "busy"]
    /\ job' = [job EXCEPT ![w] = Head(items)]
    /\ UNCHANGED <<running, accepting, getters, call, stopping, sentinels, ended, drains>>

\* Mutation only: an exception of the run ends the worker.
WorkerDies(w) ==
    /\ at[w] = "busy"
    /\ at' = [at EXCEPT ![w] = "gone"]
    /\ ended' = ended \cup {job[w]}
    /\ UNCHANGED <<running, accepting, aqueue, ready, call, job, stopping, sentinels, drains>>

\* The ansible run ends: successful, failed, timed out or with an exception, which
\* the executor logs and keeps to itself.
EndJob(w) ==
    /\ at[w] = "busy"
    /\ at' = [at EXCEPT ![w] = "ended"]
    /\ ended' = ended \cup {job[w]}
    /\ ready' = Append(ready, w)
    /\ UNCHANGED <<running, accepting, aqueue, call, job, stopping, sentinels, drains>>

\* A sentinel: the worker returns; the last one to do so ends the gather of stop.
LeavePool(w) ==
    /\ Looks(w) /\ items # << >> /\ Head(items) = Sentinel
    /\ items' = Tail(items) /\ putters' = Rest(putters)
    /\ unfinished' = Left(w) - 1
    /\ at' = [at EXCEPT ![w] = "gone"]
    /\ job' = [job EXCEPT ![w] = NoJob]
    /\ LET last == stopping = "gather" /\ \A v \in Workers \ {w} : at[v] = "gone"
       IN  ready' = ReadyAfter(w) \o First(putters) \o (IF last THEN <<Stop>> ELSE << >>)
    /\ UNCHANGED <<running, accepting, getters, call, stopping, sentinels, ended, drains>>

------------------------------------------------------------------------------
(* The shutdown *)

CallStop ==
    /\ running /\ stopping = "no"
    /\ drains => \A r \in Requests : call[r] \notin InFlight
    /\ stopping' = "called"
    /\ ready' = Append(ready, Stop)
    /\ UNCHANGED <<running, accepting, aqueue, call, at, job, sentinels, ended, drains>>

\* Mutation only: stop marks the queue stopped and leaves the jobs to themselves.
StopAtOnce ==
    /\ Runs(Stop) /\ stopping = "called" /\ unfinished > 0
    /\ running' = FALSE /\ accepting' = FALSE
    /\ stopping' = "done"
    /\ ready' = Tail(ready)
    /\ UNCHANGED <<aqueue, call, at, job, sentinels, ended, drains>>

\* join() finds unfinished tasks.
StopJoins ==
    /\ Runs(Stop) /\ stopping = "called" /\ unfinished > 0
    /\ accepting' = FALSE
    /\ stopping' = "join"
    /\ ready' = Tail(ready)
    /\ UNCHANGED <<running, aqueue, call, at, job, sentinels, ended, drains>>

Lesser(a, b) == IF a < b THEN a ELSE b

\* How many sentinels of those left fit in the queue.
Fitting == Lesser(MaxParallel - sentinels,
                  IF Full THEN 0 ELSE Capacity - Len(items))

\* One sentinel per worker: as many as fit at once, then a wait for room or, after the
\* last one, for the workers.
StopPuts ==
    /\ Runs(Stop)
    /\ \/ stopping = "called" /\ unfinished = 0
       \/ stopping \in {"join", "putting"}
    /\ accepting' = FALSE
    /\ items' = items \o [i \in 1..Fitting |-> Sentinel]
    /\ unfinished' = unfinished + Fitting
    /\ sentinels' = sentinels + Fitting
    /\ LET woken == Lesser(Fitting, Len(getters))
       IN  /\ ready' = Tail(ready) \o SubSeq(getters, 1, woken)
           /\ getters' = SubSeq(getters, woken + 1, Len(getters))
    /\ IF sentinels' = MaxParallel
       THEN stopping' = "gather" /\ UNCHANGED putters
       ELSE stopping' = "putting" /\ putters' = Append(putters, Stop)
    /\ UNCHANGED <<running, call, at, job, ended, drains>>

StopReturns ==
    /\ Runs(Stop) /\ stopping = "gather"
    /\ running' = FALSE
    /\ stopping' = "done"
    /\ ready' = Tail(ready)
    /\ UNCHANGED <<accepting, aqueue, call, at, job, sentinels, ended, drains>>

\* Nothing is left to happen.
Stopped ==
    /\ stopping = "done" /\ ready = << >>
    /\ \A r \in Requests : call[r] \in Answers \cup (IF drains THEN {"new"} ELSE {})
    /\ UNCHANGED vars

------------------------------------------------------------------------------
(* Specification *)

\* One step of the event loop.
LoopStep ==
    \/ \E r \in Requests : \/ NoPlan(r) \/ NotRunning(r) \/ Enqueue(r) \/ WaitForRoom(r)
                           \/ Saturated(r)
    \/ \E w \in Workers : WaitForItem(w) \/ BeginJob(w) \/ LeavePool(w)
    \/ StopJoins \/ StopPuts \/ StopReturns

Next ==
    \/ LoopStep
    \/ Start \/ CallStop \/ Stopped
    \/ \E r \in Requests : Arrive(r) \/ TimeoutFires(r)
    \/ \E w \in Workers : EndJob(w)

Spec == Init /\ [][Next]_vars

\* The loop turns, and run_timeout_seconds ends every ansible run.
FairSpec == Spec /\ WF_vars(LoopStep) /\ \A w \in Workers : WF_vars(EndJob(w))

------------------------------------------------------------------------------
(* Properties *)

Busy == {w \in Workers : at[w] \in {"busy", "ended"}}
Queued == Range(items) \ {Sentinel}

\* Every variable has its type, and a busy worker has a job.
TypeOK ==
    /\ running \in BOOLEAN /\ accepting \in BOOLEAN
    /\ items \in Seq(Requests \cup {Sentinel}) /\ unfinished \in Nat
    /\ getters \in Seq(Workers) /\ putters \in Seq(Requests \cup {Stop})
    /\ ready \in Seq(Requests \cup Workers \cup {Stop})
    /\ call \in [Requests -> {"new"} \cup InFlight \cup Answers]
    /\ at \in [Workers -> {"off", "get", "busy", "ended", "gone"}]
    /\ job \in [Workers -> Requests \cup {NoJob}]
    /\ \A w \in Workers : at[w] = "busy" => job[w] \in Requests
    /\ stopping \in {"no", "called", "join", "putting", "gather", "done"}
    /\ sentinels \in 0..MaxParallel
    /\ ended \subseteq Requests
    /\ drains \in BOOLEAN

\* The counter that join waits for is the number of items in the queue and of jobs in
\* the hands of workers, so that it reaches zero only when both are none.
UnfinishedIsExact == unfinished = Len(items) + Cardinality(Busy)

\* Where a job is and what its caller was told agree: a job that was answered 202 is
\* queued, run or ended, once; one answered otherwise, 503 included, never is.
AnswerIsTruth ==
    /\ \A r \in Requests :
        call[r] = "accepted" <=>
            r \in Queued \/ r \in ended \/ \E w \in Workers : at[w] = "busy" /\ job[w] = r
    /\ \A i, j \in DOMAIN items : items[i] = items[j] /\ items[i] # Sentinel => i = j
    /\ \A v, w \in Workers : at[v] = "busy" /\ at[w] = "busy" /\ job[v] = job[w] => v = w
    /\ \A w \in Workers : at[w] = "busy" => job[w] \notin ended \cup Queued
    /\ ended \cap Queued = {}

\* No wakeup is lost: an item with a waiting worker, or room with a waiting putter, has
\* somebody ready who will take it, also after a timeout cancelled the one woken for it.
NoLostWakeup ==
    /\ items # << >> /\ getters # << >> => \E w \in Workers : w \in Range(ready)
    /\ ~Full /\ putters # << >> =>
        \E t \in Requests \cup {Stop} : t \in Range(ready)

\* After a stop that waited for the open requests no accepted job is left behind.
NothingLeftBehind ==
    drains /\ stopping = "done" =>
        /\ \A r \in Requests : call[r] = "accepted" => r \in ended
        /\ \A w \in Workers : at[w] = "gone"

\* Every request gets an answer.
Answered == \A r \in Requests : drains /\ call[r] = "arrived" ~> call[r] \in Answers

\* A 202 is kept: the job is run to its end, also when a shutdown begins meanwhile.
AcceptedRuns == \A r \in Requests : drains /\ call[r] = "accepted" ~> r \in ended

\* The shutdown returns, however full the queue and however many requests wait.
StopEnds == stopping = "called" ~> stopping = "done"

\* The jobs of a queue, in order, without the sentinels among them.
JobsOf(queue) ==
    FlattenSeq([i \in DOMAIN queue |->
                    IF queue[i] \in Requests THEN <<queue[i]>> ELSE << >>])

Pool == INSTANCE JobPool WITH
            Jobs <- Requests, Width <- MaxParallel,
            backlog <- JobsOf(items),
            active <- {job[w] : w \in {v \in Workers : at[v] = "busy"}},
            ended <- ended, closed <- (drains /\ stopping = "done")

\* The queue is a job pool: first in first out, each job once, never more of them at a
\* time than workers, closed only when it is empty.
IsJobPool == Pool!Spec
==============================================================================
