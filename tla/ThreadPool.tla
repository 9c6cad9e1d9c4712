----------------------------- MODULE ThreadPool -----------------------------
(***************************************************************************)
(* src/thread_pool_on_fixed_size_bounded_queue.cpp: a fixed set of worker  *)
(* threads takes tasks from a bounded queue; pushTask blocks while the     *)
(* queue is full; gracefulShutdown drains, immediateShutdown drops.        *)
(*                                                                         *)
(* Every critical section under poolMutex is one action, together with the *)
(* notify_one issued inside it.  The notify_all calls of the shutdowns are *)
(* made after the lock is released, so they are actions of their own, and  *)
(* so is the wait for the worker threads (join).  A thread that is         *)
(* "asleep" waits in a condition variable; one that was notified, or woke  *)
(* spuriously, competes for the mutex again and re-evaluates the predicate *)
(* of its wait.                                                            *)
(***************************************************************************)
EXTENDS Naturals, Sequences, FiniteSets, Functions

CONSTANTS
  Workers,        \* the threads the constructor starts (numThreads of them)
  Tasks,          \* one member per call of pushTask
  QueueCapacity,  \* maxQueueSize
  Closers,        \* threads that call one of the shutdowns
  Owner,          \* the thread that runs the destructor
  NoTask          \* what a worker that holds no task holds

ASSUME WorkersAssumption == IsFiniteSet(Workers)
ASSUME TasksAssumption == IsFiniteSet(Tasks) /\ NoTask \notin Tasks
ASSUME CapacityAssumption == QueueCapacity \in Nat
ASSUME OwnerAssumption == Owner \notin Closers

Stoppers == Closers \cup {Owner}

VARIABLES
  queue,                \* taskQueue
  isGracefulShutdown,
  isImmediateShutdown,
  worker,               \* where each worker thread is
  grabbed,              \* the task each worker has taken off the queue
  caller,               \* where each call of pushTask is
  future,               \* the future pushTask returned for a task
  closer                \* where each shutdown call is

vars == <<queue, isGracefulShutdown, isImmediateShutdown, worker, grabbed,
          caller, future, closer>>

TypeOK ==
  /\ queue \in Seq(Tasks)
  /\ isGracefulShutdown \in BOOLEAN
  /\ isImmediateShutdown \in BOOLEAN
  /\ worker \in [Workers -> {"ready", "asleep", "working", "exited"}]
  /\ grabbed \in [Workers -> Tasks \cup {NoTask}]
  /\ caller \in [Tasks -> {"idle", "asleep", "notified", "accepted", "rejected"}]
  /\ future \in [Tasks -> {"none", "pending", "value", "error", "broken"}]
  /\ closer \in [Stoppers -> {"idle", "notifyFull", "notifyEmpty", "joining",
                              "returned", "declined", "destroyed"}]

Init ==
  /\ queue = <<>>
  /\ isGracefulShutdown = FALSE
  /\ isImmediateShutdown = FALSE
  /\ worker = [w \in Workers |-> "ready"]
  /\ grabbed = [w \in Workers |-> NoTask]
  /\ caller = [t \in Tasks |-> "idle"]
  /\ future = [t \in Tasks |-> "none"]
  /\ closer = [c \in Stoppers |-> "idle"]

\* Definitions named Faulty... are never part of the specification: each is a
\* plausible mistake in the definition that follows it, kept to show that the
\* properties notice it.
FaultyClosed == isGracefulShutdown
Closed == isGracefulShutdown \/ isImmediateShutdown

FaultyFull == Len(queue) > QueueCapacity
Full == Len(queue) >= QueueCapacity

SleepingCallers == {t \in Tasks : caller[t] = "asleep"}
NotifiedCallers == {t \in Tasks : caller[t] = "notified"}
SleepingWorkers == {w \in Workers : worker[w] = "asleep"}
ReadyWorkers == {w \in Workers : worker[w] = "ready"}
Queued(t) == t \in Range(queue)
Held(t) == \E w \in Workers : grabbed[w] = t

\* The destructor has been entered: C++ forbids any call from then on.
Alive == closer[Owner] = "idle"

\* A thread inside pushTask that holds poolMutex: it enters for the first
\* time, or its wait on cvNotFull ended.
InPush(t) == caller[t] = "notified" \/ (caller[t] = "idle" /\ Alive)

-----------------------------------------------------------------------------
(* pushTask *)

RejectPush(t) ==
  /\ InPush(t)
  /\ Closed
  /\ caller' = [caller EXCEPT ![t] = "rejected"]
  /\ UNCHANGED <<queue, isGracefulShutdown, isImmediateShutdown, worker,
                 grabbed, future, closer>>

BlockPush(t) ==
  /\ InPush(t)
  /\ ~Closed
  /\ Full
  /\ caller' = [caller EXCEPT ![t] = "asleep"]
  /\ UNCHANGED <<queue, isGracefulShutdown, isImmediateShutdown, worker,
                 grabbed, future, closer>>

\* cvNotEmpty.notify_one(): any one of the threads that wait, if one does.
FaultyNotifyOneWorker == UNCHANGED worker
NotifyOneWorker ==
  \/ SleepingWorkers = {} /\ UNCHANGED worker
  \/ \E w \in SleepingWorkers : worker' = [worker EXCEPT ![w] = "ready"]

EnqueueTask(t) ==
  /\ InPush(t)
  /\ ~Closed
  /\ ~Full
  /\ queue' = Append(queue, t)
  /\ caller' = [caller EXCEPT ![t] = "accepted"]
  /\ future' = [future EXCEPT ![t] = "pending"]
  /\ NotifyOneWorker
  /\ UNCHANGED <<isGracefulShutdown, isImmediateShutdown, grabbed, closer>>

PushTask(t) == RejectPush(t) \/ BlockPush(t) \/ EnqueueTask(t)

-----------------------------------------------------------------------------
(* workerLoop *)

WorkerSleep(w) ==
  /\ worker[w] = "ready"
  /\ queue = <<>>
  /\ ~Closed
  /\ worker' = [worker EXCEPT ![w] = "asleep"]
  /\ UNCHANGED <<queue, isGracefulShutdown, isImmediateShutdown, grabbed,
                 caller, future, closer>>

FaultyWorkerExit(w) ==
  /\ worker[w] = "ready"
  /\ Closed
  /\ worker' = [worker EXCEPT ![w] = "exited"]
  /\ UNCHANGED <<queue, isGracefulShutdown, isImmediateShutdown, grabbed,
                 caller, future, closer>>
WorkerExit(w) ==
  /\ worker[w] = "ready"
  /\ isImmediateShutdown \/ (isGracefulShutdown /\ queue = <<>>)
  /\ worker' = [worker EXCEPT ![w] = "exited"]
  /\ UNCHANGED <<queue, isGracefulShutdown, isImmediateShutdown, grabbed,
                 caller, future, closer>>

\* cvNotFull.notify_one()
FaultyNotifyOneCaller == UNCHANGED caller
NotifyOneCaller ==
  \/ SleepingCallers = {} /\ UNCHANGED caller
  \/ \E t \in SleepingCallers : caller' = [caller EXCEPT ![t] = "notified"]

\* front() moved out, then pop().
FaultyTakeFront(w) ==
  grabbed' = [grabbed EXCEPT ![w] = Head(queue)] /\ UNCHANGED queue
FaultyTakeBack(w) ==
  /\ grabbed' = [grabbed EXCEPT ![w] = queue[Len(queue)]]
  /\ queue' = SubSeq(queue, 1, Len(queue) - 1)
TakeFront(w) ==
  /\ grabbed' = [grabbed EXCEPT ![w] = Head(queue)]
  /\ queue' = Tail(queue)

GrabTask(w) ==
  /\ worker[w] = "ready"
  /\ queue # <<>>
  /\ ~isImmediateShutdown
  /\ TakeFront(w)
  /\ worker' = [worker EXCEPT ![w] = "working"]
  /\ NotifyOneCaller
  /\ UNCHANGED <<isGracefulShutdown, isImmediateShutdown, future, closer>>

\* Outside the lock: set_value, or set_exception when building the result
\* threw.  The grabbed pair goes out of scope with the loop's iteration.
RunTask(w) ==
  /\ worker[w] = "working"
  /\ \E outcome \in {"value", "error"} :
        future' = [future EXCEPT ![grabbed[w]] = outcome]
  /\ grabbed' = [grabbed EXCEPT ![w] = NoTask]
  /\ worker' = [worker EXCEPT ![w] = "ready"]
  /\ UNCHANGED <<queue, isGracefulShutdown, isImmediateShutdown, caller, closer>>

WorkerStep(w) ==
  WorkerSleep(w) \/ WorkerExit(w) \/ GrabTask(w) \/ RunTask(w)

\* A wait of a condition variable may end with no notification.
SpuriousWake ==
  \/ \E w \in SleepingWorkers :
        /\ worker' = [worker EXCEPT ![w] = "ready"]
        /\ UNCHANGED caller
  \/ \E t \in SleepingCallers :
        /\ caller' = [caller EXCEPT ![t] = "notified"]
        /\ UNCHANGED worker

SpuriousWakeup ==
  /\ SpuriousWake
  /\ UNCHANGED <<queue, isGracefulShutdown, isImmediateShutdown, grabbed,
                 future, closer>>

-----------------------------------------------------------------------------
(* gracefulShutdown, immediateShutdown and the destructor *)

Quiescent ==
  /\ \A t \in Tasks : caller[t] \in {"idle", "accepted", "rejected"}
  /\ \A c \in Closers : closer[c] \in {"idle", "returned", "declined"}

\* Closers may call either shutdown at any time; the owner enters the
\* destructor, which calls gracefulShutdown, when no other call is in
\* progress.
MayCall(c) ==
  /\ closer[c] = "idle"
  /\ Alive
  /\ c = Owner => Quiescent

FaultyBeginGraceful(c) ==
  /\ MayCall(c)
  /\ isGracefulShutdown' = TRUE
  /\ closer' = [closer EXCEPT ![c] = "notifyFull"]
  /\ UNCHANGED <<queue, isImmediateShutdown, worker, grabbed, caller, future>>
BeginGraceful(c) ==
  /\ MayCall(c)
  /\ ~Closed
  /\ isGracefulShutdown' = TRUE
  /\ closer' = [closer EXCEPT ![c] = "notifyFull"]
  /\ UNCHANGED <<queue, isImmediateShutdown, worker, grabbed, caller, future>>

\* Dropping a queued pair destroys its promise: the future breaks.
BreakFutures ==
  future' = [t \in Tasks |-> IF Queued(t) THEN "broken" ELSE future[t]]

BeginImmediate(c) ==
  /\ c # Owner
  /\ MayCall(c)
  /\ ~Closed
  /\ isImmediateShutdown' = TRUE
  /\ queue' = <<>>
  /\ BreakFutures
  /\ closer' = [closer EXCEPT ![c] = "notifyFull"]
  /\ UNCHANGED <<isGracefulShutdown, worker, grabbed, caller>>

\* Whoever called first wins; a later call returns at once.
AlreadyClosed(c) ==
  /\ MayCall(c)
  /\ Closed
  /\ closer' = [closer EXCEPT ![c] = "declined"]
  /\ UNCHANGED <<queue, isGracefulShutdown, isImmediateShutdown, worker,
                 grabbed, caller, future>>

FaultyNotifyAllCallers(c) ==
  /\ closer[c] = "notifyFull"
  /\ closer' = [closer EXCEPT ![c] = "notifyEmpty"]
  /\ UNCHANGED <<queue, isGracefulShutdown, isImmediateShutdown, worker,
                 grabbed, caller, future>>
NotifyAllCallers(c) ==
  /\ closer[c] = "notifyFull"
  /\ closer' = [closer EXCEPT ![c] = "notifyEmpty"]
  /\ caller' = [t \in Tasks |-> IF caller[t] = "asleep" THEN "notified" ELSE caller[t]]
  /\ UNCHANGED <<queue, isGracefulShutdown, isImmediateShutdown, worker,
                 grabbed, future>>

FaultyNotifyAllWorkers(c) ==
  /\ closer[c] = "notifyEmpty"
  /\ closer' = [closer EXCEPT ![c] = "joining"]
  /\ UNCHANGED <<queue, isGracefulShutdown, isImmediateShutdown, worker,
                 grabbed, caller, future>>
NotifyAllWorkers(c) ==
  /\ closer[c] = "notifyEmpty"
  /\ closer' = [closer EXCEPT ![c] = "joining"]
  /\ worker' = [w \in Workers |-> IF worker[w] = "asleep" THEN "ready" ELSE worker[w]]
  /\ UNCHANGED <<queue, isGracefulShutdown, isImmediateShutdown, grabbed,
                 caller, future>>

JoinWorkers(c) ==
  /\ closer[c] = "joining"
  /\ \A w \in Workers : worker[w] = "exited"
  /\ closer' = [closer EXCEPT ![c] = "returned"]
  /\ UNCHANGED <<queue, isGracefulShutdown, isImmediateShutdown, worker,
                 grabbed, caller, future>>

\* The members are destroyed after the body of the destructor.
DestroyPool ==
  /\ closer[Owner] \in {"returned", "declined"}
  /\ closer' = [closer EXCEPT ![Owner] = "destroyed"]
  /\ queue' = <<>>
  /\ BreakFutures
  /\ UNCHANGED <<isGracefulShutdown, isImmediateShutdown, worker, grabbed, caller>>

CloserStep(c) == NotifyAllCallers(c) \/ NotifyAllWorkers(c) \/ JoinWorkers(c)

-----------------------------------------------------------------------------
Next ==
  \/ \E t \in Tasks : PushTask(t)
  \/ \E w \in Workers : WorkerStep(w)
  \/ SpuriousWakeup
  \/ \E c \in Stoppers : \/ BeginGraceful(c)
                         \/ BeginImmediate(c)
                         \/ AlreadyClosed(c)
                         \/ CloserStep(c)
  \/ DestroyPool

SafeSpec == Init /\ [][Next]_vars

\* Threads that are not blocked keep running, and a contended mutex is
\* granted eventually.  Nobody has to call pushTask or a shutdown, and no
\* wakeup is spurious of necessity.
Fairness ==
  /\ \A t \in Tasks : WF_vars(caller[t] = "notified" /\ PushTask(t))
  /\ \A w \in Workers : WF_vars(WorkerStep(w))
  /\ \A c \in Stoppers : WF_vars(CloserStep(c))

Spec == SafeSpec /\ Fairness

-----------------------------------------------------------------------------
(* Safety *)

\* Every future that is still pending belongs to exactly one of the queue and
\* a worker, and is there once: the move out of the queue (front, pop, then
\* set_value) neither loses nor duplicates a task.
TaskConservation ==
  /\ IsInjective(queue)
  /\ \A v, w \in Workers : grabbed[v] = grabbed[w] /\ v # w => grabbed[v] = NoTask
  /\ \A t \in Tasks : ~(Held(t) /\ Queued(t))
  /\ \A t \in Tasks : future[t] = "pending" <=> Held(t) \/ Queued(t)

\* pushTask's backpressure: the queue never outgrows its capacity, also when
\* a notified caller and a newcomer race for one free place.
Backpressure == Len(queue) <= QueueCapacity

\* "finish queued tasks, then stop": unless the shutdown was the immediate
\* one, no accepted task's future is ever broken, even by the destructor.
GracefulLosesNothing ==
  \A t \in Tasks : future[t] = "broken" => isImmediateShutdown \/ Workers = {}

\* The lost wakeup of the source's two-column scenario: a caller asleep on
\* cvNotFull, or a worker asleep on cvNotEmpty, is owed nothing.  While the
\* pool is open, the free places are covered by callers already notified and
\* the queued tasks by workers already awake; once it is closed, the winning
\* shutdown has its notify_all for that condition variable still to come.
NoLostWakeup ==
  /\ SleepingCallers # {} /\ ~Closed =>
       Len(queue) + Cardinality(NotifiedCallers) >= QueueCapacity
  /\ SleepingWorkers # {} /\ ~Closed =>
       Cardinality(ReadyWorkers) >= Len(queue)
  /\ SleepingCallers # {} /\ Closed => \E c \in Stoppers : closer[c] = "notifyFull"
  /\ SleepingWorkers # {} /\ Closed =>
       \E c \in Stoppers : closer[c] \in {"notifyFull", "notifyEmpty"}

\* A shutdown that won has stopped every worker when it returns, at most one
\* call joins them, and the destructor finds no thread left to join (a
\* joinable std::thread in the vector would terminate the program).
ShutdownIsComplete ==
  /\ \A c \in Stoppers :
       closer[c] = "returned" => \A w \in Workers : worker[w] = "exited"
  /\ \A c, d \in Stoppers :
       {closer[c], closer[d]} \subseteq {"notifyFull", "notifyEmpty", "joining", "returned"}
          => c = d
  /\ closer[Owner] \in {"declined", "destroyed"} =>
       \A w \in Workers : worker[w] = "exited"

\* "stop after current task, drop the rest": once the pool is closed
\* immediately no worker takes another task and nothing is queued again.
ImmediateTakesNothing ==
  [][isImmediateShutdown =>
       /\ queue' = <<>>
       /\ \A w \in Workers : grabbed'[w] # NoTask => grabbed'[w] = grabbed[w]]_vars

-----------------------------------------------------------------------------
(* The inductive invariant behind those properties *)

\* The local view of each thread agrees with what it holds.
ThreadsAgree ==
  /\ \A w \in Workers : worker[w] = "working" <=> grabbed[w] # NoTask
  /\ \A t \in Tasks : caller[t] = "accepted" <=> future[t] # "none"

\* A worker leaves its loop only when there is nothing left for anyone.
NothingLeftBehind ==
  /\ isImmediateShutdown => queue = <<>>
  /\ \A w \in Workers : worker[w] = "exited" => Closed /\ queue = <<>>

\* The flags are set by exactly one call, which is still on its way through
\* the shutdown or has returned.
OneWinner ==
  /\ ~Closed => \A c \in Stoppers : closer[c] = "idle"
  /\ Closed /\ Alive =>
       \E c \in Closers :
         closer[c] \in {"notifyFull", "notifyEmpty", "joining", "returned"}

\* Everything above together: inductive, which the properties alone are not.
SafetyInv ==
  /\ TypeOK
  /\ TaskConservation
  /\ Backpressure
  /\ GracefulLosesNothing
  /\ NoLostWakeup
  /\ ShutdownIsComplete
  /\ ThreadsAgree
  /\ NothingLeftBehind
  /\ OneWinner

-----------------------------------------------------------------------------
(* Liveness *)

\* Every accepted task's future becomes ready: with a value, an exception, or
\* broken_promise when the immediate shutdown dropped the task.
AcceptedTasksSettle ==
  \A t \in Tasks :
    caller[t] = "accepted" ~> future[t] \in {"value", "error", "broken"}

\* A caller blocked on a full queue is let in or told of the shutdown.
BlockedPushReturns ==
  \A t \in Tasks : caller[t] = "asleep" ~> caller[t] \in {"accepted", "rejected"}

\* A shutdown that won the race returns: join() does not wait for ever.
ShutdownReturns ==
  \A c \in Stoppers : closer[c] = "notifyFull" ~> closer[c] = "returned"

-----------------------------------------------------------------------------
(* Refinement *)

\* How far a task has come, as a caller of the pool would tell it.
Phase(t) ==
  IF caller[t] = "rejected" THEN "refused"
  ELSE IF future[t] = "none" THEN "new"
  ELSE IF future[t] = "broken" THEN "dropped"
  ELSE IF future[t] # "pending" THEN "settled"
  ELSE IF Held(t) THEN "running" ELSE "queued"

PoolMode ==
  IF isImmediateShutdown THEN "immediate"
  ELSE IF isGracefulShutdown THEN "graceful" ELSE "open"

Abstract == INSTANCE TaskPool WITH
  Capacity <- QueueCapacity,
  mode <- PoolMode,
  backlog <- queue,
  phase <- [t \in Tasks |-> Phase(t)]

\* The threads, the mutex and the two condition variables together behave as
\* the bounded FIFO pool of module TaskPool.
ImplementsTaskPool == Abstract!Spec
=============================================================================
