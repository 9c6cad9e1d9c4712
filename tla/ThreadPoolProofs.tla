-------------------------- MODULE ThreadPoolProofs --------------------------
(***************************************************************************)
(* Theorems about ThreadPool for every number of workers, tasks, closers   *)
(* and every capacity.                                                     *)
(***************************************************************************)
EXTENDS ThreadPool, SequenceLemmas, FiniteSetTheorems

USE DEF vars

\* Every variable keeps its type, for all values of the constants: the lemma
\* all the other proofs rest on.
LEMMA TypeOKInit == Init => TypeOK
<1> SUFFICES ASSUME Init PROVE TypeOK
  OBVIOUS
<1>1. queue \in Seq(Tasks)
  BY EmptySeq DEF Init
<1>2. isGracefulShutdown \in BOOLEAN /\ isImmediateShutdown \in BOOLEAN
  BY DEF Init
<1>3. worker \in [Workers -> {"ready", "asleep", "working", "exited"}]
  BY DEF Init
<1>4. grabbed \in [Workers -> Tasks \cup {NoTask}]
  BY DEF Init
<1>5. caller \in [Tasks -> {"idle", "asleep", "notified", "accepted", "rejected"}]
  BY DEF Init
<1>6. future \in [Tasks -> {"none", "pending", "value", "error", "broken"}]
  BY DEF Init
<1>7. closer \in [Stoppers -> {"idle", "notifyFull", "notifyEmpty", "joining",
                               "returned", "declined", "destroyed"}]
  BY DEF Init
<1> QED
  BY <1>1, <1>2, <1>3, <1>4, <1>5, <1>6, <1>7 DEF TypeOK

LEMMA TypeOKStep == TypeOK /\ [Next]_vars => TypeOK'
<1> SUFFICES ASSUME TypeOK, [Next]_vars PROVE TypeOK'
  OBVIOUS
<1> USE DEF TypeOK
<1>1. ASSUME NEW t \in Tasks, RejectPush(t) PROVE TypeOK'
  BY <1>1 DEF RejectPush
<1>2. ASSUME NEW t \in Tasks, BlockPush(t) PROVE TypeOK'
  BY <1>2 DEF BlockPush
<1>3. ASSUME NEW t \in Tasks, EnqueueTask(t) PROVE TypeOK'
  <2>1. worker' \in [Workers -> {"ready", "asleep", "working", "exited"}]
    BY <1>3 DEF EnqueueTask, NotifyOneWorker
  <2> QED
    BY <1>3, <2>1 DEF EnqueueTask
<1>4. ASSUME NEW w \in Workers, WorkerSleep(w) PROVE TypeOK'
  BY <1>4 DEF WorkerSleep
<1>5. ASSUME NEW w \in Workers, WorkerExit(w) PROVE TypeOK'
  BY <1>5 DEF WorkerExit
<1>6. ASSUME NEW w \in Workers, GrabTask(w) PROVE TypeOK'
  <2>1. caller' \in [Tasks -> {"idle", "asleep", "notified", "accepted", "rejected"}]
    BY <1>6 DEF GrabTask, NotifyOneCaller
  <2>2. Head(queue) \in Tasks /\ Tail(queue) \in Seq(Tasks)
    BY <1>6, HeadTailProperties DEF GrabTask
  <2> QED
    BY <1>6, <2>1, <2>2 DEF GrabTask, TakeFront
<1>7. ASSUME NEW w \in Workers, RunTask(w) PROVE TypeOK'
  BY <1>7 DEF RunTask
<1>8. CASE SpuriousWakeup
  BY <1>8 DEF SpuriousWakeup, SpuriousWake
<1>9. ASSUME NEW c \in Stoppers, BeginGraceful(c) PROVE TypeOK'
  BY <1>9 DEF BeginGraceful
<1>10. ASSUME NEW c \in Stoppers, BeginImmediate(c) PROVE TypeOK'
  BY <1>10 DEF BeginImmediate, BreakFutures
<1>11. ASSUME NEW c \in Stoppers, AlreadyClosed(c) PROVE TypeOK'
  BY <1>11 DEF AlreadyClosed
<1>12. ASSUME NEW c \in Stoppers, NotifyAllCallers(c) PROVE TypeOK'
  BY <1>12 DEF NotifyAllCallers
<1>13. ASSUME NEW c \in Stoppers, NotifyAllWorkers(c) PROVE TypeOK'
  BY <1>13 DEF NotifyAllWorkers
<1>14. ASSUME NEW c \in Stoppers, JoinWorkers(c) PROVE TypeOK'
  BY <1>14 DEF JoinWorkers
<1>15. CASE DestroyPool
  <2>1. queue' \in Seq(Tasks)
    BY <1>15, EmptySeq DEF DestroyPool
  <2>2. future' \in [Tasks -> {"none", "pending", "value", "error", "broken"}]
    BY <1>15 DEF DestroyPool, BreakFutures
  <2>3. closer' \in [Stoppers -> {"idle", "notifyFull", "notifyEmpty", "joining",
                                 "returned", "declined", "destroyed"}]
    BY <1>15 DEF DestroyPool
  <2> QED
    BY <1>15, <2>1, <2>2, <2>3 DEF DestroyPool
<1>16. CASE UNCHANGED vars
  BY <1>16
<1> QED
  BY <1>1, <1>2, <1>3, <1>4, <1>5, <1>6, <1>7, <1>8, <1>9, <1>10, <1>11,
     <1>12, <1>13, <1>14, <1>15, <1>16
     DEF Next, PushTask, WorkerStep, CloserStep

THEOREM TypeCorrect == SafeSpec => []TypeOK
BY TypeOKInit, TypeOKStep, PTL DEF SafeSpec

-----------------------------------------------------------------------------
(* A pending task is in the queue or with a worker, once *)

Conserved == TaskConservation /\ ThreadsAgree

\* Neither the move from pushTask into the queue, nor from the queue to a
\* worker, nor the dropping of the queue loses or duplicates a task.
LEMMA ConservedStep ==
  TypeOK /\ Conserved /\ [Next]_vars => Conserved'
<1> SUFFICES ASSUME TypeOK, Conserved, [Next]_vars PROVE Conserved'
  OBVIOUS
<1> USE DEF TypeOK, Conserved, TaskConservation, ThreadsAgree, Held, Queued
<1>1. ASSUME NEW t \in Tasks, RejectPush(t) PROVE Conserved'
  BY <1>1 DEF RejectPush, InPush
<1>2. ASSUME NEW t \in Tasks, BlockPush(t) PROVE Conserved'
  BY <1>2 DEF BlockPush, InPush
<1>3. ASSUME NEW t \in Tasks, EnqueueTask(t) PROVE Conserved'
  <2>1. future[t] = "none" /\ ~Queued(t) /\ ~Held(t)
    BY <1>3 DEF EnqueueTask, InPush
  <2>2. /\ Range(queue') = Range(queue) \cup {t}
        /\ IsInjective(queue')
    BY <1>3, <2>1, AppendElements DEF EnqueueTask
  <2>3. worker' = worker \/ \E w \in Workers : /\ worker[w] = "asleep"
                                              /\ worker' = [worker EXCEPT ![w] = "ready"]
    BY <1>3 DEF EnqueueTask, NotifyOneWorker, SleepingWorkers
  <2>4. \A w \in Workers : worker'[w] = "working" <=> worker[w] = "working"
    BY <2>3
  <2> QED
    BY <1>3, <2>1, <2>2, <2>4 DEF EnqueueTask
<1>4. ASSUME NEW w \in Workers, WorkerSleep(w) PROVE Conserved'
  BY <1>4 DEF WorkerSleep
<1>5. ASSUME NEW w \in Workers, WorkerExit(w) PROVE Conserved'
  BY <1>5 DEF WorkerExit
<1>6. ASSUME NEW w \in Workers, GrabTask(w) PROVE Conserved'
  <2>1. /\ Head(queue) \in Range(queue)
        /\ Range(queue') = Range(queue) \ {Head(queue)}
        /\ IsInjective(queue')
    BY <1>6, TailElements DEF GrabTask, TakeFront
  <2>2. Head(queue) \in Tasks /\ grabbed[w] = NoTask
    BY <1>6, HeadTailProperties DEF GrabTask
  <2>3. \A t \in Tasks : caller'[t] = "accepted" <=> caller[t] = "accepted"
    BY <1>6 DEF GrabTask, NotifyOneCaller, SleepingCallers
  <2>4. \A t \in Tasks : Held(t)' <=> Held(t) \/ t = Head(queue)
    BY <1>6, <2>2, TasksAssumption DEF GrabTask, TakeFront
  <2>5. \A u, v \in Workers : grabbed'[u] = grabbed'[v] /\ u # v => grabbed'[u] = NoTask
    BY <1>6, <2>1, <2>2 DEF GrabTask, TakeFront
  <2>6. \A v \in Workers : worker'[v] = "working" <=> grabbed'[v] # NoTask
    BY <1>6, <2>2, TasksAssumption DEF GrabTask, TakeFront
  <2>7. \A t \in Tasks : ~(Held(t)' /\ Queued(t)')
    BY <2>1, <2>4
  <2>8. \A t \in Tasks : future'[t] = "pending" <=> Held(t)' \/ Queued(t)'
    BY <1>6, <2>1, <2>4 DEF GrabTask
  <2> QED
    BY <1>6, <2>1, <2>3, <2>5, <2>6, <2>7, <2>8 DEF GrabTask
<1>7. ASSUME NEW w \in Workers, RunTask(w) PROVE Conserved'
  <2>1. grabbed[w] \in Tasks /\ future[grabbed[w]] = "pending"
    BY <1>7 DEF RunTask
  <2>2. \A t \in Tasks : Held(t)' <=> Held(t) /\ t # grabbed[w]
    BY <1>7, <2>1, TasksAssumption DEF RunTask
  <2> QED
    BY <1>7, <2>1, <2>2 DEF RunTask
<1>8. CASE SpuriousWakeup
  <2>1. \A w \in Workers : worker'[w] = "working" <=> worker[w] = "working"
    BY <1>8 DEF SpuriousWakeup, SpuriousWake, SleepingWorkers
  <2>2. \A t \in Tasks : caller'[t] = "accepted" <=> caller[t] = "accepted"
    BY <1>8 DEF SpuriousWakeup, SpuriousWake, SleepingCallers
  <2> QED
    BY <1>8, <2>1, <2>2 DEF SpuriousWakeup
<1>9. ASSUME NEW c \in Stoppers, BeginGraceful(c) PROVE Conserved'
  BY <1>9 DEF BeginGraceful
<1>10. ASSUME queue' = <<>>, BreakFutures, UNCHANGED <<worker, grabbed, caller>>
       PROVE  Conserved'
  BY <1>10, EmptyElements DEF BreakFutures
<1>11. ASSUME NEW c \in Stoppers, BeginImmediate(c) PROVE Conserved'
  BY <1>10, <1>11 DEF BeginImmediate
<1>12. ASSUME NEW c \in Stoppers, AlreadyClosed(c) PROVE Conserved'
  BY <1>12 DEF AlreadyClosed
<1>13. ASSUME NEW c \in Stoppers, NotifyAllCallers(c) PROVE Conserved'
  BY <1>13 DEF NotifyAllCallers
<1>14. ASSUME NEW c \in Stoppers, NotifyAllWorkers(c) PROVE Conserved'
  BY <1>14 DEF NotifyAllWorkers
<1>15. ASSUME NEW c \in Stoppers, JoinWorkers(c) PROVE Conserved'
  BY <1>15 DEF JoinWorkers
<1>16. CASE DestroyPool
  BY <1>10, <1>16 DEF DestroyPool
<1>17. CASE UNCHANGED vars
  BY <1>17
<1> QED
  BY <1>1, <1>2, <1>3, <1>4, <1>5, <1>6, <1>7, <1>8, <1>9, <1>11, <1>12,
     <1>13, <1>14, <1>15, <1>16, <1>17
     DEF Next, PushTask, WorkerStep, CloserStep

LEMMA ConservedInvariant == SafeSpec => []Conserved
<1>1. Init => Conserved
  BY EmptyElements, TasksAssumption
     DEF Init, Conserved, TaskConservation, ThreadsAgree, Held, Queued
<1> QED
  BY <1>1, ConservedStep, TypeCorrect, PTL DEF SafeSpec

\* No task is lost or run twice between pushTask and its future.
THEOREM NoTaskLostOrDuplicated == SafeSpec => []TaskConservation
BY ConservedInvariant, PTL DEF Conserved

-----------------------------------------------------------------------------
(* Shutdown *)

ShutdownInv ==
  NothingLeftBehind /\ OneWinner /\ ShutdownIsComplete /\ GracefulLosesNothing

\* Only the winner of the flags notifies and joins, a worker leaves only when
\* the queue is empty for good, and so nothing queued is dropped by a
\* graceful shutdown and nothing runs once a shutdown that won has returned.
LEMMA ShutdownStep ==
  TypeOK /\ ShutdownInv /\ [Next]_vars => ShutdownInv'
<1> SUFFICES ASSUME TypeOK, ShutdownInv, [Next]_vars PROVE ShutdownInv'
  OBVIOUS
<1> USE DEF TypeOK, ShutdownInv, NothingLeftBehind, OneWinner,
            ShutdownIsComplete, GracefulLosesNothing, Closed, Alive, Stoppers
<1>1. ASSUME NEW t \in Tasks, RejectPush(t) PROVE ShutdownInv'
  BY <1>1 DEF RejectPush
<1>2. ASSUME NEW t \in Tasks, BlockPush(t) PROVE ShutdownInv'
  BY <1>2 DEF BlockPush
<1>3. ASSUME NEW t \in Tasks, EnqueueTask(t) PROVE ShutdownInv'
  <2>1. \A w \in Workers : worker'[w] # "exited"
    BY <1>3 DEF EnqueueTask, NotifyOneWorker, SleepingWorkers
  <2>2. \A c \in Stoppers : closer'[c] = "idle"
    BY <1>3 DEF EnqueueTask
  <2> QED
    BY <1>3, <2>1, <2>2 DEF EnqueueTask
<1>4. ASSUME NEW w \in Workers, WorkerSleep(w) PROVE ShutdownInv'
  <2>1. \A v \in Workers : worker'[v] = "exited" <=> worker[v] = "exited"
    BY <1>4 DEF WorkerSleep
  <2> QED
    BY <1>4, <2>1 DEF WorkerSleep
<1>5. ASSUME NEW w \in Workers, WorkerExit(w) PROVE ShutdownInv'
  <2>1. \A v \in Workers : worker'[v] = "exited" <=> worker[v] = "exited" \/ v = w
    BY <1>5 DEF WorkerExit
  <2>2. Closed /\ queue = <<>>
    BY <1>5 DEF WorkerExit
  <2> QED
    BY <1>5, <2>1, <2>2 DEF WorkerExit
<1>6. ASSUME NEW w \in Workers, GrabTask(w) PROVE ShutdownInv'
  <2>1. \A v \in Workers : worker'[v] # "exited" /\ worker[v] # "exited"
    BY <1>6 DEF GrabTask
  <2> QED
    BY <1>6, <2>1 DEF GrabTask, TakeFront
<1>7. ASSUME NEW w \in Workers, RunTask(w) PROVE ShutdownInv'
  <2>1. \A v \in Workers : worker'[v] = "exited" <=> worker[v] = "exited"
    BY <1>7 DEF RunTask
  <2>2. \A t \in Tasks : future'[t] = "broken" => future[t] = "broken"
    BY <1>7 DEF RunTask
  <2> QED
    BY <1>7, <2>1, <2>2 DEF RunTask
<1>8. CASE SpuriousWakeup
  <2>1. \A v \in Workers : worker'[v] = "exited" <=> worker[v] = "exited"
    BY <1>8 DEF SpuriousWakeup, SpuriousWake, SleepingWorkers
  <2> QED
    BY <1>8, <2>1 DEF SpuriousWakeup
<1>9. ASSUME NEW c \in Stoppers, BeginGraceful(c) PROVE ShutdownInv'
  <2>1. \A d \in Stoppers : closer'[d] = IF d = c THEN "notifyFull" ELSE "idle"
    BY <1>9 DEF BeginGraceful, MayCall
  <2>2. \A w \in Workers : worker'[w] # "exited"
    BY <1>9 DEF BeginGraceful
  <2> QED
    BY <1>9, <2>1, <2>2, OwnerAssumption DEF BeginGraceful
<1>10. ASSUME NEW c \in Stoppers, BeginImmediate(c) PROVE ShutdownInv'
  <2>1. \A d \in Stoppers : closer'[d] = IF d = c THEN "notifyFull" ELSE "idle"
    BY <1>10 DEF BeginImmediate, MayCall
  <2>2. \A w \in Workers : worker'[w] # "exited"
    BY <1>10 DEF BeginImmediate
  <2> QED
    BY <1>10, <2>1, <2>2, OwnerAssumption DEF BeginImmediate
<1>11. ASSUME NEW c \in Stoppers, AlreadyClosed(c) PROVE ShutdownInv'
  <2>1. \A d \in Stoppers : closer'[d] = IF d = c THEN "declined" ELSE closer[d]
    BY <1>11 DEF AlreadyClosed
  <2>2. c = Owner => \A w \in Workers : worker[w] = "exited"
    BY <1>11 DEF AlreadyClosed, MayCall, Quiescent
  <2>3. OneWinner'
    BY <1>11, <2>1 DEF AlreadyClosed, MayCall
  <2>4. ShutdownIsComplete'
    BY <1>11, <2>1, <2>2, OwnerAssumption DEF AlreadyClosed, MayCall
  <2> QED
    BY <1>11, <2>3, <2>4 DEF AlreadyClosed
<1>12. ASSUME NEW c \in Stoppers, NotifyAllCallers(c) PROVE ShutdownInv'
  <2>1. \A d \in Stoppers : closer'[d] = IF d = c THEN "notifyEmpty" ELSE closer[d]
    BY <1>12 DEF NotifyAllCallers
  <2> QED
    BY <1>12, <2>1, OwnerAssumption DEF NotifyAllCallers
<1>13. ASSUME NEW c \in Stoppers, NotifyAllWorkers(c) PROVE ShutdownInv'
  <2>1. \A d \in Stoppers : closer'[d] = IF d = c THEN "joining" ELSE closer[d]
    BY <1>13 DEF NotifyAllWorkers
  <2>2. \A v \in Workers : worker'[v] = "exited" <=> worker[v] = "exited"
    BY <1>13 DEF NotifyAllWorkers
  <2> QED
    BY <1>13, <2>1, <2>2, OwnerAssumption DEF NotifyAllWorkers
<1>14. ASSUME NEW c \in Stoppers, JoinWorkers(c) PROVE ShutdownInv'
  <2>1. \A d \in Stoppers : closer'[d] = IF d = c THEN "returned" ELSE closer[d]
    BY <1>14 DEF JoinWorkers
  <2> QED
    BY <1>14, <2>1, OwnerAssumption DEF JoinWorkers
<1>15. CASE DestroyPool
  <2>1. \A w \in Workers : worker[w] = "exited"
    BY <1>15 DEF DestroyPool
  <2>2. Workers # {} => queue = <<>>
    BY <2>1
  <2>3. GracefulLosesNothing'
    BY <1>15, <2>2, EmptyElements DEF DestroyPool, BreakFutures, Queued
  <2>4. \A d \in Stoppers : closer'[d] = IF d = Owner THEN "destroyed" ELSE closer[d]
    BY <1>15 DEF DestroyPool
  <2> QED
    BY <1>15, <2>1, <2>3, <2>4 DEF DestroyPool
<1>16. CASE UNCHANGED vars
  BY <1>16
<1> QED
  BY <1>1, <1>2, <1>3, <1>4, <1>5, <1>6, <1>7, <1>8, <1>9, <1>10, <1>11,
     <1>12, <1>13, <1>14, <1>15, <1>16
     DEF Next, PushTask, WorkerStep, CloserStep

LEMMA ShutdownInvariant == SafeSpec => []ShutdownInv
<1>1. Init => ShutdownInv
  BY DEF Init, ShutdownInv, NothingLeftBehind, OneWinner, ShutdownIsComplete,
         GracefulLosesNothing, Closed, Alive, Stoppers
<1> QED
  BY <1>1, ShutdownStep, TypeCorrect, PTL DEF SafeSpec

\* A graceful shutdown, or none, breaks no accepted task's promise, up to and
\* including the destruction of the pool; the only pool that does so has no
\* workers at all.
THEOREM GracefulShutdownLosesNothing == SafeSpec => []GracefulLosesNothing
BY ShutdownInvariant, PTL DEF ShutdownInv

\* The shutdown that won joins every worker before it returns, and the
\* destructor never meets a joinable thread.
THEOREM ShutdownStopsEveryWorker == SafeSpec => []ShutdownIsComplete
BY ShutdownInvariant, PTL DEF ShutdownInv

\* After the flag of an immediate shutdown is set no worker ever takes another
\* task and no caller queues one.
THEOREM ImmediateShutdownTakesNothing == SafeSpec => ImmediateTakesNothing
<1> DEFINE Quiet == isImmediateShutdown =>
      /\ queue' = <<>>
      /\ \A w \in Workers : grabbed'[w] # NoTask => grabbed'[w] = grabbed[w]
<1>1. TypeOK /\ ShutdownInv /\ [Next]_vars => [Quiet]_vars
  <2> SUFFICES ASSUME TypeOK, ShutdownInv, [Next]_vars, isImmediateShutdown,
                      vars' # vars
               PROVE  /\ queue' = <<>>
                      /\ \A w \in Workers : grabbed'[w] # NoTask => grabbed'[w] = grabbed[w]
    OBVIOUS
  <2>1. queue = <<>> /\ Closed
    BY DEF ShutdownInv, NothingLeftBehind, Closed
  <2>2. ASSUME NEW w \in Workers, RunTask(w)
        PROVE  \A v \in Workers : grabbed'[v] # NoTask => grabbed'[v] = grabbed[v]
    BY <2>2 DEF RunTask, TypeOK
  <2>3. queue' = <<>>
    BY <2>1 DEF Next, PushTask, RejectPush, BlockPush, EnqueueTask, WorkerStep,
       WorkerSleep, WorkerExit, GrabTask, RunTask, SpuriousWakeup, BeginGraceful,
       BeginImmediate, AlreadyClosed, CloserStep, NotifyAllCallers,
       NotifyAllWorkers, JoinWorkers, DestroyPool
  <2>4. grabbed' = grabbed \/ \E w \in Workers : RunTask(w)
    BY <2>1 DEF Next, PushTask, RejectPush, BlockPush, EnqueueTask, WorkerStep,
       WorkerSleep, WorkerExit, GrabTask, SpuriousWakeup, BeginGraceful,
       BeginImmediate, AlreadyClosed, CloserStep, NotifyAllCallers,
       NotifyAllWorkers, JoinWorkers, DestroyPool
  <2> QED
    BY <2>2, <2>3, <2>4
<1> QED
  BY <1>1, TypeCorrect, ShutdownInvariant, PTL DEF SafeSpec, ImmediateTakesNothing

-----------------------------------------------------------------------------
(* Backpressure *)

\* The queue length is a number, grows by one when a task is queued and
\* shrinks by one when a worker takes it.
LEMMA QueueLength ==
  ASSUME TypeOK
  PROVE  /\ Len(queue) \in Nat
         /\ queue = <<>> => Len(queue) = 0
         /\ \A t \in Tasks : EnqueueTask(t) => Len(queue') = Len(queue) + 1
         /\ \A w \in Workers : GrabTask(w) => Len(queue') = Len(queue) - 1
<1>1. Len(queue) \in Nat /\ (queue = <<>> => Len(queue) = 0)
  BY LenProperties, EmptySeq DEF TypeOK
<1>2. ASSUME NEW t \in Tasks, EnqueueTask(t) PROVE Len(queue') = Len(queue) + 1
  BY <1>2, AppendProperties DEF EnqueueTask, TypeOK
<1>3. ASSUME NEW w \in Workers, GrabTask(w) PROVE Len(queue') = Len(queue) - 1
  BY <1>3, HeadTailProperties DEF GrabTask, TakeFront, TypeOK
<1> QED
  BY <1>1, <1>2, <1>3

\* The bound of the queue holds however many callers were notified for the
\* same free place.
THEOREM QueueIsBounded == SafeSpec => []Backpressure
<1>1. Init => Backpressure
  BY EmptySeq, CapacityAssumption DEF Init, Backpressure
<1>2. TypeOK /\ Backpressure /\ [Next]_vars => Backpressure'
  <2> SUFFICES ASSUME TypeOK, Backpressure, [Next]_vars PROVE Backpressure'
    OBVIOUS
  <2>1. ASSUME NEW t \in Tasks, EnqueueTask(t) PROVE Backpressure'
    <3>1. Len(queue) < QueueCapacity
      BY <2>1, QueueLength, CapacityAssumption DEF EnqueueTask, Full
    <3> QED
      BY <2>1, <3>1, QueueLength, CapacityAssumption DEF Backpressure
  <2>2. ASSUME NEW w \in Workers, GrabTask(w) PROVE Backpressure'
    BY <2>2, QueueLength, CapacityAssumption DEF Backpressure
  <2>3. CASE queue' = <<>>
    BY <2>3, EmptySeq, CapacityAssumption DEF Backpressure
  <2>4. CASE UNCHANGED queue
    BY <2>4 DEF Backpressure
  <2>5. \/ \E t \in Tasks : EnqueueTask(t)
        \/ \E w \in Workers : GrabTask(w)
        \/ queue' = <<>>
        \/ UNCHANGED queue
    BY DEF Next, PushTask, RejectPush, BlockPush, WorkerStep, WorkerSleep,
       WorkerExit, RunTask, SpuriousWakeup, BeginGraceful, BeginImmediate,
       AlreadyClosed, CloserStep, NotifyAllCallers, NotifyAllWorkers,
       JoinWorkers, DestroyPool
  <2> QED
    BY <2>1, <2>2, <2>3, <2>4, <2>5
<1> QED
  BY <1>1, <1>2, TypeCorrect, PTL DEF SafeSpec

-----------------------------------------------------------------------------
(* No wakeup is lost *)

CallersCovered ==
  SleepingCallers # {} /\ ~Closed =>
    Len(queue) + Cardinality(NotifiedCallers) >= QueueCapacity

WorkersCovered ==
  SleepingWorkers # {} /\ ~Closed => Cardinality(ReadyWorkers) >= Len(queue)

CloserOwesCallers ==
  SleepingCallers # {} /\ Closed => \E c \in Stoppers : closer[c] = "notifyFull"

CloserOwesWorkers ==
  SleepingWorkers # {} /\ Closed =>
    \E c \in Stoppers : closer[c] \in {"notifyFull", "notifyEmpty"}

\* The groups of threads that NoLostWakeup counts are finite.
LEMMA GroupsAreFinite ==
  /\ IsFiniteSet(NotifiedCallers) /\ Cardinality(NotifiedCallers) \in Nat
  /\ IsFiniteSet(ReadyWorkers) /\ Cardinality(ReadyWorkers) \in Nat
BY FS_Subset, FS_CardinalityType, TasksAssumption, WorkersAssumption
   DEF NotifiedCallers, ReadyWorkers

\* Counting the callers owed a place: a place freed by a worker comes with a
\* notification, and a notified caller that goes back to sleep found the
\* queue full.
LEMMA CallersCoveredStep ==
  TypeOK /\ OneWinner /\ CallersCovered /\ [Next]_vars => CallersCovered'
<1> SUFFICES ASSUME TypeOK, OneWinner, CallersCovered, [Next]_vars,
                    (SleepingCallers # {} /\ ~Closed)'
             PROVE  Len(queue') + Cardinality(NotifiedCallers') >= QueueCapacity
  BY DEF CallersCovered
<1> USE DEF TypeOK, CallersCovered, Closed
<1>0. /\ Len(queue) \in Nat /\ QueueCapacity \in Nat
      /\ Cardinality(NotifiedCallers) \in Nat
      /\ IsFiniteSet(NotifiedCallers)
  BY QueueLength, CapacityAssumption, GroupsAreFinite
<1>a. ASSUME UNCHANGED <<queue, caller>>, ~Closed
      PROVE Len(queue') + Cardinality(NotifiedCallers') >= QueueCapacity
  BY <1>a DEF SleepingCallers, NotifiedCallers
<1>1. ASSUME NEW t \in Tasks, BlockPush(t)
      PROVE  Len(queue') + Cardinality(NotifiedCallers') >= QueueCapacity
  <2>1. Len(queue') >= QueueCapacity
    BY <1>1 DEF BlockPush, Full
  <2>2. Cardinality(NotifiedCallers') \in Nat
    BY FS_Subset, FS_CardinalityType, TasksAssumption DEF NotifiedCallers
  <2>3. Len(queue') \in Nat
    BY <1>0, <1>1 DEF BlockPush
  <2> QED
    BY <1>0, <2>1, <2>2, <2>3
<1>2. ASSUME NEW t \in Tasks, EnqueueTask(t)
      PROVE  Len(queue') + Cardinality(NotifiedCallers') >= QueueCapacity
  <2>1. SleepingCallers' = SleepingCallers /\ NotifiedCallers' = NotifiedCallers \ {t}
    BY <1>2 DEF EnqueueTask, InPush, SleepingCallers, NotifiedCallers
  <2>2. Cardinality(NotifiedCallers \ {t}) =
          IF t \in NotifiedCallers THEN Cardinality(NotifiedCallers) - 1
                                   ELSE Cardinality(NotifiedCallers)
    BY <1>0, FS_RemoveElement
  <2>3. Cardinality(NotifiedCallers') \in {Cardinality(NotifiedCallers) - 1,
                                           Cardinality(NotifiedCallers)}
    BY <2>1, <2>2
  <2>4. Len(queue') = Len(queue) + 1
    BY <1>2, QueueLength
  <2> QED
    BY <1>0, <1>2, <2>1, <2>3, <2>4 DEF EnqueueTask
<1>3. ASSUME NEW w \in Workers, GrabTask(w)
      PROVE  Len(queue') + Cardinality(NotifiedCallers') >= QueueCapacity
  <2>1. PICK t \in SleepingCallers : caller' = [caller EXCEPT ![t] = "notified"]
    BY <1>3 DEF GrabTask, NotifyOneCaller, SleepingCallers
  <2>2. NotifiedCallers' = NotifiedCallers \cup {t} /\ t \notin NotifiedCallers
    BY <2>1 DEF NotifiedCallers, SleepingCallers
  <2>3. Cardinality(NotifiedCallers') = Cardinality(NotifiedCallers) + 1
    BY <1>0, <2>2, FS_AddElement
  <2>4. Len(queue') = Len(queue) - 1
    BY <1>3, QueueLength
  <2>5. ~Closed
    BY <1>3 DEF GrabTask
  <2> QED
    BY <1>0, <2>1, <2>3, <2>4, <2>5
<1>4. CASE SpuriousWakeup
  <2>1. NotifiedCallers \subseteq NotifiedCallers'
    BY <1>4 DEF SpuriousWakeup, SpuriousWake, NotifiedCallers, SleepingCallers
  <2>2. IsFiniteSet(NotifiedCallers')
    BY FS_Subset, TasksAssumption DEF NotifiedCallers
  <2>3. /\ Cardinality(NotifiedCallers) <= Cardinality(NotifiedCallers')
        /\ Cardinality(NotifiedCallers') \in Nat
    BY <2>1, <2>2, FS_Subset, FS_CardinalityType
  <2>4. SleepingCallers # {} /\ ~Closed /\ queue' = queue
    BY <1>4 DEF SpuriousWakeup, SpuriousWake, SleepingCallers
  <2> QED
    BY <1>0, <2>3, <2>4
<1>5. \/ \E t \in Tasks : BlockPush(t) \/ EnqueueTask(t)
      \/ \E w \in Workers : GrabTask(w)
      \/ SpuriousWakeup
      \/ UNCHANGED <<queue, caller>> /\ ~Closed
      \/ \E c \in Stoppers : NotifyAllCallers(c)
  BY DEF Next, PushTask, RejectPush, WorkerStep, WorkerSleep, WorkerExit,
     RunTask, BeginGraceful, BeginImmediate, AlreadyClosed, CloserStep,
     NotifyAllWorkers, JoinWorkers, DestroyPool, OneWinner, Stoppers
<1>6. ASSUME NEW c \in Stoppers, NotifyAllCallers(c) PROVE FALSE
  BY <1>6 DEF NotifyAllCallers, SleepingCallers
<1> QED
  BY <1>a, <1>1, <1>2, <1>3, <1>4, <1>5, <1>6

\* Counting the workers owed a task: every push wakes a sleeper if there is
\* one, and a worker goes to sleep only when it saw the queue empty.
LEMMA WorkersCoveredStep ==
  TypeOK /\ OneWinner /\ WorkersCovered /\ [Next]_vars => WorkersCovered'
<1> SUFFICES ASSUME TypeOK, OneWinner, WorkersCovered, [Next]_vars,
                    (SleepingWorkers # {} /\ ~Closed)'
             PROVE  Cardinality(ReadyWorkers') >= Len(queue')
  BY DEF WorkersCovered
<1> USE DEF TypeOK, WorkersCovered, Closed
<1>0. /\ Len(queue) \in Nat /\ (queue = <<>> => Len(queue) = 0)
      /\ Cardinality(ReadyWorkers) \in Nat
      /\ IsFiniteSet(ReadyWorkers)
  BY QueueLength, GroupsAreFinite
<1>1. IsFiniteSet(ReadyWorkers') /\ Cardinality(ReadyWorkers') \in Nat
  BY FS_Subset, FS_CardinalityType, WorkersAssumption DEF ReadyWorkers
<1>2. ASSUME NEW t \in Tasks, EnqueueTask(t)
      PROVE  Cardinality(ReadyWorkers') >= Len(queue')
  <2>1. PICK w \in SleepingWorkers : worker' = [worker EXCEPT ![w] = "ready"]
    BY <1>2 DEF EnqueueTask, NotifyOneWorker, SleepingWorkers
  <2>2. ReadyWorkers' = ReadyWorkers \cup {w} /\ w \notin ReadyWorkers
    BY <2>1 DEF ReadyWorkers, SleepingWorkers
  <2>3. Cardinality(ReadyWorkers') = Cardinality(ReadyWorkers) + 1
    BY <1>0, <2>2, FS_AddElement
  <2>4. Len(queue') = Len(queue) + 1 /\ ~Closed
    BY <1>2, QueueLength DEF EnqueueTask
  <2> QED
    BY <1>0, <2>1, <2>3, <2>4
<1>3. ASSUME NEW w \in Workers, WorkerSleep(w)
      PROVE  Cardinality(ReadyWorkers') >= Len(queue')
  BY <1>0, <1>1, <1>3 DEF WorkerSleep
<1>4. ASSUME NEW w \in Workers, GrabTask(w)
      PROVE  Cardinality(ReadyWorkers') >= Len(queue')
  <2>1. /\ ReadyWorkers' = ReadyWorkers \ {w} /\ w \in ReadyWorkers
        /\ SleepingWorkers' = SleepingWorkers
        /\ ~Closed
    BY <1>4 DEF GrabTask, ReadyWorkers, SleepingWorkers
  <2>2. Cardinality(ReadyWorkers') = Cardinality(ReadyWorkers) - 1
    BY <1>0, <2>1, FS_RemoveElement
  <2>3. Len(queue') = Len(queue) - 1
    BY <1>4, QueueLength
  <2> QED
    BY <1>0, <2>1, <2>2, <2>3
<1>5. ASSUME ReadyWorkers \subseteq ReadyWorkers', UNCHANGED queue,
             SleepingWorkers # {}, ~Closed
      PROVE  Cardinality(ReadyWorkers') >= Len(queue')
  <2>1. Cardinality(ReadyWorkers) <= Cardinality(ReadyWorkers')
    BY <1>1, <1>5, FS_Subset
  <2> QED
    BY <1>0, <1>1, <1>5, <2>1
<1>6. ASSUME NEW w \in Workers, RunTask(w)
      PROVE  /\ ReadyWorkers \subseteq ReadyWorkers' /\ UNCHANGED queue
             /\ SleepingWorkers # {} /\ ~Closed
  BY <1>6 DEF RunTask, ReadyWorkers, SleepingWorkers
<1>7. CASE SpuriousWakeup
  <2>1. /\ ReadyWorkers \subseteq ReadyWorkers' /\ UNCHANGED queue
        /\ SleepingWorkers # {} /\ ~Closed
    BY <1>7 DEF SpuriousWakeup, SpuriousWake, ReadyWorkers, SleepingWorkers
  <2> QED
    BY <1>5, <2>1
<1>8. CASE UNCHANGED <<queue, worker>> /\ ~Closed
  BY <1>8 DEF ReadyWorkers, SleepingWorkers
<1>9. ASSUME NEW c \in Stoppers, NotifyAllWorkers(c) PROVE FALSE
  BY <1>9 DEF NotifyAllWorkers, SleepingWorkers
<1>10. \/ \E t \in Tasks : EnqueueTask(t)
       \/ \E w \in Workers : WorkerSleep(w) \/ GrabTask(w) \/ RunTask(w)
       \/ SpuriousWakeup
       \/ UNCHANGED <<queue, worker>> /\ ~Closed
       \/ \E c \in Stoppers : NotifyAllWorkers(c)
  BY DEF Next, PushTask, RejectPush, BlockPush, WorkerStep, WorkerExit,
     BeginGraceful, BeginImmediate, AlreadyClosed, CloserStep,
     NotifyAllCallers, JoinWorkers, DestroyPool, OneWinner, Stoppers
<1> QED
  BY <1>2, <1>3, <1>4, <1>5, <1>6, <1>7, <1>8, <1>9, <1>10

\* A thread that was asleep when the pool closed is woken by the winner: the
\* winner still has that notify_all ahead of it.
LEMMA CloserOwesStep ==
  TypeOK /\ OneWinner /\ CloserOwesCallers /\ CloserOwesWorkers /\ [Next]_vars
    => CloserOwesCallers' /\ CloserOwesWorkers'
<1> SUFFICES ASSUME TypeOK, OneWinner, CloserOwesCallers, CloserOwesWorkers,
                    [Next]_vars
             PROVE  CloserOwesCallers' /\ CloserOwesWorkers'
  OBVIOUS
<1> USE DEF TypeOK, OneWinner, CloserOwesCallers, CloserOwesWorkers, Closed
<1>1. ASSUME SleepingCallers' \subseteq SleepingCallers,
             SleepingWorkers' \subseteq SleepingWorkers,
             UNCHANGED <<isGracefulShutdown, isImmediateShutdown, closer>>
      PROVE  CloserOwesCallers' /\ CloserOwesWorkers'
  BY <1>1
<1>2. ASSUME ~Closed, UNCHANGED <<isGracefulShutdown, isImmediateShutdown>>
      PROVE  CloserOwesCallers' /\ CloserOwesWorkers'
  BY <1>2
<1>3. ASSUME NEW t \in Tasks, RejectPush(t)
      PROVE  CloserOwesCallers' /\ CloserOwesWorkers'
  <2>1. SleepingCallers' \subseteq SleepingCallers /\ SleepingWorkers' = SleepingWorkers
    BY <1>3 DEF RejectPush, SleepingCallers, SleepingWorkers
  <2> QED
    BY <1>1, <1>3, <2>1 DEF RejectPush
<1>4. ASSUME NEW t \in Tasks, BlockPush(t) \/ EnqueueTask(t)
      PROVE  CloserOwesCallers' /\ CloserOwesWorkers'
  BY <1>2, <1>4 DEF BlockPush, EnqueueTask
<1>5. ASSUME NEW w \in Workers, WorkerStep(w)
      PROVE  CloserOwesCallers' /\ CloserOwesWorkers'
  <2>1. CASE WorkerSleep(w)
    BY <1>2, <2>1 DEF WorkerSleep
  <2>2. CASE WorkerExit(w)
    <3>1. SleepingCallers' = SleepingCallers /\ SleepingWorkers' \subseteq SleepingWorkers
      BY <2>2 DEF WorkerExit, SleepingCallers, SleepingWorkers
    <3> QED
      BY <1>1, <2>2, <3>1 DEF WorkerExit
  <2>3. CASE GrabTask(w)
    <3>1. SleepingCallers' \subseteq SleepingCallers /\ SleepingWorkers' \subseteq SleepingWorkers
      BY <2>3 DEF GrabTask, NotifyOneCaller, SleepingCallers, SleepingWorkers
    <3> QED
      BY <1>1, <2>3, <3>1 DEF GrabTask
  <2>4. CASE RunTask(w)
    <3>1. SleepingCallers' = SleepingCallers /\ SleepingWorkers' \subseteq SleepingWorkers
      BY <2>4 DEF RunTask, SleepingCallers, SleepingWorkers
    <3> QED
      BY <1>1, <2>4, <3>1 DEF RunTask
  <2> QED
    BY <1>5, <2>1, <2>2, <2>3, <2>4 DEF WorkerStep
<1>6. CASE SpuriousWakeup
  <2>1. SleepingCallers' \subseteq SleepingCallers /\ SleepingWorkers' \subseteq SleepingWorkers
    BY <1>6 DEF SpuriousWakeup, SpuriousWake, SleepingCallers, SleepingWorkers
  <2> QED
    BY <1>1, <1>6, <2>1 DEF SpuriousWakeup
<1>7. ASSUME NEW c \in Stoppers, BeginGraceful(c) \/ BeginImmediate(c)
      PROVE  CloserOwesCallers' /\ CloserOwesWorkers'
  <2>1. closer'[c] = "notifyFull"
    BY <1>7 DEF BeginGraceful, BeginImmediate
  <2> QED
    BY <2>1
<1>8. ASSUME NEW c \in Stoppers, AlreadyClosed(c)
      PROVE  CloserOwesCallers' /\ CloserOwesWorkers'
  <2>1. /\ SleepingCallers' = SleepingCallers /\ SleepingWorkers' = SleepingWorkers
        /\ \A d \in Stoppers : closer[d] # "idle" => closer'[d] = closer[d]
    BY <1>8 DEF AlreadyClosed, MayCall, SleepingCallers, SleepingWorkers
  <2> QED
    BY <1>8, <2>1 DEF AlreadyClosed
<1>9. ASSUME NEW c \in Stoppers, NotifyAllCallers(c)
      PROVE  CloserOwesCallers' /\ CloserOwesWorkers'
  <2>1. SleepingCallers' = {}
    BY <1>9 DEF NotifyAllCallers, SleepingCallers
  <2>2. closer'[c] = "notifyEmpty"
    BY <1>9 DEF NotifyAllCallers
  <2> QED
    BY <2>1, <2>2
<1>10. ASSUME NEW c \in Stoppers, NotifyAllWorkers(c)
       PROVE  CloserOwesCallers' /\ CloserOwesWorkers'
  <2>1. SleepingWorkers' = {} /\ SleepingCallers' = SleepingCallers
    BY <1>10 DEF NotifyAllWorkers, SleepingWorkers, SleepingCallers
  <2>2. \A d \in Stoppers : closer[d] = "notifyFull" => closer'[d] = "notifyFull"
    BY <1>10 DEF NotifyAllWorkers
  <2> QED
    BY <1>10, <2>1, <2>2 DEF NotifyAllWorkers
<1>11. ASSUME NEW c \in Stoppers, JoinWorkers(c) \/ (c = Owner /\ DestroyPool)
       PROVE  CloserOwesCallers' /\ CloserOwesWorkers'
  <2>1. /\ SleepingCallers' = SleepingCallers /\ SleepingWorkers' = SleepingWorkers
        /\ \A d \in Stoppers : closer[d] \in {"notifyFull", "notifyEmpty"}
                                 => closer'[d] = closer[d]
    BY <1>11 DEF JoinWorkers, DestroyPool, SleepingCallers, SleepingWorkers
  <2> QED
    BY <1>11, <2>1 DEF JoinWorkers, DestroyPool
<1>12. CASE UNCHANGED vars
  BY <1>1, <1>12 DEF SleepingCallers, SleepingWorkers
<1> QED
  BY <1>3, <1>4, <1>5, <1>6, <1>7, <1>8, <1>9, <1>10, <1>11, <1>12
     DEF Next, PushTask, CloserStep, Stoppers

\* The two-column scenario of the source cannot happen: no thread sleeps on a
\* condition variable whose wakeup it has missed.
THEOREM NoWakeupIsLost == SafeSpec => []NoLostWakeup
<1>1. Init => CallersCovered /\ WorkersCovered /\ CloserOwesCallers /\ CloserOwesWorkers
  BY DEF Init, CallersCovered, WorkersCovered, CloserOwesCallers,
         CloserOwesWorkers, SleepingCallers, SleepingWorkers
<1>2. CallersCovered /\ WorkersCovered /\ CloserOwesCallers /\ CloserOwesWorkers
        => NoLostWakeup
  BY DEF CallersCovered, WorkersCovered, CloserOwesCallers, CloserOwesWorkers,
         NoLostWakeup
<1>3. ShutdownInv => OneWinner
  BY DEF ShutdownInv
<1> QED
  BY <1>1, <1>2, <1>3, CallersCoveredStep, WorkersCoveredStep, CloserOwesStep,
     TypeCorrect, ShutdownInvariant, PTL DEF SafeSpec

\* All the invariants at once.
THEOREM SafetyInvariant == SafeSpec => []SafetyInv
<1>1. TypeOK /\ Conserved /\ Backpressure /\ ShutdownInv /\ NoLostWakeup => SafetyInv
  BY DEF SafetyInv, Conserved, ShutdownInv
<1> QED
  BY <1>1, ConservedInvariant, TypeCorrect, QueueIsBounded, ShutdownInvariant, NoWakeupIsLost, PTL

-----------------------------------------------------------------------------
(* Refinement *)

\* A step that leaves the queue, the flags and every task's phase alone is
\* invisible to the callers.
LEMMA InvisibleStep ==
  ASSUME UNCHANGED <<queue, isGracefulShutdown, isImmediateShutdown>>,
         \A t \in Tasks : Phase(t)' = Phase(t)
  PROVE  UNCHANGED Abstract!vars
BY DEF Abstract!vars, PoolMode

\* Every step of the threads is a step of the abstract pool or invisible to
\* its callers.
LEMMA RefinementStep ==
  ASSUME Workers # {}, TypeOK, Conserved, ShutdownInv, [Next]_vars
  PROVE  [Abstract!Next]_(Abstract!vars)
<1> USE DEF TypeOK
<1>0. \A t \in Tasks : /\ future[t] = "pending" <=> Held(t) \/ Queued(t)
                       /\ ~(Held(t) /\ Queued(t))
                       /\ caller[t] = "accepted" <=> future[t] # "none"
  BY DEF Conserved, TaskConservation, ThreadsAgree
<1>1. ASSUME NEW t \in Tasks, RejectPush(t) PROVE Abstract!Refuse(t)
  <2>1. Phase(t) = "new" /\ Phase(t)' = "refused"
    BY <1>0, <1>1 DEF RejectPush, InPush, Phase
  <2>2. \A u \in Tasks : u # t => Phase(u)' = Phase(u)
    BY <1>1 DEF RejectPush, Phase, Held
  <2>3. PoolMode # "open" /\ PoolMode' = PoolMode /\ queue' = queue
    BY <1>1 DEF RejectPush, Closed, PoolMode
  <2> QED
    BY <2>1, <2>2, <2>3 DEF Abstract!Refuse
<1>2. ASSUME NEW t \in Tasks, BlockPush(t) PROVE UNCHANGED Abstract!vars
  <2>1. \A u \in Tasks : Phase(u)' = Phase(u)
    BY <1>0, <1>2 DEF BlockPush, InPush, Phase, Held
  <2> QED
    BY <1>2, <2>1, InvisibleStep DEF BlockPush
<1>3. ASSUME NEW t \in Tasks, EnqueueTask(t) PROVE Abstract!Accept(t)
  <2>1. future[t] = "none" /\ ~Held(t) /\ ~Queued(t)
    BY <1>0, <1>3 DEF EnqueueTask, InPush
  <2>2. Phase(t) = "new" /\ Phase(t)' = "queued"
    BY <1>3, <2>1 DEF EnqueueTask, InPush, Phase, Held
  <2>3. \A u \in Tasks : u # t => Phase(u)' = Phase(u)
    BY <1>3 DEF EnqueueTask, Phase, Held
  <2>4. PoolMode = "open" /\ PoolMode' = PoolMode
    BY <1>3 DEF EnqueueTask, Closed, PoolMode
  <2>5. Len(queue) < QueueCapacity /\ queue' = Append(queue, t)
    BY <1>3, QueueLength, CapacityAssumption DEF EnqueueTask, Full
  <2> QED
    BY <2>2, <2>3, <2>4, <2>5 DEF Abstract!Accept
<1>4. ASSUME NEW w \in Workers, WorkerSleep(w) \/ WorkerExit(w)
      PROVE  UNCHANGED Abstract!vars
  BY <1>4, InvisibleStep DEF WorkerSleep, WorkerExit, Phase, Held
<1>5. ASSUME NEW w \in Workers, GrabTask(w) PROVE Abstract!Start
  <2>0. Head(queue) \in Tasks /\ Head(queue) \in Range(queue) /\ grabbed[w] = NoTask
    BY <1>5, HeadTailProperties, TailElements
       DEF GrabTask, Conserved, TaskConservation, ThreadsAgree
  <2>1. PICK h \in Tasks : h = Head(queue) /\ h \in Range(queue) /\ grabbed[w] = NoTask
    BY <2>0
  <2>2. future[h] = "pending" /\ caller[h] = "accepted"
    BY <1>0, <2>1 DEF Queued
  <2>3. \A t \in Tasks : \/ caller'[t] = caller[t]
                         \/ caller[t] = "asleep" /\ caller'[t] = "notified"
    BY <1>5 DEF GrabTask, NotifyOneCaller, SleepingCallers
  <2>4. Phase(h)' = "running"
    BY <1>5, <2>1, <2>2, <2>3 DEF GrabTask, TakeFront, Phase, Held
  <2>5. ASSUME NEW t \in Tasks, t # h PROVE Phase(t)' = Phase(t)
    <3>1. Held(t)' <=> Held(t)
      BY <1>5, <2>1, <2>5, TasksAssumption DEF GrabTask, TakeFront, Held
    <3> QED
      BY <1>5, <2>3, <3>1 DEF GrabTask, Phase
  <2>6. PoolMode # "immediate" /\ PoolMode' = PoolMode
    BY <1>5 DEF GrabTask, PoolMode
  <2>7. queue # <<>> /\ queue' = Tail(queue)
    BY <1>5 DEF GrabTask, TakeFront
  <2> QED
    BY <2>1, <2>4, <2>5, <2>6, <2>7 DEF Abstract!Start
<1>6. ASSUME NEW w \in Workers, RunTask(w) PROVE Abstract!Settle(grabbed[w])
  <2>1. PICK g \in Tasks : g = grabbed[w] /\ Held(g)
    BY <1>6 DEF RunTask, Conserved, ThreadsAgree, Held
  <2>2. future[g] = "pending" /\ caller[g] = "accepted"
    BY <1>0, <2>1
  <2>3. Phase(g) = "running"
    BY <2>1, <2>2 DEF Phase
  <2>4. \A t \in Tasks : t # g => Phase(t)' = Phase(t)
    <3>1. \A t \in Tasks : t # g => (Held(t)' <=> Held(t))
      BY <1>6, <2>1, TasksAssumption DEF RunTask, Held
    <3>2. \A t \in Tasks : t # g => future'[t] = future[t] /\ caller' = caller
      BY <1>6, <2>1 DEF RunTask
    <3> QED
      BY <3>1, <3>2 DEF Phase
  <2>5. future'[g] \in {"value", "error"} /\ caller' = caller
    BY <1>6, <2>1 DEF RunTask
  <2>6. Phase(g)' = "settled"
    BY <2>1, <2>2, <2>5 DEF Phase
  <2>7. PoolMode' = PoolMode /\ queue' = queue
    BY <1>6 DEF RunTask, PoolMode
  <2> QED
    BY <2>1, <2>3, <2>4, <2>6, <2>7 DEF Abstract!Settle
<1>7. CASE SpuriousWakeup
  <2>1. \A t \in Tasks : Phase(t)' = Phase(t)
    BY <1>0, <1>7 DEF SpuriousWakeup, SpuriousWake, SleepingCallers, Phase, Held
  <2> QED
    BY <1>7, <2>1, InvisibleStep DEF SpuriousWakeup
<1>8. ASSUME NEW c \in Stoppers, BeginGraceful(c) PROVE Abstract!CloseGracefully
  <2>1. \A t \in Tasks : Phase(t)' = Phase(t)
    BY <1>8 DEF BeginGraceful, Phase, Held
  <2>2. PoolMode = "open" /\ PoolMode' = "graceful" /\ queue' = queue
    BY <1>8 DEF BeginGraceful, Closed, PoolMode
  <2> QED
    BY <2>1, <2>2 DEF Abstract!CloseGracefully
<1>9. ASSUME NEW c \in Stoppers, BeginImmediate(c) PROVE Abstract!CloseImmediately
  <2>1. \A t \in Tasks : Phase(t) = "queued" <=> Queued(t)
    BY <1>0 DEF Phase, Conserved, ShutdownInv
  <2>2. ASSUME NEW t \in Tasks
        PROVE  Phase(t)' = IF Phase(t) = "queued" THEN "dropped" ELSE Phase(t)
    <3>1. CASE Queued(t)
      BY <1>0, <1>9, <2>1, <3>1 DEF BeginImmediate, BreakFutures, Phase
    <3>2. CASE ~Queued(t)
      BY <1>9, <2>1, <3>2 DEF BeginImmediate, BreakFutures, Phase, Held
    <3> QED
      BY <3>1, <3>2
  <2>3. PoolMode = "open" /\ PoolMode' = "immediate" /\ queue' = <<>>
    BY <1>9 DEF BeginImmediate, Closed, PoolMode
  <2> QED
    BY <2>2, <2>3 DEF Abstract!CloseImmediately
<1>10. ASSUME NEW c \in Stoppers, AlreadyClosed(c) \/ NotifyAllWorkers(c) \/ JoinWorkers(c)
       PROVE  UNCHANGED Abstract!vars
  BY <1>10, InvisibleStep DEF AlreadyClosed, NotifyAllWorkers, JoinWorkers, Phase, Held
<1>11. ASSUME NEW c \in Stoppers, NotifyAllCallers(c) PROVE UNCHANGED Abstract!vars
  BY <1>11, InvisibleStep DEF NotifyAllCallers, Phase, Held
<1>12. CASE DestroyPool
  <2>1. queue = <<>>
    BY <1>12 DEF DestroyPool, ShutdownInv, ShutdownIsComplete, NothingLeftBehind, Stoppers
  <2>2. \A t \in Tasks : future'[t] = future[t]
    BY <1>12, <2>1, EmptyElements DEF DestroyPool, BreakFutures, Queued
  <2>3. \A t \in Tasks : Phase(t)' = Phase(t)
    BY <1>12, <2>2 DEF DestroyPool, Phase, Held
  <2> QED
    BY <1>12, <2>1, <2>3, InvisibleStep DEF DestroyPool
<1>13. CASE UNCHANGED vars
  BY <1>13, InvisibleStep DEF Phase, Held
<1>14. ASSUME NEW w \in Workers, RunTask(w) PROVE grabbed[w] \in Tasks
  BY <1>14 DEF RunTask, Conserved, ThreadsAgree
<1> QED
  BY <1>1, <1>2, <1>3, <1>4, <1>5, <1>6, <1>7, <1>8, <1>9, <1>10, <1>11, <1>12,
     <1>13, <1>14
     DEF Next, PushTask, WorkerStep, CloserStep, Abstract!Next

\* A pool with at least one worker behaves as the bounded FIFO pool of module
\* TaskPool: tasks start in submission order, each accepted task is settled or
\* dropped, and only by an immediate shutdown.  (What TaskPool promises to
\* happen eventually is left to the model checker.)
THEOREM PoolImplementsTaskPool ==
  ASSUME Workers # {}
  PROVE  SafeSpec => Abstract!SafeSpec
<1>1. Init => Abstract!Init
  BY DEF Init, Abstract!Init, PoolMode, Phase
<1>2. TypeOK /\ Conserved /\ ShutdownInv /\ [Next]_vars
        => [Abstract!Next]_(Abstract!vars)
  BY RefinementStep
<1> QED
  BY <1>1, <1>2, TypeCorrect, ConservedInvariant, ShutdownInvariant, PTL
     DEF SafeSpec, Abstract!SafeSpec
=============================================================================
