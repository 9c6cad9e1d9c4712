---------------------------- MODULE BoundedQueue ----------------------------
(***************************************************************************)
(* src/go-concurrency-practice/fixed-size-bounded-blocking-queue/main.go:  *)
(* a ring buffer of fixed size under one mutex, with one condition         *)
(* variable that enqueuers and dequeuers share and that every operation    *)
(* broadcasts.                                                             *)
(*                                                                         *)
(* A call acquires q.mu, and then either waits (sync.Cond adds it to the   *)
(* wait list and releases the mutex in one step) or completes and          *)
(* broadcasts before the deferred Unlock.  A goroutine that was woken      *)
(* competes for q.mu again and re-evaluates the condition of its loop.     *)
(* sync.Cond.Wait returns only when woken.                                 *)
(***************************************************************************)
EXTENDS Integers, Sequences

CONSTANTS
  Enqueuers,   \* the goroutines that call Enqueue
  Dequeuers,   \* the goroutines that call Dequeue; a goroutine may do both
  Values,      \* the elements they enqueue
  Capacity,    \* max_capacity
  NoValue      \* the content of a slot never written, and no argument

\* newBoundedQueue accepts any capacity that make() accepts; with 0 every
\* Enqueue and Dequeue waits for ever and no slot is ever addressed.
ASSUME CapacityAssumption == Capacity \in Nat \ {0}
ASSUME NoValueAssumption == NoValue \notin Values

Goroutines == Enqueuers \cup Dequeuers

VARIABLES
  data,    \* the slots
  head,    \* the slot read next
  tail,    \* the slot written next
  count,   \* how many elements are in the queue
  pc,      \* where each goroutine is
  arg,     \* the element its Enqueue is to add
  result   \* what its last Dequeue returned

queueVars == <<data, head, tail, count, pc, arg, result>>

Slots == 0 .. Capacity - 1

QueueTypeOK ==
  /\ data \in [Slots -> Values \cup {NoValue}]
  /\ head \in Slots
  /\ tail \in Slots
  /\ count \in Nat
  /\ pc \in [Goroutines -> {"idle", "enqueue", "enqueueWait", "dequeue", "dequeueWait"}]
  /\ arg \in [Goroutines -> Values \cup {NoValue}]
  /\ result \in [Goroutines -> Values \cup {NoValue}]

QueueInit ==
  /\ data = [i \in Slots |-> NoValue]
  /\ head = 0
  /\ tail = 0
  /\ count = 0
  /\ pc = [g \in Goroutines |-> "idle"]
  /\ arg = [g \in Goroutines |-> NoValue]
  /\ result = [g \in Goroutines |-> NoValue]

-----------------------------------------------------------------------------
Advance(i) == (i + 1) % Capacity

\* Definitions named Faulty... are never part of the specification: each is a
\* plausible mistake in the definition that follows it, kept to show that the
\* properties notice it.
FaultyFull == count > Capacity
Full == count >= Capacity

Sleeping(g) == pc[g] \in {"enqueueWait", "dequeueWait"}

WakeUp(state) ==
  IF state = "enqueueWait" THEN "enqueue"
  ELSE IF state = "dequeueWait" THEN "dequeue" ELSE state

\* waiting.Signal() in place of Broadcast(): some waiter, of either kind.
FaultyBroadcast(g) ==
  \/ /\ \A h \in Goroutines : ~Sleeping(h)
     /\ pc' = [pc EXCEPT ![g] = "idle"]
  \/ \E h \in Goroutines :
       Sleeping(h) /\ pc' = [pc EXCEPT ![g] = "idle", ![h] = WakeUp(pc[h])]

\* g's operation is done: waiting.Broadcast(), Unlock, return.
Broadcast(g) ==
  pc' = [h \in Goroutines |-> IF h = g THEN "idle" ELSE WakeUp(pc[h])]

CallEnqueue(g, el) ==
  /\ pc[g] = "idle"
  /\ pc' = [pc EXCEPT ![g] = "enqueue"]
  /\ arg' = [arg EXCEPT ![g] = el]
  /\ UNCHANGED <<data, head, tail, count, result>>

EnqueueWaits(g) ==
  /\ pc[g] = "enqueue"
  /\ Full
  /\ pc' = [pc EXCEPT ![g] = "enqueueWait"]
  /\ UNCHANGED <<data, head, tail, count, arg, result>>

Enqueue(g) ==
  /\ pc[g] = "enqueue"
  /\ ~Full
  /\ data' = [data EXCEPT ![tail] = arg[g]]
  /\ tail' = Advance(tail)
  /\ count' = count + 1
  /\ arg' = [arg EXCEPT ![g] = NoValue]
  /\ Broadcast(g)
  /\ UNCHANGED <<head, result>>

CallDequeue(g) ==
  /\ pc[g] = "idle"
  /\ pc' = [pc EXCEPT ![g] = "dequeue"]
  /\ UNCHANGED <<data, head, tail, count, arg, result>>

DequeueWaits(g) ==
  /\ pc[g] = "dequeue"
  /\ count = 0
  /\ pc' = [pc EXCEPT ![g] = "dequeueWait"]
  /\ UNCHANGED <<data, head, tail, count, arg, result>>

FaultyElementRead == data[(tail + Capacity - 1) % Capacity]
ElementRead == data[head]

\* The slot read is not cleared: it keeps its element until it is rewritten.
Dequeue(g) ==
  /\ pc[g] = "dequeue"
  /\ count # 0
  /\ result' = [result EXCEPT ![g] = ElementRead]
  /\ head' = Advance(head)
  /\ count' = count - 1
  /\ Broadcast(g)
  /\ UNCHANGED <<data, tail, arg>>

Step(g) == EnqueueWaits(g) \/ Enqueue(g) \/ DequeueWaits(g) \/ Dequeue(g)

QueueNext ==
  \/ \E g \in Enqueuers, el \in Values : CallEnqueue(g, el)
  \/ \E g \in Dequeuers : CallDequeue(g)
  \/ \E g \in Goroutines : Step(g)

QueueSafeSpec == QueueInit /\ [][QueueNext]_queueVars

\* A goroutine inside a call that is not asleep eventually gets the mutex
\* (sync.Mutex hands over to a starving waiter).  Nobody has to make a call.
QueueSpec == QueueSafeSpec /\ \A g \in Goroutines : WF_queueVars(Step(g))

-----------------------------------------------------------------------------
\* The two indices and the count describe the same part of the ring, also
\* after either index has wrapped round, and the occupied slots were written.
RingConsistent ==
  /\ count <= Capacity
  /\ tail = (head + count) % Capacity
  /\ \A i \in 0 .. count - 1 : data[(head + i) % Capacity] # NoValue

\* With one condition variable for both kinds of waiters, nobody sleeps
\* through a change that concerns it: whoever waits for room faces a full
\* queue and whoever waits for an element faces an empty one.
NoMissedBroadcast ==
  \A g \in Goroutines :
    /\ pc[g] = "enqueueWait" => count = Capacity
    /\ pc[g] = "dequeueWait" => count = 0

\* What the properties above rest on: the element of a call in progress is
\* known until it is in its slot.
ElementKept ==
  \A g \in Goroutines : pc[g] \in {"enqueue", "enqueueWait"} => arg[g] # NoValue

RingInv == QueueTypeOK /\ ElementKept /\ RingConsistent /\ NoMissedBroadcast

-----------------------------------------------------------------------------
(* Refinement *)

\* The elements from head on, oldest first.
Contents == [i \in 1 .. count |-> data[(head + i - 1) % Capacity]]

CallOf(state) ==
  IF state \in {"enqueue", "enqueueWait"} THEN "put"
  ELSE IF state \in {"dequeue", "dequeueWait"} THEN "take" ELSE "none"

Fifo == INSTANCE FifoQueue WITH
  Putters <- Enqueuers,
  Takers <- Dequeuers,
  buffer <- Contents,
  call <- [g \in Goroutines |-> CallOf(pc[g])]

\* The ring, the mutex and the condition variable together behave as the
\* bounded FIFO queue of module FifoQueue, its liveness included: a call that
\* could go ahead from some time on does.
ImplementsFifoQueue == Fifo!Spec
=============================================================================
