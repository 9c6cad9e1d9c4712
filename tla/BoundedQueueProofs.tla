------------------------- MODULE BoundedQueueProofs -------------------------
(***************************************************************************)
(* Theorems about BoundedQueue for every set of goroutines and elements    *)
(* and every capacity of at least one.                                     *)
(***************************************************************************)
EXTENDS BoundedQueue, SequenceTheorems, TLAPS

USE DEF queueVars

\* Adding two positions of the ring wraps round at most once.
LEMMA WrapAround ==
  ASSUME NEW i \in Slots, NEW j \in 0 .. Capacity
  PROVE  /\ (i + j) % Capacity = IF i + j < Capacity THEN i + j ELSE i + j - Capacity
         /\ (i + j) % Capacity \in Slots
BY CapacityAssumption, SMT DEF Slots

LEMMA AdvanceInSlots ==
  ASSUME NEW i \in Slots
  PROVE  Advance(i) \in Slots /\ Advance(i) = IF i = Capacity - 1 THEN 0 ELSE i + 1
<1>1. 1 \in 0 .. Capacity
  BY CapacityAssumption
<1>2. /\ (i + 1) % Capacity = IF i + 1 < Capacity THEN i + 1 ELSE i + 1 - Capacity
      /\ (i + 1) % Capacity \in Slots
  BY <1>1, WrapAround
<1> QED
  BY <1>2, CapacityAssumption DEF Advance, Slots

-----------------------------------------------------------------------------
(* Types *)

LEMMA TypeOKStep == QueueTypeOK /\ [QueueNext]_queueVars => QueueTypeOK'
<1> SUFFICES ASSUME QueueTypeOK, [QueueNext]_queueVars PROVE QueueTypeOK'
  OBVIOUS
<1> USE DEF QueueTypeOK
<1>1. ASSUME NEW g \in Enqueuers, NEW el \in Values, CallEnqueue(g, el) PROVE QueueTypeOK'
  BY <1>1 DEF CallEnqueue
<1>2. ASSUME NEW g \in Dequeuers, CallDequeue(g) PROVE QueueTypeOK'
  BY <1>2 DEF CallDequeue
<1>3. ASSUME NEW g \in Goroutines, EnqueueWaits(g) PROVE QueueTypeOK'
  BY <1>3 DEF EnqueueWaits
<1>4. ASSUME NEW g \in Goroutines, Enqueue(g) PROVE QueueTypeOK'
  <2>1. pc' \in [Goroutines -> {"idle", "enqueue", "enqueueWait", "dequeue", "dequeueWait"}]
    BY <1>4 DEF Enqueue, Broadcast, WakeUp
  <2>2. tail' \in Slots /\ count' \in Nat /\ head' \in Slots
    BY <1>4, AdvanceInSlots DEF Enqueue
  <2>3. data' \in [Slots -> Values \cup {NoValue}]
    BY <1>4 DEF Enqueue
  <2> QED
    BY <1>4, <2>1, <2>2, <2>3 DEF Enqueue
<1>5. ASSUME NEW g \in Goroutines, DequeueWaits(g) PROVE QueueTypeOK'
  BY <1>5 DEF DequeueWaits
<1>6. ASSUME NEW g \in Goroutines, Dequeue(g) PROVE QueueTypeOK'
  <2>1. pc' \in [Goroutines -> {"idle", "enqueue", "enqueueWait", "dequeue", "dequeueWait"}]
    BY <1>6 DEF Dequeue, Broadcast, WakeUp
  <2>2. count' \in Nat /\ ElementRead \in Values \cup {NoValue}
    BY <1>6 DEF Dequeue, ElementRead
  <2> QED
    BY <1>6, <2>1, <2>2, AdvanceInSlots DEF Dequeue
<1>7. CASE UNCHANGED queueVars
  BY <1>7
<1> QED
  BY <1>1, <1>2, <1>3, <1>4, <1>5, <1>6, <1>7 DEF QueueNext, Step

\* Every variable keeps its type; in particular both indices address a slot.
THEOREM TypeCorrect == QueueSafeSpec => []QueueTypeOK
<1>1. QueueInit => QueueTypeOK
  BY CapacityAssumption DEF QueueInit, QueueTypeOK, Slots
<1> QED
  BY <1>1, TypeOKStep, PTL DEF QueueSafeSpec

-----------------------------------------------------------------------------
(* The ring *)

\* The k-th occupied slot.
Pos(k) == (head + k) % Capacity

LEMMA Positions ==
  ASSUME QueueTypeOK, NEW k \in 0 .. Capacity - 1
  PROVE  /\ Pos(k) \in Slots
         /\ Pos(k) = IF head + k < Capacity THEN head + k ELSE head + k - Capacity
<1>1. head \in Slots /\ k \in 0 .. Capacity
  BY CapacityAssumption DEF QueueTypeOK
<1> QED
  BY <1>1, WrapAround DEF Pos

Ring == RingConsistent /\ ElementKept

\* Enqueue writes the first free slot and leaves the occupied ones alone.
LEMMA EnqueueSlots ==
  ASSUME QueueTypeOK, Ring, NEW g \in Goroutines, Enqueue(g)
  PROVE  /\ count \in 0 .. Capacity - 1 /\ count' = count + 1
         /\ tail = Pos(count)
         /\ tail' = (head' + count') % Capacity
         /\ \A k \in 0 .. count - 1 : Pos(k)' = Pos(k) /\ data'[Pos(k)] = data[Pos(k)]
         /\ Pos(count) = (head' + count) % Capacity
         /\ data'[Pos(count)] = arg[g]
<1>1. count \in 0 .. Capacity - 1 /\ count' = count + 1 /\ head' = head
  BY CapacityAssumption DEF Enqueue, Full, Ring, RingConsistent, QueueTypeOK
<1>2. tail = Pos(count)
  BY DEF Ring, RingConsistent, Pos
<1>3. data' = [data EXCEPT ![tail] = arg[g]] /\ tail \in Slots
  BY DEF Enqueue, QueueTypeOK
<1>4. ASSUME NEW k \in 0 .. count - 1
      PROVE  Pos(k)' = Pos(k) /\ Pos(k) # Pos(count) /\ Pos(k) \in Slots
  BY <1>1, <1>4, Positions, CapacityAssumption DEF Pos, QueueTypeOK, Slots
<1>5. \A k \in 0 .. count - 1 : Pos(k)' = Pos(k) /\ data'[Pos(k)] = data[Pos(k)]
  BY <1>2, <1>3, <1>4 DEF QueueTypeOK
<1>6. data'[Pos(count)] = arg[g]
  BY <1>2, <1>3 DEF QueueTypeOK
<1>7. tail' = (head' + count') % Capacity
  <2>1. tail' = IF tail = Capacity - 1 THEN 0 ELSE tail + 1
    BY <1>3, AdvanceInSlots DEF Enqueue
  <2>2. tail = IF head + count < Capacity THEN head + count ELSE head + count - Capacity
    BY <1>1, <1>2, Positions
  <2>3. count' \in 0 .. Capacity /\ head' \in Slots
    BY <1>1, CapacityAssumption DEF QueueTypeOK
  <2>4. (head' + count') % Capacity =
          IF head' + count' < Capacity THEN head' + count' ELSE head' + count' - Capacity
    BY <2>3, WrapAround
  <2> QED
    BY <1>1, <2>1, <2>2, <2>4, CapacityAssumption DEF QueueTypeOK, Slots
<1> QED
  BY <1>1, <1>2, <1>5, <1>6, <1>7 DEF Pos

\* Dequeue shifts the occupied slots by one and writes none.
LEMMA DequeueSlots ==
  ASSUME QueueTypeOK, Ring, NEW g \in Goroutines, Dequeue(g)
  PROVE  /\ count \in 1 .. Capacity /\ count' = count - 1
         /\ tail' = (head' + count') % Capacity
         /\ \A k \in 0 .. count' - 1 : Pos(k)' = Pos(k + 1)
         /\ data' = data
         /\ result' = [result EXCEPT ![g] = data[Pos(0)]]
<1>1. count \in 1 .. Capacity /\ count' = count - 1 /\ data' = data /\ tail' = tail
  BY CapacityAssumption DEF Dequeue, Ring, RingConsistent, QueueTypeOK
<1>2. head' = IF head = Capacity - 1 THEN 0 ELSE head + 1
  BY AdvanceInSlots DEF Dequeue, QueueTypeOK
<1>3. head' \in Slots /\ head \in Slots
  BY <1>2, CapacityAssumption DEF QueueTypeOK, Slots
<1>4. ASSUME NEW k \in 0 .. count - 1
      PROVE  (head' + k) % Capacity = (head + (k + 1)) % Capacity
  <2>1. k + 1 \in 0 .. Capacity /\ k \in 0 .. Capacity
    BY <1>1, <1>4, CapacityAssumption
  <2>2. (head + (k + 1)) % Capacity =
          IF head + (k + 1) < Capacity THEN head + (k + 1) ELSE head + (k + 1) - Capacity
    BY <1>3, <2>1, WrapAround
  <2>3. (head' + k) % Capacity =
          IF head' + k < Capacity THEN head' + k ELSE head' + k - Capacity
    BY <1>3, <2>1, WrapAround
  <2> QED
    BY <1>1, <1>2, <1>3, <2>1, <2>2, <2>3, CapacityAssumption DEF Slots
<1>5. tail' = (head' + count') % Capacity
  <2>1. count - 1 \in 0 .. count - 1 /\ (count - 1) + 1 = count
    BY <1>1, CapacityAssumption
  <2>2. (head' + (count - 1)) % Capacity = (head + count) % Capacity
    BY <1>4, <2>1
  <2> QED
    BY <1>1, <2>2 DEF Ring, RingConsistent
<1>6. \A k \in 0 .. count' - 1 : Pos(k)' = Pos(k + 1)
  <2>1. \A k \in 0 .. count' - 1 : k \in 0 .. count - 1
    BY <1>1
  <2> QED
    BY <1>4, <2>1 DEF Pos
<1>7. head = Pos(0)
  BY Positions, CapacityAssumption DEF QueueTypeOK, Slots
<1> QED
  BY <1>1, <1>5, <1>6, <1>7 DEF Dequeue, ElementRead

LEMMA RingStep == QueueTypeOK /\ Ring /\ [QueueNext]_queueVars => Ring'
<1> SUFFICES ASSUME QueueTypeOK, Ring, [QueueNext]_queueVars PROVE Ring'
  OBVIOUS
<1>1. ASSUME NEW g \in Enqueuers, NEW el \in Values, CallEnqueue(g, el) PROVE Ring'
  BY <1>1, NoValueAssumption DEF CallEnqueue, Ring, RingConsistent, ElementKept, QueueTypeOK
<1>2. ASSUME NEW g \in Dequeuers, CallDequeue(g) PROVE Ring'
  BY <1>2 DEF CallDequeue, Ring, RingConsistent, ElementKept, QueueTypeOK
<1>3. ASSUME NEW g \in Goroutines, EnqueueWaits(g) PROVE Ring'
  BY <1>3 DEF EnqueueWaits, Ring, RingConsistent, ElementKept, QueueTypeOK
<1>4. ASSUME NEW g \in Goroutines, Enqueue(g) PROVE Ring'
  <2>1. ElementKept'
    BY <1>4 DEF Enqueue, Broadcast, WakeUp, Ring, ElementKept, QueueTypeOK
  <2>2. arg[g] # NoValue
    BY <1>4 DEF Enqueue, Ring, ElementKept
  <2>3. /\ count \in 0 .. Capacity - 1 /\ count' = count + 1
        /\ tail' = (head' + count') % Capacity
    BY <1>4, EnqueueSlots
  <2>4. ASSUME NEW k \in 0 .. count' - 1 PROVE data'[(head' + k) % Capacity] # NoValue
    <3>1. CASE k = count
      BY <1>4, <2>2, <3>1, EnqueueSlots
    <3>2. CASE k # count
      <4>1. k \in 0 .. count - 1
        BY <2>3, <3>2
      <4>2. Pos(k)' = Pos(k) /\ data'[Pos(k)] = data[Pos(k)]
        BY <1>4, <4>1, EnqueueSlots
      <4> QED
        BY <4>1, <4>2 DEF Ring, RingConsistent, Pos
    <3> QED
      BY <3>1, <3>2
  <2>5. count' <= Capacity
    BY <2>3, CapacityAssumption
  <2> QED
    BY <2>1, <2>3, <2>4, <2>5 DEF Ring, RingConsistent
<1>5. ASSUME NEW g \in Goroutines, DequeueWaits(g) PROVE Ring'
  BY <1>5 DEF DequeueWaits, Ring, RingConsistent, ElementKept, QueueTypeOK
<1>6. ASSUME NEW g \in Goroutines, Dequeue(g) PROVE Ring'
  <2>1. ElementKept'
    BY <1>6 DEF Dequeue, Broadcast, WakeUp, Ring, ElementKept, QueueTypeOK
  <2>2. /\ count \in 1 .. Capacity /\ count' = count - 1
        /\ tail' = (head' + count') % Capacity
        /\ data' = data
    BY <1>6, DequeueSlots
  <2>3. ASSUME NEW k \in 0 .. count' - 1 PROVE data'[(head' + k) % Capacity] # NoValue
    <3>1. Pos(k)' = Pos(k + 1)
      BY <1>6, DequeueSlots
    <3>2. k + 1 \in 0 .. count - 1
      BY <2>2
    <3> QED
      BY <2>2, <3>1, <3>2 DEF Ring, RingConsistent, Pos
  <2>4. count' <= Capacity
    BY <2>2, CapacityAssumption
  <2> QED
    BY <2>1, <2>2, <2>3, <2>4 DEF Ring, RingConsistent
<1>7. CASE UNCHANGED queueVars
  BY <1>7 DEF Ring, RingConsistent, ElementKept
<1> QED
  BY <1>1, <1>2, <1>3, <1>4, <1>5, <1>6, <1>7 DEF QueueNext, Step

LEMMA RingInvariant == QueueSafeSpec => []Ring
<1>1. QueueInit => Ring
  <2> SUFFICES ASSUME QueueInit PROVE Ring
    OBVIOUS
  <2>1. 0 % Capacity = 0
    BY CapacityAssumption, SMT
  <2> QED
    BY <2>1, CapacityAssumption DEF QueueInit, Ring, RingConsistent, ElementKept
<1> QED
  BY <1>1, RingStep, TypeCorrect, PTL DEF QueueSafeSpec

\* head, tail and count describe the same stretch of the ring, wrapped or not,
\* and every slot of it has been written.
THEOREM RingStaysConsistent == QueueSafeSpec => []RingConsistent
BY RingInvariant, PTL DEF Ring

\* Sharing one condition variable between both kinds of waiters loses no
\* wakeup, because every operation broadcasts.
THEOREM NoBroadcastIsMissed == QueueSafeSpec => []NoMissedBroadcast
<1>1. QueueInit => NoMissedBroadcast
  BY DEF QueueInit, NoMissedBroadcast
<1>2. QueueTypeOK /\ Ring /\ NoMissedBroadcast /\ [QueueNext]_queueVars => NoMissedBroadcast'
  <2> SUFFICES ASSUME QueueTypeOK, Ring, NoMissedBroadcast, [QueueNext]_queueVars
               PROVE  NoMissedBroadcast'
    OBVIOUS
  <2> USE DEF QueueTypeOK, NoMissedBroadcast
  <2>1. ASSUME NEW g \in Enqueuers, NEW el \in Values, CallEnqueue(g, el)
        PROVE  NoMissedBroadcast'
    BY <2>1 DEF CallEnqueue
  <2>2. ASSUME NEW g \in Dequeuers, CallDequeue(g) PROVE NoMissedBroadcast'
    BY <2>2 DEF CallDequeue
  <2>3. ASSUME NEW g \in Goroutines, EnqueueWaits(g) PROVE NoMissedBroadcast'
    <3>1. count = Capacity
      BY <2>3, CapacityAssumption DEF EnqueueWaits, Full, Ring, RingConsistent
    <3> QED
      BY <2>3, <3>1, CapacityAssumption DEF EnqueueWaits
  <2>4. ASSUME NEW g \in Goroutines, Enqueue(g) \/ Dequeue(g)
        PROVE  NoMissedBroadcast'
    BY <2>4 DEF Enqueue, Dequeue, Broadcast, WakeUp
  <2>5. ASSUME NEW g \in Goroutines, DequeueWaits(g) PROVE NoMissedBroadcast'
    BY <2>5 DEF DequeueWaits
  <2>6. CASE UNCHANGED queueVars
    BY <2>6
  <2> QED
    BY <2>1, <2>2, <2>3, <2>4, <2>5, <2>6 DEF QueueNext, Step
<1> QED
  BY <1>1, <1>2, TypeCorrect, RingInvariant, PTL DEF QueueSafeSpec

-----------------------------------------------------------------------------
(* Refinement *)

\* The slots from head on form a sequence of elements.
ContentsTyped ==
  /\ Contents \in Seq(Values)
  /\ Len(Contents) = count
  /\ \A i \in 1 .. count : Contents[i] = data[(head + (i - 1)) % Capacity]

LEMMA ContentsType == QueueTypeOK /\ Ring => ContentsTyped
<1> SUFFICES ASSUME QueueTypeOK, Ring
             PROVE  /\ Contents \in Seq(Values)
                    /\ Len(Contents) = count
                    /\ \A i \in 1 .. count : Contents[i] = data[Pos(i - 1)]
  BY DEF ContentsTyped, Pos
<1>1. ASSUME NEW i \in 1 .. count
      PROVE  /\ (head + i - 1) % Capacity = Pos(i - 1)
             /\ data[Pos(i - 1)] \in Values
  <2>1. i - 1 \in 0 .. count - 1 /\ i - 1 \in 0 .. Capacity - 1 /\ head + i - 1 = head + (i - 1)
    BY CapacityAssumption DEF QueueTypeOK, Slots, Ring, RingConsistent
  <2>2. Pos(i - 1) \in Slots /\ data[Pos(i - 1)] # NoValue
    BY <2>1, Positions DEF Pos, Ring, RingConsistent
  <2> QED
    BY <2>1, <2>2 DEF Pos, QueueTypeOK
<1>2. Contents = [i \in 1 .. count |-> data[Pos(i - 1)]]
  BY <1>1 DEF Contents
<1>3. Contents \in [1 .. count -> Values] /\ count \in Nat
  BY <1>1, <1>2 DEF QueueTypeOK
<1> QED
  BY <1>2, <1>3, SeqDef, LenProperties

\* The same after a step.
LEMMA ContentsTypeNext == (QueueTypeOK /\ Ring)' => ContentsTyped'
BY ContentsType, PTL

\* An Enqueue appends its element to the contents.
LEMMA EnqueueAppends ==
  ASSUME QueueTypeOK, QueueTypeOK', Ring, Ring', NEW g \in Goroutines, Enqueue(g)
  PROVE  Contents' = Append(Contents, arg[g])
<1>1. arg[g] \in Values
  BY DEF Enqueue, Ring, ElementKept, QueueTypeOK
<1>2. /\ Contents \in Seq(Values) /\ Len(Contents) = count
      /\ \A i \in 1 .. count : Contents[i] = data[Pos(i - 1)]
  BY ContentsType DEF ContentsTyped, Pos
<1>3. /\ Contents' \in Seq(Values) /\ Len(Contents') = count'
      /\ \A i \in 1 .. count' : Contents'[i] = data'[(head' + (i - 1)) % Capacity]
  BY ContentsTypeNext DEF ContentsTyped
<1>4. count' = count + 1 /\ count \in Nat
  BY EnqueueSlots DEF QueueTypeOK
<1>5. ASSUME NEW i \in 1 .. count PROVE Contents'[i] = Contents[i]
  <2>1. i - 1 \in 0 .. count - 1 /\ i \in 1 .. count'
    BY <1>4
  <2>2. Pos(i - 1)' = Pos(i - 1) /\ data'[Pos(i - 1)] = data[Pos(i - 1)]
    BY <2>1, EnqueueSlots
  <2> QED
    BY <1>2, <1>3, <2>1, <2>2 DEF Pos
<1>6. Contents'[count + 1] = arg[g]
  <2>1. count + 1 \in 1 .. count' /\ (count + 1) - 1 = count
    BY <1>4
  <2>2. Pos(count) = (head' + count) % Capacity /\ data'[Pos(count)] = arg[g]
    BY EnqueueSlots
  <2> QED
    BY <1>3, <2>1, <2>2
<1>7. /\ Append(Contents, arg[g]) \in Seq(Values)
      /\ Len(Append(Contents, arg[g])) = count + 1
      /\ \A i \in 1 .. count : Append(Contents, arg[g])[i] = Contents[i]
      /\ Append(Contents, arg[g])[count + 1] = arg[g]
  BY <1>1, <1>2, AppendProperties
<1>8. \A i \in 1 .. count + 1 : Contents'[i] = Append(Contents, arg[g])[i]
  BY <1>4, <1>5, <1>6, <1>7
<1> QED
  BY <1>3, <1>4, <1>7, <1>8, SeqEqual

\* A Dequeue returns the oldest of the contents and removes it.
LEMMA DequeueTakesHead ==
  ASSUME QueueTypeOK, QueueTypeOK', Ring, Ring', NEW g \in Goroutines, Dequeue(g)
  PROVE  /\ Contents # <<>>
         /\ result' = [result EXCEPT ![g] = Head(Contents)]
         /\ Contents' = Tail(Contents)
<1>1. /\ Contents \in Seq(Values) /\ Len(Contents) = count
      /\ \A i \in 1 .. count : Contents[i] = data[Pos(i - 1)]
  BY ContentsType DEF ContentsTyped, Pos
<1>2. /\ Contents' \in Seq(Values) /\ Len(Contents') = count'
      /\ \A i \in 1 .. count' : Contents'[i] = data'[(head' + (i - 1)) % Capacity]
  BY ContentsTypeNext DEF ContentsTyped
<1>3. count \in 1 .. Capacity /\ count' = count - 1 /\ data' = data
  BY DequeueSlots
<1>4. Contents # <<>>
  BY <1>1, <1>3, EmptySeq
<1>5. /\ Head(Contents) = Contents[1] /\ Tail(Contents) \in Seq(Values)
      /\ Len(Tail(Contents)) = count - 1
      /\ \A i \in 1 .. count - 1 : Tail(Contents)[i] = Contents[i + 1]
  BY <1>1, <1>4, HeadTailProperties
<1>6. Head(Contents) = data[Pos(0)]
  <2>1. 1 \in 1 .. count /\ 1 - 1 = 0
    BY <1>3
  <2> QED
    BY <1>1, <1>5, <2>1
<1>7. ASSUME NEW i \in 1 .. count - 1 PROVE Contents'[i] = Tail(Contents)[i]
  <2>1. i - 1 \in 0 .. count' - 1 /\ i \in 1 .. count' /\ i + 1 \in 1 .. count
        /\ (i - 1) + 1 = (i + 1) - 1
    BY <1>3
  <2>2. Pos(i - 1)' = Pos((i + 1) - 1)
    BY <2>1, DequeueSlots
  <2>3. Contents[i + 1] = data[Pos((i + 1) - 1)]
    BY <1>1, <2>1
  <2>4. Contents'[i] = data[Pos(i - 1)']
    BY <1>2, <1>3, <2>1 DEF Pos
  <2> QED
    BY <1>5, <2>2, <2>3, <2>4
<1>8. Contents' = Tail(Contents)
  BY <1>2, <1>3, <1>5, <1>7, SeqEqual
<1> QED
  BY <1>4, <1>6, <1>8, DequeueSlots

\* Waiting and waking are invisible; a call takes effect in the step that
\* writes or reads the slot.
LEMMA RefinementStep ==
  ASSUME QueueTypeOK, QueueTypeOK', Ring, Ring', [QueueNext]_queueVars
  PROVE  [Fifo!Next]_(Fifo!vars)
<1> USE DEF QueueTypeOK
<1>1. ASSUME NEW g \in Enqueuers, NEW el \in Values, CallEnqueue(g, el)
      PROVE  Fifo!CallPut(g, el)
  BY <1>1 DEF CallEnqueue, Fifo!CallPut, CallOf, Contents, Goroutines
<1>2. ASSUME NEW g \in Dequeuers, CallDequeue(g) PROVE Fifo!CallTake(g)
  BY <1>2 DEF CallDequeue, Fifo!CallTake, CallOf, Contents, Goroutines
<1>3. ASSUME NEW g \in Goroutines, EnqueueWaits(g) \/ DequeueWaits(g)
      PROVE  UNCHANGED Fifo!vars
  <2>1. \A h \in Goroutines : CallOf(pc[h])' = CallOf(pc[h])
    BY <1>3 DEF EnqueueWaits, DequeueWaits, CallOf
  <2> QED
    BY <1>3, <2>1 DEF EnqueueWaits, DequeueWaits, Fifo!vars, Contents
<1>4. ASSUME NEW g \in Goroutines, Enqueue(g) PROVE Fifo!Put(g)
  <2>1. /\ CallOf(pc[g]) = "put"
        /\ \A h \in Goroutines : CallOf(pc[h])' = IF h = g THEN "none" ELSE CallOf(pc[h])
    BY <1>4 DEF Enqueue, Broadcast, WakeUp, CallOf
  <2>2. Len(Contents) < Capacity
    BY <1>4, ContentsType, EnqueueSlots, CapacityAssumption DEF ContentsTyped
  <2>3. Contents' = Append(Contents, arg[g])
    BY <1>4, EnqueueAppends
  <2>4. arg' = [arg EXCEPT ![g] = NoValue] /\ result' = result
    BY <1>4 DEF Enqueue
  <2> QED
    BY <2>1, <2>2, <2>3, <2>4 DEF Fifo!Put
<1>5. ASSUME NEW g \in Goroutines, Dequeue(g) PROVE Fifo!Take(g)
  <2>1. /\ CallOf(pc[g]) = "take"
        /\ \A h \in Goroutines : CallOf(pc[h])' = IF h = g THEN "none" ELSE CallOf(pc[h])
    BY <1>5 DEF Dequeue, Broadcast, WakeUp, CallOf
  <2>2. arg' = arg
    BY <1>5 DEF Dequeue
  <2> QED
    BY <1>5, <2>1, <2>2, DequeueTakesHead DEF Fifo!Take
<1>6. CASE UNCHANGED queueVars
  BY <1>6 DEF Fifo!vars, Contents, CallOf
<1> QED
  BY <1>1, <1>2, <1>3, <1>4, <1>5, <1>6
     DEF QueueNext, Step, Fifo!Next, Goroutines, Fifo!Goroutines

\* The ring buffer is a bounded FIFO queue: for any number of goroutines, each
\* Enqueue and Dequeue takes effect at one instant, in FIFO order, and waiting
\* is invisible.  (That a call which can go ahead does is model-checked.)
THEOREM QueueImplementsFifo == QueueSafeSpec => Fifo!SafeSpec
<1>1. QueueInit => Fifo!Init
  <2> SUFFICES ASSUME QueueInit PROVE Fifo!Init
    OBVIOUS
  <2>1. Contents = <<>>
    BY DEF QueueInit, Contents
  <2> QED
    BY <2>1 DEF QueueInit, Fifo!Init, CallOf, Goroutines, Fifo!Goroutines
<1>2. QueueTypeOK /\ QueueTypeOK' /\ Ring /\ Ring' /\ [QueueNext]_queueVars
        => [Fifo!Next]_(Fifo!vars)
  BY RefinementStep
<1> QED
  BY <1>1, <1>2, TypeCorrect, RingInvariant, PTL DEF QueueSafeSpec, Fifo!SafeSpec
=============================================================================
