----------------------------- MODULE FifoQueue -----------------------------
(***************************************************************************)
(* What a bounded blocking queue promises the goroutines that share it: a  *)
(* put takes effect at one instant, when there is room; a take returns the *)
(* oldest element, when there is one; a caller that could go ahead and is  *)
(* never overtaken goes ahead.                                             *)
(*                                                                         *)
(* BoundedQueue (fixed-size-bounded-blocking-queue/main.go) is shown to    *)
(* implement this module.                                                  *)
(***************************************************************************)
EXTENDS Naturals, Sequences

CONSTANTS
  Putters,     \* the goroutines that put
  Takers,      \* the goroutines that take; a goroutine may do both
  Values,      \* what they put into the queue
  Capacity,    \* how many elements may wait
  NoValue      \* no value

Goroutines == Putters \cup Takers

VARIABLES
  buffer,  \* the waiting elements, oldest first
  call,    \* the call each goroutine is making
  arg,     \* what its put is to add
  result   \* what its last take returned

vars == <<buffer, call, arg, result>>

Init ==
  /\ buffer = <<>>
  /\ call = [g \in Goroutines |-> "none"]
  /\ arg = [g \in Goroutines |-> NoValue]
  /\ result = [g \in Goroutines |-> NoValue]

CallPut(g, v) ==
  /\ call[g] = "none"
  /\ call' = [call EXCEPT ![g] = "put"]
  /\ arg' = [arg EXCEPT ![g] = v]
  /\ UNCHANGED <<buffer, result>>

CallTake(g) ==
  /\ call[g] = "none"
  /\ call' = [call EXCEPT ![g] = "take"]
  /\ UNCHANGED <<buffer, arg, result>>

Put(g) ==
  /\ call[g] = "put"
  /\ Len(buffer) < Capacity
  /\ buffer' = Append(buffer, arg[g])
  /\ call' = [call EXCEPT ![g] = "none"]
  /\ arg' = [arg EXCEPT ![g] = NoValue]
  /\ UNCHANGED result

Take(g) ==
  /\ call[g] = "take"
  /\ buffer # <<>>
  /\ result' = [result EXCEPT ![g] = Head(buffer)]
  /\ buffer' = Tail(buffer)
  /\ call' = [call EXCEPT ![g] = "none"]
  /\ UNCHANGED arg

Next ==
  \/ \E g \in Putters, v \in Values : CallPut(g, v)
  \/ \E g \in Takers : CallTake(g)
  \/ \E g \in Goroutines : Put(g) \/ Take(g)

SafeSpec == Init /\ [][Next]_vars

Spec == SafeSpec /\ \A g \in Goroutines : WF_vars(Put(g)) /\ WF_vars(Take(g))
=============================================================================
