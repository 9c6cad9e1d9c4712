------------------------------ MODULE TaskPool ------------------------------
(***************************************************************************)
(* What a bounded task pool promises its callers, with no threads, locks   *)
(* or condition variables: accepted tasks wait in a bounded FIFO backlog,  *)
(* start in submission order, and are each settled once.  A pool that is   *)
(* closed gracefully still settles its backlog; one that is closed         *)
(* immediately drops the backlog and starts nothing more.                  *)
(*                                                                         *)
(* ThreadPool (thread_pool_on_fixed_size_bounded_queue.cpp) is shown to    *)
(* implement this module.                                                  *)
(***************************************************************************)
EXTENDS Naturals, Sequences

CONSTANTS
  Tasks,    \* the tasks callers may submit, each at most once
  Capacity  \* how many accepted tasks may wait

VARIABLES
  mode,     \* "open", "graceful" or "immediate"
  backlog,  \* accepted tasks that have not started, in submission order
  phase     \* how far each task has come

vars == <<mode, backlog, phase>>

Phases == {"new", "refused", "queued", "running", "settled", "dropped"}

TypeOK ==
  /\ mode \in {"open", "graceful", "immediate"}
  /\ backlog \in Seq(Tasks)
  /\ phase \in [Tasks -> Phases]

Init ==
  /\ mode = "open"
  /\ backlog = <<>>
  /\ phase = [t \in Tasks |-> "new"]

-----------------------------------------------------------------------------
Accept(t) ==
  /\ mode = "open"
  /\ phase[t] = "new"
  /\ Len(backlog) < Capacity
  /\ backlog' = Append(backlog, t)
  /\ phase' = [phase EXCEPT ![t] = "queued"]
  /\ UNCHANGED mode

Refuse(t) ==
  /\ mode # "open"
  /\ phase[t] = "new"
  /\ phase' = [phase EXCEPT ![t] = "refused"]
  /\ UNCHANGED <<mode, backlog>>

\* The oldest waiting task starts; a pool closed immediately starts nothing.
Start ==
  /\ mode # "immediate"
  /\ backlog # <<>>
  /\ phase' = [phase EXCEPT ![Head(backlog)] = "running"]
  /\ backlog' = Tail(backlog)
  /\ UNCHANGED mode

Settle(t) ==
  /\ phase[t] = "running"
  /\ phase' = [phase EXCEPT ![t] = "settled"]
  /\ UNCHANGED <<mode, backlog>>

CloseGracefully ==
  /\ mode = "open"
  /\ mode' = "graceful"
  /\ UNCHANGED <<backlog, phase>>

CloseImmediately ==
  /\ mode = "open"
  /\ mode' = "immediate"
  /\ backlog' = <<>>
  /\ phase' = [t \in Tasks |-> IF phase[t] = "queued" THEN "dropped" ELSE phase[t]]

Next ==
  \/ Start
  \/ CloseGracefully
  \/ CloseImmediately
  \/ \E t \in Tasks : Accept(t) \/ Refuse(t) \/ Settle(t)

SafeSpec == Init /\ [][Next]_vars

\* The pool keeps starting what waits and finishing what runs; it owes the
\* callers nothing about when (or whether) they submit or close.
Spec ==
  /\ SafeSpec
  /\ WF_vars(Start)
  /\ \A t \in Tasks : WF_vars(Settle(t))
=============================================================================
