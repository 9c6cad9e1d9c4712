--------------------------- MODULE MCPoolAndQueue ---------------------------
(***************************************************************************)
(* The connection pool and the bounded queue for TLC.  They share no       *)
(* state, so the initial state picks one of them, and the other never      *)
(* moves.                                                                  *)
(***************************************************************************)
EXTENDS ConnPool, BoundedQueue

VARIABLE part

partVars == <<part, vars, queueVars>>

PartInit == part \in {"pool", "queue"} /\ Init /\ QueueInit

RunsPool(step) == part = "pool" /\ step /\ UNCHANGED <<part, queueVars>>
RunsQueue(step) == part = "queue" /\ step /\ UNCHANGED <<part, vars>>

PartNext == RunsPool(Next) \/ RunsQueue(QueueNext)

\* The fairness of each component's own specification, for the one that runs.
PartSpec ==
  /\ PartInit
  /\ [][PartNext]_partVars
  /\ \A g \in Clients : WF_partVars(RunsPool(GivesBack(g)))
  /\ \A g \in Goroutines : WF_partVars(RunsQueue(Step(g)))
=============================================================================
