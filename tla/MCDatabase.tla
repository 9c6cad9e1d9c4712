----------------------------- MODULE MCDatabase -----------------------------
(***************************************************************************)
(* The second C++ index and the query operators for TLC.  They share no    *)
(* state, so the initial state picks one of them, and the other never      *)
(* moves.                                                                  *)
(***************************************************************************)
EXTENDS MCFileIndex, MCQueryOperators

VARIABLE part

partVars == <<part, vars, operatorVars>>

\* Only the operators start in one of several states: they pick one when they
\* run.
PartInit ==
  /\ part \in {"index", "operators"}
  /\ Init
  /\ OperatorInit
  /\ part = "operators" \/ (left = <<>> /\ right = <<>>)

PartNext ==
  \/ part = "index" /\ MCNext /\ UNCHANGED <<part, operatorVars>>
  \/ part = "operators" /\ OperatorNext /\ UNCHANGED <<part, vars>>

\* The fairness of the index's own specification: while the operators run it
\* owes no step, since nobody has called it.  The operators have none.
PartSpec == PartInit /\ [][PartNext]_partVars /\ Fairness
=============================================================================
