------------------------------- MODULE Walks -------------------------------
(***************************************************************************)
(* Walks through an ordered map: what the loops of the queries collect.    *)
(***************************************************************************)
EXTENDS Integers, FiniteSets, Functions

\* What a walk through an ordered map of ids collects while there is a next one
\* and fewer than limit are collected: the one sequence in this set.
FirstOf(ids, limit) ==
  LET size == Cardinality(ids)
      count == IF limit < 0 THEN 0 ELSE IF limit < size THEN limit ELSE size
  IN  {walk \in [1 .. count -> ids] :
         /\ \A m, n \in 1 .. count : m < n => walk[m] < walk[n]
         /\ \A id \in ids : id \in Range(walk) \/ \A n \in 1 .. count : walk[n] < id}
=============================================================================
