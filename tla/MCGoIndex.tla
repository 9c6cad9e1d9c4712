----------------------------- MODULE MCGoIndex -----------------------------
(***************************************************************************)
(* GoIndex for TLC, with the inserts and the calls of Close numbered in    *)
(* the order of their first step.  No query asks for ids above the largest *)
(* one: it would get none, whatever its limit.                             *)
(***************************************************************************)
EXTENDS GoIndex, CallOrder

MCNext ==
  /\ Next
  /\ InOrder(Inserts, insert')
  /\ InOrder(Closers, closer')
  /\ \A q \in Queries : asked'[q] # <<>> => \E id \in Ids : asked'[q][1] < id

MCSpec == Init /\ [][MCNext]_vars /\ Fairness
=============================================================================
