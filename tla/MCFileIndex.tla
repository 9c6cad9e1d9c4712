---------------------------- MODULE MCFileIndex ----------------------------
(***************************************************************************)
(* FileIndex for TLC, with the inserts and the calls of Close numbered in  *)
(* the order of their first step.  Limits cover a negative one, none, and  *)
(* fewer and more than there are records.                                  *)
(***************************************************************************)
EXTENDS FileIndex, CallOrder

MCLimits == {-1, 0, 1, 3}

MCNext ==
  /\ Next
  /\ InOrder(Inserts, insert')
  /\ InOrder(Closers, closer')

MCSpec == Init /\ [][MCNext]_vars /\ Fairness
=============================================================================
