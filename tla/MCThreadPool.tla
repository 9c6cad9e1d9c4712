---------------------------- MODULE MCThreadPool ----------------------------
(***************************************************************************)
(* ThreadPool for TLC, with the submissions and the closers numbered in    *)
(* the order of their first step.                                          *)
(***************************************************************************)
EXTENDS ThreadPool, CallOrder

MCNext ==
  /\ Next
  /\ InOrder(Tasks, caller')
  /\ InOrder(Closers, closer')

MCSpec == Init /\ [][MCNext]_vars /\ Fairness
=============================================================================
