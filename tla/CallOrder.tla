----------------------------- MODULE CallOrder -----------------------------
(***************************************************************************)
(* Calls that are interchangeable until they begin may be numbered in the  *)
(* order in which they do: every behaviour is one of those so numbered,    *)
(* but for the names.  (TLC's SYMMETRY would not be sound for liveness.)   *)
(***************************************************************************)
EXTENDS Integers

InOrder(calls, state) ==
  \A a, b \in calls : a < b /\ state[b] # "idle" => state[a] # "idle"
=============================================================================
