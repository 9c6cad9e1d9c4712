---------------------------- MODULE TokenBucket ----------------------------
(***************************************************************************)
(* A token bucket: at every beat one token comes or is lost, at most Burst *)
(* are kept, and every start of a job takes one away.  So in a stretch of  *)
(* b beats at most Burst + b jobs are started, whatever happened before.   *)
(*                                                                         *)
(* Dispatcher is shown to implement this module.                           *)
(***************************************************************************)
EXTENDS Naturals

CONSTANTS
  Jobs,
  Burst  \* how many tokens the bucket holds

VARIABLES
  beat,    \* flips with every beat
  tokens,
  started  \* the jobs that were started

vars == <<beat, tokens, started>>

Init ==
  /\ beat = FALSE
  /\ tokens = 0
  /\ started = {}

Refill ==
  /\ beat' = ~beat
  /\ tokens' \in {tokens, tokens + 1} \cap 0 .. Burst
  /\ UNCHANGED started

Start(j) ==
  /\ j \notin started
  /\ tokens > 0
  /\ tokens' = tokens - 1
  /\ started' = started \cup {j}
  /\ UNCHANGED beat

\* Whoever keeps tokens may leave.
Lose ==
  /\ \E n \in 0 .. Burst : n < tokens /\ tokens' = n
  /\ UNCHANGED <<beat, started>>

Next == Refill \/ (\E j \in Jobs : Start(j)) \/ Lose

SafeSpec == Init /\ [][Next]_vars
=============================================================================
