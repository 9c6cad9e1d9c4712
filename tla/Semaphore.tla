----------------------------- MODULE Semaphore -----------------------------
(***************************************************************************)
(* src/go-concurrency-practice/build-a-semaphore/main.go: a counting       *)
(* semaphore that is a channel of empty structs, the goroutines that share *)
(* it, and the main that waits for them.                                   *)
(*                                                                         *)
(* A send into the full channel parks; the receive of Release takes an     *)
(* element from the buffer and lets the element of one parked sender in.   *)
(* Which one is left open, where the runtime takes the first.              *)
(***************************************************************************)
EXTENDS Naturals, FiniteSets

CONSTANTS
  Workers,
  N  \* the capacity, at least 1: with 0 nobody would ever pass Acquire

VARIABLES
  tokens,     \* the elements in the buffer of ch
  work,       \* where each worker is
  unfinished, \* the counter of main's wait group
  sem         \* where main is

vars == <<tokens, work, unfinished, sem>>

Init ==
  /\ tokens = 0
  /\ work = [w \in Workers |-> "unborn"]
  /\ unfinished = 0
  /\ sem = "starting"

-----------------------------------------------------------------------------
\* main: Add(1) before go.
StartWorker(w) ==
  /\ sem = "starting"
  /\ work[w] = "unborn"
  /\ work' = [work EXCEPT ![w] = "started"]
  /\ unfinished' = unfinished + 1
  /\ UNCHANGED <<tokens, sem>>

AllStarted ==
  /\ sem = "starting"
  /\ \A w \in Workers : work[w] # "unborn"
  /\ sem' = "waiting"
  /\ UNCHANGED <<tokens, work, unfinished>>

Acquire(w) ==
  /\ work[w] = "started"
  /\ \/ tokens < N /\ tokens' = tokens + 1 /\ work' = [work EXCEPT ![w] = "working"]
     \/ tokens = N /\ UNCHANGED tokens /\ work' = [work EXCEPT ![w] = "parked"]
  /\ UNCHANGED <<unfinished, sem>>

\* Definitions named Faulty... are never part of the specification: each is a
\* plausible mistake in the definition that follows it, kept to show that the
\* properties notice it.

\* The element is taken and nobody is let in.
FaultyRelease(w) ==
  /\ work[w] = "working"
  /\ tokens' = tokens - 1
  /\ work' = [work EXCEPT ![w] = "released"]
  /\ UNCHANGED <<unfinished, sem>>
Release(w) ==
  /\ work[w] = "working"
  /\ \/ \E v \in Workers :
          /\ work[v] = "parked"
          /\ work' = [work EXCEPT ![w] = "released", ![v] = "working"]
          /\ UNCHANGED tokens
     \/ /\ \A v \in Workers : work[v] # "parked"
        /\ work' = [work EXCEPT ![w] = "released"]
        /\ tokens' = tokens - 1
  /\ UNCHANGED <<unfinished, sem>>

\* The deferred wg.Done().
WorkerEnds(w) ==
  /\ work[w] = "released"
  /\ work' = [work EXCEPT ![w] = "ended"]
  /\ unfinished' = unfinished - 1
  /\ UNCHANGED <<tokens, sem>>

MainEnds ==
  /\ sem = "waiting"
  /\ unfinished = 0
  /\ sem' = "ended"
  /\ UNCHANGED <<tokens, work, unfinished>>

Next ==
  \/ \E w \in Workers : StartWorker(w) \/ Acquire(w) \/ Release(w) \/ WorkerEnds(w)
  \/ AllStarted
  \/ MainEnds

\* No goroutine ever stops for good, and the program is finite.
Spec == Init /\ [][Next]_vars /\ WF_vars(Next)

-----------------------------------------------------------------------------
(* What holds *)

TypeOK ==
  /\ tokens \in 0 .. N
  /\ work \in [Workers -> {"unborn", "started", "parked", "working", "released", "ended"}]
  /\ unfinished \in 0 .. Cardinality(Workers)
  /\ sem \in {"starting", "waiting", "ended"}

\* "a maximum number of concurrent operations": the channel's elements are
\* permits, so at most N workers work at once, and whoever waits is let in as
\* others finish.
P == INSTANCE Permits WITH
       Clients <- Workers,
       Limit <- N,
       state <- [w \in Workers |->
                  CASE work[w] = "parked"  -> "asking"
                    [] work[w] = "working" -> "holding"
                    [] OTHER -> "away"]

ImplementsPermits == P!Spec

\* main outlives every worker, and ends.
MainEndsLast ==
  /\ [](sem = "ended" => \A w \in Workers : work[w] = "ended")
  /\ <>(sem = "ended")
=============================================================================
