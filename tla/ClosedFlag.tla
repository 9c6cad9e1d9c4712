----------------------------- MODULE ClosedFlag -----------------------------
(***************************************************************************)
(* src/go-concurrency-practice/lld-connection-pool.go and                  *)
(* lld-rate-limiter.go: what their methods do so far.  Each looks at a     *)
(* flag under the mutex; Close sets it under the same mutex, inside        *)
(* sync.Once, with the teardown.                                           *)
(*                                                                         *)
(* sync.Once.Do, which is not in the source, is modelled as the library    *)
(* has it: the first caller runs the function, and the others return when  *)
(* it is done.                                                             *)
(***************************************************************************)
EXTENDS Naturals

CONSTANTS
  Methods,  \* one member per call of Acquire, Release, Destroy or Allow
  Closings  \* one member per call of Close

VARIABLES
  flag,      \* closed
  once,      \* the sync.Once: "fresh", "running" or "over"
  teardowns, \* how often the body of Close has run
  method,    \* where each call is, or what it returned
  late,      \* did the call begin after a Close had returned?
  closing    \* where each Close is

vars == <<flag, once, teardowns, method, late, closing>>

Init ==
  /\ flag = FALSE
  /\ once = "fresh"
  /\ teardowns = 0
  /\ method = [m \in Methods |-> "idle"]
  /\ late = [m \in Methods |-> FALSE]
  /\ closing = [c \in Closings |-> "idle"]

-----------------------------------------------------------------------------
CallMethod(m) ==
  /\ method[m] = "idle"
  /\ method' = [method EXCEPT ![m] = "called"]
  /\ late' = [late EXCEPT ![m] = \E c \in Closings : closing[c] = "returned"]
  /\ UNCHANGED <<flag, once, teardowns, closing>>

\* The section under mu.
MethodLooks(m) ==
  /\ method[m] = "called"
  /\ method' = [method EXCEPT ![m] = IF flag THEN "ErrClosed" ELSE "accepted"]
  /\ UNCHANGED <<flag, once, teardowns, late, closing>>

EnterOnce(c) ==
  /\ closing[c] = "idle"
  /\ \/ once = "fresh" /\ once' = "running" /\ closing' = [closing EXCEPT ![c] = "inside"]
     \/ once # "fresh" /\ UNCHANGED once /\ closing' = [closing EXCEPT ![c] = "behind"]
  /\ UNCHANGED <<flag, teardowns, method, late>>

\* The body of Close, under mu.
Teardown(c) ==
  /\ closing[c] = "inside"
  /\ flag' = TRUE
  /\ teardowns' = teardowns + 1
  /\ once' = "over"
  /\ closing' = [closing EXCEPT ![c] = "returned"]
  /\ UNCHANGED <<method, late>>

\* Definitions named Faulty... are never part of the specification: each is a
\* plausible mistake in the definition that follows it, kept to show that the
\* properties notice it.

\* An atomic flag in the place of the Once.
FaultyOnceReturns(c) ==
  /\ closing[c] = "behind"
  /\ once # "fresh"
  /\ closing' = [closing EXCEPT ![c] = "returned"]
  /\ UNCHANGED <<flag, once, teardowns, method, late>>
OnceReturns(c) ==
  /\ closing[c] = "behind"
  /\ once = "over"
  /\ closing' = [closing EXCEPT ![c] = "returned"]
  /\ UNCHANGED <<flag, once, teardowns, method, late>>

CloseStep(c) == Teardown(c) \/ OnceReturns(c)

Next ==
  \/ \E m \in Methods : CallMethod(m) \/ MethodLooks(m)
  \/ \E c \in Closings : EnterOnce(c) \/ CloseStep(c)

\* Whoever has begun to close goes on; fairness of these steps together is
\* enough, since each call takes finitely many.
Owed == \E c \in Closings : CloseStep(c)

Spec == Init /\ [][Next]_vars /\ WF_vars(Owed)

-----------------------------------------------------------------------------
(* What holds *)

TypeOK ==
  /\ flag \in BOOLEAN
  /\ once \in {"fresh", "running", "over"}
  /\ teardowns \in 0 .. 1
  /\ method \in [Methods -> {"idle", "called", "accepted", "ErrClosed"}]
  /\ late \in [Methods -> BOOLEAN]
  /\ closing \in [Closings -> {"idle", "inside", "behind", "returned"}]

\* "ErrClosed is returned by any method called after Close()" and "teardown
\* runs exactly once regardless of how many goroutines call Close": no call
\* that began after some Close had returned is let in, though that Close may
\* be one that came second and did nothing itself.
CloseIsFinal ==
  /\ \A m \in Methods : late[m] => method[m] # "accepted"
  /\ (\E c \in Closings : closing[c] = "returned") => teardowns = 1

\* Every Close that was called returns.
ClosingsReturn ==
  \A c \in Closings : closing[c] \in {"inside", "behind"} ~> closing[c] = "returned"
=============================================================================
