-------------------------- MODULE GracefulShutdown --------------------------
(***************************************************************************)
(* src/go-concurrency-practice/graceful-shutdown-with-context/main.go: a   *)
(* worker that selects between its ticker and a context which a signal     *)
(* cancels, and a main that waits for the worker.                          *)
(*                                                                         *)
(* signal.NotifyContext and its stop, which are not in the source, take    *)
(* every interrupt while main runs; the ticker's channel holds one tick.   *)
(***************************************************************************)
EXTENDS Naturals

VARIABLES
  signalled, \* is ctx done?
  tick,      \* is a tick in the ticker's channel?
  worker,    \* where the worker is
  undone,    \* the counter of the wait group
  exit       \* where main is

vars == <<signalled, tick, worker, undone, exit>>

\* main has called Add and started the worker.
Init ==
  /\ signalled = FALSE
  /\ tick = FALSE
  /\ worker = "selecting"
  /\ undone = 1
  /\ exit = "waiting"

-----------------------------------------------------------------------------
\* The second interrupt, and any later one, changes nothing.
Interrupt ==
  /\ exit = "waiting"
  /\ signalled' = TRUE
  /\ UNCHANGED <<tick, worker, undone, exit>>

Tick ==
  /\ worker # "returned"
  /\ ~tick
  /\ tick' = TRUE
  /\ UNCHANGED <<signalled, worker, undone, exit>>

\* select may take the tick though the context is done.
DoWork ==
  /\ worker = "selecting"
  /\ tick
  /\ tick' = FALSE
  /\ UNCHANGED <<signalled, worker, undone, exit>>

StartCleanup ==
  /\ worker = "selecting"
  /\ signalled
  /\ worker' = "cleaning"
  /\ UNCHANGED <<signalled, tick, undone, exit>>

\* The sleep ends, the ticker is stopped, and then Done is called.
FinishCleanup ==
  /\ worker = "cleaning"
  /\ worker' = "returned"
  /\ undone' = undone - 1
  /\ UNCHANGED <<signalled, tick, exit>>

MainExits ==
  /\ exit = "waiting"
  /\ undone = 0
  /\ exit' = "exited"
  /\ UNCHANGED <<signalled, tick, worker, undone>>

Next == Interrupt \/ Tick \/ DoWork \/ StartCleanup \/ FinishCleanup \/ MainExits

\* The worker and main go on when they can.  select chooses among its ready
\* cases at random, so that ticks cannot keep the context's case from being
\* taken; nobody has to interrupt the program.
Owed == StartCleanup \/ FinishCleanup \/ MainExits

Spec == Init /\ [][Next]_vars /\ WF_vars(Owed)

-----------------------------------------------------------------------------
(* What holds *)

TypeOK ==
  /\ {signalled, tick} \subseteq BOOLEAN
  /\ worker \in {"selecting", "cleaning", "returned"}
  /\ undone \in 0 .. 1
  /\ exit \in {"waiting", "exited"}

\* Once it is interrupted the program ends, however busy the ticker is; and
\* never before the worker's cleanup is over, however often it is interrupted.
CleansUpAndExits ==
  /\ [](exit = "exited" => worker = "returned")
  /\ signalled ~> exit = "exited"
=============================================================================
