---------------------------- MODULE MCDispatcher ----------------------------
(***************************************************************************)
(* Dispatcher for TLC: workers and jobs are model values.                  *)
(***************************************************************************)
EXTENDS Dispatcher
=============================================================================
