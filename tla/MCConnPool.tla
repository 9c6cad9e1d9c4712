----------------------------- MODULE MCConnPool -----------------------------
(***************************************************************************)
(* ConnPool for TLC: clients and connections are model values.             *)
(***************************************************************************)
EXTENDS ConnPool
=============================================================================
