-------------------------- MODULE MCQueryOperators --------------------------
(***************************************************************************)
(* QueryOperators for TLC: a negative key, whose hash is a large size_t,   *)
(* and a size_t of eight bits.                                             *)
(***************************************************************************)
EXTENDS QueryOperators

MCKeys == -1 .. 1
=============================================================================
