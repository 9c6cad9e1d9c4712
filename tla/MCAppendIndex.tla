--------------------------- MODULE MCAppendIndex ---------------------------
(***************************************************************************)
(* AppendIndex for TLC: limits cover a negative one, none, and fewer and   *)
(* more than there are records.                                            *)
(***************************************************************************)
EXTENDS AppendIndex

MCLimits == {-1, 0, 1, 3}
=============================================================================
