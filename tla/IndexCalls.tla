----------------------------- MODULE IndexCalls -----------------------------
(***************************************************************************)
(* The calls that are made of an index, and the lines of its table: what   *)
(* FileIndex, GoIndex and AppendIndex have in common.                      *)
(***************************************************************************)
EXTENDS Integers, Sequences, SequencesExt, Walks

CONSTANTS
  Inserts,  \* one member per call of insert; it stands for the text too
  Queries,  \* one member per call of query, and its iterator
  Ids,      \* the ids they insert
  Limits,   \* the limits they query with
  Nothing   \* no map entry, no text

ASSUME IdsAssumption ==
  Ids \subseteq Nat \ {0} /\ IsFiniteSet(Ids) /\ Nothing \notin Ids \cup Int
ASSUME LimitsAssumption == Limits \subseteq Int
ASSUME InsertsAssumption == IsFiniteSet(Inserts) /\ Nothing \notin Inserts
ASSUME QueriesAssumption == IsFiniteSet(Queries)

\* A complete line, and one that was cut off.
Records == Ids \X Inserts
Torn == <<"torn">>

\* What stands for nothing is not a sequence of lines either.
ASSUME NothingAssumption == Nothing \notin Seq(Records)
=============================================================================
