-------------------------- MODULE HashAggregation --------------------------
(***************************************************************************)
(* src/hash-aggregation-operator.cpp: a table from keys to accumulators,   *)
(* fed row by row.  A row's value is its payload.  Sums are exact here     *)
(* where the code's are of doubles, and a finished aggregate is a fraction *)
(* <<numerator, denominator>>.                                             *)
(***************************************************************************)
EXTENDS Integers, Sequences, FiniteSets, FiniteSetsExt, SequencesExt

Aggregates == {"count", "sum", "avg"}

\* What clone() mints.
Fresh == [sum |-> 0, count |-> 0]

Accumulate(kind, acc, value) ==
  CASE kind = "count" -> [acc EXCEPT !.count = @ + 1]
    [] kind = "sum" -> [acc EXCEPT !.sum = @ + value]
    [] kind = "avg" -> [sum |-> acc.sum + value, count |-> acc.count + 1]

Finalize(kind, acc) ==
  CASE kind = "count" -> <<acc.count, 1>>
    [] kind = "sum" -> <<acc.sum, 1>>
    [] kind = "avg" -> IF acc.count = 0 THEN <<0, 1>> ELSE <<acc.sum, acc.count>>

\* A new group is created, but its first value is not accumulated.
FaultyAddRow(kind, table, row) ==
  IF row.key \in DOMAIN table
  THEN [table EXCEPT ![row.key] = Accumulate(kind, @, row.payload)]
  ELSE [k \in DOMAIN table \cup {row.key} |-> IF k = row.key THEN Fresh ELSE table[k]]
\* A key not seen before gets a fresh accumulator first.
AddRow(kind, table, row) ==
  LET found == [k \in DOMAIN table \cup {row.key} |->
                  IF k \in DOMAIN table THEN table[k] ELSE Fresh]
  IN  [found EXCEPT ![row.key] = Accumulate(kind, @, row.payload)]

\* The table after all rows, in the order in which they come.
HashTable(kind, rows) ==
  LET table[n \in 0 .. Len(rows)] ==
        IF n = 0 THEN <<>> ELSE AddRow(kind, table[n - 1], rows[n])
  IN  table[Len(rows)]

\* One result row <<key, numerator, denominator>> per group; the order is the
\* library's.
GetResults(kind, table) ==
  SetToSeq({<<k>> \o Finalize(kind, table[k]) : k \in DOMAIN table})

-----------------------------------------------------------------------------
(* The definition of grouping *)

\* The aggregate of the rows with key k.
Aggregate(kind, rows, k) ==
  LET members == {n \in DOMAIN rows : rows[n].key = k}
      total == MapThenSumSet(LAMBDA n : rows[n].payload, members)
  IN  CASE kind = "count" -> <<Cardinality(members), 1>>
        [] kind = "sum" -> <<total, 1>>
        [] kind = "avg" -> <<total, Cardinality(members)>>

\* The result rows that GROUP BY key asks for.
Groups(kind, rows) ==
  {<<k>> \o Aggregate(kind, rows, k) : k \in {rows[n].key : n \in DOMAIN rows}}
=============================================================================
