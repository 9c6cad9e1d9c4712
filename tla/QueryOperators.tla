--------------------------- MODULE QueryOperators ---------------------------
(***************************************************************************)
(* One call of one query operator on two tables.  The n-th row of a table  *)
(* carries n as its payload, so rows with one key can be told apart.       *)
(***************************************************************************)
EXTENDS JoinOperators, HashAggregation

CONSTANTS
  Keys,      \* the keys of rows
  MaxRows,   \* bound on the rows of a table
  MaxParts   \* bound on pages per block, rows per page and partitions

ASSUME KeysAssumption == Keys \subseteq Int
ASSUME BoundsAssumption == MaxRows \in Nat /\ MaxParts \in Nat \ {0}

VARIABLES
  left,      \* the table passed first
  right,     \* the table passed second
  call,      \* the operator that was called and its other arguments
  output,    \* what it returned
  pageReads  \* pageIOCount

operatorVars == <<left, right, call, output, pageReads>>

Tables == {[n \in DOMAIN keys |-> [key |-> keys[n], payload |-> n]]
             : keys \in BoundedSeq(Keys, MaxRows)}
Parts == 1 .. MaxParts

\* A table cut into pages of at most size rows.
Pages(rows, size) == Pieces(rows, size)

OperatorInit ==
  /\ left \in Tables
  /\ right \in Tables
  /\ call = <<"none">>
  /\ output = <<>>
  /\ pageReads = 0

Returns(op, result) ==
  /\ call = <<"none">>
  /\ call' = op
  /\ output' = result

CallNestedLoopJoin(predicate) ==
  /\ Returns(<<"nested", predicate>>, NestedLoopJoin(left, right, predicate))
  /\ UNCHANGED <<left, right, pageReads>>

CallBlockNestedLoopJoin(predicate, blockSize, pageSize) ==
  LET outer == Pages(left, pageSize)
      inner == Pages(right, pageSize)
  IN  /\ Returns(<<"block", predicate, blockSize, pageSize>>,
                 BlockNestedLoopJoin(outer, inner, predicate, blockSize))
      /\ pageReads' = pageReads + PageReads(outer, inner, blockSize)
      /\ UNCHANGED <<left, right>>

CallIndexNestedLoopJoin ==
  /\ Returns(<<"index", "equal">>, IndexNestedLoopJoin(left, right))
  /\ UNCHANGED <<left, right, pageReads>>

CallHashJoin ==
  /\ Returns(<<"hash", "equal">>, HashJoin(left, right))
  /\ UNCHANGED <<left, right, pageReads>>

CallGraceHashJoin(numPartitions) ==
  /\ Returns(<<"grace", "equal", numPartitions>>, GraceHashJoin(left, right, numPartitions))
  /\ UNCHANGED <<left, right, pageReads>>

\* Both tables are sorted in place.
CallSortMergeJoin ==
  /\ Returns(<<"sortMerge", "equal">>, SortMergeJoin(left, right))
  /\ left' = MergeSort(left)
  /\ right' = MergeSort(right)
  /\ UNCHANGED pageReads

CallAggregate(kind) ==
  /\ Returns(<<"aggregate", kind>>, GetResults(kind, HashTable(kind, left)))
  /\ UNCHANGED <<left, right, pageReads>>

OperatorNext ==
  \/ \E predicate \in Predicates :
       \/ CallNestedLoopJoin(predicate)
       \/ \E blockSize, pageSize \in Parts :
            CallBlockNestedLoopJoin(predicate, blockSize, pageSize)
  \/ CallIndexNestedLoopJoin
  \/ CallHashJoin
  \/ \E numPartitions \in Parts : CallGraceHashJoin(numPartitions)
  \/ CallSortMergeJoin
  \/ \E kind \in Aggregates : CallAggregate(kind)

OperatorSpec == OperatorInit /\ [][OperatorNext]_operatorVars

-----------------------------------------------------------------------------
(* What holds *)

\* "Cost = M + ceil(M/B) N": the inner table is read once per block.
BlockCost(blockSize, pageSize) ==
  LET M == Len(Pages(left, pageSize))
  IN  M + ((M + blockSize - 1) \div blockSize) * Len(Pages(right, pageSize))

\* The rows of a table differ, so that no pair occurs twice in a join.
Emits(pairs) == ToSet(output) = pairs /\ IsInjective(output)

\* Every join emits each pair that its predicate accepts, and as often as the
\* tables contain it, whatever the blocks, the partitions, and the order and
\* multiplicity of keys; the block join does so at its cost.  nestedLoopJoin puts
\* the inner row first, in its pairs and as the argument of the predicate, so
\* that it has the join of a symmetric predicate only.
JoinsMatchDefinition ==
  CASE call = <<"nested", "equal">> -> Emits(Join(right, left, "equal"))
    [] call[1] = "block" ->
         /\ Emits(Join(left, right, call[2]))
         /\ pageReads = BlockCost(call[3], call[4])
    [] call[1] \in {"index", "hash", "grace", "sortMerge"} ->
         Emits(Join(left, right, call[2]))
    [] OTHER -> TRUE

\* sortMergeJoin leaves the caller's two tables sorted, every row once, and
\* rows with the same key in their old order.
SortMergeSortsTables ==
  call[1] = "sortMerge" =>
    \A table \in {left, right} :
      /\ {table[n].payload : n \in DOMAIN table} = DOMAIN table
      /\ \A m, n \in DOMAIN table : m < n =>
           \/ table[m].key < table[n].key
           \/ table[m].key = table[n].key /\ table[m].payload < table[n].payload

\* "one row per distinct key with its aggregate(s)".
GroupsMatchDefinition ==
  call[1] = "aggregate" =>
    ToSet(output) = Groups(call[2], left) /\ Len(output) = Cardinality(ToSet(output))

-----------------------------------------------------------------------------
(* What the source claims and the code does not do *)

\* "outer.key falls within inner's range" (the comment in main, which passes
\* the events first and the ranges second): the range predicate is asked of
\* the outer row and the inner row, in this order.
RangeJoinMatches ==
  call = <<"nested", "range">> =>
    ToSet(output) = {<<pair[2], pair[1]>> : pair \in Join(left, right, "range")}
=============================================================================
