--------------------------- MODULE JoinOperators ---------------------------
(***************************************************************************)
(* The join operators of src/join-practice as functions of their tables.   *)
(*                                                                         *)
(* A table is a sequence of rows and a joined row is a pair <<left,        *)
(* right>>.  Loops are written as sequences of what each turn emits, or as *)
(* recursive functions of the loop's indices.  The rows that an unordered  *)
(* multimap holds under one key come in the order of insertion, which is   *)
(* one of those the library may choose; nothing below depends on it.       *)
(***************************************************************************)
EXTENDS Integers, Sequences, FiniteSets, SequencesExt

CONSTANT WordSize  \* one more than the greatest size_t

ASSUME WordSizeAssumption == WordSize \in Nat \ {0}

\* Definitions named Faulty... are never part of the specification: each is a
\* plausible mistake in the definition that follows it, kept to show that the
\* properties notice it.

\* A predicate a caller passes, over rows or over their keys.
Predicates == {"equal", "range"}

\* "range" is the predicate in the comment of main: a lies in the interval
\* that begins at b, of length 10 there and 2 here.
Holds(predicate, a, b) ==
  CASE predicate = "equal" -> a.key = b.key
    [] predicate = "range" -> a.key >= b.key /\ a.key < b.key + 2

\* What one turn of a loop emits that pushes item under a condition.
When(condition, item) == IF condition THEN <<item>> ELSE <<>>

\* Each row with each of the rows that match it.
Pairs(rows, matches) ==
  FlattenSeq([n \in DOMAIN rows |->
    [m \in DOMAIN matches[n] |-> <<rows[n], matches[n][m]>>]])

Cross(rows, others) == Pairs(rows, [n \in DOMAIN rows |-> others])

\* A sequence cut into pieces of size elements; the last may have fewer.
Pieces(seq, size) ==
  LET pieces[start \in 0 .. Len(seq)] ==
        IF start = Len(seq) THEN <<>>
        ELSE LET end == IF start + size < Len(seq) THEN start + size ELSE Len(seq)
             IN  <<SubSeq(seq, start + 1, end)>> \o pieces[end]
  IN  pieces[0]

-----------------------------------------------------------------------------
(* nested-loop-join-variations.cpp *)

\* The pair is {innerRow, outerRow}, in the predicate and in the result.
NestedLoopJoin(outer, inner, predicate) ==
  FlattenSeq([n \in DOMAIN outer |->
    FlattenSeq([m \in DOMAIN inner |->
      When(Holds(predicate, inner[m], outer[n]), <<inner[m], outer[n]>>)])])

\* blockEnd without the bound M: the last block is dropped if it is not full.
FaultyBlocks(pages, blockSize) ==
  [b \in 1 .. Len(pages) \div blockSize |->
     FlattenSeq(SubSeq(pages, (b - 1) * blockSize + 1, b * blockSize))]
\* The rows of the pages from each blockStart up to blockEnd, which is the
\* next blockStart or M.
Blocks(pages, blockSize) ==
  LET blocks == Pieces(pages, blockSize)
  IN  [b \in DOMAIN blocks |-> FlattenSeq(blocks[b])]

BlockNestedLoopJoin(outer, inner, predicate, blockSize) ==
  LET blocks == Blocks(outer, blockSize)
  IN  FlattenSeq([b \in DOMAIN blocks |->
        FlattenSeq([p \in DOMAIN inner |->
          FlattenSeq([n \in DOMAIN blocks[b] |->
            FlattenSeq([m \in DOMAIN inner[p] |->
              When(Holds(predicate, blocks[b][n], inner[p][m]),
                   <<blocks[b][n], inner[p][m]>>)])])])])

\* What the call adds to pageIOCount.
PageReads(outer, inner, blockSize) ==
  Len(outer) + Len(Blocks(outer, blockSize)) * Len(inner)

\* emplace overwrites: a map in place of the multimap.
FaultyEqualRange(rows, key) ==
  LET range == FlattenSeq([n \in DOMAIN rows |-> When(rows[n].key = key, rows[n])])
  IN  IF range = <<>> THEN range ELSE <<Last(range)>>
\* What equal_range(key) finds in a multimap filled from rows.
EqualRange(rows, key) == FlattenSeq([n \in DOMAIN rows |-> When(rows[n].key = key, rows[n])])

\* Each row of the one side probes the multimap filled from the other.
Probe(rows, others) == Pairs(rows, [n \in DOMAIN rows |-> EqualRange(others, rows[n].key)])

IndexNestedLoopJoin(outer, inner) == Probe(outer, inner)

-----------------------------------------------------------------------------
(* hash-join.cpp *)

HashJoin(probeSide, buildSide) == Probe(probeSide, buildSide)

\* std::hash<int> converts the key to size_t.
Hash(key) == key % WordSize

PartitionRows(rows, numPartitions) ==
  [p \in 1 .. numPartitions |->
     FlattenSeq([n \in DOMAIN rows |-> When(Hash(rows[n].key) % numPartitions = p - 1, rows[n])])]

GraceHashJoin(probeSide, buildSide, numPartitions) ==
  LET probe == PartitionRows(probeSide, numPartitions)
      build == PartitionRows(buildSide, numPartitions)
  IN  FlattenSeq([p \in 1 .. numPartitions |-> Probe(probe[p], build[p])])

-----------------------------------------------------------------------------
(* sort-merge-join.cpp *)

\* The positions i and j of two pointers, past the end included.
Pointers(a, b) == (1 .. Len(a) + 1) \X (1 .. Len(b) + 1)

\* < in place of <=: rows with equal keys change places.
FaultyMerge(a, b) ==
  LET merged[at \in Pointers(a, b)] ==
        LET i == at[1]
            j == at[2]
        IN  IF i > Len(a) THEN SubSeq(b, j, Len(b))
            ELSE IF j > Len(b) THEN SubSeq(a, i, Len(a))
            ELSE IF a[i].key < b[j].key THEN <<a[i]>> \o merged[<<i + 1, j>>]
            ELSE <<b[j]>> \o merged[<<i, j + 1>>]
  IN  merged[<<1, 1>>]
\* Two sorted halves into one; among equal keys the left half comes first.
Merge(a, b) ==
  LET merged[at \in Pointers(a, b)] ==
        LET i == at[1]
            j == at[2]
        IN  IF i > Len(a) THEN SubSeq(b, j, Len(b))
            ELSE IF j > Len(b) THEN SubSeq(a, i, Len(a))
            ELSE IF a[i].key <= b[j].key THEN <<a[i]>> \o merged[<<i + 1, j>>]
            ELSE <<b[j]>> \o merged[<<i, j + 1>>]
  IN  merged[<<1, 1>>]

\* sorted[<<left, right>>] is rows[left, right) in order.
MergeSort(rows) ==
  LET sorted[part \in (0 .. Len(rows)) \X (0 .. Len(rows))] ==
        LET left == part[1]
            right == part[2]
            mid == left + (right - left) \div 2
        IN  IF right - left <= 1 THEN SubSeq(rows, left + 1, right)
            ELSE Merge(sorted[<<left, mid>>], sorted[<<mid, right>>])
  IN  sorted[<<0, Len(rows)>>]

\* The end of the run of equal keys that begins at i.
RunEnd(rows, i) ==
  CHOOSE end \in i + 1 .. Len(rows) + 1 :
    /\ \A k \in i .. end - 1 : rows[k].key = rows[i].key
    /\ end <= Len(rows) => rows[end].key # rows[i].key

\* The pointer loop over two sorted tables; only the first pair of a run.
FaultyMergeJoin(R, S) ==
  LET joined[at \in Pointers(R, S)] ==
        LET i == at[1]
            j == at[2]
        IN  IF i > Len(R) \/ j > Len(S) THEN <<>>
            ELSE IF R[i].key < S[j].key THEN joined[<<i + 1, j>>]
            ELSE IF R[i].key > S[j].key THEN joined[<<i, j + 1>>]
            ELSE <<<<R[i], S[j]>>>> \o joined[<<i + 1, j + 1>>]
  IN  joined[<<1, 1>>]
\* The pointer loop over two sorted tables: the cross product of each pair of
\* runs with one key.
MergeJoin(R, S) ==
  LET joined[at \in Pointers(R, S)] ==
        LET i == at[1]
            j == at[2]
            iEnd == RunEnd(R, i)
            jEnd == RunEnd(S, j)
        IN  IF i > Len(R) \/ j > Len(S) THEN <<>>
            ELSE IF R[i].key < S[j].key THEN joined[<<i + 1, j>>]
            ELSE IF R[i].key > S[j].key THEN joined[<<i, j + 1>>]
            ELSE Cross(SubSeq(R, i, iEnd - 1), SubSeq(S, j, jEnd - 1)) \o joined[<<iEnd, jEnd>>]
  IN  joined[<<1, 1>>]

SortMergeJoin(R, S) == MergeJoin(MergeSort(R), MergeSort(S))

-----------------------------------------------------------------------------
(* The definition of a join *)

\* The pairs of rows of two tables that a predicate accepts.
Join(left, right, predicate) ==
  {pair \in ToSet(left) \X ToSet(right) : Holds(predicate, pair[1], pair[2])}
=============================================================================
