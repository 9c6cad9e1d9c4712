--------------------------- MODULE DatabaseProofs ---------------------------
(***************************************************************************)
(* Theorems about the database programs in C++.  The first part is about   *)
(* QueryOperators, for tables of any length over any set of keys, any      *)
(* pages, blocks and partitions.  The second is about FileIndex, for every *)
(* finite set of inserts, queries and ids, and any calls of Close.         *)
(*                                                                         *)
(* A join is proved through what its loops list: a sequence lists a set if *)
(* it holds every member once and nothing else, concatenations of          *)
(* sequences that list disjoint sets list their union, and so a nest of    *)
(* loops lists the pairs that its conditions let through.  The recursive   *)
(* functions (FlattenSeq, Pieces, Merge, MergeSort, MergeJoin, HashTable,  *)
(* MapThenSumSet) satisfy their equations by the lemma Recursion of        *)
(* SequenceLemmas, and what they compute follows by Induct and             *)
(* InductBelow, on sets of numbers.                                        *)
(***************************************************************************)
EXTENDS QueryOperators, FileIndex, SequenceLemmas

-----------------------------------------------------------------------------
(* Sequences without repetition *)

\* s holds every member of A once and nothing else.
Lists(s, A) == s \in Seq(A) /\ Range(s) = A /\ IsInjective(s)

\* What Lists says, element by element.
LEMMA ListsDef ==
  ASSUME NEW A, NEW s, Lists(s, A)
  PROVE  /\ Len(s) \in Nat /\ DOMAIN s = 1 .. Len(s)
         /\ s \in [1 .. Len(s) -> A]
         /\ \A m \in 1 .. Len(s) : s[m] \in A
         /\ \A x \in A : \E m \in 1 .. Len(s) : s[m] = x
         /\ \A m, n \in 1 .. Len(s) : s[m] = s[n] => m = n
BY DEF Lists, Range, IsInjective

\* An array without repetition that covers A is a sequence that lists A.
LEMMA ListsIntro ==
  ASSUME NEW A, NEW s, NEW N \in Nat, s \in [1 .. N -> A],
         \A x \in A : \E m \in 1 .. N : s[m] = x,
         \A m, n \in 1 .. N : s[m] = s[n] => m = n
  PROVE  Lists(s, A) /\ Len(s) = N
<1>1. s \in Seq(A) /\ Len(s) = N /\ DOMAIN s = 1 .. N
  BY ArrayIsSequence
<1>2. Range(s) = A
  BY <1>1 DEF Range
<1>3. IsInjective(s)
  BY <1>1 DEF IsInjective
<1> QED
  BY <1>1, <1>2, <1>3 DEF Lists

\* The empty sequence lists the empty set.
LEMMA ListsEmpty == Lists(<<>>, {})
BY EmptyElements DEF Lists

\* A sequence of one element lists it.
LEMMA ListsOne == \A x : Lists(<<x>>, {x})
<1> SUFFICES ASSUME NEW x PROVE Lists(<<x>>, {x})
  OBVIOUS
<1>1. /\ <<x>> \in [1 .. 1 -> {x}] /\ 1 \in Nat
      /\ \A y \in {x} : \E m \in 1 .. 1 : <<x>>[m] = y
      /\ \A m, n \in 1 .. 1 : <<x>>[m] = <<x>>[n] => m = n
  OBVIOUS
<1> HIDE DEF Lists
<1> QED
  BY <1>1, ListsIntro

\* Two sequences that list disjoint sets list their union when concatenated.
LEMMA ListsConcat ==
  ASSUME NEW A, NEW B, NEW s, NEW t, Lists(s, A), Lists(t, B), A \cap B = {}
  PROVE  Lists(s \o t, A \cup B) /\ Len(s \o t) = Len(s) + Len(t)
<1> DEFINE u == s \o t
<1>1. s \in Seq(A \cup B) /\ t \in Seq(A \cup B)
  BY SeqMonotonic DEF Lists
<1>2. /\ u \in Seq(A \cup B) /\ Len(u) = Len(s) + Len(t)
      /\ \A i \in 1 .. Len(s) : u[i] = s[i]
      /\ \A i \in Len(s) + 1 .. Len(s) + Len(t) : u[i] = t[i - Len(s)]
  BY <1>1, ConcatProperties
<1>3. Len(s) \in Nat /\ Len(t) \in Nat /\ DOMAIN u = 1 .. Len(s) + Len(t)
  BY <1>1, <1>2, LenProperties
<1> HIDE DEF u
<1>4. u \in [1 .. Len(s) + Len(t) -> A \cup B]
  BY <1>2, <1>3
<1>5. ASSUME NEW x \in A \cup B PROVE \E m \in 1 .. Len(s) + Len(t) : u[m] = x
  <2>1. CASE x \in A
    <3>1. PICK m \in 1 .. Len(s) : s[m] = x
      BY <2>1, ListsDef
    <3> QED
      BY <1>2, <1>3, <3>1
  <2>2. CASE x \in B
    <3>1. PICK m \in 1 .. Len(t) : t[m] = x
      BY <2>2, ListsDef
    <3>2. u[Len(s) + m] = x /\ Len(s) + m \in 1 .. Len(s) + Len(t)
      BY <1>2, <1>3, <3>1
    <3> QED
      BY <3>2
  <2> QED
    BY <1>5, <2>1, <2>2
<1>6. ASSUME NEW m \in 1 .. Len(s) + Len(t), NEW n \in 1 .. Len(s) + Len(t), u[m] = u[n]
      PROVE  m = n
  <2>1. /\ \A i \in 1 .. Len(s) : s[i] \in A
        /\ \A i \in 1 .. Len(t) : t[i] \in B
        /\ \A i, j \in 1 .. Len(s) : s[i] = s[j] => i = j
        /\ \A i, j \in 1 .. Len(t) : t[i] = t[j] => i = j
    BY ListsDef
  <2>2. CASE m <= Len(s) /\ n <= Len(s)
    BY <1>2, <1>3, <1>6, <2>1, <2>2
  <2>3. CASE m > Len(s) /\ n > Len(s)
    <3>1. m - Len(s) \in 1 .. Len(t) /\ n - Len(s) \in 1 .. Len(t)
      BY <1>3, <2>3
    <3>2. t[m - Len(s)] = t[n - Len(s)]
      BY <1>2, <1>3, <1>6, <2>3
    <3> QED
      BY <1>3, <2>1, <3>1, <3>2
  <2>4. CASE m <= Len(s) /\ n > Len(s)
    <3>1. u[m] \in A /\ u[n] \in B
      BY <1>2, <1>3, <2>1, <2>4
    <3> QED
      BY <1>6, <3>1
  <2>5. CASE m > Len(s) /\ n <= Len(s)
    <3>1. m - Len(s) \in 1 .. Len(t) /\ n \in 1 .. Len(s)
      BY <1>3, <2>5
    <3>2. u[m] \in B /\ u[n] \in A
      BY <1>2, <2>1, <2>5, <3>1
    <3> QED
      BY <1>6, <3>2
  <2> QED
    BY <1>3, <2>2, <2>3, <2>4, <2>5
<1>7. Len(s) + Len(t) \in Nat
  BY <1>3
<1>8. Lists(u, A \cup B) /\ Len(u) = Len(s) + Len(t)
  BY <1>4, <1>5, <1>6, <1>7, ListsIntro
<1> QED
  BY <1>8 DEF u

-----------------------------------------------------------------------------
(* Concatenations *)

\* What FlattenSeq computes: the concatenation of the first i sequences is that
\* of the first i - 1 with the i-th.
LEMMA Flatten ==
  ASSUME NEW X, NEW seqs \in Seq(Seq(X)), Len(seqs) # 0
  PROVE  \E flat :
           /\ FlattenSeq(seqs) = flat[Len(seqs)]
           /\ \A i \in 1 .. Len(seqs) : flat[i] = IF i = 1 THEN seqs[i] ELSE flat[i - 1] \o seqs[i]
<1> DEFINE D == 1 .. Len(seqs)
           V == Seq(X)
           Step(d, f) == IF d = 1 THEN seqs[d] ELSE f[d - 1] \o seqs[d]
           size == [d \in D |-> d]
           step == [d \in D |-> [f \in [D -> V] |-> Step(d, f)]]
<1>1. Len(seqs) \in Nat /\ <<>> \in V /\ \A d \in D : seqs[d] \in V
  OBVIOUS
<1>2. size \in [D -> 0 .. Len(seqs)]
  OBVIOUS
<1>3. ASSUME NEW d \in D, NEW f \in [D -> V] PROVE Step(d, f) \in V
  <2>1. CASE d = 1
    BY <1>1, <2>1
  <2>2. CASE d # 1
    <3>0. d - 1 \in D
      BY <1>1, <2>2
    <3>1. f[d - 1] \in Seq(X) /\ seqs[d] \in Seq(X)
      BY <1>1, <3>0
    <3>2. f[d - 1] \o seqs[d] \in Seq(X)
      BY <3>1, ConcatProperties
    <3> QED
      BY <2>2, <3>2
  <2> QED
    BY <2>1, <2>2
<1>4. step \in [D -> [[D -> V] -> V]]
  <2> HIDE DEF Step, D, V
  <2> QED
    BY <1>3
<1>5. Decreases(D, V, Len(seqs), size, step)
  <2> SUFFICES ASSUME NEW d \in D, NEW f \in [D -> V], NEW g \in [D -> V],
                      \A e \in D : size[e] < size[d] => f[e] = g[e]
               PROVE  step[d][f] = step[d][g]
    <3> HIDE DEF D, V, size, step
    <3> QED
      BY <1>1, <1>2, <1>4 DEF Decreases
  <2>1. d # 1 => f[d - 1] = g[d - 1]
    OBVIOUS
  <2>2. Step(d, f) = Step(d, g)
    BY <2>1
  <2> HIDE DEF Step, D, V
  <2> QED
    BY <2>2
<1>6. PICK f \in [D -> V] : \A d \in D : f[d] = Step(d, f)
  <2>1. \E f \in [D -> V] : \A d \in D : f[d] = step[d][f]
    <3> HIDE DEF D, V, size, step
    <3> QED
      BY <1>5, Recursion
  <2> HIDE DEF D, V, Step
  <2> QED
    BY <2>1
<1>7. f = [i \in D |-> IF i = 1 THEN seqs[i] ELSE f[i - 1] \o seqs[i]]
  BY <1>6
<1> DEFINE flat == CHOOSE h : h = [i \in D |-> IF i = 1 THEN seqs[i] ELSE h[i - 1] \o seqs[i]]
<1>8. flat = [i \in D |-> IF i = 1 THEN seqs[i] ELSE flat[i - 1] \o seqs[i]]
  BY <1>7
<1>9. FlattenSeq(seqs) = flat[Len(seqs)]
  BY DEF FlattenSeq
<1> QED
  BY <1>8, <1>9

\* One sequence for each n up to N: seqs[n] lists A[n], and no two share anything.
Splits(N, seqs, A) ==
  /\ N \in Nat
  /\ seqs = [n \in 1 .. N |-> seqs[n]]
  /\ \A n \in 1 .. N : Lists(seqs[n], A[n])
  /\ \A m, n \in 1 .. N : m # n => A[m] \cap A[n] = {}

\* What such sequences list together.
Together(N, A) == UNION {A[n] : n \in 1 .. N}

\* The concatenation of sequences that split a set lists the set.
LEMMA FlattenLists ==
  ASSUME NEW N, NEW seqs, NEW A, Splits(N, seqs, A)
  PROVE  Lists(FlattenSeq(seqs), Together(N, A)) /\ Len(seqs) = N
<1> USE DEF Splits
<1> DEFINE X == Together(N, A)
<1>1. /\ seqs \in Seq(Seq(X)) /\ Len(seqs) = N
  <2>1. ASSUME NEW n \in 1 .. N PROVE seqs[n] \in Seq(X)
    <3>1. A[n] \subseteq X
      BY DEF Together
    <3>2. Lists(seqs[n], A[n])
      OBVIOUS
    <3> QED
      BY <3>1, <3>2, SeqMonotonic DEF Lists
  <2> HIDE DEF X
  <2>2. seqs \in [1 .. N -> Seq(X)]
    BY <2>1
  <2> QED
    BY <2>2, ArrayIsSequence
<1>2. CASE N = 0
  <2>1. seqs = <<>>
    BY <1>1, <1>2, EmptySeq
  <2>2. FlattenSeq(seqs) = <<>>
    BY <1>1, <1>2, <2>1 DEF FlattenSeq
  <2>3. X = {}
    BY <1>2 DEF Together
  <2> QED
    BY <1>1, <2>2, <2>3, ListsEmpty
<1>3. CASE N # 0
  <2>1. PICK flat :
          /\ FlattenSeq(seqs) = flat[N]
          /\ \A i \in 1 .. N : flat[i] = IF i = 1 THEN seqs[i] ELSE flat[i - 1] \o seqs[i]
    <3> HIDE DEF X
    <3> QED
      BY <1>1, <1>3, Flatten
  <2> DEFINE G == {n \in Nat : n + 1 <= N => Lists(flat[n + 1], Together(n + 1, A))}
  <2>2. 0 \in G
    <3>1. Together(0 + 1, A) = A[1]
      BY DEF Together
    <3>2. flat[0 + 1] = seqs[1] /\ Lists(seqs[1], A[1])
      BY <1>3, <2>1
    <3> QED
      BY <3>1, <3>2
  <2>3. ASSUME NEW n \in G PROVE n + 1 \in G
    <3> SUFFICES ASSUME (n + 1) + 1 <= N PROVE Lists(flat[n + 2], Together(n + 2, A))
      OBVIOUS
    <3>1. Lists(flat[n + 1], Together(n + 1, A))
      OBVIOUS
    <3>2. n + 2 \in 1 .. N /\ (n + 2) - 1 = n + 1 /\ n + 2 # 1
      OBVIOUS
    <3>3. flat[n + 2] = flat[n + 1] \o seqs[n + 2]
      BY <2>1, <3>2
    <3>4. Lists(seqs[n + 2], A[n + 2])
      BY <3>2
    <3>5. Together(n + 1, A) \cap A[n + 2] = {}
      BY <3>2 DEF Together
    <3>6. Together(n + 2, A) = Together(n + 1, A) \cup A[n + 2]
      <4>1. 1 .. (n + 2) = 1 .. (n + 1) \cup {n + 2}
        BY <3>2
      <4> QED
        BY <4>1 DEF Together
    <3> QED
      BY <3>1, <3>3, <3>4, <3>5, <3>6, ListsConcat
  <2> HIDE DEF G
  <2>4. G = Nat
    <3>1. G \in SUBSET Nat
      BY DEF G
    <3> QED
      BY <2>2, <2>3, <3>1, Induct
  <2>5. N - 1 \in G
    BY <1>3, <2>4
  <2>6. Lists(flat[N], Together(N, A))
    BY <1>3, <2>5 DEF G
  <2> QED
    BY <1>1, <2>1, <2>6
<1> QED
  BY <1>2, <1>3

\* seqs[n] lists those members p of P of which n is of[p].
Slices(P, N, of, seqs) ==
  /\ N \in Nat
  /\ of \in [P -> 1 .. N]
  /\ seqs = [n \in 1 .. N |-> seqs[n]]
  /\ \A n \in 1 .. N : Lists(seqs[n], {p \in P : of[p] = n})

\* The concatenation of such slices lists P.
LEMMA SlicesList ==
  ASSUME NEW P, NEW N, NEW of, NEW seqs, Slices(P, N, of, seqs)
  PROVE  Lists(FlattenSeq(seqs), P)
<1> DEFINE A == [n \in 1 .. N |-> {p \in P : of[p] = n}]
<1>1. Splits(N, seqs, A)
  BY DEF Slices, Splits
<1>2. Together(N, A) = P
  BY DEF Slices, Together
<1> HIDE DEF A
<1> QED
  BY <1>1, <1>2, FlattenLists

\* A loop that emits item[n] in those turns that are kept.
Emitting(N, seqs, kept, item) ==
  /\ N \in Nat
  /\ kept \subseteq 1 .. N
  /\ seqs = [n \in 1 .. N |-> When(n \in kept, item[n])]
  /\ \A m, n \in kept : item[m] = item[n] => m = n

\* What such a loop emits lists the items of the turns that are kept.
LEMMA EmittedLists ==
  ASSUME NEW N, NEW seqs, NEW kept, NEW item, Emitting(N, seqs, kept, item)
  PROVE  Lists(FlattenSeq(seqs), {item[n] : n \in kept})
<1> DEFINE A == [n \in 1 .. N |-> IF n \in kept THEN {item[n]} ELSE {}]
<1>1. ASSUME NEW n \in 1 .. N PROVE Lists(seqs[n], A[n])
  <2>1. CASE n \in kept
    <3>1. seqs[n] = <<item[n]>> /\ A[n] = {item[n]}
      BY <2>1 DEF Emitting, When
    <3> QED
      BY <3>1, ListsOne
  <2>2. CASE n \notin kept
    <3>1. seqs[n] = <<>> /\ A[n] = {}
      BY <2>2 DEF Emitting, When
    <3> QED
      BY <3>1, ListsEmpty
  <2> QED
    BY <2>1, <2>2
<1>2. \A m, n \in 1 .. N : m # n => A[m] \cap A[n] = {}
  BY DEF Emitting
<1>3. Together(N, A) = {item[n] : n \in kept}
  BY DEF Emitting, Together
<1>4. N \in Nat /\ seqs = [n \in 1 .. N |-> seqs[n]]
  BY DEF Emitting
<1> HIDE DEF A
<1>5. Splits(N, seqs, A)
  BY <1>1, <1>2, <1>4 DEF Splits
<1> QED
  BY <1>3, <1>5, FlattenLists

\* Two sequences that list the same have the same length.
LEMMA ListsSameLength ==
  ASSUME NEW A, NEW s, NEW t, Lists(s, A), Lists(t, A)
  PROVE  Len(s) = Len(t)
<1>1. ASSUME NEW u, Lists(u, A) PROVE Len(u) \in Nat /\ Cardinality(A) = Len(u)
  <2>1. /\ Len(u) \in Nat /\ u \in [1 .. Len(u) -> A]
        /\ \A x \in A : \E m \in 1 .. Len(u) : u[m] = x
        /\ \A m, n \in 1 .. Len(u) : u[m] = u[n] => m = n
    BY <1>1, ListsDef
  <2>2. u \in Bijection(1 .. Len(u), A)
    BY <2>1 DEF Bijection, Injection, Surjection, IsInjective
  <2>3. ExistsBijection(1 .. Len(u), A)
    BY <2>2 DEF ExistsBijection
  <2> QED
    BY <2>1, <2>3, FS_CountingElements
<1> QED
  BY <1>1

-----------------------------------------------------------------------------
(* Pieces of sequences *)

\* Division that rounds up, piece by piece.
LEMMA RoundedUp ==
  ASSUME NEW size \in Nat \ {0}, NEW rest \in Nat
  PROVE  /\ rest = 0 => (rest + size - 1) \div size = 0
         /\ rest \in 1 .. size => (rest + size - 1) \div size = 1
         /\ rest > size =>
              (rest + size - 1) \div size = 1 + ((rest - size) + size - 1) \div size
<1>1. rest = 0 => (rest + size - 1) \div size = 0
  BY SMT
<1>2. rest \in 1 .. size => (rest + size - 1) \div size = 1
  BY SMT
<1>3. rest > size =>
        (rest + size - 1) \div size = 1 + ((rest - size) + size - 1) \div size
  BY SMT
<1> QED
  BY <1>1, <1>2, <1>3

\* A part of a sequence without repetition.
LEMMA SubSeqLists ==
  ASSUME NEW X, NEW seq, Lists(seq, X), NEW m \in Nat, NEW n \in m .. Len(seq)
  PROVE  Lists(SubSeq(seq, m + 1, n), {seq[k] : k \in m + 1 .. n})
<1> DEFINE t == SubSeq(seq, m + 1, n)
<1>1. /\ Len(seq) \in Nat /\ seq \in [1 .. Len(seq) -> X]
      /\ \A i, j \in 1 .. Len(seq) : seq[i] = seq[j] => i = j
  BY ListsDef
<1>2. t = [i \in 1 .. n - m |-> seq[i + m]]
  <2>1. t = [i \in 1 .. ((n - (m + 1)) + 1) |-> seq[(i + (m + 1)) - 1]]
    BY <1>1, SMT
  <2> QED
    BY <1>1, <2>1
<1> HIDE DEF t
<1>3. /\ n - m \in Nat
      /\ t \in [1 .. n - m -> {seq[k] : k \in m + 1 .. n}]
  BY <1>1, <1>2
<1>4. ASSUME NEW x \in {seq[k] : k \in m + 1 .. n} PROVE \E i \in 1 .. n - m : t[i] = x
  <2>1. PICK k \in m + 1 .. n : seq[k] = x
    BY <1>4
  <2>2. k - m \in 1 .. n - m /\ t[k - m] = x
    BY <1>1, <1>2, <2>1
  <2> QED
    BY <2>2
<1>5. \A i, j \in 1 .. n - m : t[i] = t[j] => i = j
  BY <1>1, <1>2
<1>6. Lists(t, {seq[k] : k \in m + 1 .. n})
  BY <1>3, <1>4, <1>5, ListsIntro
<1> QED
  BY <1>6 DEF t

\* One more sequence in front of those that split a set.
LEMMA SplitsMore ==
  ASSUME NEW B, NEW s, Lists(s, B), NEW N, NEW p, NEW A, Splits(N, p, A),
         B \cap Together(N, A) = {}
  PROVE  \E C : /\ C = [n \in 1 .. N + 1 |-> IF n = 1 THEN B ELSE A[n - 1]]
                /\ Splits(N + 1, <<s>> \o p, C)
                /\ Together(N + 1, C) = B \cup Together(N, A)
<1> DEFINE q == <<s>> \o p
           C == [n \in 1 .. N + 1 |-> IF n = 1 THEN B ELSE A[n - 1]]
<1>1. N \in Nat /\ p = [n \in 1 .. N |-> p[n]]
  BY DEF Splits
<1>2. q = [n \in 1 .. N + 1 |-> IF n = 1 THEN s ELSE p[n - 1]]
  <2>1. p \in Seq(Range(p)) /\ Len(p) = N
    <3>1. p \in [1 .. N -> Range(p)]
      BY <1>1 DEF Range
    <3> QED
      BY <1>1, <3>1, ArrayIsSequence
  <2> DEFINE X == Range(p) \cup {s}
  <2>2. p \in Seq(X) /\ <<s>> \in Seq(X) /\ Len(<<s>>) = 1 /\ <<s>>[1] = s
    BY <2>1, SeqMonotonic
  <2> HIDE DEF X
  <2>3. /\ q \in Seq(X) /\ Len(q) = 1 + N
        /\ \A i \in 1 .. 1 : q[i] = <<s>>[i]
        /\ \A i \in 1 + 1 .. 1 + N : q[i] = p[i - 1]
    BY <2>1, <2>2, ConcatProperties
  <2>4. q = [n \in 1 .. N + 1 |-> q[n]]
    BY <1>1, <2>3
  <2> QED
    BY <1>1, <2>2, <2>3, <2>4
<1>3. ASSUME NEW n \in 1 .. N + 1 PROVE Lists(q[n], C[n])
  <2>1. CASE n = 1
    BY <1>2, <2>1
  <2>2. CASE n # 1
    <3>1. n - 1 \in 1 .. N
      BY <1>1, <2>2
    <3>2. Lists(p[n - 1], A[n - 1])
      BY <3>1 DEF Splits
    <3> QED
      BY <1>2, <2>2, <3>2
  <2> QED
    BY <2>1, <2>2
<1>4. ASSUME NEW m \in 1 .. N + 1, NEW n \in 1 .. N + 1, m # n PROVE C[m] \cap C[n] = {}
  <2>1. \A k \in 1 .. N : A[k] \cap B = {}
    BY DEF Together
  <2>2. \A k, l \in 1 .. N : k # l => A[k] \cap A[l] = {}
    BY DEF Splits
  <2>3. CASE m = 1
    <3>1. n - 1 \in 1 .. N /\ n # 1
      BY <1>1, <1>4, <2>3
    <3> QED
      BY <2>1, <2>3, <3>1
  <2>4. CASE n = 1
    <3>1. m - 1 \in 1 .. N /\ m # 1
      BY <1>1, <1>4, <2>4
    <3> QED
      BY <2>1, <2>4, <3>1
  <2>5. CASE m # 1 /\ n # 1
    <3>1. m - 1 \in 1 .. N /\ n - 1 \in 1 .. N /\ m - 1 # n - 1
      BY <1>1, <1>4, <2>5
    <3> QED
      BY <2>2, <2>5, <3>1
  <2> QED
    BY <2>3, <2>4, <2>5
<1>5. Together(N + 1, C) = B \cup Together(N, A)
  <2>1. ASSUME NEW x \in Together(N + 1, C) PROVE x \in B \cup Together(N, A)
    <3>1. PICK n \in 1 .. N + 1 : x \in C[n]
      BY DEF Together
    <3>2. n = 1 \/ n - 1 \in 1 .. N
      BY <1>1
    <3> QED
      BY <3>1, <3>2 DEF Together
  <2>2. ASSUME NEW x \in B PROVE x \in Together(N + 1, C)
    <3>1. 1 \in 1 .. N + 1 /\ x \in C[1]
      BY <1>1, <2>2
    <3> QED
      BY <3>1 DEF Together
  <2>3. ASSUME NEW x \in Together(N, A) PROVE x \in Together(N + 1, C)
    <3>1. PICK n \in 1 .. N : x \in A[n]
      BY DEF Together
    <3>2. n + 1 \in 1 .. N + 1 /\ x \in C[n + 1]
      BY <1>1, <3>1
    <3> QED
      BY <3>2 DEF Together
  <2> QED
    BY <2>1, <2>2, <2>3
<1>6. N + 1 \in Nat /\ q = [n \in 1 .. N + 1 |-> q[n]]
  BY <1>1, <1>2
<1> HIDE DEF q
<1>7. Splits(N + 1, q, C)
  <2> HIDE DEF C
  <2> QED
    BY <1>3, <1>4, <1>6 DEF Splits
<1> QED
  BY <1>5, <1>7 DEF q

\* Where the piece that begins at start ends.
PieceEnd(seq, size, start) == IF start + size < Len(seq) THEN start + size ELSE Len(seq)

\* What Pieces computes: the pieces from start on are the one that begins there
\* and those from its end on.
LEMMA PiecesFrom ==
  ASSUME NEW X, NEW seq \in Seq(X), NEW size \in Nat \ {0}
  PROVE  \E pieces :
           /\ Pieces(seq, size) = pieces[0]
           /\ \A start \in 0 .. Len(seq) :
                pieces[start] =
                  IF start = Len(seq) THEN <<>>
                  ELSE <<SubSeq(seq, start + 1, PieceEnd(seq, size, start))>>
                         \o pieces[PieceEnd(seq, size, start)]
<1> DEFINE L == Len(seq)
           D == 0 .. L
           V == Seq(Seq(X))
           End(d) == IF d + size < Len(seq) THEN d + size ELSE Len(seq)
           Step(d, f) == IF d = L THEN <<>> ELSE <<SubSeq(seq, d + 1, End(d))>> \o f[End(d)]
           rest == [d \in D |-> L - d]
           step == [d \in D |-> [f \in [D -> V] |-> Step(d, f)]]
<1>1. L \in Nat /\ <<>> \in V /\ rest \in [D -> 0 .. L]
  <2>1. L \in Nat /\ <<>> \in V
    OBVIOUS
  <2>2. \A d \in 0 .. L : L - d \in 0 .. L
    BY <2>1
  <2> QED
    BY <2>1, <2>2
<1>2. ASSUME NEW d \in D, d # L PROVE End(d) \in D /\ End(d) > d /\ rest[End(d)] < rest[d]
  <2>1. End(d) \in D /\ End(d) > d
    BY <1>1, <1>2
  <2> QED
    BY <1>1, <2>1
<1> HIDE DEF End
<1>3. ASSUME NEW d \in D, NEW f \in [D -> V] PROVE Step(d, f) \in V
  <2>1. CASE d = L
    BY <1>1, <2>1
  <2>2. CASE d # L
    <3>1. End(d) \in D
      BY <1>2, <2>2
    <3>2. SubSeq(seq, d + 1, End(d)) \in Seq(X)
      BY <1>1, <3>1, SubSeqProperties
    <3>3. <<SubSeq(seq, d + 1, End(d))>> \in Seq(Seq(X)) /\ f[End(d)] \in Seq(Seq(X))
      BY <3>1, <3>2
    <3>4. <<SubSeq(seq, d + 1, End(d))>> \o f[End(d)] \in Seq(Seq(X))
      BY <3>3, ConcatProperties
    <3> QED
      BY <2>2, <3>4
  <2> QED
    BY <2>1, <2>2
<1>4. step \in [D -> [[D -> V] -> V]]
  <2> HIDE DEF Step, D, V
  <2> QED
    BY <1>3
<1>5. Decreases(D, V, L, rest, step)
  <2> SUFFICES ASSUME NEW d \in D, NEW f \in [D -> V], NEW g \in [D -> V],
                      \A e \in D : rest[e] < rest[d] => f[e] = g[e]
               PROVE  step[d][f] = step[d][g]
    <3> HIDE DEF D, V, L, rest, step
    <3> QED
      BY <1>1, <1>4 DEF Decreases
  <2>1. d # L => f[End(d)] = g[End(d)]
    BY <1>2
  <2>2. Step(d, f) = Step(d, g)
    BY <2>1
  <2> HIDE DEF Step, D, V
  <2> QED
    BY <2>2
<1>6. PICK f \in [D -> V] : \A d \in D : f[d] = Step(d, f)
  <2>1. \E f \in [D -> V] : \A d \in D : f[d] = step[d][f]
    <3> HIDE DEF D, V, L, rest, step
    <3> QED
      BY <1>5, Recursion
  <2> HIDE DEF D, V, Step
  <2> QED
    BY <2>1
<1>7. f = [start \in 0 .. Len(seq) |->
             IF start = Len(seq) THEN <<>>
             ELSE <<SubSeq(seq, start + 1, End(start))>> \o f[End(start)]]
  BY <1>6
<1> DEFINE pieces == CHOOSE h : h = [start \in 0 .. Len(seq) |->
             IF start = Len(seq) THEN <<>>
             ELSE <<SubSeq(seq, start + 1, End(start))>> \o h[End(start)]]
<1>8. pieces = [start \in 0 .. Len(seq) |->
             IF start = Len(seq) THEN <<>>
             ELSE <<SubSeq(seq, start + 1, End(start))>> \o pieces[End(start)]]
  BY <1>7
<1>9. Pieces(seq, size) = pieces[0]
  BY DEF Pieces, End
<1>10. \A start \in D : End(start) = PieceEnd(seq, size, start)
  BY DEF End, PieceEnd
<1> QED
  <2> HIDE DEF pieces
  <2> QED
    BY <1>8, <1>9, <1>10

\* N sequences, none of them empty, that split R: pages[n] lists A[n].
Paged(pages, N, A, R) ==
  /\ Splits(N, pages, A)
  /\ Together(N, A) = R
  /\ \A n \in 1 .. N : A[n] # {}

\* The pieces of a sequence without repetition split its elements, and there are
\* as many as its length divided by their size, rounded up.
LEMMA PiecesSplit ==
  ASSUME NEW X, NEW seq, Lists(seq, X), NEW size \in Nat \ {0}
  PROVE  /\ \E A : Paged(Pieces(seq, size), (Len(seq) + size - 1) \div size, A, X)
         /\ Len(Pieces(seq, size)) = (Len(seq) + size - 1) \div size
<1> DEFINE L == Len(seq)
           From(start) == {seq[k] : k \in start + 1 .. L}
           Turns(start) == ((L - start) + size - 1) \div size
           End(start) == PieceEnd(seq, size, start)
<1>1. /\ L \in Nat /\ seq \in [1 .. L -> X] /\ seq \in Seq(X)
      /\ \A x \in X : \E m \in 1 .. L : seq[m] = x
      /\ \A m, n \in 1 .. L : seq[m] = seq[n] => m = n
  BY ListsDef DEF Lists
<1>2. PICK pieces :
        /\ Pieces(seq, size) = pieces[0]
        /\ \A start \in 0 .. L :
             pieces[start] = IF start = L THEN <<>>
                             ELSE <<SubSeq(seq, start + 1, End(start))>> \o pieces[End(start)]
  BY <1>1, PiecesFrom
<1> DEFINE Good(start) ==
      \E A : /\ Splits(Turns(start), pieces[start], A) /\ Together(Turns(start), A) = From(start)
             /\ \A n \in 1 .. Turns(start) : A[n] # {}
           G == {n \in Nat : n <= L => Good(L - n)}
<1>3. ASSUME NEW start \in 0 .. L, start = L \/ Good(End(start)) PROVE Good(start)
  <2>1. CASE start = L
    <3>1. Turns(start) = 0
      BY <1>1, <2>1, RoundedUp
    <3>2. From(start) = {} /\ pieces[start] = <<>>
      <4>1. pieces[start] = <<>>
        BY <1>2, <2>1
      <4>2. start + 1 .. L = {}
        BY <1>1, <2>1
      <4> QED
        BY <4>1, <4>2
    <3>3. <<>> = [n \in 1 .. 0 |-> <<>>[n]]
      OBVIOUS
    <3>4. Splits(0, <<>>, <<>>) /\ Together(0, <<>>) = {} /\ 1 .. 0 = {}
      BY <3>3 DEF Splits, Together
    <3> QED
      BY <3>1, <3>2, <3>4
  <2>2. CASE start # L
    <3>1. /\ End(start) \in start + 1 .. L
          /\ End(start) = IF L - start > size THEN start + size ELSE L
      BY <1>1, <2>2 DEF PieceEnd
    <3> HIDE DEF End
    <3>2. PICK A : /\ Splits(Turns(End(start)), pieces[End(start)], A)
                   /\ Together(Turns(End(start)), A) = From(End(start))
                   /\ \A n \in 1 .. Turns(End(start)) : A[n] # {}
      BY <1>3, <2>2
    <3> DEFINE s == SubSeq(seq, start + 1, End(start))
               B == {seq[k] : k \in start + 1 .. End(start)}
    <3>3. Lists(s, B)
      <4>1. start \in Nat /\ End(start) \in start .. L
        BY <1>1, <3>1
      <4> QED
        BY <4>1, SubSeqLists
    <3>4. B \cap From(End(start)) = {} /\ B \cup From(End(start)) = From(start)
      <4>1. ASSUME NEW k \in start + 1 .. End(start), NEW l \in End(start) + 1 .. L
            PROVE  k \in 1 .. L /\ l \in 1 .. L /\ k # l
        <5>1. start \in Nat /\ End(start) \in Nat /\ End(start) <= L
          BY <1>1, <3>1
        <5> HIDE DEF L
        <5> QED
          BY <1>1, <5>1
      <4>2. start + 1 .. L = (start + 1 .. End(start)) \cup (End(start) + 1 .. L)
        BY <1>1, <3>1
      <4>3. B \cap From(End(start)) = {}
        BY <1>1, <4>1
      <4>4. B \cup From(End(start)) = From(start)
        BY <4>2
      <4> QED
        BY <4>3, <4>4
    <3>5. Turns(start) = Turns(End(start)) + 1
      <4>1. CASE L - start > size
        <5>1. L - start \in Nat /\ End(start) = start + size
          BY <1>1, <3>1, <4>1
        <5>2. ((L - start) + size - 1) \div size
                = 1 + (((L - start) - size) + size - 1) \div size
          BY <4>1, <5>1, RoundedUp
        <5>3. L - End(start) = (L - start) - size
          BY <1>1, <5>1
        <5>4. ((L - start) - size + size - 1) \div size \in Int
          BY <1>1, SMT
        <5> QED
          BY <5>2, <5>3, <5>4
      <4>2. CASE ~ (L - start > size)
        <5>1. L - start \in 1 .. size /\ End(start) = L /\ L - End(start) = 0
          BY <1>1, <2>2, <3>1, <4>2
        <5>2. Turns(start) = 1
          <6>1. L - start \in Nat
            BY <5>1
          <6> QED
            BY <5>1, <6>1, RoundedUp
        <5>3. Turns(End(start)) = 0
          BY <5>1, RoundedUp
        <5> QED
          BY <5>2, <5>3
      <4> QED
        BY <4>1, <4>2
    <3>6. pieces[start] = <<s>> \o pieces[End(start)]
      BY <1>2, <2>2
    <3>7. seq[start + 1] \in B
      BY <1>1, <3>1
    <3> HIDE DEF s, B, Turns, From
    <3> DEFINE N == Turns(End(start))
    <3>8. PICK C : /\ C = [n \in 1 .. N + 1 |-> IF n = 1 THEN B ELSE A[n - 1]]
                   /\ Splits(N + 1, <<s>> \o pieces[End(start)], C)
                   /\ Together(N + 1, C) = B \cup From(End(start))
      BY <3>2, <3>3, <3>4, SplitsMore
    <3>9. \A n \in 1 .. N + 1 : C[n] # {}
      <4>1. N \in Nat
        BY <3>2 DEF Splits
      <4>2. ASSUME NEW n \in 1 .. N + 1, n # 1 PROVE C[n] # {}
        <5>1. n - 1 \in 1 .. N
          BY <4>1, <4>2
        <5> QED
          BY <3>2, <3>8, <4>2, <5>1
      <4> QED
        BY <3>7, <3>8, <4>2
    <3> QED
      BY <3>4, <3>5, <3>6, <3>8, <3>9
  <2> QED
    BY <2>1, <2>2
<1>4. ASSUME NEW n \in Nat, \A m \in 0 .. n - 1 : m \in G PROVE n \in G
  <2> SUFFICES ASSUME n <= L PROVE Good(L - n)
    OBVIOUS
  <2>1. L - n \in 0 .. L
    BY <1>1
  <2>2. ASSUME L - n # L PROVE Good(End(L - n))
    <3>1. End(L - n) \in (L - n) + 1 .. L
      BY <1>1, <2>2 DEF PieceEnd
    <3> HIDE DEF End, Good
    <3> DEFINE m == L - End(L - n)
    <3>2. m \in 0 .. n - 1 /\ m <= L /\ L - m = End(L - n)
      BY <1>1, <3>1
    <3> HIDE DEF m
    <3>3. Good(L - m)
      BY <1>1, <1>4, <3>2
    <3> QED
      BY <3>2, <3>3
  <2> HIDE DEF Good, End
  <2> QED
    BY <1>3, <2>1, <2>2
<1>5. G = Nat
  <2>1. G \in SUBSET Nat
    OBVIOUS
  <2> HIDE DEF G
  <2> QED
    BY <1>4, <2>1, InductBelow
<1>6. Good(0)
  <2>1. L \in G
    BY <1>1, <1>5
  <2>2. L - L = 0
    BY <1>1
  <2> HIDE DEF Good
  <2> QED
    BY <2>1, <2>2
<1>7. From(0) = X /\ Turns(0) = (L + size - 1) \div size
  BY <1>1
<1>8. PICK A : /\ Splits(Turns(0), pieces[0], A) /\ Together(Turns(0), A) = From(0)
               /\ \A n \in 1 .. Turns(0) : A[n] # {}
  BY <1>6
<1> HIDE DEF Turns, From
<1>9. Len(pieces[0]) = Turns(0)
  BY <1>8, FlattenLists
<1>10. Paged(pieces[0], Turns(0), A, X)
  BY <1>7, <1>8 DEF Paged
<1> QED
  BY <1>2, <1>7, <1>9, <1>10

-----------------------------------------------------------------------------
(* Loops over rows *)

\* The join of two sets of rows.
JoinOf(A, B, predicate) == {pair \in A \X B : Holds(predicate, pair[1], pair[2])}

\* The elements of a sequence that lists A are those of A.
LEMMA ListsSet ==
  ASSUME NEW A, NEW s, Lists(s, A)
  PROVE  ToSet(s) = A
<1>1. DOMAIN s = 1 .. Len(s) /\ s \in [1 .. Len(s) -> A] /\ \A x \in A : \E m \in 1 .. Len(s) : s[m] = x
  BY ListsDef
<1> QED
  BY <1>1 DEF ToSet

\* seqs[n] lists those members p of P of which row[p] is the n-th of rows.
ByRow(P, row, rows, R, seqs) ==
  /\ Lists(rows, R)
  /\ row \in [P -> R]
  /\ seqs = [n \in 1 .. Len(rows) |-> seqs[n]]
  /\ \A n \in 1 .. Len(rows) : Lists(seqs[n], {p \in P : row[p] = rows[n]})

\* A loop over rows whose turns emit the pairs of their row emits every pair once.
LEMMA ByRowLists ==
  ASSUME NEW P, NEW row, NEW rows, NEW R, NEW seqs, ByRow(P, row, rows, R, seqs)
  PROVE  Lists(FlattenSeq(seqs), P)
<1> DEFINE N == Len(rows)
           of == [p \in P |-> CHOOSE n \in 1 .. N : rows[n] = row[p]]
<1>1. /\ Lists(rows, R) /\ row \in [P -> R] /\ seqs = [n \in 1 .. N |-> seqs[n]]
      /\ \A n \in 1 .. N : Lists(seqs[n], {p \in P : row[p] = rows[n]})
  BY DEF ByRow
<1>2. /\ N \in Nat
      /\ \A x \in R : \E n \in 1 .. N : rows[n] = x
      /\ \A m, n \in 1 .. N : rows[m] = rows[n] => m = n
  BY <1>1, ListsDef
<1>3. \A p \in P : of[p] \in 1 .. N /\ rows[of[p]] = row[p]
  BY <1>1, <1>2
<1>4. of \in [P -> 1 .. N]
  BY <1>3
<1> HIDE DEF of
<1>5. ASSUME NEW n \in 1 .. N PROVE Lists(seqs[n], {p \in P : of[p] = n})
  <2>1. {p \in P : of[p] = n} = {p \in P : row[p] = rows[n]}
    BY <1>2, <1>3
  <2> QED
    BY <1>1, <2>1
<1>6. Slices(P, N, of, seqs)
  BY <1>1, <1>2, <1>4, <1>5 DEF Slices
<1> QED
  BY <1>6, SlicesList

\* A row paired with every row of a sequence.
LEMMA OnePairs ==
  ASSUME NEW x, NEW S, NEW s, Lists(s, S)
  PROVE  Lists([m \in DOMAIN s |-> <<x, s[m]>>], {x} \X S)
<1> DEFINE t == [m \in DOMAIN s |-> <<x, s[m]>>]
<1>1. /\ Len(s) \in Nat /\ DOMAIN s = 1 .. Len(s) /\ s \in [1 .. Len(s) -> S]
      /\ \A y \in S : \E m \in 1 .. Len(s) : s[m] = y
      /\ \A m, n \in 1 .. Len(s) : s[m] = s[n] => m = n
  BY ListsDef
<1>2. t \in [1 .. Len(s) -> {x} \X S]
  BY <1>1
<1>3. ASSUME NEW p \in {x} \X S PROVE \E m \in 1 .. Len(s) : t[m] = p
  <2>1. PICK y \in S : p = <<x, y>>
    OBVIOUS
  <2> QED
    BY <1>1, <2>1
<1>4. \A m, n \in 1 .. Len(s) : t[m] = t[n] => m = n
  BY <1>1
<1> HIDE DEF t
<1>5. Lists(t, {x} \X S)
  BY <1>1, <1>2, <1>3, <1>4, ListsIntro
<1> QED
  BY <1>5 DEF t

\* The loop over others for one row: those in kept are emitted.
LEMMA ScanLists ==
  ASSUME NEW B, NEW others, Lists(others, B), NEW kept \in SUBSET B,
         NEW seqs, seqs = [m \in DOMAIN others |-> When(others[m] \in kept, others[m])]
  PROVE  Lists(FlattenSeq(seqs), kept)
<1> DEFINE N == Len(others)
           turns == {m \in 1 .. N : others[m] \in kept}
<1>1. /\ N \in Nat /\ DOMAIN others = 1 .. N
      /\ \A x \in B : \E n \in 1 .. N : others[n] = x
      /\ \A m, n \in 1 .. N : others[m] = others[n] => m = n
  BY ListsDef
<1>2. seqs = [m \in 1 .. N |-> When(m \in turns, others[m])]
  BY <1>1 DEF When
<1>3. Emitting(N, seqs, turns, others)
  BY <1>1, <1>2 DEF Emitting
<1>4. {others[m] : m \in turns} = kept
  BY <1>1
<1> HIDE DEF turns
<1> QED
  BY <1>3, <1>4, EmittedLists

\* equal_range finds the rows with the key.
LEMMA EqualRangeLists ==
  ASSUME NEW R, NEW rows, Lists(rows, R), NEW key
  PROVE  Lists(EqualRange(rows, key), {r \in R : r.key = key})
<1> DEFINE seqs == [n \in DOMAIN rows |-> When(rows[n].key = key, rows[n])]
           kept == {r \in R : r.key = key}
<1>1. DOMAIN rows = 1 .. Len(rows) /\ \A n \in DOMAIN rows : rows[n] \in R
  BY ListsDef
<1>2. seqs = [m \in DOMAIN rows |-> When(rows[m] \in kept, rows[m])]
  BY <1>1 DEF When
<1>3. kept \in SUBSET R
  OBVIOUS
<1> HIDE DEF kept, seqs
<1>4. Lists(FlattenSeq(seqs), kept)
  BY <1>2, <1>3, ScanLists
<1> QED
  BY <1>4 DEF seqs, kept, EqualRange

\* Every row with its matches.
LEMMA PairsLists ==
  ASSUME NEW A, NEW B, NEW rows, Lists(rows, A), NEW P \in SUBSET (A \X B), NEW matches,
         \A n \in DOMAIN rows : Lists(matches[n], {y \in B : <<rows[n], y>> \in P})
  PROVE  Lists(Pairs(rows, matches), P)
<1> DEFINE seqs == [n \in DOMAIN rows |-> [m \in DOMAIN matches[n] |-> <<rows[n], matches[n][m]>>]]
           row == [p \in P |-> p[1]]
<1>1. DOMAIN rows = 1 .. Len(rows) /\ \A n \in 1 .. Len(rows) : rows[n] \in A
  BY ListsDef
<1>2. row \in [P -> A]
  OBVIOUS
<1>3. ASSUME NEW n \in 1 .. Len(rows)
      PROVE  Lists(seqs[n], {p \in P : row[p] = rows[n]})
  <2> DEFINE S == {y \in B : <<rows[n], y>> \in P}
  <2>1. Lists(matches[n], S)
    BY <1>1
  <2>2. {rows[n]} \X S = {p \in P : row[p] = rows[n]}
    <3>1. ASSUME NEW p \in {rows[n]} \X S PROVE p \in P /\ row[p] = rows[n]
      OBVIOUS
    <3>2. ASSUME NEW p \in P, row[p] = rows[n] PROVE p \in {rows[n]} \X S
      <4>1. p[1] = rows[n] /\ p[2] \in B /\ p = <<p[1], p[2]>>
        BY <3>2
      <4>2. p[2] \in S
        BY <4>1
      <4> HIDE DEF S
      <4> QED
        BY <4>1, <4>2
    <3> HIDE DEF S
    <3> QED
      BY <3>1, <3>2
  <2> HIDE DEF S
  <2>3. Lists([m \in DOMAIN matches[n] |-> <<rows[n], matches[n][m]>>], {rows[n]} \X S)
    BY <2>1, OnePairs
  <2>4. seqs[n] = [m \in DOMAIN matches[n] |-> <<rows[n], matches[n][m]>>]
    BY <1>1
  <2> QED
    BY <2>2, <2>3, <2>4
<1>4. seqs = [n \in 1 .. Len(rows) |-> seqs[n]]
  BY <1>1
<1> HIDE DEF seqs, row
<1>5. ByRow(P, row, rows, A, seqs)
  BY <1>2, <1>3, <1>4 DEF ByRow
<1>6. Lists(FlattenSeq(seqs), P)
  BY <1>5, ByRowLists
<1> QED
  BY <1>6 DEF seqs, Pairs

\* Probing finds the pairs with equal keys.
LEMMA ProbeLists ==
  ASSUME NEW A, NEW B, NEW rows, Lists(rows, A), NEW others, Lists(others, B)
  PROVE  Lists(Probe(rows, others), JoinOf(A, B, "equal"))
<1> DEFINE matches == [n \in DOMAIN rows |-> EqualRange(others, rows[n].key)]
           P == JoinOf(A, B, "equal")
<1>1. P \in SUBSET (A \X B)
  BY DEF JoinOf
<1>2. ASSUME NEW n \in DOMAIN rows
      PROVE  Lists(matches[n], {y \in B : <<rows[n], y>> \in P})
  <2>1. rows[n] \in A
    BY ListsDef
  <2>2. {y \in B : <<rows[n], y>> \in P} = {y \in B : y.key = rows[n].key}
    BY <2>1 DEF JoinOf, Holds
  <2>3. Lists(EqualRange(others, rows[n].key), {y \in B : y.key = rows[n].key})
    BY EqualRangeLists
  <2> QED
    BY <2>2, <2>3
<1> HIDE DEF matches, P
<1>3. Lists(Pairs(rows, matches), P)
  BY <1>1, <1>2, PairsLists
<1> QED
  BY <1>3 DEF matches, P, Probe

\* The loop of a row over others, with a predicate, and the pairs either way
\* round.
RowFirst(others, x, predicate) ==
  FlattenSeq([m \in DOMAIN others |-> When(Holds(predicate, x, others[m]), <<x, others[m]>>)])
RowSecond(others, x, predicate) ==
  FlattenSeq([m \in DOMAIN others |-> When(Holds(predicate, others[m], x), <<others[m], x>>)])

\* The loop of one row over others emits the pairs that the predicate accepts.
LEMMA AcceptedLists ==
  ASSUME NEW B, NEW others, Lists(others, B), NEW x, NEW predicate
  PROVE  /\ Lists(RowFirst(others, x, predicate), JoinOf({x}, B, predicate))
         /\ Lists(RowSecond(others, x, predicate), JoinOf(B, {x}, predicate))
<1> DEFINE N == Len(others)
<1>1. /\ N \in Nat /\ DOMAIN others = 1 .. N
      /\ \A m \in 1 .. N : others[m] \in B
      /\ \A y \in B : \E n \in 1 .. N : others[n] = y
      /\ \A m, n \in 1 .. N : others[m] = others[n] => m = n
  BY ListsDef
<1>2. Lists(RowFirst(others, x, predicate), JoinOf({x}, B, predicate))
  <2> DEFINE kept == {m \in 1 .. N : Holds(predicate, x, others[m])}
             item == [m \in 1 .. N |-> <<x, others[m]>>]
             seqs == [m \in DOMAIN others |->
                        When(Holds(predicate, x, others[m]), <<x, others[m]>>)]
  <2>1. seqs = [m \in 1 .. N |-> When(m \in kept, item[m])]
    BY <1>1 DEF When
  <2>2. Emitting(N, seqs, kept, item)
    <3>1. \A m, n \in kept : item[m] = item[n] => m = n
      BY <1>1
    <3> HIDE DEF seqs, item
    <3> QED
      BY <1>1, <2>1, <3>1 DEF Emitting
  <2>3. {item[n] : n \in kept} = JoinOf({x}, B, predicate)
    <3>1. ASSUME NEW n \in kept PROVE item[n] \in JoinOf({x}, B, predicate)
      BY <1>1 DEF JoinOf
    <3>2. ASSUME NEW p \in JoinOf({x}, B, predicate) PROVE \E n \in kept : item[n] = p
      <4>1. PICK y \in B : p = <<x, y>> /\ Holds(predicate, x, y)
        BY DEF JoinOf
      <4>2. PICK n \in 1 .. N : others[n] = y
        BY <1>1
      <4> QED
        BY <4>1, <4>2
    <3> HIDE DEF kept, item
    <3> QED
      BY <3>1, <3>2
  <2> HIDE DEF kept, item, seqs
  <2>4. Lists(FlattenSeq(seqs), {item[n] : n \in kept})
    BY <2>2, EmittedLists
  <2> QED
    BY <2>3, <2>4 DEF seqs, RowFirst
<1>3. Lists(RowSecond(others, x, predicate), JoinOf(B, {x}, predicate))
  <2> DEFINE kept == {m \in 1 .. N : Holds(predicate, others[m], x)}
             item == [m \in 1 .. N |-> <<others[m], x>>]
             seqs == [m \in DOMAIN others |->
                        When(Holds(predicate, others[m], x), <<others[m], x>>)]
  <2>1. seqs = [m \in 1 .. N |-> When(m \in kept, item[m])]
    BY <1>1 DEF When
  <2>2. Emitting(N, seqs, kept, item)
    <3>1. \A m, n \in kept : item[m] = item[n] => m = n
      BY <1>1
    <3> HIDE DEF seqs, item
    <3> QED
      BY <1>1, <2>1, <3>1 DEF Emitting
  <2>3. {item[n] : n \in kept} = JoinOf(B, {x}, predicate)
    <3>1. ASSUME NEW n \in kept PROVE item[n] \in JoinOf(B, {x}, predicate)
      BY <1>1 DEF JoinOf
    <3>2. ASSUME NEW p \in JoinOf(B, {x}, predicate) PROVE \E n \in kept : item[n] = p
      <4>1. PICK y \in B : p = <<y, x>> /\ Holds(predicate, y, x)
        BY DEF JoinOf
      <4>2. PICK n \in 1 .. N : others[n] = y
        BY <1>1
      <4> QED
        BY <4>1, <4>2
    <3> HIDE DEF kept, item
    <3> QED
      BY <3>1, <3>2
  <2> HIDE DEF kept, item, seqs
  <2>4. Lists(FlattenSeq(seqs), {item[n] : n \in kept})
    BY <2>2, EmittedLists
  <2> QED
    BY <2>3, <2>4 DEF seqs, RowSecond
<1> QED
  BY <1>2, <1>3

\* nestedLoopJoin emits each pair {innerRow, outerRow} that its predicate
\* accepts.
LEMMA NestedLoopLists ==
  ASSUME NEW A, NEW B, NEW outer, Lists(outer, A), NEW inner, Lists(inner, B), NEW predicate
  PROVE  Lists(NestedLoopJoin(outer, inner, predicate), JoinOf(B, A, predicate))
<1> DEFINE Turn(n) == FlattenSeq([m \in DOMAIN inner |->
                        When(Holds(predicate, inner[m], outer[n]), <<inner[m], outer[n]>>)])
           seqs == [n \in DOMAIN outer |-> Turn(n)]
           P == JoinOf(B, A, predicate)
           row == [p \in P |-> p[2]]
<1>1. DOMAIN outer = 1 .. Len(outer) /\ \A n \in 1 .. Len(outer) : outer[n] \in A
  BY ListsDef
<1>2. row \in [P -> A]
  BY DEF JoinOf
<1>3. ASSUME NEW n \in 1 .. Len(outer)
      PROVE  Lists(seqs[n], {p \in P : row[p] = outer[n]})
  <2> DEFINE S == JoinOf(B, {outer[n]}, predicate)
  <2>1. Lists(Turn(n), S)
    <3>1. Turn(n) = RowSecond(inner, outer[n], predicate)
      BY DEF RowSecond
    <3> HIDE DEF Turn
    <3> QED
      BY <3>1, AcceptedLists
  <2>2. S = {p \in P : row[p] = outer[n]}
    <3>1. ASSUME NEW p \in S PROVE p \in P /\ row[p] = outer[n]
      BY <1>1 DEF JoinOf
    <3>2. ASSUME NEW p \in P, row[p] = outer[n] PROVE p \in S
      BY <3>2 DEF JoinOf
    <3> HIDE DEF S
    <3> QED
      BY <3>1, <3>2
  <2>3. seqs[n] = Turn(n)
    BY <1>1
  <2> HIDE DEF S, Turn
  <2> QED
    BY <2>1, <2>2, <2>3
<1>4. seqs = [n \in 1 .. Len(outer) |-> seqs[n]]
  BY <1>1
<1> HIDE DEF seqs, row, P
<1>5. ByRow(P, row, outer, A, seqs)
  BY <1>2, <1>3, <1>4 DEF ByRow
<1>6. Lists(FlattenSeq(seqs), P)
  BY <1>5, ByRowLists
<1> QED
  BY <1>6 DEF seqs, P, NestedLoopJoin

\* The two inner loops of blockNestedLoopJoin: rows of a block, rows of a page.
BlockWithPage(block, page, predicate) ==
  FlattenSeq([n \in DOMAIN block |->
    FlattenSeq([m \in DOMAIN page |->
      When(Holds(predicate, block[n], page[m]), <<block[n], page[m]>>)])])

\* The loops over a block and a page emit the join of the two.
LEMMA BlockWithPageLists ==
  ASSUME NEW A, NEW B, NEW block, Lists(block, A), NEW page, Lists(page, B), NEW predicate
  PROVE  Lists(BlockWithPage(block, page, predicate), JoinOf(A, B, predicate))
<1> DEFINE Turn(n) == FlattenSeq([m \in DOMAIN page |->
                        When(Holds(predicate, block[n], page[m]), <<block[n], page[m]>>)])
           seqs == [n \in DOMAIN block |-> Turn(n)]
           P == JoinOf(A, B, predicate)
           row == [p \in P |-> p[1]]
<1>1. DOMAIN block = 1 .. Len(block) /\ \A n \in 1 .. Len(block) : block[n] \in A
  BY ListsDef
<1>2. row \in [P -> A]
  BY DEF JoinOf
<1>3. ASSUME NEW n \in 1 .. Len(block)
      PROVE  Lists(seqs[n], {p \in P : row[p] = block[n]})
  <2> DEFINE S == JoinOf({block[n]}, B, predicate)
  <2>1. Lists(Turn(n), S)
    <3>1. Turn(n) = RowFirst(page, block[n], predicate)
      BY DEF RowFirst
    <3> HIDE DEF Turn
    <3> QED
      BY <3>1, AcceptedLists
  <2>2. S = {p \in P : row[p] = block[n]}
    <3>1. ASSUME NEW p \in S PROVE p \in P /\ row[p] = block[n]
      BY <1>1 DEF JoinOf
    <3>2. ASSUME NEW p \in P, row[p] = block[n] PROVE p \in S
      BY <3>2 DEF JoinOf
    <3> HIDE DEF S
    <3> QED
      BY <3>1, <3>2
  <2>3. seqs[n] = Turn(n)
    BY <1>1
  <2> HIDE DEF S, Turn
  <2> QED
    BY <2>1, <2>2, <2>3
<1>4. seqs = [n \in 1 .. Len(block) |-> seqs[n]]
  BY <1>1
<1> HIDE DEF seqs, row, P
<1>5. ByRow(P, row, block, A, seqs)
  BY <1>2, <1>3, <1>4 DEF ByRow
<1>6. Lists(FlattenSeq(seqs), P)
  BY <1>5, ByRowLists
<1> QED
  BY <1>6 DEF seqs, P, BlockWithPage

\* The pages of a table split its rows, and there are as many as its length divided
\* by the size of a page, rounded up.
LEMMA PagesLists ==
  ASSUME NEW R, NEW rows, Lists(rows, R), NEW size \in Nat \ {0}
  PROVE  /\ \E A : Paged(Pages(rows, size), (Len(rows) + size - 1) \div size, A, R)
         /\ Len(Pages(rows, size)) = (Len(rows) + size - 1) \div size
BY PiecesSplit DEF Pages

\* The blocks of such a table split its rows as well, and there are as many as
\* its pages divided by the pages of a block, rounded up.
LEMMA BlocksSplit ==
  ASSUME NEW R, NEW pages, NEW N, NEW A, Paged(pages, N, A, R), NEW size \in Nat \ {0}
  PROVE  /\ \E C : /\ Splits(Len(Blocks(pages, size)), Blocks(pages, size), C)
                   /\ Together(Len(Blocks(pages, size)), C) = R
         /\ Len(Blocks(pages, size)) = (N + size - 1) \div size
<1> DEFINE pieces == Pieces(pages, size)
           K == (N + size - 1) \div size
           blocks == Blocks(pages, size)
<1>1. /\ N \in Nat /\ pages = [n \in 1 .. N |-> pages[n]]
      /\ \A n \in 1 .. N : Lists(pages[n], A[n]) /\ A[n] # {}
      /\ \A m, n \in 1 .. N : m # n => A[m] \cap A[n] = {}
      /\ Together(N, A) = R
  BY DEF Paged, Splits
<1> DEFINE T == {pages[n] : n \in 1 .. N}
<1>2. Lists(pages, T) /\ Len(pages) = N
  <2>1. ASSUME NEW m \in 1 .. N, NEW n \in 1 .. N, pages[m] = pages[n] PROVE m = n
    <3>1. A[m] = A[n]
      BY <1>1, <2>1 DEF Lists
    <3> QED
      BY <1>1, <3>1
  <2>2. pages \in [1 .. N -> T] /\ \A x \in T : \E n \in 1 .. N : pages[n] = x
    BY <1>1
  <2>3. N \in Nat /\ \A m, n \in 1 .. N : pages[m] = pages[n] => m = n
    BY <1>1, <2>1
  <2> HIDE DEF T
  <2> QED
    BY <2>2, <2>3, ListsIntro
<1>3. PICK D : Splits(K, pieces, D) /\ Together(K, D) = T
  <2> HIDE DEF T
  <2>1. PICK D : Paged(pieces, K, D, T)
    BY <1>2, PiecesSplit
  <2> QED
    BY <2>1 DEF Paged
<1>4. pieces = [k \in 1 .. K |-> pieces[k]] /\ K \in Nat /\ DOMAIN pieces = 1 .. K
  BY <1>3 DEF Splits
<1> DEFINE RowsOf(S) == UNION {Range(page) : page \in S}
           C == [k \in 1 .. K |-> RowsOf(D[k])]
<1>5. \A page \in T : Lists(page, Range(page))
  <2>1. ASSUME NEW n \in 1 .. N PROVE Lists(pages[n], Range(pages[n]))
    <3>1. Lists(pages[n], A[n])
      BY <1>1
    <3> QED
      BY <3>1 DEF Lists
  <2> QED
    BY <2>1
<1>6. \A page, other \in T : page # other => Range(page) \cap Range(other) = {}
  <2>1. ASSUME NEW m \in 1 .. N, NEW n \in 1 .. N, pages[m] # pages[n]
        PROVE  Range(pages[m]) \cap Range(pages[n]) = {}
    <3>1. m # n /\ Range(pages[m]) = A[m] /\ Range(pages[n]) = A[n]
      BY <1>1, <2>1 DEF Lists
    <3> QED
      BY <1>1, <3>1
  <2> QED
    BY <2>1
<1>7. RowsOf(T) = R
  <2>1. \A n \in 1 .. N : Range(pages[n]) = A[n]
    BY <1>1 DEF Lists
  <2> QED
    BY <1>1, <2>1 DEF Together
<1> HIDE DEF T
<1>8. ASSUME NEW k \in 1 .. K PROVE Lists(FlattenSeq(pieces[k]), C[k])
  <2> DEFINE s == pieces[k]
  <2>1. Lists(s, D[k]) /\ D[k] \subseteq T
    BY <1>3 DEF Splits, Together
  <2> HIDE DEF s
  <2>2. /\ Len(s) \in Nat /\ s \in [1 .. Len(s) -> D[k]]
        /\ \A x \in D[k] : \E m \in 1 .. Len(s) : s[m] = x
        /\ \A m, n \in 1 .. Len(s) : s[m] = s[n] => m = n
    BY <2>1, ListsDef
  <2> DEFINE E == [m \in 1 .. Len(s) |-> Range(s[m])]
  <2>3. ASSUME NEW m \in 1 .. Len(s) PROVE Lists(s[m], E[m])
    <3>1. s[m] \in T
      BY <2>1, <2>2
    <3> QED
      BY <1>5, <3>1
  <2>4. ASSUME NEW m \in 1 .. Len(s), NEW n \in 1 .. Len(s), m # n
        PROVE  E[m] \cap E[n] = {}
    <3>1. s[m] \in T /\ s[n] \in T /\ s[m] # s[n]
      BY <2>1, <2>2, <2>4
    <3> QED
      BY <1>6, <3>1
  <2>5. Together(Len(s), E) = RowsOf(D[k])
    BY <2>2 DEF Together
  <2>6. s = [m \in 1 .. Len(s) |-> s[m]]
    BY <2>2
  <2> HIDE DEF E
  <2>7. Splits(Len(s), s, E)
    BY <2>2, <2>3, <2>4, <2>6 DEF Splits
  <2> HIDE DEF RowsOf
  <2>8. Lists(FlattenSeq(s), RowsOf(D[k]))
    BY <2>5, <2>7, FlattenLists
  <2> QED
    BY <2>8 DEF s
<1>9. ASSUME NEW k \in 1 .. K, NEW l \in 1 .. K, k # l PROVE C[k] \cap C[l] = {}
  <2>1. D[k] \cap D[l] = {} /\ D[k] \subseteq T /\ D[l] \subseteq T
    BY <1>3, <1>9 DEF Splits, Together
  <2>2. \A page \in D[k], other \in D[l] : page \in T /\ other \in T /\ page # other
    BY <2>1
  <2>3. \A page \in D[k], other \in D[l] : Range(page) \cap Range(other) = {}
    BY <1>6, <2>2
  <2> QED
    BY <2>3
<1>10. Together(K, C) = R
  <2>1. Together(K, C) = RowsOf(Together(K, D))
    <3>1. \A k \in 1 .. K : C[k] = RowsOf(D[k])
      OBVIOUS
    <3> HIDE DEF C, K
    <3>2. ASSUME NEW x \in Together(K, C) PROVE x \in RowsOf(Together(K, D))
      BY <3>1 DEF Together
    <3>3. ASSUME NEW x \in RowsOf(Together(K, D)) PROVE x \in Together(K, C)
      <4>1. PICK k \in 1 .. K : \E page \in D[k] : x \in Range(page)
        BY DEF Together
      <4> QED
        BY <3>1, <4>1 DEF Together
    <3> QED
      BY <3>2, <3>3
  <2> QED
    BY <1>3, <1>7, <2>1
<1>11. blocks = [k \in 1 .. K |-> FlattenSeq(pieces[k])]
  BY <1>4 DEF Blocks
<1> HIDE DEF blocks, C, K
<1>12. Splits(K, blocks, C)
  BY <1>4, <1>8, <1>9, <1>11 DEF Splits
<1>13. Len(blocks) = K
  BY <1>12, FlattenLists
<1> QED
  BY <1>10, <1>12, <1>13 DEF blocks, K

\* One block with every page of the inner table.
BlockWithPages(block, pages, predicate) ==
  FlattenSeq([p \in DOMAIN pages |-> BlockWithPage(block, pages[p], predicate)])

\* The loop of a block over the pages of the inner table emits the join of the two.
LEMMA BlockWithPagesLists ==
  ASSUME NEW A, NEW block, Lists(block, A), NEW R, NEW pages, NEW N, NEW B,
         Splits(N, pages, B), Together(N, B) = R, NEW predicate
  PROVE  Lists(BlockWithPages(block, pages, predicate), JoinOf(A, R, predicate))
<1> DEFINE seqs == [p \in DOMAIN pages |-> BlockWithPage(block, pages[p], predicate)]
           C == [p \in 1 .. N |-> JoinOf(A, B[p], predicate)]
<1>1. /\ N \in Nat /\ DOMAIN pages = 1 .. N
      /\ \A n \in 1 .. N : Lists(pages[n], B[n])
      /\ \A m, n \in 1 .. N : m # n => B[m] \cap B[n] = {}
  BY DEF Splits
<1>2. ASSUME NEW n \in 1 .. N PROVE Lists(seqs[n], C[n])
  BY <1>1, BlockWithPageLists
<1>3. ASSUME NEW m \in 1 .. N, NEW n \in 1 .. N, m # n PROVE C[m] \cap C[n] = {}
  BY <1>1, <1>3 DEF JoinOf
<1>4. Together(N, C) = JoinOf(A, R, predicate)
  BY DEF Together, JoinOf
<1>5. seqs = [n \in 1 .. N |-> seqs[n]]
  BY <1>1
<1> HIDE DEF seqs, C
<1>6. Splits(N, seqs, C)
  BY <1>1, <1>2, <1>3, <1>5 DEF Splits
<1>7. Lists(FlattenSeq(seqs), JoinOf(A, R, predicate))
  BY <1>4, <1>6, FlattenLists
<1> QED
  BY <1>7 DEF seqs, BlockWithPages

\* blockNestedLoopJoin emits each pair that its predicate accepts.
LEMMA BlockJoinLists ==
  ASSUME NEW R, NEW outer, NEW M, NEW A, Paged(outer, M, A, R),
         NEW S, NEW inner, NEW N, NEW B, Paged(inner, N, B, S),
         NEW size \in Nat \ {0}, NEW predicate
  PROVE  Lists(BlockNestedLoopJoin(outer, inner, predicate, size), JoinOf(R, S, predicate))
<1> DEFINE blocks == Blocks(outer, size)
           K == Len(blocks)
           seqs == [b \in DOMAIN blocks |-> BlockWithPages(blocks[b], inner, predicate)]
<1>1. PICK C : Splits(K, blocks, C) /\ Together(K, C) = R
  BY BlocksSplit
<1> DEFINE D == [b \in 1 .. K |-> JoinOf(C[b], S, predicate)]
<1>2. Splits(N, inner, B) /\ Together(N, B) = S
  BY DEF Paged
<1>3. /\ K \in Nat /\ DOMAIN blocks = 1 .. K
      /\ \A n \in 1 .. K : Lists(blocks[n], C[n])
      /\ \A m, n \in 1 .. K : m # n => C[m] \cap C[n] = {}
  BY <1>1 DEF Splits
<1> HIDE DEF blocks, K
<1>4. ASSUME NEW n \in 1 .. K PROVE Lists(seqs[n], D[n])
  BY <1>2, <1>3, BlockWithPagesLists
<1>5. ASSUME NEW m \in 1 .. K, NEW n \in 1 .. K, m # n PROVE D[m] \cap D[n] = {}
  BY <1>3, <1>5 DEF JoinOf
<1>6. Together(K, D) = JoinOf(R, S, predicate)
  BY <1>1 DEF Together, JoinOf
<1>7. seqs = [n \in 1 .. K |-> seqs[n]]
  BY <1>3
<1>8. FlattenSeq(seqs) = BlockNestedLoopJoin(outer, inner, predicate, size)
  BY DEF blocks, BlockNestedLoopJoin, BlockWithPages, BlockWithPage
<1> HIDE DEF seqs, D
<1>9. Splits(K, seqs, D)
  BY <1>3, <1>4, <1>5, <1>7 DEF Splits
<1>10. Lists(FlattenSeq(seqs), JoinOf(R, S, predicate))
  BY <1>6, <1>9, FlattenLists
<1> QED
  BY <1>8, <1>10

-----------------------------------------------------------------------------
(* Partitions *)

\* The rows of R in partition p of k.
PartOf(R, k, p) == {r \in R : Hash(r.key) % k = p - 1}

\* A partition holds the rows whose hash leads to it.
LEMMA PartitionLists ==
  ASSUME NEW R, NEW rows, Lists(rows, R), NEW k \in Nat \ {0}, NEW p \in 1 .. k
  PROVE  Lists(PartitionRows(rows, k)[p], PartOf(R, k, p))
<1> DEFINE kept == PartOf(R, k, p)
           seqs == [n \in DOMAIN rows |-> When(Hash(rows[n].key) % k = p - 1, rows[n])]
<1>1. DOMAIN rows = 1 .. Len(rows) /\ \A n \in DOMAIN rows : rows[n] \in R
  BY ListsDef
<1>2. seqs = [m \in DOMAIN rows |-> When(rows[m] \in kept, rows[m])]
  BY <1>1 DEF When, PartOf
<1>3. kept \in SUBSET R
  BY DEF PartOf
<1>4. PartitionRows(rows, k)[p] = FlattenSeq(seqs)
  BY DEF PartitionRows
<1> HIDE DEF kept, seqs
<1>5. Lists(FlattenSeq(seqs), kept)
  BY <1>2, <1>3, ScanLists
<1> QED
  BY <1>4, <1>5 DEF kept

\* The number of a row's partition.
LEMMA PartitionNumber ==
  ASSUME NEW key \in Int, NEW k \in Nat \ {0}
  PROVE  Hash(key) % k \in 0 .. k - 1
<1>1. Hash(key) \in Int
  BY WordSizeAssumption DEF Hash
<1> QED
  BY <1>1

\* Rows with one key come into partitions with one number.
LEMMA GraceLists ==
  ASSUME NEW A, NEW rows, Lists(rows, A), NEW B, NEW others, Lists(others, B),
         \A r \in A : r.key \in Int, NEW k \in Nat \ {0}
  PROVE  Lists(GraceHashJoin(rows, others, k), JoinOf(A, B, "equal"))
<1> DEFINE P == JoinOf(A, B, "equal")
           of == [pair \in P |-> (Hash(pair[1].key) % k) + 1]
           seqs == [p \in 1 .. k |-> Probe(PartitionRows(rows, k)[p], PartitionRows(others, k)[p])]
<1>1. ASSUME NEW pair \in P PROVE Hash(pair[1].key) % k \in 0 .. k - 1
  <2>1. pair[1].key \in Int
    BY DEF JoinOf
  <2> QED
    BY <2>1, PartitionNumber
<1>2. ASSUME NEW p \in 1 .. k PROVE Lists(seqs[p], {pair \in P : of[pair] = p})
  <2>1. /\ Lists(PartitionRows(rows, k)[p], PartOf(A, k, p))
        /\ Lists(PartitionRows(others, k)[p], PartOf(B, k, p))
    BY PartitionLists
  <2>2. Lists(seqs[p], JoinOf(PartOf(A, k, p), PartOf(B, k, p), "equal"))
    BY <2>1, ProbeLists
  <2>3. JoinOf(PartOf(A, k, p), PartOf(B, k, p), "equal") = {pair \in P : of[pair] = p}
    <3>1. ASSUME NEW pair \in P PROVE of[pair] = p <=> Hash(pair[1].key) % k = p - 1
      <4> DEFINE h == Hash(pair[1].key) % k
      <4>1. h \in 0 .. k - 1 /\ of[pair] = h + 1
        BY <1>1
      <4> HIDE DEF h, of
      <4>2. of[pair] = p <=> h = p - 1
        BY <4>1
      <4> QED
        BY <4>2 DEF h
    <3>2. ASSUME NEW pair \in P PROVE Hash(pair[2].key) = Hash(pair[1].key)
      BY DEF JoinOf, Holds
    <3> HIDE DEF of
    <3> QED
      BY <3>1, <3>2 DEF JoinOf, PartOf
  <2> QED
    BY <2>2, <2>3
<1>3. FlattenSeq(seqs) = GraceHashJoin(rows, others, k)
  BY DEF GraceHashJoin
<1>4. of \in [P -> 1 .. k]
  <2>1. ASSUME NEW pair \in P PROVE of[pair] \in 1 .. k
    BY <1>1
  <2> QED
    BY <2>1
<1>5. seqs = [p \in 1 .. k |-> seqs[p]]
  OBVIOUS
<1> HIDE DEF seqs, of, P
<1>6. Slices(P, k, of, seqs)
  BY <1>2, <1>4, <1>5 DEF Slices
<1>7. Lists(FlattenSeq(seqs), P)
  BY <1>6, SlicesList
<1> QED
  BY <1>3, <1>7 DEF P

-----------------------------------------------------------------------------
(* Sorting *)

\* merged[<<i, j>>] is what becomes of the two halves from i and from j on.
Merging(a, b, merged) ==
  /\ Merge(a, b) = merged[<<1, 1>>]
  /\ \A i \in 1 .. Len(a) + 1, j \in 1 .. Len(b) + 1 :
       merged[<<i, j>>] =
         IF i > Len(a) THEN SubSeq(b, j, Len(b))
         ELSE IF j > Len(b) THEN SubSeq(a, i, Len(a))
         ELSE IF a[i].key <= b[j].key THEN <<a[i]>> \o merged[<<i + 1, j>>]
         ELSE <<b[j]>> \o merged[<<i, j + 1>>]

\* Merge takes the rest of one half when the other is used up, and otherwise the
\* row with the smaller key, that of the left half if they are equal.
LEMMA MergeFrom ==
  ASSUME NEW X, NEW a \in Seq(X), NEW b \in Seq(X)
  PROVE  \E merged \in [Pointers(a, b) -> Seq(X)] : Merging(a, b, merged)
<1> DEFINE La == Len(a)
           Lb == Len(b)
           D == Pointers(a, b)
           V == Seq(X)
           Step(d, f) == IF d[1] > Len(a) THEN SubSeq(b, d[2], Len(b))
                         ELSE IF d[2] > Len(b) THEN SubSeq(a, d[1], Len(a))
                         ELSE IF a[d[1]].key <= b[d[2]].key
                              THEN <<a[d[1]]>> \o f[<<d[1] + 1, d[2]>>]
                         ELSE <<b[d[2]]>> \o f[<<d[1], d[2] + 1>>]
           rest == [d \in D |-> (La + 1 - d[1]) + (Lb + 1 - d[2])]
           step == [d \in D |-> [f \in [D -> V] |-> Step(d, f)]]
<1>1. /\ La \in Nat /\ Lb \in Nat /\ <<>> \in V
      /\ \A i \in 1 .. La : a[i] \in X
      /\ \A j \in 1 .. Lb : b[j] \in X
  OBVIOUS
<1>2. ASSUME NEW d \in D
      PROVE  /\ d[1] \in 1 .. La + 1 /\ d[2] \in 1 .. Lb + 1 /\ d = <<d[1], d[2]>>
             /\ rest[d] \in 0 .. La + Lb
             /\ d[1] <= La =>
                  <<d[1] + 1, d[2]>> \in D /\ rest[<<d[1] + 1, d[2]>>] < rest[d]
             /\ d[2] <= Lb =>
                  <<d[1], d[2] + 1>> \in D /\ rest[<<d[1], d[2] + 1>>] < rest[d]
  <2>1. d[1] \in 1 .. La + 1 /\ d[2] \in 1 .. Lb + 1 /\ d = <<d[1], d[2]>>
    BY DEF Pointers
  <2>2. \A e \in D : rest[e] = (La + 1 - e[1]) + (Lb + 1 - e[2])
    OBVIOUS
  <2>3. ASSUME d[1] <= La
        PROVE  <<d[1] + 1, d[2]>> \in D /\ rest[<<d[1] + 1, d[2]>>] < rest[d]
    <3>1. <<d[1] + 1, d[2]>> \in D
      BY <1>1, <2>1, <2>3 DEF Pointers
    <3>2. rest[<<d[1] + 1, d[2]>>] = (La + 1 - (d[1] + 1)) + (Lb + 1 - d[2])
      BY <2>2, <3>1
    <3> HIDE DEF D, rest
    <3> QED
      BY <1>1, <2>1, <2>2, <3>1, <3>2
  <2>4. ASSUME d[2] <= Lb
        PROVE  <<d[1], d[2] + 1>> \in D /\ rest[<<d[1], d[2] + 1>>] < rest[d]
    <3>1. <<d[1], d[2] + 1>> \in D
      BY <1>1, <2>1, <2>4 DEF Pointers
    <3>2. rest[<<d[1], d[2] + 1>>] = (La + 1 - d[1]) + (Lb + 1 - (d[2] + 1))
      BY <2>2, <3>1
    <3> HIDE DEF D, rest
    <3> QED
      BY <1>1, <2>1, <2>2, <3>1, <3>2
  <2>5. rest[d] \in 0 .. La + Lb
    <3> HIDE DEF D, rest
    <3> QED
      BY <1>1, <2>1, <2>2
  <2> QED
    BY <2>1, <2>3, <2>4, <2>5
<1>3. ASSUME NEW d \in D, NEW f,
             d[1] <= La => f[<<d[1] + 1, d[2]>>] \in V,
             d[2] <= Lb => f[<<d[1], d[2] + 1>>] \in V
      PROVE  Step(d, f) \in V
  <2>0. d[1] \in 1 .. La + 1 /\ d[2] \in 1 .. Lb + 1
    BY <1>2
  <2>1. CASE d[1] > La
    <3>1. SubSeq(b, d[2], Lb) \in Seq(X)
      <4>1. Lb \in Int /\ d[2] \in Int /\ \A k \in d[2] .. Lb : b[k] \in X
        BY <1>1, <2>0
      <4> QED
        BY <4>1, SubSeqProperties
    <3> QED
      BY <2>1, <3>1
  <2>2. CASE d[1] <= La /\ d[2] > Lb
    <3>1. SubSeq(a, d[1], La) \in Seq(X)
      <4>1. La \in Int /\ d[1] \in Int /\ \A k \in d[1] .. La : a[k] \in X
        BY <1>1, <2>0
      <4> QED
        BY <4>1, SubSeqProperties
    <3>2. ~ (d[1] > La)
      BY <1>1, <2>0, <2>2
    <3> QED
      BY <2>2, <3>1, <3>2
  <2>3. CASE d[1] <= La /\ d[2] <= Lb
    <3>1. <<a[d[1]]>> \in Seq(X) /\ <<b[d[2]]>> \in Seq(X)
      BY <1>1, <2>0, <2>3
    <3>2. f[<<d[1] + 1, d[2]>>] \in Seq(X) /\ f[<<d[1], d[2] + 1>>] \in Seq(X)
      BY <1>3, <2>3
    <3>3. /\ <<a[d[1]]>> \o f[<<d[1] + 1, d[2]>>] \in Seq(X)
          /\ <<b[d[2]]>> \o f[<<d[1], d[2] + 1>>] \in Seq(X)
      BY <3>1, <3>2, ConcatProperties
    <3>4. ~ (d[1] > La) /\ ~ (d[2] > Lb)
      BY <1>1, <2>0, <2>3
    <3> QED
      BY <3>3, <3>4
  <2> QED
    BY <1>1, <2>0, <2>1, <2>2, <2>3
<1>4. step \in [D -> [[D -> V] -> V]]
  <2>1. ASSUME NEW d \in D, NEW f \in [D -> V] PROVE Step(d, f) \in V
    <3> HIDE DEF Step, D, V
    <3> QED
      BY <1>2, <1>3
  <2> HIDE DEF Step, D, V
  <2> QED
    BY <2>1
<1>5. rest \in [D -> 0 .. La + Lb]
  <2>1. \A d \in D : rest[d] \in 0 .. La + Lb
    BY <1>2
  <2> HIDE DEF D, La, Lb
  <2> QED
    BY <2>1
<1>6. Decreases(D, V, La + Lb, rest, step)
  <2> SUFFICES ASSUME NEW d \in D, NEW f \in [D -> V], NEW g \in [D -> V],
                      \A e \in D : rest[e] < rest[d] => f[e] = g[e]
               PROVE  step[d][f] = step[d][g]
    <3>1. La + Lb \in Nat /\ V # {}
      BY <1>1
    <3> HIDE DEF D, V, La, Lb, rest, step
    <3> QED
      BY <1>4, <1>5, <3>1 DEF Decreases
  <2>1. d[1] <= La => f[<<d[1] + 1, d[2]>>] = g[<<d[1] + 1, d[2]>>]
    <3> HIDE DEF D, La, Lb, rest, V
    <3> QED
      BY <1>2
  <2>2. d[2] <= Lb => f[<<d[1], d[2] + 1>>] = g[<<d[1], d[2] + 1>>]
    <3> HIDE DEF D, La, Lb, rest, V
    <3> QED
      BY <1>2
  <2>3. d[1] \in 1 .. La + 1 /\ d[2] \in 1 .. Lb + 1
    BY <1>2
  <2>4. Step(d, f) = Step(d, g)
    <3> HIDE DEF D, V
    <3> QED
      BY <1>1, <2>1, <2>2, <2>3
  <2> HIDE DEF Step, D, V
  <2> QED
    BY <2>4
<1>7. PICK f \in [D -> V] : \A d \in D : f[d] = Step(d, f)
  <2>1. \E f \in [D -> V] : \A d \in D : f[d] = step[d][f]
    <3> HIDE DEF D, V, La, Lb, rest, step
    <3> QED
      BY <1>6, Recursion
  <2> HIDE DEF D, V, Step
  <2> QED
    BY <2>1
<1>8. f = [d \in D |-> Step(d, f)]
  <2> HIDE DEF D, V, Step
  <2> QED
    BY <1>7
<1> DEFINE merged == CHOOSE h : h = [d \in D |-> Step(d, h)]
<1>9. merged = [d \in D |-> Step(d, merged)]
  <2> HIDE DEF D, Step
  <2> QED
    BY <1>8
<1>10. Merge(a, b) = merged[<<1, 1>>]
  BY DEF Merge
<1> HIDE DEF merged
<1>11. \A d \in D : merged[d] \in V
  <2> DEFINE G == {n \in Nat : \A d \in D : rest[d] = n => merged[d] \in V}
  <2>0. \A d \in D : rest[d] \in Nat
    <3>1. \A d \in D : rest[d] \in 0 .. La + Lb
      BY <1>2
    <3>2. \A k \in 0 .. La + Lb : k \in Nat
      BY <1>1
    <3> HIDE DEF D, rest
    <3> QED
      BY <3>1, <3>2
  <2>1. ASSUME NEW n \in Nat, \A m \in 0 .. n - 1 : m \in G, NEW d \in D, rest[d] = n
        PROVE  merged[d] \in V
    <3>1. ASSUME NEW e \in D, rest[e] < rest[d] PROVE merged[e] \in V
      <4>1. rest[e] \in 0 .. n - 1
        <5> HIDE DEF D, V, rest
        <5> QED
          BY <2>0, <2>1, <3>1
      <4> HIDE DEF D, V, rest
      <4> QED
        BY <2>1, <3>1, <4>1
    <3>2. Step(d, merged) \in V
      <4> HIDE DEF D, V, rest, Step
      <4> QED
        BY <1>2, <1>3, <3>1
    <3> HIDE DEF D, V, Step
    <3> QED
      BY <1>9, <3>2
  <2>2. G = Nat
    <3>1. \A n \in Nat : (\A m \in 0 .. n - 1 : m \in G) => n \in G
      <4> HIDE DEF D, V, rest
      <4> QED
        BY <2>1
    <3>2. G \in SUBSET Nat
      OBVIOUS
    <3> HIDE DEF G
    <3> QED
      BY <3>1, <3>2, InductBelow
  <2> HIDE DEF D, V, rest
  <2> QED
    BY <2>0, <2>2
<1>12. merged \in [D -> V]
  <2> HIDE DEF D, V, Step
  <2> QED
    BY <1>9, <1>11
<1>13. ASSUME NEW i \in 1 .. Len(a) + 1, NEW j \in 1 .. Len(b) + 1
       PROVE  merged[<<i, j>>] =
                IF i > Len(a) THEN SubSeq(b, j, Len(b))
                ELSE IF j > Len(b) THEN SubSeq(a, i, Len(a))
                ELSE IF a[i].key <= b[j].key THEN <<a[i]>> \o merged[<<i + 1, j>>]
                ELSE <<b[j]>> \o merged[<<i, j + 1>>]
  <2>1. <<i, j>> \in D
    BY DEF Pointers
  <2>2. merged[<<i, j>>] = Step(<<i, j>>, merged)
    <3> HIDE DEF D, Step
    <3> QED
      BY <1>9, <2>1
  <2> HIDE DEF D
  <2> QED
    BY <2>2
<1> HIDE DEF Step
<1> QED
  BY <1>10, <1>12, <1>13 DEF Merging

\* The order that sorting is to bring about: by key, and among rows with one key
\* by payload, which is their place in the table.
Before(x, y) == x.key < y.key \/ (x.key = y.key /\ x.payload < y.payload)
\* Rows as the code has them.
Rows == [key : Int, payload : Int]
\* s holds the rows of A in this order.
Sorted(s, A) ==
  /\ Lists(s, A)
  /\ \A m, n \in DOMAIN s : m < n => Before(s[m], s[n])
\* The rows of s from the i-th on.
From(s, i) == {s[k] : k \in i .. Len(s)}

\* No row comes before itself.
LEMMA BeforeStrict ==
  ASSUME NEW A \in SUBSET Rows, NEW x \in A, NEW y \in A, Before(x, y)
  PROVE  x # y /\ x.key <= y.key /\ x.key \in Int /\ y.key \in Int
BY DEF Before, Rows

\* A row that comes before all others may stand in front of them.
LEMMA SortedMore ==
  ASSUME NEW A \in SUBSET Rows, NEW s, Sorted(s, A), NEW x \in Rows,
         \A y \in A : Before(x, y)
  PROVE  Sorted(<<x>> \o s, {x} \cup A)
<1> DEFINE t == <<x>> \o s
<1>1. x \notin A
  BY DEF Before, Rows
<1>2. Lists(t, {x} \cup A)
  <2>1. Lists(<<x>>, {x}) /\ Lists(s, A) /\ {x} \cap A = {}
    BY <1>1, ListsOne DEF Sorted
  <2> QED
    BY <2>1, ListsConcat
<1>3. /\ Len(s) \in Nat /\ DOMAIN s = 1 .. Len(s)
      /\ \A m \in 1 .. Len(s) : s[m] \in A
      /\ s \in Seq(A) /\ A \subseteq Rows
  BY ListsDef DEF Sorted, Lists
<1>4. /\ DOMAIN t = 1 .. Len(s) + 1
      /\ t[1] = x
      /\ \A n \in 2 .. Len(s) + 1 : t[n] = s[n - 1]
  <2>1. <<x>> \in Seq(Rows) /\ s \in Seq(Rows) /\ Len(<<x>>) = 1 /\ <<x>>[1] = x
    BY <1>3, SeqMonotonic
  <2>2. /\ t \in Seq(Rows) /\ Len(t) = 1 + Len(s)
        /\ \A i \in 1 .. 1 : t[i] = <<x>>[i]
        /\ \A i \in 2 .. 1 + Len(s) : t[i] = s[i - 1]
    BY <2>1, ConcatProperties
  <2> HIDE DEF t
  <2> QED
    BY <1>3, <2>1, <2>2
<1> HIDE DEF t
<1>5. ASSUME NEW m \in DOMAIN t, NEW n \in DOMAIN t, m < n PROVE Before(t[m], t[n])
  <2>1. n \in 2 .. Len(s) + 1 /\ n - 1 \in 1 .. Len(s) /\ t[n] = s[n - 1]
    BY <1>3, <1>4, <1>5
  <2>2. CASE m = 1
    BY <1>3, <1>4, <2>1, <2>2
  <2>3. CASE m # 1
    <3>1. m - 1 \in 1 .. Len(s) /\ t[m] = s[m - 1] /\ m - 1 < n - 1
      BY <1>3, <1>4, <1>5, <2>1, <2>3
    <3> QED
      BY <1>3, <2>1, <3>1 DEF Sorted
  <2> QED
    BY <2>2, <2>3
<1> QED
  BY <1>2, <1>5 DEF Sorted, t

\* The rest of a sorted sequence.
LEMMA SortedRest ==
  ASSUME NEW A, NEW s, Sorted(s, A), NEW i \in 1 .. Len(s) + 1
  PROVE  Sorted(SubSeq(s, i, Len(s)), From(s, i))
<1> DEFINE t == SubSeq(s, i, Len(s))
<1>1. /\ Len(s) \in Nat /\ DOMAIN s = 1 .. Len(s)
      /\ \A m \in 1 .. Len(s) : s[m] \in A
  BY ListsDef DEF Sorted
<1>2. Lists(t, From(s, i))
  <2>1. /\ i - 1 \in Nat /\ Len(s) \in (i - 1) .. Len(s) /\ (i - 1) + 1 = i
        /\ Lists(s, A)
    BY <1>1 DEF Sorted
  <2>2. Lists(SubSeq(s, (i - 1) + 1, Len(s)), {s[k] : k \in (i - 1) + 1 .. Len(s)})
    <3> HIDE DEF Lists
    <3> QED
      BY <2>1, SubSeqLists
  <2> QED
    BY <2>1, <2>2 DEF From
<1>3. /\ Len(t) \in Nat /\ DOMAIN t = 1 .. Len(t)
      /\ \A n \in 1 .. Len(t) : t[n] = s[i + n - 1] /\ i + n - 1 \in 1 .. Len(s)
  <2>1. i \in Int /\ Len(s) \in Int /\ \A k \in i .. Len(s) : s[k] \in A
    BY <1>1
  <2>2. /\ Len(t) = IF i <= Len(s) THEN Len(s) - i + 1 ELSE 0
        /\ \A n \in 1 .. Len(s) - i + 1 : t[n] = s[i + n - 1]
    BY <2>1, SubSeqProperties
  <2>3. Len(t) \in Nat /\ DOMAIN t = 1 .. Len(t)
    BY <1>2, ListsDef
  <2> HIDE DEF t
  <2> QED
    BY <1>1, <2>2, <2>3
<1> HIDE DEF t
<1>4. ASSUME NEW m \in DOMAIN t, NEW n \in DOMAIN t, m < n PROVE Before(t[m], t[n])
  <2>1. /\ i + m - 1 \in 1 .. Len(s) /\ i + n - 1 \in 1 .. Len(s) /\ i + m - 1 < i + n - 1
        /\ t[m] = s[i + m - 1] /\ t[n] = s[i + n - 1]
    BY <1>1, <1>3, <1>4
  <2> QED
    BY <1>1, <2>1 DEF Sorted
<1> QED
  BY <1>2, <1>4 DEF Sorted, t

\* The first row of the rest of a sorted sequence comes before all that follow.
LEMMA FromSorted ==
  ASSUME NEW A, NEW s, Sorted(s, A), NEW i \in 1 .. Len(s)
  PROVE  /\ From(s, i) = {s[i]} \cup From(s, i + 1)
         /\ \A y \in From(s, i + 1) : Before(s[i], y)
         /\ s[i] \in A
<1>1. /\ Len(s) \in Nat /\ DOMAIN s = 1 .. Len(s)
      /\ \A m \in 1 .. Len(s) : s[m] \in A
  BY ListsDef DEF Sorted
<1>2. i .. Len(s) = {i} \cup (i + 1 .. Len(s))
  BY <1>1
<1>3. From(s, i) = {s[i]} \cup From(s, i + 1)
  BY <1>2 DEF From
<1>4. ASSUME NEW y \in From(s, i + 1) PROVE Before(s[i], y)
  <2>1. PICK k \in i + 1 .. Len(s) : y = s[k]
    BY DEF From
  <2> QED
    BY <1>1, <2>1 DEF Sorted
<1> QED
  BY <1>1, <1>3, <1>4

\* From two sorted halves, whose payloads keep them apart, Merge makes one.
LEMMA MergeSorts ==
  ASSUME NEW A \in SUBSET Rows, NEW B \in SUBSET Rows, NEW a, NEW b,
         Sorted(a, A), Sorted(b, B),
         \A x \in A, y \in B : x.payload < y.payload
  PROVE  Sorted(Merge(a, b), A \cup B)
<1> DEFINE La == Len(a)
           Lb == Len(b)
<1>1. /\ a \in Seq(Rows) /\ b \in Seq(Rows) /\ La \in Nat /\ Lb \in Nat
      /\ Lists(a, A) /\ Lists(b, B)
      /\ DOMAIN a = 1 .. La /\ DOMAIN b = 1 .. Lb
      /\ \A m \in 1 .. La : a[m] \in A
      /\ \A m \in 1 .. Lb : b[m] \in B
  <2>1. Lists(a, A) /\ Lists(b, B)
    BY DEF Sorted
  <2>2. a \in Seq(Rows) /\ b \in Seq(Rows)
    BY <2>1, SeqMonotonic DEF Lists
  <2> QED
    BY <2>1, <2>2, ListsDef
<1>2. PICK merged : Merging(a, b, merged)
  BY <1>1, MergeFrom
<1> HIDE DEF La, Lb
<1> DEFINE Good(i, j) == Sorted(merged[<<i, j>>], From(a, i) \cup From(b, j))
           G == {n \in Nat : \A i \in 1 .. La + 1, j \in 1 .. Lb + 1 :
                               (La + 1 - i) + (Lb + 1 - j) = n => Good(i, j)}
<1>3. /\ From(a, La + 1) = {} /\ From(b, Lb + 1) = {}
      /\ From(a, 1) = A /\ From(b, 1) = B
  <2>1. ASSUME NEW X, NEW s, Lists(s, X) PROVE From(s, Len(s) + 1) = {} /\ From(s, 1) = X
    BY <2>1, ListsDef DEF From
  <2> QED
    BY <1>1, <2>1 DEF La, Lb
<1>4. /\ \A i \in 1 .. La : \A y \in From(a, i) : y \in A /\ a[i].key <= y.key
      /\ \A j \in 1 .. Lb : \A y \in From(b, j) : y \in B /\ b[j].key <= y.key
      /\ \A i \in 1 .. La + 1 : From(a, i) \subseteq A
      /\ \A j \in 1 .. Lb + 1 : From(b, j) \subseteq B
  <2>1. ASSUME NEW X \in SUBSET Rows, NEW s, Sorted(s, X), NEW i \in 1 .. Len(s),
               NEW y \in From(s, i)
        PROVE  y \in X /\ s[i].key <= y.key
    <3>1. From(s, i) = {s[i]} \cup From(s, i + 1) /\ s[i] \in X
      BY <2>1, FromSorted
    <3>2. y \in X
      BY <2>1, ListsDef DEF From, Sorted
    <3>3. CASE y = s[i]
      BY <3>1, <3>3 DEF Rows
    <3>4. CASE y \in From(s, i + 1)
      <4>1. Before(s[i], y)
        BY <2>1, <3>4, FromSorted
      <4> QED
        BY <3>1, <3>2, <4>1, BeforeStrict
    <3> QED
      BY <3>1, <3>2, <3>3, <3>4
  <2> QED
    BY <1>1, <2>1 DEF La, Lb, From
<1>5. ASSUME NEW i \in 1 .. La, NEW j \in 1 .. Lb, a[i].key <= b[j].key, Good(i + 1, j)
      PROVE  Sorted(<<a[i]>> \o merged[<<i + 1, j>>], From(a, i) \cup From(b, j))
  <2>1. From(a, i) = {a[i]} \cup From(a, i + 1) /\ \A y \in From(a, i + 1) : Before(a[i], y)
    BY FromSorted DEF La
  <2>2. ASSUME NEW y \in From(b, j) PROVE Before(a[i], y)
    <3>1. y \in B /\ b[j].key <= y.key /\ a[i] \in A /\ b[j] \in B
      BY <1>1, <1>4
    <3>2. a[i].payload < y.payload
      BY <3>1
    <3>3. a[i].key \in Int /\ b[j].key \in Int /\ y.key \in Int
      BY <3>1 DEF Rows
    <3> QED
      BY <1>5, <3>1, <3>2, <3>3 DEF Before
  <2> DEFINE R == From(a, i + 1) \cup From(b, j)
  <2>3. /\ R \in SUBSET Rows /\ Sorted(merged[<<i + 1, j>>], R) /\ a[i] \in Rows
        /\ \A y \in R : Before(a[i], y)
        /\ From(a, i) \cup From(b, j) = {a[i]} \cup R
    BY <1>1, <1>4, <1>5, <2>1, <2>2
  <2> HIDE DEF R
  <2> QED
    BY <2>3, SortedMore
<1>6. ASSUME NEW i \in 1 .. La, NEW j \in 1 .. Lb, ~ (a[i].key <= b[j].key), Good(i, j + 1)
      PROVE  Sorted(<<b[j]>> \o merged[<<i, j + 1>>], From(a, i) \cup From(b, j))
  <2>1. From(b, j) = {b[j]} \cup From(b, j + 1) /\ \A y \in From(b, j + 1) : Before(b[j], y)
    BY FromSorted DEF Lb
  <2>2. ASSUME NEW y \in From(a, i) PROVE Before(b[j], y)
    <3>1. y \in A /\ a[i].key <= y.key /\ a[i] \in A /\ b[j] \in B
      BY <1>1, <1>4
    <3>2. a[i].key \in Int /\ b[j].key \in Int /\ y.key \in Int
      BY <3>1 DEF Rows
    <3> QED
      BY <1>6, <3>1, <3>2 DEF Before
  <2> DEFINE R == From(a, i) \cup From(b, j + 1)
  <2>3. /\ R \in SUBSET Rows /\ Sorted(merged[<<i, j + 1>>], R) /\ b[j] \in Rows
        /\ \A y \in R : Before(b[j], y)
        /\ From(a, i) \cup From(b, j) = {b[j]} \cup R
    BY <1>1, <1>4, <1>6, <2>1, <2>2
  <2> HIDE DEF R
  <2> QED
    BY <2>3, SortedMore
<1>7. ASSUME NEW n \in Nat, \A m \in 0 .. n - 1 : m \in G,
             NEW i \in 1 .. La + 1, NEW j \in 1 .. Lb + 1,
             (La + 1 - i) + (Lb + 1 - j) = n
      PROVE  Good(i, j)
  <2>0. merged[<<i, j>>] =
          IF i > La THEN SubSeq(b, j, Lb)
          ELSE IF j > Lb THEN SubSeq(a, i, La)
          ELSE IF a[i].key <= b[j].key THEN <<a[i]>> \o merged[<<i + 1, j>>]
          ELSE <<b[j]>> \o merged[<<i, j + 1>>]
    BY <1>2 DEF Merging, La, Lb
  <2>1. CASE i > La
    <3>1. i = La + 1 /\ merged[<<i, j>>] = SubSeq(b, j, Lb)
      BY <1>1, <2>0, <2>1
    <3>2. Sorted(SubSeq(b, j, Lb), From(b, j))
      BY SortedRest DEF Lb
    <3> QED
      BY <1>3, <3>1, <3>2
  <2>2. CASE i <= La /\ j > Lb
    <3>1. j = Lb + 1 /\ merged[<<i, j>>] = SubSeq(a, i, La)
      BY <1>1, <2>0, <2>2
    <3>2. Sorted(SubSeq(a, i, La), From(a, i))
      BY SortedRest DEF La
    <3> QED
      BY <1>3, <3>1, <3>2
  <2>3. CASE i <= La /\ j <= Lb
    <3>1. /\ i \in 1 .. La /\ j \in 1 .. Lb /\ i + 1 \in 1 .. La + 1 /\ j + 1 \in 1 .. Lb + 1
          /\ n - 1 \in 0 .. n - 1
          /\ (La + 1 - (i + 1)) + (Lb + 1 - j) = n - 1
          /\ (La + 1 - i) + (Lb + 1 - (j + 1)) = n - 1
      BY <1>1, <1>7, <2>3
    <3>2. Good(i + 1, j) /\ Good(i, j + 1)
      <4>1. n - 1 \in G
        BY <1>7, <3>1
      <4> HIDE DEF Good
      <4> QED
        BY <3>1, <4>1
    <3>3. merged[<<i, j>>] = IF a[i].key <= b[j].key THEN <<a[i]>> \o merged[<<i + 1, j>>]
                             ELSE <<b[j]>> \o merged[<<i, j + 1>>]
      BY <1>1, <2>0, <2>3
    <3>4. CASE a[i].key <= b[j].key
      BY <1>5, <3>1, <3>2, <3>3, <3>4
    <3>5. CASE ~ (a[i].key <= b[j].key)
      BY <1>6, <3>1, <3>2, <3>3, <3>5
    <3> QED
      BY <3>4, <3>5
  <2> QED
    BY <1>1, <2>1, <2>2, <2>3
<1>8. G = Nat
  <2>1. \A n \in Nat : (\A m \in 0 .. n - 1 : m \in G) => n \in G
    <3> HIDE DEF Good
    <3> QED
      BY <1>7
  <2>2. G \in SUBSET Nat
    OBVIOUS
  <2> HIDE DEF G
  <2> QED
    BY <2>1, <2>2, InductBelow
<1>9. Good(1, 1)
  <2>1. La + Lb \in Nat /\ (La + 1 - 1) + (Lb + 1 - 1) = La + Lb
        /\ 1 \in 1 .. La + 1 /\ 1 \in 1 .. Lb + 1
    BY <1>1
  <2>2. La + Lb \in G
    BY <1>8, <2>1
  <2> HIDE DEF Good
  <2> QED
    BY <2>1, <2>2
<1> QED
  BY <1>2, <1>3, <1>9 DEF Merging

\* Where the two halves of a part of a table meet.
Middle(l, r) == l + (r - l) \div 2

\* sorted[<<l, r>>] is what becomes of the rows from l up to r.
Sorting(rows, sorted) ==
  /\ MergeSort(rows) = sorted[<<0, Len(rows)>>]
  /\ \A l, r \in 0 .. Len(rows) :
       sorted[<<l, r>>] =
         IF r - l <= 1 THEN SubSeq(rows, l + 1, r)
         ELSE Merge(sorted[<<l, Middle(l, r)>>], sorted[<<Middle(l, r), r>>])

\* Both halves of a part of more than one row are shorter than it.
LEMMA Halves ==
  ASSUME NEW l \in Nat, NEW r \in Nat, r - l > 1
  PROVE  /\ Middle(l, r) \in l + 1 .. r - 1
         /\ Middle(l, r) - l < r - l /\ r - Middle(l, r) < r - l
<1>1. (r - l) \div 2 \in 1 .. r - l - 1
  BY SMT
<1> QED
  BY <1>1 DEF Middle

\* MergeSort leaves a part of at most one row as it is, and otherwise merges what
\* it makes of its halves.
LEMMA SortingFrom ==
  ASSUME NEW X, NEW rows \in Seq(X)
  PROVE  \E sorted : Sorting(rows, sorted)
<1> DEFINE L == Len(rows)
           D == (0 .. L) \X (0 .. L)
           V == Seq(X)
           Mid(d) == d[1] + (d[2] - d[1]) \div 2
           Step(d, f) == IF d[2] - d[1] <= 1 THEN SubSeq(rows, d[1] + 1, d[2])
                         ELSE Merge(f[<<d[1], Mid(d)>>], f[<<Mid(d), d[2]>>])
           size == [d \in D |-> IF d[2] > d[1] THEN d[2] - d[1] ELSE 0]
           step == [d \in D |-> [f \in [D -> V] |-> Step(d, f)]]
<1>1. L \in Nat /\ V # {} /\ \A i \in 1 .. L : rows[i] \in X
  OBVIOUS
<1>2. ASSUME NEW d \in D
      PROVE  /\ d[1] \in 0 .. L /\ d[2] \in 0 .. L /\ d = <<d[1], d[2]>>
             /\ size[d] = IF d[2] > d[1] THEN d[2] - d[1] ELSE 0
             /\ size[d] \in 0 .. L
  <2>1. d[1] \in 0 .. L /\ d[2] \in 0 .. L /\ d = <<d[1], d[2]>>
    OBVIOUS
  <2>2. size[d] = IF d[2] > d[1] THEN d[2] - d[1] ELSE 0
    OBVIOUS
  <2> HIDE DEF size, D, L
  <2>3. size[d] \in 0 .. L
    BY <1>1, <2>1, <2>2
  <2> QED
    BY <2>1, <2>2, <2>3
<1>3. ASSUME NEW d \in D, d[2] - d[1] > 1
      PROVE  /\ <<d[1], Mid(d)>> \in D /\ size[<<d[1], Mid(d)>>] < size[d]
             /\ <<Mid(d), d[2]>> \in D /\ size[<<Mid(d), d[2]>>] < size[d]
  <2>1. d[1] \in Nat /\ d[2] \in Nat /\ d[1] \in 0 .. L /\ d[2] \in 0 .. L
    BY <1>1, <1>2
  <2>2. Mid(d) \in d[1] + 1 .. d[2] - 1 /\ Mid(d) - d[1] < d[2] - d[1] /\ d[2] - Mid(d) < d[2] - d[1]
    BY <1>3, <2>1, Halves DEF Middle
  <2> HIDE DEF Mid
  <2>3. Mid(d) \in 0 .. L
    BY <1>1, <2>1, <2>2
  <2>4. <<d[1], Mid(d)>> \in D /\ <<Mid(d), d[2]>> \in D
    BY <2>1, <2>3
  <2>5. /\ size[<<d[1], Mid(d)>>] = IF Mid(d) > d[1] THEN Mid(d) - d[1] ELSE 0
        /\ size[<<Mid(d), d[2]>>] = IF d[2] > Mid(d) THEN d[2] - Mid(d) ELSE 0
    BY <2>4
  <2> HIDE DEF size, D
  <2> QED
    BY <1>2, <1>3, <2>1, <2>2, <2>4, <2>5
<1> HIDE DEF Mid
<1>4. ASSUME NEW d \in D, NEW f \in [D -> V] PROVE Step(d, f) \in V
  <2>1. CASE d[2] - d[1] <= 1
    <3>1. d[1] + 1 \in Int /\ d[2] \in Int /\ \A k \in d[1] + 1 .. d[2] : rows[k] \in X
      BY <1>1, <1>2
    <3>2. SubSeq(rows, d[1] + 1, d[2]) \in Seq(X)
      BY <3>1, SubSeqProperties
    <3> QED
      BY <2>1, <3>2
  <2>2. CASE d[2] - d[1] > 1
    <3>1. f[<<d[1], Mid(d)>>] \in Seq(X) /\ f[<<Mid(d), d[2]>>] \in Seq(X)
      <4> HIDE DEF D
      <4> QED
        BY <1>3, <2>2
    <3>2. ASSUME NEW s \in Seq(X), NEW t \in Seq(X) PROVE Merge(s, t) \in Seq(X)
      <4>1. PICK merged \in [Pointers(s, t) -> Seq(X)] : Merging(s, t, merged)
        BY MergeFrom
      <4>2. <<1, 1>> \in Pointers(s, t)
        BY DEF Pointers
      <4> QED
        BY <4>1, <4>2 DEF Merging
    <3>3. ~ (d[2] - d[1] <= 1)
      BY <1>1, <1>2, <2>2
    <3> QED
      BY <3>1, <3>2, <3>3
  <2> QED
    BY <1>1, <1>2, <2>1, <2>2
<1>5. step \in [D -> [[D -> V] -> V]]
  <2> HIDE DEF Step, D, V
  <2> QED
    BY <1>4
<1>6. size \in [D -> 0 .. L]
  <2>1. \A d \in D : size[d] \in 0 .. L
    BY <1>2
  <2> HIDE DEF D, L
  <2> QED
    BY <2>1
<1>7. Decreases(D, V, L, size, step)
  <2> SUFFICES ASSUME NEW d \in D, NEW f \in [D -> V], NEW g \in [D -> V],
                      \A e \in D : size[e] < size[d] => f[e] = g[e]
               PROVE  step[d][f] = step[d][g]
    <3> HIDE DEF D, V, L, size, step
    <3> QED
      BY <1>1, <1>5, <1>6 DEF Decreases
  <2>1. d[2] - d[1] > 1 =>
          f[<<d[1], Mid(d)>>] = g[<<d[1], Mid(d)>>] /\ f[<<Mid(d), d[2]>>] = g[<<Mid(d), d[2]>>]
    <3> HIDE DEF D, size, V
    <3> QED
      BY <1>3
  <2>2. d[1] \in 0 .. L /\ d[2] \in 0 .. L
    BY <1>2
  <2>3. Step(d, f) = Step(d, g)
    <3> HIDE DEF D, V
    <3> QED
      BY <1>1, <2>1, <2>2
  <2> HIDE DEF Step, D, V
  <2> QED
    BY <2>3
<1>8. PICK f \in [D -> V] : \A d \in D : f[d] = Step(d, f)
  <2>1. \E f \in [D -> V] : \A d \in D : f[d] = step[d][f]
    <3> HIDE DEF D, V, L, size, step
    <3> QED
      BY <1>7, Recursion
  <2> HIDE DEF D, V, Step
  <2> QED
    BY <2>1
<1>9. f = [d \in D |-> Step(d, f)]
  <2> HIDE DEF D, V, Step
  <2> QED
    BY <1>8
<1> DEFINE sorted == CHOOSE h : h = [d \in D |-> Step(d, h)]
<1>10. sorted = [d \in D |-> Step(d, sorted)]
  <2> HIDE DEF D, Step
  <2> QED
    BY <1>9
<1>11. MergeSort(rows) = sorted[<<0, Len(rows)>>]
  BY DEF MergeSort, Mid
<1> HIDE DEF sorted
<1>12. ASSUME NEW l \in 0 .. Len(rows), NEW r \in 0 .. Len(rows)
       PROVE  sorted[<<l, r>>] =
                IF r - l <= 1 THEN SubSeq(rows, l + 1, r)
                ELSE Merge(sorted[<<l, Middle(l, r)>>], sorted[<<Middle(l, r), r>>])
  <2>1. <<l, r>> \in D
    OBVIOUS
  <2>2. sorted[<<l, r>>] = Step(<<l, r>>, sorted)
    <3> HIDE DEF D, Step
    <3> QED
      BY <1>10, <2>1
  <2> HIDE DEF D
  <2> QED
    BY <2>2 DEF Mid, Middle
<1> HIDE DEF Step
<1> QED
  BY <1>11, <1>12 DEF Sorting

\* A table whose rows carry their places as payloads.
Numbered(rows) == rows \in Seq(Rows) /\ \A k \in 1 .. Len(rows) : rows[k].payload = k

\* The rows of a table differ.
LEMMA NumberedLists ==
  ASSUME NEW rows, Numbered(rows)
  PROVE  Lists(rows, Range(rows)) /\ Range(rows) \subseteq Rows
<1>1. /\ Len(rows) \in Nat /\ DOMAIN rows = 1 .. Len(rows) /\ rows \in Seq(Rows)
      /\ \A k \in 1 .. Len(rows) : rows[k] \in Rows /\ rows[k].payload = k
  BY DEF Numbered
<1>2. Range(rows) \subseteq Rows
  BY <1>1 DEF Range
<1>3. rows \in [1 .. Len(rows) -> Range(rows)]
  BY <1>1 DEF Range
<1>4. /\ \A x \in Range(rows) : \E m \in 1 .. Len(rows) : rows[m] = x
      /\ \A m, n \in 1 .. Len(rows) : rows[m] = rows[n] => m = n
  BY <1>1 DEF Range
<1>5. Lists(rows, Range(rows))
  BY <1>1, <1>3, <1>4, ListsIntro
<1> QED
  BY <1>2, <1>5

\* mergeSort sorts, whatever the keys.
LEMMA MergeSortSorts ==
  ASSUME NEW rows, Numbered(rows)
  PROVE  Sorted(MergeSort(rows), Range(rows))
<1> DEFINE L == Len(rows)
           Part(l, r) == {rows[k] : k \in l + 1 .. r}
<1>1. /\ L \in Nat /\ DOMAIN rows = 1 .. L /\ rows \in Seq(Rows)
      /\ \A k \in 1 .. L : rows[k] \in Rows /\ rows[k].payload = k
      /\ Lists(rows, Range(rows))
  BY NumberedLists DEF Numbered
<1>2. PICK sorted : Sorting(rows, sorted)
  BY <1>1, SortingFrom
<1> HIDE DEF L
<1> DEFINE Good(l, r) == Sorted(sorted[<<l, r>>], Part(l, r))
           G == {n \in Nat : \A l, r \in 0 .. L : r - l = n => Good(l, r)}
<1>3. ASSUME NEW n \in Nat, \A m \in 0 .. n - 1 : m \in G,
             NEW l \in 0 .. L, NEW r \in 0 .. L, r - l = n
      PROVE  Good(l, r)
  <2>1. sorted[<<l, r>>] =
          IF r - l <= 1 THEN SubSeq(rows, l + 1, r)
          ELSE Merge(sorted[<<l, Middle(l, r)>>], sorted[<<Middle(l, r), r>>])
    BY <1>2 DEF Sorting, L
  <2>2. l \in Nat /\ r \in l .. L
    BY <1>1, <1>3
  <2>3. CASE r - l <= 1
    <3> DEFINE s == SubSeq(rows, l + 1, r)
    <3>1. Lists(s, Part(l, r))
      BY <1>1, <2>2, SubSeqLists DEF L
    <3>2. Len(s) = IF l + 1 <= r THEN r - (l + 1) + 1 ELSE 0
      <4>1. l + 1 \in Int /\ r \in Int /\ \A k \in l + 1 .. r : rows[k] \in Rows
        BY <1>1, <2>2
      <4> HIDE DEF L
      <4> QED
        BY <4>1, SubSeqProperties
    <3>3. DOMAIN s = 1 .. Len(s) /\ Len(s) \in Nat
      BY <3>1, ListsDef
    <3> HIDE DEF s
    <3>4. \A m, k \in DOMAIN s : ~ (m < k)
      BY <2>2, <2>3, <3>2, <3>3
    <3>5. Sorted(s, Part(l, r))
      BY <3>1, <3>4 DEF Sorted
    <3> QED
      BY <2>1, <2>3, <3>5 DEF s
  <2>4. CASE r - l > 1
    <3> DEFINE mid == Middle(l, r)
    <3>1. mid \in l + 1 .. r - 1 /\ mid - l < r - l /\ r - mid < r - l
      BY <2>2, <2>4, Halves
    <3> HIDE DEF mid
    <3>2. mid \in 0 .. L /\ mid - l \in 0 .. n - 1 /\ r - mid \in 0 .. n - 1
      BY <1>1, <1>3, <2>2, <3>1
    <3>3. Good(l, mid) /\ Good(mid, r)
      <4>1. mid - l \in G /\ r - mid \in G
        BY <1>3, <3>2
      <4> HIDE DEF Good
      <4> QED
        BY <3>2, <4>1
    <3>4. /\ Part(l, mid) \in SUBSET Rows /\ Part(mid, r) \in SUBSET Rows
          /\ \A x \in Part(l, mid), y \in Part(mid, r) : x.payload < y.payload
      <4>1. ASSUME NEW k \in l + 1 .. mid, NEW m \in mid + 1 .. r
            PROVE  k \in 1 .. L /\ m \in 1 .. L /\ k < m
        BY <1>1, <2>2, <3>1
      <4>2. \A k \in l + 1 .. mid : k \in 1 .. L
        BY <1>1, <2>2, <3>1
      <4>3. \A m \in mid + 1 .. r : m \in 1 .. L
        BY <1>1, <2>2, <3>1
      <4> QED
        BY <1>1, <4>1, <4>2, <4>3
    <3>5. Part(l, mid) \cup Part(mid, r) = Part(l, r)
      <4>1. l + 1 .. r = (l + 1 .. mid) \cup (mid + 1 .. r)
        BY <2>2, <3>1
      <4> QED
        BY <4>1
    <3>6. Sorted(Merge(sorted[<<l, mid>>], sorted[<<mid, r>>]), Part(l, mid) \cup Part(mid, r))
      <4> HIDE DEF Part
      <4> QED
        BY <3>3, <3>4, MergeSorts
    <3>7. sorted[<<l, r>>] = Merge(sorted[<<l, mid>>], sorted[<<mid, r>>])
      BY <2>1, <2>2, <2>4 DEF mid
    <3> QED
      BY <3>5, <3>6, <3>7
  <2> QED
    BY <2>2, <2>3, <2>4
<1>4. G = Nat
  <2>1. \A n \in Nat : (\A m \in 0 .. n - 1 : m \in G) => n \in G
    <3> HIDE DEF Good
    <3> QED
      BY <1>3
  <2>2. G \in SUBSET Nat
    OBVIOUS
  <2> HIDE DEF G
  <2> QED
    BY <2>1, <2>2, InductBelow
<1>5. Good(0, L)
  <2>1. 0 \in 0 .. L /\ L \in 0 .. L /\ L - 0 = L
    BY <1>1
  <2>2. L \in G
    <3> HIDE DEF G
    <3> QED
      BY <1>1, <1>4
  <2> HIDE DEF Good
  <2> QED
    BY <2>1, <2>2
<1>6. Part(0, L) = Range(rows)
  BY <1>1 DEF Range
<1> QED
  BY <1>2, <1>5, <1>6 DEF Sorting, L

-----------------------------------------------------------------------------
(* The pointer loop of the sort-merge join *)

\* A run ends before the next row with another key, or at the end.
LEMMA RunEnds ==
  ASSUME NEW s, Len(s) \in Nat, NEW i \in 1 .. Len(s)
  PROVE  /\ RunEnd(s, i) \in i + 1 .. Len(s) + 1
         /\ \A k \in i .. RunEnd(s, i) - 1 : s[k].key = s[i].key
         /\ RunEnd(s, i) <= Len(s) => s[RunEnd(s, i)].key # s[i].key
<1> DEFINE T == {n \in Nat : n \in i + 1 .. Len(s) + 1 /\ (n <= Len(s) => s[n].key # s[i].key)}
<1>1. T \in SUBSET Nat /\ Len(s) + 1 \in T
  OBVIOUS
<1>2. PICK end \in T : \A m \in T : end <= m
  <2> HIDE DEF T
  <2> QED
    BY <1>1, Least
<1>3. end \in i + 1 .. Len(s) + 1 /\ (end <= Len(s) => s[end].key # s[i].key)
  OBVIOUS
<1>4. ASSUME NEW k \in i .. end - 1 PROVE s[k].key = s[i].key
  <2>1. CASE k = i
    BY <2>1
  <2>2. CASE k # i
    <3>1. k \in Nat /\ k \in i + 1 .. Len(s) + 1 /\ ~ (end <= k)
      BY <1>3, <2>2
    <3>2. k \notin T
      <4> HIDE DEF T
      <4> QED
        BY <1>2, <3>1
    <3> QED
      BY <3>1, <3>2
  <2> QED
    BY <2>1, <2>2
<1> QED
  BY <1>3, <1>4 DEF RunEnd

\* The rows of the run that begins at i.
Run(s, i) == {s[k] : k \in i .. RunEnd(s, i) - 1}

\* A run has one key, and all that follow it have greater ones.
LEMMA RunLists ==
  ASSUME NEW A \in SUBSET Rows, NEW s, Sorted(s, A), NEW i \in 1 .. Len(s)
  PROVE  /\ RunEnd(s, i) \in i + 1 .. Len(s) + 1
         /\ From(s, i) = Run(s, i) \cup From(s, RunEnd(s, i))
         /\ Run(s, i) \cap From(s, RunEnd(s, i)) = {}
         /\ \A x \in Run(s, i) : x.key = s[i].key
         /\ \A y \in From(s, RunEnd(s, i)) : s[i].key < y.key
         /\ Lists(SubSeq(s, i, RunEnd(s, i) - 1), Run(s, i))
<1> DEFINE L == Len(s)
           e == RunEnd(s, i)
<1>1. /\ L \in Nat /\ DOMAIN s = 1 .. L
      /\ \A m \in 1 .. L : s[m] \in A /\ s[m].key \in Int
      /\ \A m, n \in 1 .. L : s[m] = s[n] => m = n
      /\ Lists(s, A)
  <2>1. Lists(s, A) /\ \A x \in A : x.key \in Int
    BY DEF Sorted, Rows
  <2> QED
    BY <2>1, ListsDef
<1>2. /\ e \in i + 1 .. L + 1
      /\ \A k \in i .. e - 1 : s[k].key = s[i].key
      /\ e <= L => s[e].key # s[i].key
  BY <1>1, RunEnds
<1>3. \A m, n \in 1 .. L : m < n => s[m].key <= s[n].key
  <2>1. ASSUME NEW m \in 1 .. L, NEW n \in 1 .. L, m < n PROVE s[m].key <= s[n].key
    <3>1. Before(s[m], s[n])
      BY <1>1, <2>1 DEF Sorted
    <3> QED
      BY <1>1, <3>1, BeforeStrict
  <2> QED
    BY <2>1
<1>4. Run(s, i) = {s[k] : k \in i .. e - 1} /\ From(s, e) = {s[k] : k \in e .. L}
      /\ From(s, i) = {s[k] : k \in i .. L}
  BY DEF Run, From
<1>5. Lists(SubSeq(s, i, e - 1), Run(s, i))
  <2>1. i - 1 \in Nat /\ e - 1 \in (i - 1) .. Len(s) /\ (i - 1) + 1 = i /\ Lists(s, A)
    BY <1>1, <1>2
  <2>2. Lists(SubSeq(s, (i - 1) + 1, e - 1), {s[k] : k \in (i - 1) + 1 .. e - 1})
    <3> HIDE DEF e
    <3> QED
      BY <2>1, SubSeqLists
  <2> QED
    BY <1>4, <2>1, <2>2
<1> HIDE DEF e, L
<1>6. From(s, i) = Run(s, i) \cup From(s, e)
  <2>1. i .. L = (i .. e - 1) \cup (e .. L)
    BY <1>1, <1>2
  <2> QED
    BY <1>4, <2>1
<1>7. Run(s, i) \cap From(s, e) = {}
  <2>1. ASSUME NEW k \in i .. e - 1, NEW m \in e .. L
        PROVE  k \in 1 .. L /\ m \in 1 .. L /\ k # m
    BY <1>1, <1>2 DEF L
  <2> QED
    BY <1>1, <1>4, <2>1
<1>8. ASSUME NEW y \in From(s, e) PROVE s[i].key < y.key
  <2>1. PICK k \in e .. L : y = s[k]
    BY <1>4
  <2>2. e \in 1 .. L /\ k \in 1 .. L /\ i < e /\ e <= k /\ i \in 1 .. L
    BY <1>1, <1>2 DEF L
  <2>3. s[i].key <= s[e].key /\ s[i].key # s[e].key
    BY <1>2, <1>3, <2>2
  <2>4. s[e].key <= s[k].key
    BY <1>1, <1>3, <2>2
  <2>5. s[i].key \in Int /\ s[e].key \in Int /\ s[k].key \in Int
    BY <1>1, <2>2
  <2> QED
    BY <2>1, <2>3, <2>4, <2>5
<1> QED
  BY <1>2, <1>4, <1>5, <1>6, <1>7, <1>8 DEF e, L

\* Every row of the one run with every row of the other.
LEMMA CrossLists ==
  ASSUME NEW A, NEW B, NEW rows, Lists(rows, A), NEW others, Lists(others, B)
  PROVE  Lists(Cross(rows, others), A \X B)
<1> DEFINE matches == [n \in DOMAIN rows |-> others]
           P == A \X B
<1>1. ASSUME NEW n \in DOMAIN rows
      PROVE  Lists(matches[n], {y \in B : <<rows[n], y>> \in P})
  <2>1. rows[n] \in A
    BY ListsDef
  <2>2. {y \in B : <<rows[n], y>> \in P} = B
    BY <2>1
  <2> QED
    BY <2>2
<1>2. P \in SUBSET (A \X B)
  OBVIOUS
<1> HIDE DEF matches, P
<1>3. Lists(Pairs(rows, matches), P)
  BY <1>1, <1>2, PairsLists
<1> QED
  BY <1>3 DEF matches, P, Cross

\* joined[<<i, j>>] is what the loop emits from i and j on.
Joining(R, S, joined) ==
  /\ MergeJoin(R, S) = joined[<<1, 1>>]
  /\ \A i \in 1 .. Len(R) + 1, j \in 1 .. Len(S) + 1 :
       joined[<<i, j>>] =
         IF i > Len(R) \/ j > Len(S) THEN <<>>
         ELSE IF R[i].key < S[j].key THEN joined[<<i + 1, j>>]
         ELSE IF R[i].key > S[j].key THEN joined[<<i, j + 1>>]
         ELSE Cross(SubSeq(R, i, RunEnd(R, i) - 1), SubSeq(S, j, RunEnd(S, j) - 1))
                \o joined[<<RunEnd(R, i), RunEnd(S, j)>>]

\* Each turn moves a pointer forward, so the loop ends.
LEMMA JoiningFrom ==
  ASSUME NEW A \in SUBSET Rows, NEW R, Sorted(R, A),
         NEW B \in SUBSET Rows, NEW S, Sorted(S, B)
  PROVE  \E joined : Joining(R, S, joined)
<1> DEFINE La == Len(R)
           Lb == Len(S)
           D == Pointers(R, S)
           V == Seq(A \X B)
           Runs(d) == Cross(SubSeq(R, d[1], RunEnd(R, d[1]) - 1),
                            SubSeq(S, d[2], RunEnd(S, d[2]) - 1))
           Ends(d) == <<RunEnd(R, d[1]), RunEnd(S, d[2])>>
           Step(d, f) == IF d[1] > Len(R) \/ d[2] > Len(S) THEN <<>>
                         ELSE IF R[d[1]].key < S[d[2]].key THEN f[<<d[1] + 1, d[2]>>]
                         ELSE IF R[d[1]].key > S[d[2]].key THEN f[<<d[1], d[2] + 1>>]
                         ELSE Runs(d) \o f[Ends(d)]
           rest == [d \in D |-> (La + 1 - d[1]) + (Lb + 1 - d[2])]
           step == [d \in D |-> [f \in [D -> V] |-> Step(d, f)]]
           Inside(d) == d[1] <= La /\ d[2] <= Lb
<1>1. La \in Nat /\ Lb \in Nat /\ <<>> \in V
  BY ListsDef DEF Sorted
<1>2. ASSUME NEW d \in D
      PROVE  /\ d[1] \in 1 .. La + 1 /\ d[2] \in 1 .. Lb + 1
             /\ rest[d] = (La + 1 - d[1]) + (Lb + 1 - d[2])
             /\ rest[d] \in 0 .. La + Lb
  <2>1. d[1] \in 1 .. La + 1 /\ d[2] \in 1 .. Lb + 1
    BY DEF Pointers
  <2>2. rest[d] = (La + 1 - d[1]) + (Lb + 1 - d[2])
    OBVIOUS
  <2> HIDE DEF D, rest
  <2> QED
    BY <1>1, <2>1, <2>2
<1>3. ASSUME NEW d \in D, Inside(d)
      PROVE  /\ <<d[1] + 1, d[2]>> \in D /\ rest[<<d[1] + 1, d[2]>>] < rest[d]
             /\ <<d[1], d[2] + 1>> \in D /\ rest[<<d[1], d[2] + 1>>] < rest[d]
             /\ Ends(d) \in D /\ rest[Ends(d)] < rest[d]
             /\ Runs(d) \in V
  <2>1. d[1] \in 1 .. La /\ d[2] \in 1 .. Lb
    BY <1>1, <1>2, <1>3
  <2>2. /\ RunEnd(R, d[1]) \in d[1] + 1 .. La + 1
        /\ RunEnd(S, d[2]) \in d[2] + 1 .. Lb + 1
    BY <2>1, RunLists
  <2>3. ASSUME NEW i \in d[1] .. La + 1, NEW j \in d[2] .. Lb + 1, i > d[1] \/ j > d[2]
        PROVE  <<i, j>> \in D /\ rest[<<i, j>>] < rest[d]
    <3>1. i \in 1 .. La + 1 /\ j \in 1 .. Lb + 1
      BY <1>1, <2>1
    <3>2. <<i, j>> \in D
      BY <3>1 DEF Pointers
    <3>3. rest[<<i, j>>] = (La + 1 - i) + (Lb + 1 - j)
      BY <3>2
    <3>4. rest[d] = (La + 1 - d[1]) + (Lb + 1 - d[2])
      BY <1>2
    <3> HIDE DEF D, rest, La, Lb
    <3>5. (La + 1 - i) + (Lb + 1 - j) < (La + 1 - d[1]) + (Lb + 1 - d[2])
      <4>1. i \in Nat /\ j \in Nat /\ d[1] \in Nat /\ d[2] \in Nat /\ i >= d[1] /\ j >= d[2]
        BY <1>1, <2>1, <2>3
      <4> QED
        BY <1>1, <2>3, <4>1
    <3> QED
      BY <3>2, <3>3, <3>4, <3>5
  <2>4. /\ d[1] + 1 \in d[1] .. La + 1 /\ d[2] \in d[2] .. Lb + 1
        /\ d[1] \in d[1] .. La + 1 /\ d[2] + 1 \in d[2] .. Lb + 1
        /\ d[1] + 1 > d[1] /\ d[2] + 1 > d[2]
        /\ RunEnd(R, d[1]) \in d[1] .. La + 1 /\ RunEnd(S, d[2]) \in d[2] .. Lb + 1
        /\ RunEnd(R, d[1]) > d[1]
    BY <1>1, <2>1, <2>2
  <2>5. Runs(d) \in V
    <3>1. /\ Lists(SubSeq(R, d[1], RunEnd(R, d[1]) - 1), Run(R, d[1]))
          /\ Lists(SubSeq(S, d[2], RunEnd(S, d[2]) - 1), Run(S, d[2]))
      BY <2>1, RunLists
    <3>2. Lists(Runs(d), Run(R, d[1]) \X Run(S, d[2]))
      BY <3>1, CrossLists
    <3>3. Run(R, d[1]) \subseteq A /\ Run(S, d[2]) \subseteq B
      <4>1. ASSUME NEW X, NEW s, Lists(s, X), NEW i \in 1 .. Len(s),
                   RunEnd(s, i) \in i + 1 .. Len(s) + 1
            PROVE  Run(s, i) \subseteq X
        BY <4>1, ListsDef DEF Run
      <4> QED
        BY <2>1, <2>2, <4>1 DEF Sorted
    <3>4. Run(R, d[1]) \X Run(S, d[2]) \subseteq A \X B
      BY <3>3
    <3> HIDE DEF Runs
    <3> QED
      BY <3>2, <3>4, SeqMonotonic DEF Lists
  <2> HIDE DEF D, rest, La, Lb
  <2> QED
    BY <2>3, <2>4, <2>5
<1> HIDE DEF Runs, Ends
<1>4. ASSUME NEW d \in D, NEW f \in [D -> V] PROVE Step(d, f) \in V
  <2>1. CASE Inside(d)
    <3>1. /\ f[<<d[1] + 1, d[2]>>] \in V /\ f[<<d[1], d[2] + 1>>] \in V
          /\ f[Ends(d)] \in V /\ Runs(d) \in V
      <4> HIDE DEF D, V, rest
      <4> QED
        BY <1>3, <2>1
    <3>2. Runs(d) \o f[Ends(d)] \in V
      BY <3>1, ConcatProperties
    <3> HIDE DEF V, D
    <3> QED
      BY <1>1, <3>1, <3>2
  <2>2. CASE ~ Inside(d)
    <3>1. d[1] > La \/ d[2] > Lb
      BY <1>1, <1>2, <2>2
    <3> QED
      BY <1>1, <3>1
  <2> QED
    BY <2>1, <2>2
<1>5. step \in [D -> [[D -> V] -> V]]
  <2> HIDE DEF Step, D, V
  <2> QED
    BY <1>4
<1>6. rest \in [D -> 0 .. La + Lb]
  <2>1. \A d \in D : rest[d] \in 0 .. La + Lb
    BY <1>2
  <2> HIDE DEF D, La, Lb
  <2> QED
    BY <2>1
<1>7. Decreases(D, V, La + Lb, rest, step)
  <2> SUFFICES ASSUME NEW d \in D, NEW f \in [D -> V], NEW g \in [D -> V],
                      \A e \in D : rest[e] < rest[d] => f[e] = g[e]
               PROVE  step[d][f] = step[d][g]
    <3>1. La + Lb \in Nat /\ V # {}
      <4> HIDE DEF V, La, Lb
      <4> QED
        BY <1>1
    <3> HIDE DEF D, V, La, Lb, rest, step
    <3> QED
      BY <1>5, <1>6, <3>1 DEF Decreases
  <2>1. Inside(d) => /\ f[<<d[1] + 1, d[2]>>] = g[<<d[1] + 1, d[2]>>]
                     /\ f[<<d[1], d[2] + 1>>] = g[<<d[1], d[2] + 1>>]
                     /\ f[Ends(d)] = g[Ends(d)]
    <3> HIDE DEF D, rest, V, Inside
    <3> QED
      BY <1>3
  <2>2. d[1] \in 1 .. La + 1 /\ d[2] \in 1 .. Lb + 1
    BY <1>2
  <2>3. Step(d, f) = Step(d, g)
    <3> HIDE DEF D, V
    <3> QED
      BY <1>1, <2>1, <2>2
  <2> HIDE DEF Step, D, V
  <2> QED
    BY <2>3
<1>8. PICK f \in [D -> V] : \A d \in D : f[d] = Step(d, f)
  <2>1. \E f \in [D -> V] : \A d \in D : f[d] = step[d][f]
    <3> HIDE DEF D, V, La, Lb, rest, step
    <3> QED
      BY <1>7, Recursion
  <2> HIDE DEF D, V, Step
  <2> QED
    BY <2>1
<1>9. f = [d \in D |-> Step(d, f)]
  <2> HIDE DEF D, V, Step
  <2> QED
    BY <1>8
<1> DEFINE joined == CHOOSE h : h = [d \in D |-> Step(d, h)]
<1>10. joined = [d \in D |-> Step(d, joined)]
  <2> HIDE DEF D, Step
  <2> QED
    BY <1>9
<1>11. MergeJoin(R, S) = joined[<<1, 1>>]
  BY DEF MergeJoin, Runs, Ends
<1> HIDE DEF joined
<1>12. ASSUME NEW i \in 1 .. Len(R) + 1, NEW j \in 1 .. Len(S) + 1
       PROVE  joined[<<i, j>>] =
                IF i > Len(R) \/ j > Len(S) THEN <<>>
                ELSE IF R[i].key < S[j].key THEN joined[<<i + 1, j>>]
                ELSE IF R[i].key > S[j].key THEN joined[<<i, j + 1>>]
                ELSE Cross(SubSeq(R, i, RunEnd(R, i) - 1), SubSeq(S, j, RunEnd(S, j) - 1))
                       \o joined[<<RunEnd(R, i), RunEnd(S, j)>>]
  <2>1. <<i, j>> \in D
    BY DEF Pointers
  <2>2. joined[<<i, j>>] = Step(<<i, j>>, joined)
    <3> HIDE DEF D, Step
    <3> QED
      BY <1>10, <2>1
  <2> HIDE DEF D
  <2> QED
    BY <2>2 DEF Runs, Ends
<1> HIDE DEF Step
<1> QED
  BY <1>11, <1>12 DEF Joining

\* The pairs of rows from i and from j on that have one key.
Unjoined(R, S, i, j) == JoinOf(From(R, i), From(S, j), "equal")

\* What each move of the pointers does to the pairs that are left.
Moves(R, S, i, j) ==
  /\ R[i].key < S[j].key => Unjoined(R, S, i, j) = Unjoined(R, S, i + 1, j)
  /\ R[i].key > S[j].key => Unjoined(R, S, i, j) = Unjoined(R, S, i, j + 1)
  /\ R[i].key = S[j].key =>
       /\ Unjoined(R, S, i, j) =
            (Run(R, i) \X Run(S, j)) \cup Unjoined(R, S, RunEnd(R, i), RunEnd(S, j))
       /\ (Run(R, i) \X Run(S, j)) \cap Unjoined(R, S, RunEnd(R, i), RunEnd(S, j)) = {}

\* No pair is lost when the pointers move: the row with the smaller key has no
\* match, and two runs with one key match each other only.
LEMMA LeftMoves ==
  ASSUME NEW A \in SUBSET Rows, NEW R, Sorted(R, A),
         NEW B \in SUBSET Rows, NEW S, Sorted(S, B),
         NEW i \in 1 .. Len(R), NEW j \in 1 .. Len(S)
  PROVE  Moves(R, S, i, j)
<1>1. ASSUME NEW X \in SUBSET Rows, NEW s, Sorted(s, X), NEW k \in 1 .. Len(s)
      PROVE  /\ From(s, k) = {s[k]} \cup From(s, k + 1)
             /\ s[k].key \in Int
             /\ \A y \in From(s, k) : y.key \in Int /\ s[k].key <= y.key
  <2>1. /\ From(s, k) = {s[k]} \cup From(s, k + 1)
        /\ \A y \in From(s, k + 1) : Before(s[k], y)
        /\ s[k] \in X
    BY <1>1, FromSorted
  <2>2. \A y \in From(s, k) : y \in X
    <3>1. Lists(s, X)
      BY <1>1 DEF Sorted
    <3> QED
      BY <3>1, ListsDef DEF From
  <2>3. s[k].key \in Int /\ \A y \in From(s, k) : y.key \in Int
    BY <2>1, <2>2 DEF Rows
  <2>4. ASSUME NEW y \in From(s, k) PROVE s[k].key <= y.key
    <3>1. CASE y = s[k]
      BY <2>3, <3>1
    <3>2. CASE y \in From(s, k + 1)
      BY <2>1, <2>2, <3>2, BeforeStrict
    <3> QED
      BY <2>1, <3>1, <3>2
  <2> QED
    BY <2>1, <2>3, <2>4
<1>2. /\ From(R, i) = {R[i]} \cup From(R, i + 1) /\ R[i].key \in Int
      /\ \A y \in From(R, i) : y.key \in Int /\ R[i].key <= y.key
  BY <1>1
<1>3. /\ From(S, j) = {S[j]} \cup From(S, j + 1) /\ S[j].key \in Int
      /\ \A y \in From(S, j) : y.key \in Int /\ S[j].key <= y.key
  BY <1>1
<1>4. ASSUME R[i].key < S[j].key PROVE Unjoined(R, S, i, j) = Unjoined(R, S, i + 1, j)
  <2>1. \A y \in From(S, j) : R[i].key # y.key
    BY <1>2, <1>3, <1>4
  <2> QED
    BY <1>2, <2>1 DEF Unjoined, JoinOf, Holds
<1>5. ASSUME R[i].key > S[j].key PROVE Unjoined(R, S, i, j) = Unjoined(R, S, i, j + 1)
  <2>1. \A x \in From(R, i) : x.key # S[j].key
    BY <1>2, <1>3, <1>5
  <2> QED
    BY <1>3, <2>1 DEF Unjoined, JoinOf, Holds
<1>6. ASSUME R[i].key = S[j].key
      PROVE  /\ Unjoined(R, S, i, j) =
                  (Run(R, i) \X Run(S, j)) \cup Unjoined(R, S, RunEnd(R, i), RunEnd(S, j))
             /\ (Run(R, i) \X Run(S, j)) \cap Unjoined(R, S, RunEnd(R, i), RunEnd(S, j)) = {}
  <2> DEFINE U == Run(R, i)
             U2 == From(R, RunEnd(R, i))
             W == Run(S, j)
             W2 == From(S, RunEnd(S, j))
             k == R[i].key
  <2>1. /\ From(R, i) = U \cup U2 /\ U \cap U2 = {}
        /\ \A x \in U : x.key = k
        /\ \A x \in U2 : k < x.key
    BY RunLists
  <2>2. /\ From(S, j) = W \cup W2 /\ W \cap W2 = {}
        /\ \A y \in W : y.key = S[j].key
        /\ \A y \in W2 : S[j].key < y.key
    BY RunLists
  <2>3. (\A x \in U2 : x.key # k) /\ (\A y \in W2 : y.key # k) /\ (\A y \in W : y.key = k)
    BY <1>2, <1>3, <1>6, <2>1, <2>2
  <2> HIDE DEF U, U2, W, W2, k
  <2>4. JoinOf(U \cup U2, W \cup W2, "equal") = (U \X W) \cup JoinOf(U2, W2, "equal")
    BY <2>1, <2>2, <2>3 DEF JoinOf, Holds
  <2>5. (U \X W) \cap JoinOf(U2, W2, "equal") = {}
    BY <2>1 DEF JoinOf
  <2> QED
    BY <2>1, <2>2, <2>4, <2>5 DEF Unjoined, U, U2, W, W2
<1> QED
  BY <1>4, <1>5, <1>6 DEF Moves

\* The pointer loop emits each pair with equal keys, whatever runs the two sorted
\* tables have.
LEMMA MergeJoinLists ==
  ASSUME NEW A \in SUBSET Rows, NEW R, Sorted(R, A),
         NEW B \in SUBSET Rows, NEW S, Sorted(S, B)
  PROVE  Lists(MergeJoin(R, S), JoinOf(A, B, "equal"))
<1> DEFINE La == Len(R)
           Lb == Len(S)
<1>1. /\ La \in Nat /\ Lb \in Nat
      /\ From(R, La + 1) = {} /\ From(S, Lb + 1) = {}
      /\ From(R, 1) = A /\ From(S, 1) = B
      /\ \A i \in 1 .. La : R[i].key \in Int
      /\ \A j \in 1 .. Lb : S[j].key \in Int
  <2>1. ASSUME NEW X \in SUBSET Rows, NEW s, Lists(s, X)
        PROVE  /\ Len(s) \in Nat /\ From(s, Len(s) + 1) = {} /\ From(s, 1) = X
               /\ \A i \in 1 .. Len(s) : s[i].key \in Int
    <3>1. \A i \in 1 .. Len(s) : s[i] \in Rows
      BY <2>1, ListsDef
    <3>2. Len(s) \in Nat /\ From(s, Len(s) + 1) = {} /\ From(s, 1) = X
      BY <2>1, ListsDef DEF From
    <3> QED
      BY <3>1, <3>2 DEF Rows
  <2> QED
    BY <2>1 DEF Sorted
<1>2. PICK joined : Joining(R, S, joined)
  BY JoiningFrom
<1> DEFINE Good(i, j) == Lists(joined[<<i, j>>], Unjoined(R, S, i, j))
           G == {n \in Nat : \A i \in 1 .. La + 1, j \in 1 .. Lb + 1 :
                               (La + 1 - i) + (Lb + 1 - j) = n => Good(i, j)}
<1>3. ASSUME NEW n \in Nat, \A m \in 0 .. n - 1 : m \in G,
             NEW i \in 1 .. La + 1, NEW j \in 1 .. Lb + 1,
             (La + 1 - i) + (Lb + 1 - j) = n
      PROVE  Good(i, j)
  <2>0. joined[<<i, j>>] =
          IF i > La \/ j > Lb THEN <<>>
          ELSE IF R[i].key < S[j].key THEN joined[<<i + 1, j>>]
          ELSE IF R[i].key > S[j].key THEN joined[<<i, j + 1>>]
          ELSE Cross(SubSeq(R, i, RunEnd(R, i) - 1), SubSeq(S, j, RunEnd(S, j) - 1))
                 \o joined[<<RunEnd(R, i), RunEnd(S, j)>>]
    BY <1>2 DEF Joining
  <2> HIDE DEF La, Lb
  <2>1. CASE i > La \/ j > Lb
    <3>1. i = La + 1 \/ j = Lb + 1
      BY <1>1, <2>1
    <3>2. Unjoined(R, S, i, j) = {}
      BY <1>1, <3>1 DEF Unjoined, JoinOf
    <3>3. joined[<<i, j>>] = <<>>
      BY <2>0, <2>1
    <3> QED
      BY <3>2, <3>3, ListsEmpty
  <2>2. CASE i <= La /\ j <= Lb
    <3>1. i \in 1 .. La /\ j \in 1 .. Lb /\ ~ (i > La) /\ ~ (j > Lb)
      BY <1>1, <2>2
    <3>2. ASSUME NEW i2 \in i .. La + 1, NEW j2 \in j .. Lb + 1, i2 > i \/ j2 > j
          PROVE  Good(i2, j2)
      <4> DEFINE m == (La + 1 - i2) + (Lb + 1 - j2)
      <4>1. i2 \in 1 .. La + 1 /\ j2 \in 1 .. Lb + 1 /\ m \in 0 .. n - 1
        BY <1>1, <1>3, <3>1, <3>2
      <4>2. m \in G
        BY <1>3, <4>1
      <4> HIDE DEF Good
      <4> QED
        BY <4>1, <4>2
    <3>3. Moves(R, S, i, j)
      BY <3>1, LeftMoves DEF La, Lb
    <3>4. CASE R[i].key < S[j].key
      <4>1. i + 1 \in i .. La + 1 /\ j \in j .. Lb + 1 /\ i + 1 > i
        BY <1>1, <3>1
      <4>2. Lists(joined[<<i + 1, j>>], Unjoined(R, S, i + 1, j))
        BY <3>2, <4>1
      <4>3. Unjoined(R, S, i, j) = Unjoined(R, S, i + 1, j)
        BY <3>4, <3>3 DEF Moves
      <4>4. joined[<<i, j>>] = joined[<<i + 1, j>>]
        BY <2>0, <3>1, <3>4
      <4> QED
        BY <4>2, <4>3, <4>4
    <3>5. CASE R[i].key > S[j].key
      <4>1. i \in i .. La + 1 /\ j + 1 \in j .. Lb + 1 /\ j + 1 > j
        BY <1>1, <3>1
      <4>2. Lists(joined[<<i, j + 1>>], Unjoined(R, S, i, j + 1))
        BY <3>2, <4>1
      <4>3. Unjoined(R, S, i, j) = Unjoined(R, S, i, j + 1)
        BY <3>5, <3>3 DEF Moves
      <4>4. joined[<<i, j>>] = joined[<<i, j + 1>>]
        BY <1>1, <2>0, <3>1, <3>5
      <4> QED
        BY <4>2, <4>3, <4>4
    <3>6. CASE R[i].key = S[j].key
      <4> DEFINE i2 == RunEnd(R, i)
                 j2 == RunEnd(S, j)
                 cross == Cross(SubSeq(R, i, i2 - 1), SubSeq(S, j, j2 - 1))
      <4>1. /\ i2 \in i + 1 .. La + 1 /\ j2 \in j + 1 .. Lb + 1
            /\ Lists(SubSeq(R, i, i2 - 1), Run(R, i))
            /\ Lists(SubSeq(S, j, j2 - 1), Run(S, j))
        BY <3>1, RunLists DEF La, Lb
      <4>2. Lists(cross, Run(R, i) \X Run(S, j))
        BY <4>1, CrossLists
      <4>3. i2 \in i .. La + 1 /\ j2 \in j .. Lb + 1 /\ i2 > i
        BY <1>1, <3>1, <4>1
      <4>4. Lists(joined[<<i2, j2>>], Unjoined(R, S, i2, j2))
        BY <3>2, <4>3
      <4>5. /\ Unjoined(R, S, i, j) = (Run(R, i) \X Run(S, j)) \cup Unjoined(R, S, i2, j2)
            /\ (Run(R, i) \X Run(S, j)) \cap Unjoined(R, S, i2, j2) = {}
        BY <3>6, <3>3 DEF Moves
      <4>6. joined[<<i, j>>] = cross \o joined[<<i2, j2>>]
        <5>1. ~ (R[i].key < S[j].key) /\ ~ (R[i].key > S[j].key)
          BY <1>1, <3>1, <3>6
        <5> QED
          BY <2>0, <3>1, <5>1
      <4> HIDE DEF i2, j2, cross
      <4> QED
        BY <4>2, <4>4, <4>5, <4>6, ListsConcat
    <3> QED
      BY <1>1, <3>1, <3>4, <3>5, <3>6
  <2> QED
    BY <1>1, <2>1, <2>2
<1>4. G = Nat
  <2>1. \A n \in Nat : (\A m \in 0 .. n - 1 : m \in G) => n \in G
    <3> HIDE DEF Good
    <3> QED
      BY <1>3
  <2>2. G \in SUBSET Nat
    OBVIOUS
  <2> HIDE DEF G
  <2> QED
    BY <2>1, <2>2, InductBelow
<1>5. Good(1, 1)
  <2>1. /\ La + Lb \in Nat /\ (La + 1 - 1) + (Lb + 1 - 1) = La + Lb
        /\ 1 \in 1 .. La + 1 /\ 1 \in 1 .. Lb + 1
    BY <1>1
  <2>2. La + Lb \in G
    BY <1>4, <2>1
  <2> HIDE DEF Good
  <2> QED
    BY <2>1, <2>2
<1> QED
  BY <1>1, <1>2, <1>5 DEF Joining, Unjoined

-----------------------------------------------------------------------------
(* Grouping *)

\* The sum of the payloads of the rows at the places in M.
Total(rows, M) == MapThenSumSet(LAMBDA n : rows[n].payload, M)

\* sum[s] is that sum for every part s of M, whichever row of s is taken first.
Summing(rows, M, sum) ==
  /\ Total(rows, M) = sum[M]
  /\ sum[{}] = 0
  /\ \A s \in SUBSET M : sum[s] \in Int
  /\ \A s \in SUBSET M : \A x \in s : sum[s] = rows[x].payload + sum[s \ {x}]

\* A sum over a finite set does not depend on the order in which the set is
\* used up.
LEMMA SumsExist ==
  ASSUME NEW rows, NEW M, IsFiniteSet(M), \A n \in M : rows[n].payload \in Int
  PROVE  \E sum : Summing(rows, M, sum)
<1> DEFINE D == SUBSET M
           V == Int
           one(s) == CHOOSE x \in s : TRUE
           Step(s, f) == IF s = {} THEN 0 ELSE rows[one(s)].payload + f[s \ {one(s)}]
           bound == Cardinality(M)
           size == [s \in D |-> Cardinality(s)]
           step == [s \in D |-> [f \in [D -> V] |-> Step(s, f)]]
<1>1. bound \in Nat
  BY FS_CardinalityType
<1>2. ASSUME NEW s \in D PROVE IsFiniteSet(s) /\ size[s] = Cardinality(s) /\ size[s] \in 0 .. bound
  <2>1. IsFiniteSet(s) /\ Cardinality(s) <= bound
    BY FS_Subset
  <2>2. Cardinality(s) \in Nat
    BY <2>1, FS_CardinalityType
  <2> QED
    BY <1>1, <2>1, <2>2
<1>3. ASSUME NEW s \in D, NEW x \in s
      PROVE  s \ {x} \in D /\ size[s \ {x}] = size[s] - 1 /\ rows[x].payload \in Int
  <2>1. IsFiniteSet(s) /\ size[s] = Cardinality(s)
    BY <1>2
  <2>2. Cardinality(s \ {x}) = Cardinality(s) - 1
    BY <2>1, FS_RemoveElement
  <2>3. s \ {x} \in D
    OBVIOUS
  <2>4. size[s \ {x}] = Cardinality(s \ {x})
    BY <2>3
  <2> QED
    BY <2>1, <2>2, <2>3, <2>4
<1>4. ASSUME NEW s \in D, s # {} PROVE one(s) \in s
  BY <1>4
<1> HIDE DEF one, size, bound
<1>5. ASSUME NEW s \in D, NEW f \in [D -> V] PROVE Step(s, f) \in V
  <2>1. CASE s = {}
    BY <2>1
  <2>2. CASE s # {}
    <3>1. s \ {one(s)} \in D /\ rows[one(s)].payload \in Int
      BY <1>3, <1>4, <2>2
    <3>2. f[s \ {one(s)}] \in Int
      <4> HIDE DEF D
      <4> QED
        BY <3>1
    <3> QED
      BY <2>2, <3>1, <3>2
  <2> QED
    BY <2>1, <2>2
<1>6. step \in [D -> [[D -> V] -> V]]
  <2> HIDE DEF Step, D, V
  <2> QED
    BY <1>5
<1>7. Decreases(D, V, bound, size, step)
  <2> SUFFICES ASSUME NEW d \in D, NEW f \in [D -> V], NEW g \in [D -> V],
                      \A e \in D : size[e] < size[d] => f[e] = g[e]
               PROVE  step[d][f] = step[d][g]
    <3>1. size \in [D -> 0 .. bound]
      <4>1. \A s \in D : size[s] \in 0 .. bound
        BY <1>2
      <4> QED
        BY <4>1 DEF size
    <3>2. V # {}
      OBVIOUS
    <3> HIDE DEF D, V, step
    <3> QED
      BY <1>1, <1>6, <3>1, <3>2 DEF Decreases
  <2>1. d # {} => f[d \ {one(d)}] = g[d \ {one(d)}]
    <3>1. ASSUME d # {} PROVE d \ {one(d)} \in D /\ size[d \ {one(d)}] < size[d]
      <4>1. d \ {one(d)} \in D /\ size[d \ {one(d)}] = size[d] - 1
        BY <1>3, <1>4, <3>1
      <4>2. size[d] \in 0 .. bound
        BY <1>2
      <4> HIDE DEF D
      <4> QED
        BY <1>1, <4>1, <4>2
    <3> HIDE DEF D
    <3> QED
      BY <3>1
  <2>2. Step(d, f) = Step(d, g)
    BY <2>1
  <2> HIDE DEF Step, D, V
  <2> QED
    BY <2>2
<1>8. PICK f \in [D -> V] : \A s \in D : f[s] = Step(s, f)
  <2>1. \E f \in [D -> V] : \A s \in D : f[s] = step[s][f]
    <3> HIDE DEF D, V, step
    <3> QED
      BY <1>7, Recursion
  <2> HIDE DEF D, V, Step
  <2> QED
    BY <2>1
<1>9. f = [s \in D |-> Step(s, f)]
  <2> HIDE DEF D, V, Step
  <2> QED
    BY <1>8
<1> DEFINE sum == CHOOSE h : h = [s \in D |-> Step(s, h)]
<1>10. sum = [s \in D |-> Step(s, sum)]
  <2> HIDE DEF D, Step
  <2> QED
    BY <1>9
<1>11. Total(rows, M) = sum[M]
  BY DEF Total, MapThenSumSet, MapThenFoldSet, one
<1> HIDE DEF sum
<1>12. sum[{}] = 0
  BY <1>10
<1>13. ASSUME NEW s \in D, s # {} PROVE sum[s] = rows[one(s)].payload + sum[s \ {one(s)}]
  BY <1>10, <1>13
<1> DEFINE Good(s) == sum[s] \in Int /\ \A x \in s : sum[s] = rows[x].payload + sum[s \ {x}]
           G == {n \in Nat : \A s \in D : size[s] = n => Good(s)}
<1>14. ASSUME NEW n \in Nat, \A m \in 0 .. n - 1 : m \in G, NEW s \in D, size[s] = n
       PROVE  Good(s)
  <2>1. CASE s = {}
    BY <1>12, <2>1
  <2>2. CASE s # {}
    <3>1. ASSUME NEW x \in s PROVE s \ {x} \in D /\ Good(s \ {x}) /\ rows[x].payload \in Int
      <4>1. s \ {x} \in D /\ size[s \ {x}] = n - 1 /\ rows[x].payload \in Int
        BY <1>3, <1>14
      <4>2. n - 1 \in 0 .. n - 1
        <5>1. size[s \ {x}] \in 0 .. bound
          BY <1>2, <4>1
        <5> QED
          BY <1>1, <4>1, <5>1
      <4>3. n - 1 \in G
        BY <1>14, <4>2
      <4> HIDE DEF Good, D
      <4> QED
        BY <4>1, <4>3
    <3>2. one(s) \in s /\ sum[s] = rows[one(s)].payload + sum[s \ {one(s)}]
      BY <1>4, <1>13, <2>2
    <3>3. sum[s] \in Int
      <4>1. sum[s \ {one(s)}] \in Int /\ rows[one(s)].payload \in Int
        BY <3>1, <3>2
      <4> QED
        BY <3>2, <4>1
    <3>4. ASSUME NEW x \in s, x # one(s) PROVE sum[s] = rows[x].payload + sum[s \ {x}]
      <4> DEFINE c == one(s)
                 rest == s \ {c, x}
      <4>1. /\ x \in s \ {c} /\ (s \ {c}) \ {x} = rest
            /\ c \in s \ {x} /\ (s \ {x}) \ {c} = rest
        BY <3>2, <3>4
      <4>2. sum[s \ {c}] = rows[x].payload + sum[rest]
        BY <3>1, <3>2, <4>1
      <4>3. sum[s \ {x}] = rows[c].payload + sum[rest]
        BY <3>1, <4>1
      <4>4. rows[x].payload \in Int /\ rows[c].payload \in Int
        BY <3>1, <3>2
      <4>5. sum[rest] \in Int
        <5>1. s \ {c} \in D /\ (s \ {c}) \ {x} \in D
          OBVIOUS
        <5>2. size[s \ {c}] = n - 1 /\ size[rest] = n - 2
          <6>1. size[s \ {c}] = n - 1
            BY <1>3, <1>14, <3>2
          <6>2. size[(s \ {c}) \ {x}] = size[s \ {c}] - 1
            BY <1>3, <4>1, <5>1
          <6>3. size[rest] = size[s \ {c}] - 1
            BY <4>1, <6>2
          <6>4. \A p, q \in Int : p = n - 1 /\ q = p - 1 => q = n - 2
            OBVIOUS
          <6>5. size[s \ {c}] \in Int /\ size[rest] \in Int
            BY <6>1, <6>3
          <6> HIDE DEF c, rest
          <6> QED
            BY <6>1, <6>3, <6>4, <6>5
        <5>3. size[rest] \in 0 .. bound
          BY <1>2, <4>1, <5>1
        <5>4. n - 2 \in 0 .. n - 1
          <6> HIDE DEF rest
          <6> QED
            BY <1>1, <5>2, <5>3
        <5>5. n - 2 \in G
          BY <1>14, <5>4
        <5>6. rest \in D
          OBVIOUS
        <5>7. Good(rest)
          <6> HIDE DEF Good, D, rest
          <6> QED
            BY <5>2, <5>5, <5>6
        <5> QED
          BY <5>7
      <4>6. sum[s] = rows[c].payload + sum[s \ {c}]
        BY <3>2
      <4> HIDE DEF c, rest
      <4> QED
        BY <4>2, <4>3, <4>4, <4>5, <4>6
    <3> QED
      BY <3>2, <3>3, <3>4
  <2> QED
    BY <2>1, <2>2
<1>15. G = Nat
  <2>1. \A n \in Nat : (\A m \in 0 .. n - 1 : m \in G) => n \in G
    <3> HIDE DEF Good, D
    <3> QED
      BY <1>14
  <2>2. G \in SUBSET Nat
    OBVIOUS
  <2> HIDE DEF G
  <2> QED
    BY <2>1, <2>2, InductBelow
<1>16. ASSUME NEW s \in D PROVE Good(s)
  <2>1. size[s] \in Nat
    BY <1>1, <1>2
  <2> HIDE DEF Good, D
  <2> QED
    BY <1>15, <2>1
<1> QED
  BY <1>11, <1>12, <1>16 DEF Summing

\* The places of the rows with key k among the first n, all of them, and a sum
\* over their parts.
Places(rows, k, n) == {m \in 1 .. n : rows[m].key = k}
Sum(rows, k) == CHOOSE sum : Summing(rows, Places(rows, k, Len(rows)), sum)

\* The accumulator of a group of count rows whose payloads add up to sum.
Accumulated(kind, count, sum) ==
  [sum |-> IF kind = "count" THEN 0 ELSE sum, count |-> IF kind = "sum" THEN 0 ELSE count]

\* The table after n rows.
TableAfter(kind, rows, n) ==
  [k \in {rows[m].key : m \in 1 .. n} |->
     Accumulated(kind, Cardinality(Places(rows, k, n)), Sum(rows, k)[Places(rows, k, n)])]

\* The places of a group, and what the sum over them is.
LEMMA PlacesOf ==
  ASSUME NEW rows, Numbered(rows), NEW k, NEW n \in 0 .. Len(rows)
  PROVE  /\ IsFiniteSet(Places(rows, k, n))
         /\ Cardinality(Places(rows, k, n)) \in Nat
         /\ Summing(rows, Places(rows, k, Len(rows)), Sum(rows, k))
         /\ Sum(rows, k)[Places(rows, k, n)] \in Int
<1>1. /\ Len(rows) \in Nat
      /\ \A m \in 1 .. Len(rows) : rows[m].payload \in Int
  BY DEF Numbered
<1>2. ASSUME NEW i \in 0 .. Len(rows)
      PROVE  IsFiniteSet(Places(rows, k, i)) /\ Cardinality(Places(rows, k, i)) \in Nat
  <2>1. IsFiniteSet(1 .. i)
    <3>1. i \in Int
      BY <1>1
    <3> QED
      BY <3>1, FS_Interval
  <2>2. Places(rows, k, i) \in SUBSET (1 .. i)
    BY DEF Places
  <2>3. IsFiniteSet(Places(rows, k, i))
    BY <2>1, <2>2, FS_Subset
  <2> QED
    BY <2>3, FS_CardinalityType
<1>3. Summing(rows, Places(rows, k, Len(rows)), Sum(rows, k))
  <2> DEFINE M == Places(rows, k, Len(rows))
  <2>1. IsFiniteSet(M) /\ \A m \in M : rows[m].payload \in Int
    BY <1>1, <1>2 DEF Places
  <2> HIDE DEF M
  <2>2. \E sum : Summing(rows, M, sum)
    BY <2>1, SumsExist
  <2> QED
    BY <2>2 DEF Sum, M
<1>4. Places(rows, k, n) \in SUBSET Places(rows, k, Len(rows))
  BY <1>1 DEF Places
<1> QED
  BY <1>2, <1>3, <1>4 DEF Summing

\* One row more: only its own group changes.
LEMMA PlacesMore ==
  ASSUME NEW rows, Numbered(rows), NEW n \in 1 .. Len(rows), NEW k
  PROVE  /\ rows[n].key # k => Places(rows, k, n) = Places(rows, k, n - 1)
         /\ rows[n].key = k =>
              /\ Cardinality(Places(rows, k, n)) = Cardinality(Places(rows, k, n - 1)) + 1
              /\ Sum(rows, k)[Places(rows, k, n)]
                   = Sum(rows, k)[Places(rows, k, n - 1)] + rows[n].payload
<1> DEFINE P == Places(rows, k, n)
           Q == Places(rows, k, n - 1)
<1>1. /\ Len(rows) \in Nat /\ n - 1 \in 0 .. Len(rows) /\ n \in 0 .. Len(rows)
      /\ \A m \in 1 .. Len(rows) : rows[m].payload \in Int
  BY DEF Numbered
<1>2. 1 .. n = (1 .. n - 1) \cup {n} /\ n \notin 1 .. n - 1
  BY <1>1
<1>3. rows[n].key # k => P = Q
  BY <1>2 DEF Places
<1>4. ASSUME rows[n].key = k
      PROVE  /\ Cardinality(P) = Cardinality(Q) + 1
             /\ Sum(rows, k)[P] = Sum(rows, k)[Q] + rows[n].payload
  <2>1. P = Q \cup {n} /\ n \notin Q /\ n \in P /\ Q = P \ {n}
    BY <1>2, <1>4 DEF Places
  <2>2. IsFiniteSet(Q) /\ Cardinality(Q) \in Nat /\ Sum(rows, k)[Q] \in Int
    BY <1>1, PlacesOf
  <2>3. Summing(rows, Places(rows, k, Len(rows)), Sum(rows, k))
    BY <1>1, PlacesOf
  <2>4. P \in SUBSET Places(rows, k, Len(rows))
    BY <1>1 DEF Places
  <2> HIDE DEF P, Q
  <2>5. Cardinality(P) = Cardinality(Q) + 1
    BY <2>1, <2>2, FS_AddElement
  <2>6. Sum(rows, k)[P] = rows[n].payload + Sum(rows, k)[P \ {n}]
    BY <2>1, <2>3, <2>4 DEF Summing
  <2>7. rows[n].payload \in Int /\ P \ {n} = Q
    BY <1>1, <2>1
  <2>8. Sum(rows, k)[P] = rows[n].payload + Sum(rows, k)[Q]
    BY <2>6, <2>7
  <2> QED
    BY <2>2, <2>5, <2>7, <2>8
<1> QED
  BY <1>3, <1>4

\* AddRow makes the table after n rows from that after n - 1.
LEMMA RowAdded ==
  ASSUME NEW rows, Numbered(rows), NEW kind \in Aggregates, NEW n \in 1 .. Len(rows)
  PROVE  TableAfter(kind, rows, n) = AddRow(kind, TableAfter(kind, rows, n - 1), rows[n])
<1> DEFINE before == TableAfter(kind, rows, n - 1)
           after == TableAfter(kind, rows, n)
           key == rows[n].key
           acc(k, i) == Accumulated(kind, Cardinality(Places(rows, k, i)),
                                    Sum(rows, k)[Places(rows, k, i)])
           Keyed(i) == {rows[m].key : m \in 1 .. i}
           found == [k \in DOMAIN before \cup {key} |->
                       IF k \in DOMAIN before THEN before[k] ELSE Fresh]
<1>1. /\ Len(rows) \in Nat /\ n - 1 \in 0 .. Len(rows) /\ n \in 0 .. Len(rows)
      /\ \A m \in 1 .. Len(rows) : rows[m].payload \in Int
      /\ 1 .. n = (1 .. n - 1) \cup {n}
  BY DEF Numbered
<1>2. /\ before = [k \in Keyed(n - 1) |-> acc(k, n - 1)]
      /\ after = [k \in Keyed(n) |-> acc(k, n)]
  BY DEF TableAfter
<1>3. Keyed(n) = Keyed(n - 1) \cup {key}
  BY <1>1
<1> HIDE DEF before, after
<1>4. ASSUME NEW k, k \notin Keyed(n - 1) PROVE acc(k, n - 1) = Fresh
  <2>1. Places(rows, k, n - 1) = {}
    BY <1>4 DEF Places
  <2>2. Cardinality({}) = 0
    BY FS_EmptySet
  <2>3. Sum(rows, k)[{}] = 0
    BY <1>1, PlacesOf DEF Summing
  <2> QED
    BY <2>1, <2>2, <2>3 DEF Accumulated, Fresh
<1>5. \A k \in Keyed(n) : found[k] = acc(k, n - 1)
  <2> HIDE DEF acc, Keyed
  <2> QED
    BY <1>2, <1>3, <1>4
<1>6. acc(key, n) = Accumulate(kind, acc(key, n - 1), rows[n].payload)
  <2> DEFINE c == Cardinality(Places(rows, key, n - 1))
             s == Sum(rows, key)[Places(rows, key, n - 1)]
  <2>1. /\ Cardinality(Places(rows, key, n)) = c + 1
        /\ Sum(rows, key)[Places(rows, key, n)] = s + rows[n].payload
    BY PlacesMore
  <2>2. c \in Nat /\ s \in Int /\ rows[n].payload \in Int
    BY <1>1, PlacesOf
  <2> HIDE DEF c, s
  <2>3. Accumulated(kind, c + 1, s + rows[n].payload)
          = Accumulate(kind, Accumulated(kind, c, s), rows[n].payload)
    BY <2>2 DEF Accumulated, Accumulate, Aggregates
  <2> QED
    BY <2>1, <2>3 DEF c, s
<1>7. \A k \in Keyed(n) : k # key => acc(k, n) = acc(k, n - 1)
  BY PlacesMore
<1>8. AddRow(kind, before, rows[n])
        = [found EXCEPT ![key] = Accumulate(kind, found[key], rows[n].payload)]
  BY DEF AddRow
<1>9. DOMAIN found = Keyed(n) /\ found = [k \in Keyed(n) |-> found[k]] /\ key \in Keyed(n)
  <2> HIDE DEF acc, Keyed
  <2> QED
    BY <1>2, <1>3
<1> HIDE DEF found, acc, Keyed, key
<1>10. [found EXCEPT ![key] = Accumulate(kind, found[key], rows[n].payload)]
         = [k \in Keyed(n) |-> acc(k, n)]
  BY <1>5, <1>6, <1>7, <1>9
<1> QED
  BY <1>2, <1>8, <1>10 DEF before, after

\* The operator's hash table, after all rows, holds every group.
LEMMA HashTableHolds ==
  ASSUME NEW rows, Numbered(rows), NEW kind \in Aggregates
  PROVE  HashTable(kind, rows) = TableAfter(kind, rows, Len(rows))
<1> DEFINE L == Len(rows)
           Step(n, h) == IF n = 0 THEN <<>> ELSE AddRow(kind, h[n - 1], rows[n])
           f == [n \in 0 .. L |-> TableAfter(kind, rows, n)]
           table == CHOOSE h : h = [n \in 0 .. L |-> Step(n, h)]
<1>1. L \in Nat
  BY DEF Numbered
<1>2. TableAfter(kind, rows, 0) = <<>>
  BY DEF TableAfter
<1>3. f = [n \in 0 .. L |-> Step(n, f)]
  <2>1. ASSUME NEW n \in 0 .. L PROVE f[n] = Step(n, f)
    <3>1. CASE n = 0
      BY <1>1, <1>2, <3>1
    <3>2. CASE n # 0
      <4>1. n \in 1 .. L /\ n - 1 \in 0 .. L
        BY <1>1, <3>2
      <4>2. TableAfter(kind, rows, n) = AddRow(kind, TableAfter(kind, rows, n - 1), rows[n])
        BY <4>1, RowAdded
      <4> QED
        BY <3>2, <4>1, <4>2
    <3> QED
      BY <3>1, <3>2
  <2>2. f = [n \in 0 .. L |-> f[n]]
    OBVIOUS
  <2> HIDE DEF f, Step
  <2> QED
    BY <2>1, <2>2
<1>4. table = [n \in 0 .. L |-> Step(n, table)]
  <2> HIDE DEF f, Step
  <2> QED
    BY <1>3
<1>5. HashTable(kind, rows) = table[L]
  BY DEF HashTable
<1> HIDE DEF table, f
<1> DEFINE G == {n \in Nat : n <= L => table[n] = TableAfter(kind, rows, n)}
<1>6. 0 \in G
  BY <1>1, <1>2, <1>4
<1>7. ASSUME NEW n \in G PROVE n + 1 \in G
  <2>1. ASSUME n + 1 <= L PROVE table[n + 1] = TableAfter(kind, rows, n + 1)
    <3>1. n + 1 \in 1 .. L /\ n + 1 \in 0 .. L /\ (n + 1) - 1 = n /\ n <= L /\ n + 1 # 0
      BY <1>1, <2>1
    <3>2. table[n] = TableAfter(kind, rows, n)
      BY <3>1
    <3>3. TableAfter(kind, rows, n + 1) = AddRow(kind, TableAfter(kind, rows, (n + 1) - 1), rows[n + 1])
      BY <3>1, RowAdded
    <3>4. table[n + 1] = AddRow(kind, table[(n + 1) - 1], rows[n + 1])
      BY <1>4, <3>1
    <3> QED
      BY <3>1, <3>2, <3>3, <3>4
  <2> QED
    BY <2>1
<1>8. G = Nat
  <2>1. G \in SUBSET Nat
    OBVIOUS
  <2> HIDE DEF G
  <2> QED
    BY <1>6, <1>7, <2>1, Induct
<1>9. table[L] = TableAfter(kind, rows, L)
  BY <1>1, <1>8
<1> QED
  BY <1>5, <1>9

\* Finalize makes of a group's accumulator its aggregate.
LEMMA Finalized ==
  ASSUME NEW rows, Numbered(rows), NEW kind \in Aggregates, NEW n \in DOMAIN rows
  PROVE  Finalize(kind, TableAfter(kind, rows, Len(rows))[rows[n].key])
           = Aggregate(kind, rows, rows[n].key)
<1> DEFINE k == rows[n].key
           M == Places(rows, k, Len(rows))
           c == Cardinality(M)
           s == Sum(rows, k)[M]
<1>1. Len(rows) \in Nat /\ DOMAIN rows = 1 .. Len(rows) /\ Len(rows) \in 0 .. Len(rows)
  BY DEF Numbered
<1>2. TableAfter(kind, rows, Len(rows))[k] = Accumulated(kind, c, s)
  BY <1>1 DEF TableAfter
<1>3. M = {m \in DOMAIN rows : rows[m].key = k}
  BY <1>1 DEF Places
<1>4. Total(rows, M) = s
  BY <1>1, PlacesOf DEF Summing
<1>5. c # 0 /\ c \in Nat
  <2>1. n \in M
    BY <1>3
  <2>2. IsFiniteSet(M) /\ c \in Nat
    BY <1>1, PlacesOf
  <2> HIDE DEF M
  <2> QED
    BY <2>1, <2>2, FS_EmptySet
<1>6. Aggregate(kind, rows, k) = CASE kind = "count" -> <<c, 1>>
                                   [] kind = "sum" -> <<s, 1>>
                                   [] kind = "avg" -> <<s, c>>
  <2>1. Aggregate(kind, rows, k) =
          CASE kind = "count" -> <<Cardinality({m \in DOMAIN rows : rows[m].key = k}), 1>>
            [] kind = "sum" -> <<Total(rows, {m \in DOMAIN rows : rows[m].key = k}), 1>>
            [] kind = "avg" -> <<Total(rows, {m \in DOMAIN rows : rows[m].key = k}),
                                 Cardinality({m \in DOMAIN rows : rows[m].key = k})>>
    BY Zenon DEF Aggregate, Total
  <2> QED
    BY <1>3, <1>4, <2>1
<1> HIDE DEF c, s, k
<1>7. Finalize(kind, Accumulated(kind, c, s)) = CASE kind = "count" -> <<c, 1>>
                                                  [] kind = "sum" -> <<s, 1>>
                                                  [] kind = "avg" -> <<s, c>>
  BY <1>5 DEF Finalize, Accumulated, Aggregates
<1> QED
  BY <1>2, <1>6, <1>7 DEF k

\* A finite set as a sequence.
LEMMA SetToSeqLists ==
  ASSUME NEW S, IsFiniteSet(S)
  PROVE  Lists(SetToSeq(S), S) /\ Len(SetToSeq(S)) = Cardinality(S)
<1> DEFINE C == Cardinality(S)
           s == CHOOSE f \in [1 .. C -> S] : IsInjective(f)
<1>1. C \in Nat /\ ExistsBijection(1 .. C, S)
  BY FS_CardinalityType
<1>2. PICK f \in Bijection(1 .. C, S) : TRUE
  BY <1>1 DEF ExistsBijection
<1>3. f \in [1 .. C -> S] /\ IsInjective(f)
  BY <1>2 DEF Bijection, Injection, IsInjective
<1>4. s \in [1 .. C -> S] /\ IsInjective(s)
  BY <1>3
<1>5. SetToSeq(S) = s
  BY DEF SetToSeq
<1> HIDE DEF s
<1>6. \A x \in S : \E m \in 1 .. C : s[m] = x
  <2>1. s \in Injection(1 .. C, S)
    BY <1>4 DEF Injection, IsInjective
  <2>2. Cardinality(1 .. C) = C
    <3>1. 1 \in Int /\ C \in Int
      BY <1>1
    <3> HIDE DEF C
    <3>2. Cardinality(1 .. C) = IF 1 > C THEN 0 ELSE C - 1 + 1
      BY <3>1, FS_Interval
    <3> QED
      BY <1>1, <3>2
  <2>3. s \in Surjection(1 .. C, S)
    BY <2>1, <2>2, FS_Injection
  <2> QED
    BY <2>3 DEF Surjection
<1>7. \A m, n \in 1 .. C : s[m] = s[n] => m = n
  BY <1>4 DEF IsInjective
<1> HIDE DEF C
<1>8. Lists(s, S) /\ Len(s) = C
  BY <1>1, <1>4, <1>6, <1>7, ListsIntro
<1> QED
  BY <1>5, <1>8 DEF C

\* The aggregation operator returns one row per key, with its aggregate.
LEMMA GroupsListed ==
  ASSUME NEW rows, Numbered(rows), NEW kind \in Aggregates
  PROVE  LET results == GetResults(kind, HashTable(kind, rows))
         IN  /\ ToSet(results) = Groups(kind, rows)
             /\ Len(results) = Cardinality(ToSet(results))
<1> DEFINE table == TableAfter(kind, rows, Len(rows))
           S == {<<k>> \o Finalize(kind, table[k]) : k \in DOMAIN table}
           f == [n \in DOMAIN rows |-> <<rows[n].key>> \o Finalize(kind, table[rows[n].key])]
<1>1. /\ Len(rows) \in Nat /\ DOMAIN rows = 1 .. Len(rows)
      /\ DOMAIN table = {rows[n].key : n \in DOMAIN rows}
  BY DEF Numbered, TableAfter
<1>2. S = Groups(kind, rows)
  <2>1. \A n \in DOMAIN rows :
          Finalize(kind, table[rows[n].key]) = Aggregate(kind, rows, rows[n].key)
    BY Finalized
  <2>2. S = {<<k>> \o Finalize(kind, table[k]) : k \in {rows[n].key : n \in DOMAIN rows}}
    BY <1>1
  <2> HIDE DEF table, S
  <2>3. \A k \in {rows[n].key : n \in DOMAIN rows} :
          <<k>> \o Finalize(kind, table[k]) = <<k>> \o Aggregate(kind, rows, k)
    BY <2>1
  <2> QED
    BY ONLY <2>2, <2>3 DEF Groups
<1>3. IsFiniteSet(S)
  <2>1. f \in Surjection(DOMAIN rows, S)
    <3> HIDE DEF table
    <3> QED
      BY <1>1 DEF Surjection
  <2>2. IsFiniteSet(DOMAIN rows)
    <3>1. 1 \in Int /\ Len(rows) \in Int
      BY <1>1
    <3> QED
      BY <1>1, <3>1, FS_Interval
  <2> HIDE DEF f, S
  <2> QED
    BY <2>1, <2>2, FS_Surjection
<1>4. GetResults(kind, HashTable(kind, rows)) = SetToSeq(S)
  BY HashTableHolds DEF GetResults
<1> HIDE DEF S
<1>5. Lists(SetToSeq(S), S) /\ Len(SetToSeq(S)) = Cardinality(S)
  BY <1>3, SetToSeqLists
<1>6. ToSet(SetToSeq(S)) = S
  BY <1>5, ListsSet
<1> QED
  BY <1>2, <1>4, <1>5, <1>6

-----------------------------------------------------------------------------
(* The calls *)

\* The rows of a table are numbered from 1.
LEMMA TablesNumbered ==
  ASSUME NEW rows \in Tables
  PROVE  Numbered(rows)
<1>1. PICK keys \in BoundedSeq(Keys, MaxRows) :
        rows = [n \in DOMAIN keys |-> [key |-> keys[n], payload |-> n]]
  BY DEF Tables
<1>2. PICK m \in 0 .. MaxRows : keys \in [1 .. m -> Keys]
  BY <1>1 DEF BoundedSeq, SeqOf
<1>3. m \in Nat /\ \A n \in 1 .. m : keys[n] \in Int
  <2>1. MaxRows \in Nat /\ \A key \in Keys : key \in Int
    BY KeysAssumption, BoundsAssumption
  <2> QED
    BY <1>2, <2>1
<1>4. rows \in [1 .. m -> Rows] /\ \A n \in 1 .. m : rows[n].payload = n
  BY <1>1, <1>2, <1>3 DEF Rows
<1>5. rows \in Seq(Rows) /\ Len(rows) = m
  BY <1>3, <1>4, ArrayIsSequence
<1> QED
  BY <1>4, <1>5 DEF Numbered

\* A table lists its rows, and only them.
LEMMA TablesList ==
  ASSUME NEW rows \in Tables
  PROVE  Lists(rows, ToSet(rows)) /\ ToSet(rows) \in SUBSET Rows /\ ToSet(rows) = Range(rows)
<1>1. Lists(rows, Range(rows)) /\ Range(rows) \subseteq Rows
  BY TablesNumbered, NumberedLists
<1>2. ToSet(rows) = Range(rows)
  BY <1>1, ListsSet
<1> QED
  BY <1>1, <1>2

\* Whoever lists the pairs of a join has emitted it.
LEMMA ListedJoin ==
  ASSUME NEW l, NEW r, NEW predicate, NEW s, Lists(s, JoinOf(ToSet(l), ToSet(r), predicate))
  PROVE  ToSet(s) = Join(l, r, predicate) /\ IsInjective(s)
<1>1. Join(l, r, predicate) = JoinOf(ToSet(l), ToSet(r), predicate)
  BY DEF Join, JoinOf
<1> QED
  BY <1>1, ListsSet DEF Lists

\* Before the call, the tables are as they were passed.
PassedInv == call = <<"none">> => left \in Tables /\ right \in Tables /\ pageReads = 0

OperatorInv ==
  /\ PassedInv
  /\ JoinsMatchDefinition
  /\ SortMergeSortsTables
  /\ GroupsMatchDefinition

\* The invariant holds of the tables before any call.
LEMMA OperatorInitInv == OperatorInit => OperatorInv
BY DEF OperatorInit, OperatorInv, PassedInv, JoinsMatchDefinition, SortMergeSortsTables, GroupsMatchDefinition

\* A join that leaves the tables and the counter alone and lists the pairs.
LEMMA JoinCall ==
  ASSUME NEW op \in {"index", "hash", "grace"}, call'[1] = op, call'[2] = "equal",
         call' # <<"none">>, UNCHANGED <<left, right>>,
         Lists(output', JoinOf(ToSet(left), ToSet(right), "equal"))
  PROVE  OperatorInv'
<1>1. ToSet(output') = Join(left', right', call'[2]) /\ IsInjective(output')
  BY ListedJoin
<1>2. JoinsMatchDefinition'
  BY <1>1 DEF JoinsMatchDefinition, Emits
<1> QED
  BY <1>2 DEF OperatorInv, PassedInv, SortMergeSortsTables, GroupsMatchDefinition

\* The loops of nestedLoopJoin preserve the invariant: its pairs have the inner row
\* first, and those are the pairs of the join if the predicate is equality.
LEMMA NestedStep ==
  ASSUME OperatorInv, NEW predicate, CallNestedLoopJoin(predicate)
  PROVE  OperatorInv'
<1>1. /\ left \in Tables /\ right \in Tables /\ left' = left /\ right' = right
      /\ call' = <<"nested", predicate>>
      /\ output' = NestedLoopJoin(left, right, predicate)
  BY DEF CallNestedLoopJoin, Returns, OperatorInv, PassedInv
<1>2. Lists(output', JoinOf(ToSet(right), ToSet(left), predicate))
  BY <1>1, TablesList, NestedLoopLists
<1>3. ToSet(output') = Join(right', left', predicate) /\ IsInjective(output')
  BY <1>1, <1>2, ListedJoin
<1>4. call'[1] = "nested" /\ call'[2] = predicate /\ call' # <<"none">>
  BY <1>1
<1>5. JoinsMatchDefinition'
  <2>1. CASE predicate = "equal"
    BY <1>1, <1>3, <2>1 DEF JoinsMatchDefinition, Emits
  <2>2. CASE predicate # "equal"
    BY <1>4, <2>2 DEF JoinsMatchDefinition
  <2> QED
    BY <2>1, <2>2
<1> QED
  BY <1>4, <1>5 DEF OperatorInv, PassedInv, SortMergeSortsTables, GroupsMatchDefinition

\* blockNestedLoopJoin preserves the invariant, and pageIOCount grows by the cost that
\* its comment states.
LEMMA BlockStep ==
  ASSUME OperatorInv, NEW predicate, NEW blockSize \in Parts, NEW pageSize \in Parts,
         CallBlockNestedLoopJoin(predicate, blockSize, pageSize)
  PROVE  OperatorInv'
<1> DEFINE outer == Pages(left, pageSize)
           inner == Pages(right, pageSize)
<1>1. /\ left \in Tables /\ right \in Tables /\ left' = left /\ right' = right
      /\ pageReads = 0 /\ pageReads' = pageReads + PageReads(outer, inner, blockSize)
      /\ call' = <<"block", predicate, blockSize, pageSize>>
      /\ output' = BlockNestedLoopJoin(outer, inner, predicate, blockSize)
  BY DEF CallBlockNestedLoopJoin, Returns, OperatorInv, PassedInv
<1>2. blockSize \in Nat \ {0} /\ pageSize \in Nat \ {0}
  BY BoundsAssumption DEF Parts
<1> DEFINE M == Len(outer)
           N == Len(inner)
<1>3. /\ \E A : Paged(outer, M, A, ToSet(left))
      /\ \E B : Paged(inner, N, B, ToSet(right))
  <2>1. Lists(left, ToSet(left)) /\ Lists(right, ToSet(right))
    BY <1>1, TablesList
  <2> QED
    BY <1>2, <2>1, PagesLists
<1>4. PICK A : Paged(outer, M, A, ToSet(left))
  BY <1>3
<1>5. PICK B : Paged(inner, N, B, ToSet(right))
  BY <1>3
<1> HIDE DEF outer, inner, M, N
<1>6. Len(Blocks(outer, blockSize)) = (M + blockSize - 1) \div blockSize /\ M \in Nat /\ N \in Nat
  <2>1. M \in Nat /\ N \in Nat
    BY <1>4, <1>5 DEF Paged, Splits
  <2> QED
    BY <1>2, <1>4, <2>1, BlocksSplit
<1> DEFINE cost == M + ((M + blockSize - 1) \div blockSize) * N
<1>7. Lists(output', JoinOf(ToSet(left), ToSet(right), predicate))
  BY <1>1, <1>2, <1>4, <1>5, BlockJoinLists
<1>8. ToSet(output') = Join(left', right', call'[2]) /\ IsInjective(output')
  BY <1>1, <1>7, ListedJoin
<1>9. pageReads' = cost
  <2>1. PageReads(outer, inner, blockSize) = cost
    BY <1>6 DEF PageReads, M, N
  <2>2. cost \in Int
    <3>1. (M + blockSize - 1) \div blockSize \in Int
      BY <1>2, <1>6
    <3> QED
      BY <1>2, <1>6, <3>1
  <2> HIDE DEF cost
  <2> QED
    BY <1>1, <2>1, <2>2
<1>10. call'[1] = "block" /\ call'[3] = blockSize /\ call'[4] = pageSize /\ call' # <<"none">>
  BY <1>1
<1>11. BlockCost(blockSize, pageSize)' = cost
  BY <1>1 DEF BlockCost, M, N, outer, inner
<1>12. JoinsMatchDefinition'
  <2>1. pageReads' = BlockCost(call[3], call[4])'
    BY <1>9, <1>10, <1>11
  <2> HIDE DEF cost
  <2> QED
    BY <1>8, <1>10, <2>1 DEF JoinsMatchDefinition, Emits
<1> QED
  BY <1>10, <1>12 DEF OperatorInv, PassedInv, SortMergeSortsTables, GroupsMatchDefinition

\* indexNestedLoopJoin preserves the invariant.
LEMMA IndexStep ==
  ASSUME OperatorInv, CallIndexNestedLoopJoin
  PROVE  OperatorInv'
<1>1. /\ left \in Tables /\ right \in Tables /\ left' = left /\ right' = right
      /\ call' = <<"index", "equal">> /\ output' = IndexNestedLoopJoin(left, right)
  BY DEF CallIndexNestedLoopJoin, Returns, OperatorInv, PassedInv
<1>2. Lists(output', JoinOf(ToSet(left), ToSet(right), "equal"))
  BY <1>1, TablesList, ProbeLists DEF IndexNestedLoopJoin
<1> QED
  BY <1>1, <1>2, JoinCall

\* hashJoin preserves the invariant.
LEMMA HashStep ==
  ASSUME OperatorInv, CallHashJoin
  PROVE  OperatorInv'
<1>1. /\ left \in Tables /\ right \in Tables /\ left' = left /\ right' = right
      /\ call' = <<"hash", "equal">> /\ output' = HashJoin(left, right)
  BY DEF CallHashJoin, Returns, OperatorInv, PassedInv
<1>2. Lists(output', JoinOf(ToSet(left), ToSet(right), "equal"))
  BY <1>1, TablesList, ProbeLists DEF HashJoin
<1> QED
  BY <1>1, <1>2, JoinCall

\* graceHashJoin preserves the invariant, whatever the number of partitions.
LEMMA GraceStep ==
  ASSUME OperatorInv, NEW k \in Parts, CallGraceHashJoin(k)
  PROVE  OperatorInv'
<1>1. /\ left \in Tables /\ right \in Tables /\ left' = left /\ right' = right
      /\ call' = <<"grace", "equal", k>> /\ output' = GraceHashJoin(left, right, k)
  BY DEF CallGraceHashJoin, Returns, OperatorInv, PassedInv
<1>2. k \in Nat \ {0} /\ \A r \in ToSet(left) : r.key \in Int
  BY <1>1, BoundsAssumption, TablesList DEF Parts, Rows
<1>3. Lists(output', JoinOf(ToSet(left), ToSet(right), "equal"))
  BY <1>1, <1>2, TablesList, GraceLists
<1> QED
  BY <1>1, <1>3, JoinCall

\* A sorted table has the rows of the table that was passed, in order.
LEMMA SortedTable ==
  ASSUME NEW rows \in Tables, NEW table, Sorted(table, ToSet(rows))
  PROVE  /\ ToSet(table) = ToSet(rows)
         /\ {table[n].payload : n \in DOMAIN table} = DOMAIN table
         /\ \A m, n \in DOMAIN table : m < n => Before(table[m], table[n])
<1>1. /\ Len(rows) \in Nat /\ DOMAIN rows = 1 .. Len(rows)
      /\ \A k \in 1 .. Len(rows) : rows[k].payload = k
      /\ Lists(rows, ToSet(rows))
  BY TablesNumbered, TablesList DEF Numbered
<1>2. /\ Lists(table, ToSet(rows))
      /\ \A m, n \in DOMAIN table : m < n => Before(table[m], table[n])
  BY DEF Sorted
<1>3. Len(table) = Len(rows) /\ DOMAIN table = 1 .. Len(table) /\ ToSet(table) = ToSet(rows)
  BY <1>1, <1>2, ListsSameLength, ListsDef, ListsSet
<1>4. ASSUME NEW n \in DOMAIN table PROVE table[n].payload \in DOMAIN table
  <2>1. table[n] \in ToSet(rows)
    BY <1>2, <1>3, ListsDef
  <2>2. PICK k \in 1 .. Len(rows) : rows[k] = table[n]
    BY <1>1, <2>1, ListsDef
  <2> QED
    BY <1>1, <1>3, <2>2
<1>5. ASSUME NEW k \in DOMAIN table PROVE \E n \in DOMAIN table : table[n].payload = k
  <2>1. rows[k] \in ToSet(rows) /\ rows[k].payload = k
    BY <1>1, <1>3, ListsDef
  <2>2. PICK n \in 1 .. Len(table) : table[n] = rows[k]
    BY <1>2, <2>1, ListsDef
  <2> QED
    BY <1>3, <2>1, <2>2
<1> QED
  BY <1>2, <1>3, <1>4, <1>5

\* sortMergeJoin preserves the invariant, although it changes the tables it was passed:
\* its result is the join of the tables before the call and after it.
LEMMA SortMergeStep ==
  ASSUME OperatorInv, CallSortMergeJoin
  PROVE  OperatorInv'
<1>1. /\ left \in Tables /\ right \in Tables
      /\ left' = MergeSort(left) /\ right' = MergeSort(right)
      /\ call' = <<"sortMerge", "equal">> /\ output' = MergeJoin(left', right')
  BY DEF CallSortMergeJoin, SortMergeJoin, Returns, OperatorInv, PassedInv
<1>2. /\ Sorted(left', ToSet(left)) /\ ToSet(left) \in SUBSET Rows
      /\ Sorted(right', ToSet(right)) /\ ToSet(right) \in SUBSET Rows
  BY <1>1, TablesNumbered, TablesList, MergeSortSorts
<1>3. Lists(output', JoinOf(ToSet(left), ToSet(right), "equal"))
  BY <1>1, <1>2, MergeJoinLists
<1>4. ToSet(left') = ToSet(left) /\ ToSet(right') = ToSet(right)
  BY <1>1, <1>2, SortedTable
<1>5. ToSet(output') = Join(left', right', call'[2]) /\ IsInjective(output')
  BY <1>1, <1>3, <1>4, ListedJoin
<1>6. call'[1] = "sortMerge" /\ call' # <<"none">>
  BY <1>1
<1>7. JoinsMatchDefinition'
  BY <1>5, <1>6 DEF JoinsMatchDefinition, Emits
<1>8. ASSUME NEW table \in {left', right'}
      PROVE  /\ {table[n].payload : n \in DOMAIN table} = DOMAIN table
             /\ \A m, n \in DOMAIN table : m < n =>
                  \/ table[m].key < table[n].key
                  \/ table[m].key = table[n].key /\ table[m].payload < table[n].payload
  <2>1. PICK rows \in Tables : Sorted(table, ToSet(rows))
    BY <1>1, <1>2
  <2> QED
    BY <2>1, SortedTable DEF Before
<1>9. SortMergeSortsTables'
  BY <1>8 DEF SortMergeSortsTables
<1> QED
  BY <1>6, <1>7, <1>9 DEF OperatorInv, PassedInv, GroupsMatchDefinition

\* The aggregation operator preserves the invariant.
LEMMA AggregateStep ==
  ASSUME OperatorInv, NEW kind \in Aggregates, CallAggregate(kind)
  PROVE  OperatorInv'
<1>1. /\ left \in Tables /\ left' = left /\ call' = <<"aggregate", kind>>
      /\ output' = GetResults(kind, HashTable(kind, left))
  BY DEF CallAggregate, Returns, OperatorInv, PassedInv
<1>2. ToSet(output') = Groups(kind, left) /\ Len(output') = Cardinality(ToSet(output'))
  BY <1>1, TablesNumbered, GroupsListed
<1>3. call'[1] = "aggregate" /\ call'[2] = kind /\ call' # <<"none">>
  BY <1>1
<1>4. GroupsMatchDefinition'
  BY <1>1, <1>2, <1>3 DEF GroupsMatchDefinition
<1> QED
  BY <1>3, <1>4 DEF OperatorInv, PassedInv, JoinsMatchDefinition, SortMergeSortsTables

\* One call is made, and what it returned stays as it is.
LEMMA OperatorStep == OperatorInv /\ [OperatorNext]_operatorVars => OperatorInv'
<1> SUFFICES ASSUME OperatorInv, [OperatorNext]_operatorVars PROVE OperatorInv'
  OBVIOUS
<1>1. CASE UNCHANGED operatorVars
  BY <1>1 DEF operatorVars, OperatorInv, PassedInv, JoinsMatchDefinition, Emits, BlockCost,
     SortMergeSortsTables, GroupsMatchDefinition
<1>2. ASSUME NEW predicate \in Predicates, CallNestedLoopJoin(predicate) PROVE OperatorInv'
  BY <1>2, NestedStep
<1>3. ASSUME NEW predicate \in Predicates, NEW blockSize \in Parts, NEW pageSize \in Parts,
             CallBlockNestedLoopJoin(predicate, blockSize, pageSize)
      PROVE  OperatorInv'
  BY <1>3, BlockStep
<1>4. CASE CallIndexNestedLoopJoin
  BY <1>4, IndexStep
<1>5. CASE CallHashJoin
  BY <1>5, HashStep
<1>6. ASSUME NEW k \in Parts, CallGraceHashJoin(k) PROVE OperatorInv'
  BY <1>6, GraceStep
<1>7. CASE CallSortMergeJoin
  BY <1>7, SortMergeStep
<1>8. ASSUME NEW kind \in Aggregates, CallAggregate(kind) PROVE OperatorInv'
  BY <1>8, AggregateStep
<1> QED
  BY <1>1, <1>2, <1>3, <1>4, <1>5, <1>6, <1>7, <1>8 DEF OperatorNext

\* The invariant holds in every reachable state.
LEMMA OperatorAlways == OperatorSpec => []OperatorInv
BY OperatorInitInv, OperatorStep, PTL DEF OperatorSpec

\* Every join operator emits each pair of rows that its predicate accepts once and
\* no other, for tables of any length over any keys, any blocks, pages and
\* partitions (nestedLoopJoin: if the predicate is equality, whose order of
\* arguments is no matter), and the block join at the cost that
\* blockNestedLoopJoin's comment states.
THEOREM JoinsAlwaysMatchDefinition == OperatorSpec => []JoinsMatchDefinition
<1>1. OperatorInv => JoinsMatchDefinition
  BY DEF OperatorInv
<1> QED
  BY <1>1, OperatorAlways, PTL

\* sortMergeJoin leaves both tables of its caller sorted by key, with every row once and
\* rows of one key in their old order: mergeSort is stable and loses nothing.
THEOREM TablesAreSorted == OperatorSpec => []SortMergeSortsTables
<1>1. OperatorInv => SortMergeSortsTables
  BY DEF OperatorInv
<1> QED
  BY <1>1, OperatorAlways, PTL

\* The aggregation operator returns one row per distinct key, with the count, sum or
\* average over the rows with that key, for tables of any length.
THEOREM GroupsAlwaysMatchDefinition == OperatorSpec => []GroupsMatchDefinition
<1>1. OperatorInv => GroupsMatchDefinition
  BY DEF OperatorInv
<1> QED
  BY <1>1, OperatorAlways, PTL

-----------------------------------------------------------------------------
(* The file index: types *)

USE DEF dataVars, insertVars, queryVars, lifeVars, vars

\* The inserts whose line is in the file, and the calls between enter and leave.
Written == {i \in Inserts : insert[i] \in {"publishing", "leaving", "ok"}}
Inserting == {i \in Inserts : insert[i] \in {"writing", "publishing", "leaving", "failing"}}
Querying == {q \in Queries : query[q] \in {"scanning", "leaving"}}

\* Each line that was written took one offset.
OffsetInv == writeOffset = Cardinality(Written)

\* An insert that was let in knows its record, and a query what it was asked.
CallInv ==
  /\ \A i \in Inserts :
       insert[i] \in {"writing", "publishing", "leaving", "failing", "ok", "failed"} =>
         record[i] \in Records /\ record[i][2] = i
  /\ \A q \in Queries :
       /\ query[q] = "idle" => asked[q] = <<>>
       /\ query[q] \in {"scanning", "leaving"} => asked[q] \in (Ids \cup {0}) \X Limits
       /\ query[q] \in {"idle", "scanning"} => cursor[q] = 0 /\ offsets[q] = <<>>

\* inFlight counts the calls between enter and leave; whoever sleeps in Close
\* waits for one of them; and after a Close has returned there are none.
LifeInv ==
  /\ inFlight = Cardinality(Inserting) + Cardinality(Querying)
  /\ \A c \in Closers :
       /\ closer[c] # "idle" => closed
       /\ closer[c] = "asleep" => inFlight # 0
       /\ closer[c] = "returned" => inFlight = 0

TypeInv == TypeOK /\ OffsetInv /\ CallInv /\ LifeInv

\* What insert, map and iterators know of the file: offsets below writeOffset,
\* where no write goes any more.
WrittenInv ==
  \A i \in Written : landed[i] < writeOffset /\ file[landed[i]] = record[i]
PublishedInv ==
  \A id \in Ids :
    indexMap[id] # Nothing =>
      /\ indexMap[id] < writeOffset
      /\ file[indexMap[id]] \in Records /\ file[indexMap[id]][1] = id
IteratorInv(q) ==
  /\ \A n \in DOMAIN offsets[q] :
       /\ offsets[q][n] < writeOffset
       /\ file[offsets[q][n]] \in Records /\ file[offsets[q][n]][1] > asked[q][1]
  /\ \A m, n \in DOMAIN offsets[q] :
       m < n => file[offsets[q][m]][1] < file[offsets[q][n]][1]

LinesInv == WrittenInv /\ PublishedInv /\ \A q \in Queries : IteratorInv(q)

-----------------------------------------------------------------------------
(* Finite sets of calls *)

LEMMA CallsAreFinite ==
  /\ IsFiniteSet(Written) /\ Cardinality(Written) \in 0 .. Cardinality(Inserts)
  /\ IsFiniteSet(Inserting) /\ Cardinality(Inserting) \in Nat
  /\ IsFiniteSet(Querying) /\ Cardinality(Querying) \in Nat
  /\ Cardinality(Inserts) \in Nat
<1>1. Written \in SUBSET Inserts /\ Inserting \in SUBSET Inserts /\ Querying \in SUBSET Queries
  BY DEF Written, Inserting, Querying
<1> QED
  BY <1>1, InsertsAssumption, QueriesAssumption, FS_Subset, FS_CardinalityType

\* The walk of a query, which has entered, through the ids it matches.
LEMMA ScannedWalk ==
  ASSUME TypeInv, NEW q \in Queries, query[q] = "scanning",
         NEW ids \in FirstOf(Matches(asked[q][1]), asked[q][2])
  PROVE  /\ asked[q] \in (Ids \cup {0}) \X Limits
         /\ ids \in [1 .. Len(ids) -> Matches(asked[q][1])] /\ DOMAIN ids = 1 .. Len(ids)
         /\ Len(ids) \in 0 .. Cardinality(Matches(asked[q][1]))
         /\ Len(ids) = 0 \/ Len(ids) <= asked[q][2]
         /\ \A m, n \in DOMAIN ids : m < n => ids[m] < ids[n]
         /\ \A id \in Matches(asked[q][1]) \ Range(ids) :
              Len(ids) >= asked[q][2] /\ \A n \in DOMAIN ids : ids[n] < id
<1>1. asked[q] \in (Ids \cup {0}) \X Limits
  BY DEF TypeInv, CallInv
<1>2. Matches(asked[q][1]) \in SUBSET Ids /\ asked[q][2] \in Int
  BY <1>1, LimitsAssumption DEF Matches
<1>3. Matches(asked[q][1]) \in SUBSET Int /\ IsFiniteSet(Matches(asked[q][1]))
  <2>1. Ids \in SUBSET Int /\ IsFiniteSet(Ids)
    BY IdsAssumption
  <2> QED
    BY <1>2, <2>1, FS_Subset
<1> QED
  BY <1>1, <1>2, <1>3, WalkProperties

-----------------------------------------------------------------------------
(* The calls in flight *)

\* enter and leave, by an insert or by a query.
LEMMA EnterCounts ==
  ASSUME TypeOK, LifeInv, Enter,
         \/ \E i \in Inserts : Inserting' = Inserting \cup {i} /\ i \notin Inserting
                               /\ Querying' = Querying
         \/ \E q \in Queries : Querying' = Querying \cup {q} /\ q \notin Querying
                               /\ Inserting' = Inserting
  PROVE  LifeOK' /\ LifeInv'
<1>1. inFlight' = Cardinality(Inserting') + Cardinality(Querying')
  <2>1. ASSUME NEW i \in Inserts,
               Inserting' = Inserting \cup {i}, i \notin Inserting, Querying' = Querying
        PROVE  <1>1!:
    <3>1. Cardinality(Inserting') = Cardinality(Inserting) + 1
      BY <2>1, CallsAreFinite, FS_AddElement
    <3> QED
      BY <2>1, <3>1, CallsAreFinite DEF Enter, LifeInv
  <2>2. ASSUME NEW q \in Queries,
               Querying' = Querying \cup {q}, q \notin Querying, Inserting' = Inserting
        PROVE  <1>1!:
    <3>1. Cardinality(Querying') = Cardinality(Querying) + 1
      BY <2>2, CallsAreFinite, FS_AddElement
    <3> QED
      BY <2>2, <3>1, CallsAreFinite DEF Enter, LifeInv
  <2> QED
    BY <2>1, <2>2
<1> QED
  BY <1>1 DEF Enter, LifeInv, TypeOK, LifeOK

LEMMA LeaveCounts ==
  ASSUME TypeOK, LifeInv, Leave,
         \/ \E i \in Inserting : Inserting' = Inserting \ {i} /\ Querying' = Querying
         \/ \E q \in Querying : Querying' = Querying \ {q} /\ Inserting' = Inserting
  PROVE  LifeOK' /\ LifeInv'
<1>1. /\ inFlight' = Cardinality(Inserting') + Cardinality(Querying')
      /\ inFlight \in Nat \ {0}
  <2>1. ASSUME NEW i \in Inserting, Inserting' = Inserting \ {i}, Querying' = Querying
        PROVE  <1>1!1 /\ <1>1!2
    <3>1. Cardinality(Inserting') = Cardinality(Inserting) - 1 /\ Cardinality(Inserting) # 0
      BY <2>1, CallsAreFinite, FS_RemoveElement, FS_EmptySet
    <3> QED
      BY <2>1, <3>1, CallsAreFinite DEF Leave, LifeInv
  <2>2. ASSUME NEW q \in Querying, Querying' = Querying \ {q}, Inserting' = Inserting
        PROVE  <1>1!1 /\ <1>1!2
    <3>1. Cardinality(Querying') = Cardinality(Querying) - 1 /\ Cardinality(Querying) # 0
      BY <2>2, CallsAreFinite, FS_RemoveElement, FS_EmptySet
    <3> QED
      BY <2>2, <3>1, CallsAreFinite DEF Leave, LifeInv
  <2> QED
    BY <2>1, <2>2
<1>2. inFlight' = inFlight - 1 /\ inFlight' \in Nat
  BY <1>1 DEF Leave
<1>3. closer' \in [Closers -> {"idle", "asleep", "awake", "returned"}]
  BY DEF Leave, TypeOK, LifeOK
<1>4. ASSUME NEW c \in Closers
      PROVE  /\ closer'[c] # "idle" => closed'
             /\ closer'[c] = "asleep" => inFlight' # 0
             /\ closer'[c] = "returned" => inFlight' = 0
  BY <1>1, <1>2, <1>4 DEF Leave, LifeInv, TypeOK, LifeOK
<1> QED
  BY <1>1, <1>2, <1>3, <1>4 DEF Leave, LifeInv, TypeOK, LifeOK

-----------------------------------------------------------------------------
(* Types, and the counters *)

LEMMA TypeInvStep == TypeInv /\ [Next]_vars => TypeInv'
<1> SUFFICES ASSUME TypeInv, [Next]_vars PROVE TypeInv'
  OBVIOUS
<1> USE DEF TypeInv
<1>0. /\ 0 \in Offsets /\ Offsets \subseteq Nat
  BY CallsAreFinite DEF Offsets
<1>1. ASSUME NEW i \in Inserts, EnterInsert(i) PROVE TypeInv'
  <2>1. /\ Written' = Written
        /\ Inserting' = Inserting \cup {i} /\ i \notin Inserting /\ Querying' = Querying
    BY <1>1 DEF EnterInsert, Written, Inserting, Querying, TypeOK, InsertOK
  <2>2. LifeOK' /\ LifeInv'
    BY <1>1, <2>1, EnterCounts DEF EnterInsert
  <2>3. InsertOK' /\ CallInv'
    BY <1>1 DEF EnterInsert, Records, CallInv, TypeOK, InsertOK
  <2> QED
    BY <1>1, <2>1, <2>2, <2>3 DEF EnterInsert, OffsetInv, TypeOK, DataOK, QueryOK
<1>2. ASSUME NEW i \in Inserts, RejectInsert(i) PROVE TypeInv'
  <2>1. Written' = Written /\ Inserting' = Inserting /\ Querying' = Querying
    BY <1>2 DEF RejectInsert, Written, Inserting, Querying, TypeOK, InsertOK
  <2>2. InsertOK' /\ CallInv'
    BY <1>2 DEF RejectInsert, CallInv, TypeOK, InsertOK
  <2> QED
    BY <1>2, <2>1, <2>2 DEF RejectInsert, OffsetInv, LifeInv, TypeOK, DataOK, QueryOK, LifeOK
<1>3. ASSUME NEW i \in Inserts, WriteRecord(i) PROVE TypeInv'
  <2>1. /\ Written' = Written \cup {i} /\ i \notin Written
        /\ Inserting' = Inserting /\ Querying' = Querying
    BY <1>3 DEF WriteRecord, Written, Inserting, Querying, TypeOK, InsertOK
  <2>2. Cardinality(Written') = Cardinality(Written) + 1
    BY <2>1, CallsAreFinite, FS_AddElement
  <2>3. Cardinality(Written') \in 0 .. Cardinality(Inserts)
    <3>1. Written' \in SUBSET Inserts
      BY <2>1 DEF Written
    <3> QED
      BY <3>1, InsertsAssumption, FS_Subset, FS_CardinalityType
  <2>4. OffsetInv' /\ writeOffset' \in Offsets
    BY <1>3, <2>2, <2>3 DEF WriteRecord, OffsetInv, Offsets
  <2>5. DataOK'
    BY <1>3, <2>4 DEF WriteRecord, CallInv, TypeOK, DataOK, InsertOK
  <2>6. InsertOK' /\ CallInv'
    BY <1>3 DEF WriteRecord, CallInv, TypeOK, DataOK, InsertOK
  <2> QED
    BY <1>3, <2>1, <2>4, <2>5, <2>6 DEF WriteRecord, LifeInv, TypeOK, QueryOK, LifeOK
<1>4. ASSUME NEW i \in Inserts, WriteFails(i) PROVE TypeInv'
  <2>1. Written' = Written /\ Inserting' = Inserting /\ Querying' = Querying
    BY <1>4 DEF WriteFails, Written, Inserting, Querying, TypeOK, InsertOK
  <2>2. DataOK' /\ InsertOK' /\ CallInv'
    BY <1>4 DEF WriteFails, CallInv, TypeOK, DataOK, InsertOK
  <2> QED
    BY <1>4, <2>1, <2>2 DEF WriteFails, OffsetInv, LifeInv, TypeOK, QueryOK, LifeOK
<1>5. ASSUME NEW i \in Inserts, PublishRecord(i) PROVE TypeInv'
  <2>1. Written' = Written /\ Inserting' = Inserting /\ Querying' = Querying
    BY <1>5 DEF PublishRecord, Written, Inserting, Querying, TypeOK, InsertOK
  <2>2. DataOK' /\ InsertOK' /\ CallInv'
    BY <1>5 DEF PublishRecord, CallInv, TypeOK, DataOK, InsertOK
  <2> QED
    BY <1>5, <2>1, <2>2 DEF PublishRecord, OffsetInv, LifeInv, TypeOK, QueryOK, LifeOK
<1>6. ASSUME NEW i \in Inserts, LeaveInsert(i) PROVE TypeInv'
  <2>1. /\ Written' = Written
        /\ i \in Inserting /\ Inserting' = Inserting \ {i} /\ Querying' = Querying
    BY <1>6 DEF LeaveInsert, Written, Inserting, Querying, TypeOK, InsertOK
  <2>2. LifeOK' /\ LifeInv'
    BY <1>6, <2>1, LeaveCounts DEF LeaveInsert
  <2>3. InsertOK' /\ CallInv'
    BY <1>6 DEF LeaveInsert, CallInv, TypeOK, InsertOK
  <2> QED
    BY <1>6, <2>1, <2>2, <2>3 DEF LeaveInsert, OffsetInv, TypeOK, DataOK, QueryOK
<1>7. ASSUME NEW q \in Queries, EnterQuery(q) PROVE TypeInv'
  <2>1. /\ Written' = Written /\ Inserting' = Inserting
        /\ Querying' = Querying \cup {q} /\ q \notin Querying
    BY <1>7 DEF EnterQuery, Written, Inserting, Querying, TypeOK, QueryOK
  <2>2. LifeOK' /\ LifeInv'
    BY <1>7, <2>1, EnterCounts DEF EnterQuery
  <2>3. QueryOK' /\ CallInv'
    BY <1>7 DEF EnterQuery, CallInv, TypeOK, QueryOK
  <2> QED
    BY <1>7, <2>1, <2>2, <2>3 DEF EnterQuery, OffsetInv, TypeOK, DataOK, InsertOK
<1>8. ASSUME NEW q \in Queries, RejectQuery(q) PROVE TypeInv'
  <2>1. Written' = Written /\ Inserting' = Inserting /\ Querying' = Querying
    BY <1>8 DEF RejectQuery, Written, Inserting, Querying, TypeOK, QueryOK
  <2>2. QueryOK' /\ CallInv'
    BY <1>8 DEF RejectQuery, CallInv, TypeOK, QueryOK
  <2> QED
    BY <1>8, <2>1, <2>2 DEF RejectQuery, OffsetInv, LifeInv, TypeOK, DataOK, InsertOK, LifeOK
<1>9. ASSUME NEW q \in Queries, Scan(q) PROVE TypeInv'
  <2>1. Written' = Written /\ Inserting' = Inserting /\ Querying' = Querying
    BY <1>9 DEF Scan, Written, Inserting, Querying, TypeOK, QueryOK
  <2>2. PICK ids \in FirstOf(Matches(asked[q][1]), asked[q][2]) :
          offsets' = [offsets EXCEPT ![q] = [n \in DOMAIN ids |-> indexMap[ids[n]]]]
    BY <1>9 DEF Scan
  <2>3. query[q] = "scanning"
    BY <1>9 DEF Scan
  <2>4. /\ DOMAIN ids = 1 .. Len(ids) /\ Len(ids) \in Nat
        /\ \A n \in DOMAIN ids : ids[n] \in Matches(asked[q][1])
    BY <2>3, ScannedWalk
  <2>5. [n \in DOMAIN ids |-> indexMap[ids[n]]] \in [1 .. Len(ids) -> Offsets]
    BY <2>4 DEF Matches, TypeOK, DataOK
  <2>6. [n \in DOMAIN ids |-> indexMap[ids[n]]] \in Seq(Offsets)
    BY <2>4, <2>5, SeqDef
  <2>7. offsets' \in [Queries -> Seq(Offsets)]
    BY <2>2, <2>6 DEF TypeOK, QueryOK
  <2>8. \A p \in Queries : cursor'[p] <= Len(offsets'[p])
    <3>1. cursor[q] = 0 /\ cursor' = cursor
      BY <1>9 DEF Scan, CallInv
    <3>2. Len(offsets'[q]) \in Nat
      BY <2>7, LenProperties
    <3>3. \A p \in Queries : p # q => offsets'[p] = offsets[p]
      BY <2>2 DEF TypeOK, QueryOK
    <3> QED
      BY <3>1, <3>2, <3>3 DEF TypeOK, QueryOK
  <2>9. QueryOK' /\ CallInv'
    BY <1>9, <2>2, <2>7, <2>8 DEF Scan, CallInv, TypeOK, QueryOK
  <2> QED
    BY <1>9, <2>1, <2>9 DEF Scan, OffsetInv, LifeInv, TypeOK, DataOK, InsertOK, LifeOK
<1>10. ASSUME NEW q \in Queries, LeaveQuery(q) PROVE TypeInv'
  <2>1. /\ Written' = Written /\ Inserting' = Inserting
        /\ q \in Querying /\ Querying' = Querying \ {q}
    BY <1>10 DEF LeaveQuery, Written, Inserting, Querying, TypeOK, QueryOK
  <2>2. LifeOK' /\ LifeInv'
    BY <1>10, <2>1, LeaveCounts DEF LeaveQuery
  <2>3. QueryOK' /\ CallInv'
    BY <1>10 DEF LeaveQuery, CallInv, TypeOK, QueryOK
  <2> QED
    BY <1>10, <2>1, <2>2, <2>3 DEF LeaveQuery, OffsetInv, TypeOK, DataOK, InsertOK
<1>11. ASSUME NEW q \in Queries, NextRecord(q) PROVE TypeInv'
  <2>1. Written' = Written /\ Inserting' = Inserting /\ Querying' = Querying
    BY <1>11 DEF NextRecord, Written, Inserting, Querying
  <2>2. Len(offsets[q]) \in Nat
    BY LenProperties DEF TypeOK, QueryOK
  <2>3. /\ cursor' \in [Queries -> Nat]
        /\ \A p \in Queries : cursor'[p] <= Len(offsets'[p])
    BY <1>11, <2>2 DEF NextRecord, HasNext, TypeOK, QueryOK
  <2>4. returned' \in [Queries -> Seq(Records)]
    <3>1. CASE UNCHANGED returned
      BY <3>1 DEF TypeOK, QueryOK
    <3>2. ASSUME NEW line \in Records, returned' = [returned EXCEPT ![q] = Append(@, line)]
          PROVE  <2>4!:
      <4>1. Append(returned[q], line) \in Seq(Records)
        BY AppendProperties DEF TypeOK, QueryOK
      <4> QED
        BY <3>2, <4>1 DEF TypeOK, QueryOK
    <3> QED
      BY <1>11, <3>1, <3>2 DEF NextRecord
  <2>5. QueryOK' /\ CallInv'
    BY <1>11, <2>3, <2>4 DEF NextRecord, HasNext, CallInv, TypeOK, QueryOK
  <2> QED
    BY <1>11, <2>1, <2>5 DEF NextRecord, OffsetInv, LifeInv, TypeOK, DataOK, InsertOK, LifeOK
<1>12. ASSUME NEW q \in Queries, CloseIterator(q) PROVE TypeInv'
  <2>1. Written' = Written /\ Inserting' = Inserting /\ Querying' = Querying
    BY <1>12 DEF CloseIterator, Written, Inserting, Querying, TypeOK, QueryOK
  <2>2. QueryOK' /\ CallInv'
    BY <1>12 DEF CloseIterator, CallInv, TypeOK, QueryOK
  <2> QED
    BY <1>12, <2>1, <2>2 DEF CloseIterator, OffsetInv, LifeInv, TypeOK, DataOK, InsertOK, LifeOK
<1>13. ASSUME NEW c \in Closers, CallClose(c) \/ CloseResumes(c) \/ SpuriousWakeup(c)
       PROVE  TypeInv'
  <2>1. Written' = Written /\ Inserting' = Inserting /\ Querying' = Querying
    BY <1>13 DEF CallClose, CloseResumes, SpuriousWakeup, Written, Inserting, Querying
  <2>2. LifeOK' /\ LifeInv'
    BY <1>13, <2>1 DEF CallClose, CloseResumes, SpuriousWakeup, CloseLooks, LifeInv, TypeOK, LifeOK
  <2> QED
    BY <1>13, <2>1, <2>2 DEF CallClose, CloseResumes, SpuriousWakeup, OffsetInv, CallInv,
                             TypeOK, DataOK, InsertOK, QueryOK
<1>14. CASE UNCHANGED vars
  <2>1. Written' = Written /\ Inserting' = Inserting /\ Querying' = Querying
    BY <1>14 DEF Written, Inserting, Querying
  <2>2. TypeOK'
    BY <1>14 DEF TypeOK, DataOK, InsertOK, QueryOK, LifeOK
  <2>3. OffsetInv' /\ CallInv' /\ LifeInv'
    BY <1>14, <2>1 DEF OffsetInv, CallInv, LifeInv
  <2> QED
    BY <2>2, <2>3
<1> QED
  BY <1>1, <1>2, <1>3, <1>4, <1>5, <1>6, <1>7, <1>8, <1>9, <1>10, <1>11, <1>12, <1>13, <1>14
     DEF Next, InsertStep, QueryStep

LEMMA TypeInvInit == Init => TypeInv
<1> SUFFICES ASSUME Init PROVE TypeInv
  OBVIOUS
<1>1. Written = {} /\ Inserting = {} /\ Querying = {}
  BY DEF Init, Written, Inserting, Querying
<1>2. OffsetInv /\ LifeInv
  BY <1>1, FS_EmptySet DEF Init, OffsetInv, LifeInv
<1>3. 0 \in Offsets
  BY CallsAreFinite DEF Offsets
<1>4. DataOK /\ InsertOK /\ LifeOK
  BY <1>3 DEF Init, DataOK, InsertOK, LifeOK
<1>5. QueryOK /\ CallInv
  BY EmptySeq, LenProperties DEF Init, QueryOK, CallInv
<1> QED
  BY <1>2, <1>4, <1>5 DEF TypeInv, TypeOK

\* The variables keep their types: in particular no write goes beyond the
\* offsets that as many lines as there are inserts take up, and the counter of
\* the calls in flight is never negative.
THEOREM TypeCorrect == SafeSpec => []TypeOK
<1> QED
  BY TypeInvInit, TypeInvStep, PTL DEF SafeSpec, TypeInv

\* Close drains: once one has returned no call is between enter and leave, and
\* none will be; and no call of Close sleeps with nobody left to wake it.
THEOREM CloseDrainsCalls == SafeSpec => []CloseDrains
<1>1. TypeInv => CloseDrains
  <2> SUFFICES ASSUME TypeInv PROVE CloseDrains
    OBVIOUS
  <2> USE DEF TypeInv
  <2>1. ASSUME NEW c \in Closers, closer[c] = "returned"
        PROVE  Inserting = {} /\ Querying = {}
    BY <2>1, CallsAreFinite, FS_EmptySet DEF LifeInv
  <2>2. ASSUME NEW c \in Closers, closer[c] = "asleep"
        PROVE  Inserting # {} \/ Querying # {}
    BY <2>2, CallsAreFinite, FS_EmptySet DEF LifeInv
  <2> QED
    BY <2>1, <2>2 DEF CloseDrains, Inserting, Querying, TypeOK, InsertOK, QueryOK
<1> QED
  BY <1>1, TypeInvInit, TypeInvStep, PTL DEF SafeSpec

-----------------------------------------------------------------------------
(* The lines of the file *)

\* No step changes what is below writeOffset.
LinesStay ==
  \A o \in Offsets : o < writeOffset => o < writeOffset' /\ file'[o] = file[o]

LEMMA LinesAreKept == TypeInv /\ [Next]_vars => LinesStay
<1> SUFFICES ASSUME TypeInv, [Next]_vars PROVE LinesStay
  OBVIOUS
<1>1. writeOffset \in Nat /\ Offsets \subseteq Nat
  BY CallsAreFinite DEF Offsets, TypeInv, TypeOK, DataOK
<1>2. CASE UNCHANGED <<file, writeOffset>>
  BY <1>1, <1>2 DEF LinesStay
<1>3. ASSUME NEW i \in Inserts, WriteRecord(i) \/ WriteFails(i) PROVE LinesStay
  BY <1>1, <1>3 DEF LinesStay, WriteRecord, WriteFails, TypeInv, TypeOK, DataOK
<1> QED
  BY <1>2, <1>3 DEF Next, InsertStep, QueryStep, EnterInsert, RejectInsert, PublishRecord,
                    LeaveInsert, EnterQuery, RejectQuery, Scan, LeaveQuery, NextRecord,
                    CloseIterator, CallClose, CloseResumes, SpuriousWakeup

LEMMA WrittenStep ==
  ASSUME TypeInv, WrittenInv, [Next]_vars
  PROVE  WrittenInv'
<1> USE DEF TypeInv
<1>1. LinesStay /\ writeOffset \in Nat /\ writeOffset' \in Nat /\ Offsets \subseteq Nat
  BY LinesAreKept, TypeInvStep, CallsAreFinite DEF Offsets, TypeOK, DataOK
<1>2. ASSUME NEW i \in Written
      PROVE  landed[i] < writeOffset' /\ file'[landed[i]] = record[i]
  <2>1. landed[i] \in Offsets
    BY DEF Written, TypeOK, InsertOK
  <2> QED
    BY <1>1, <2>1 DEF WrittenInv, LinesStay
<1>3. CASE Written' = Written /\ UNCHANGED landed /\ \A i \in Written : record'[i] = record[i]
  BY <1>3, <1>2 DEF WrittenInv
<1>4. ASSUME NEW i \in Inserts, WriteRecord(i) PROVE WrittenInv'
  <2>1. file'[landed'[i]] = record'[i] /\ landed'[i] < writeOffset'
    BY <1>1, <1>4 DEF WriteRecord, TypeOK, DataOK, InsertOK
  <2>2. ASSUME NEW j \in Written', j # i
        PROVE  landed'[j] < writeOffset' /\ file'[landed'[j]] = record'[j]
    <3>1. j \in Written /\ landed'[j] = landed[j] /\ record' = record
      BY <1>4, <2>2 DEF WriteRecord, Written, TypeOK, InsertOK
    <3> QED
      BY <1>2, <3>1
  <2> QED
    BY <2>1, <2>2 DEF WrittenInv
<1>5. ASSUME NEW i \in Inserts,
             EnterInsert(i) \/ RejectInsert(i) \/ WriteFails(i) \/ PublishRecord(i) \/ LeaveInsert(i)
      PROVE  WrittenInv'
  BY <1>3, <1>5 DEF EnterInsert, RejectInsert, WriteFails, PublishRecord, LeaveInsert,
                    Written, TypeOK, InsertOK
<1>6. CASE UNCHANGED insertVars
  BY <1>3, <1>6 DEF Written
<1> QED
  BY <1>4, <1>5, <1>6 DEF Next, InsertStep, QueryStep, EnterQuery, RejectQuery, Scan, LeaveQuery,
                          NextRecord, CloseIterator, CallClose, CloseResumes, SpuriousWakeup

LEMMA PublishedStep ==
  ASSUME TypeInv, WrittenInv, PublishedInv, [Next]_vars
  PROVE  PublishedInv'
<1> USE DEF TypeInv
<1>1. LinesStay /\ writeOffset \in Nat /\ writeOffset' \in Nat /\ Offsets \subseteq Nat
  BY LinesAreKept, TypeInvStep, CallsAreFinite DEF Offsets, TypeOK, DataOK
<1>2. ASSUME NEW id \in Ids, indexMap[id] # Nothing
      PROVE  /\ indexMap[id] < writeOffset'
             /\ file'[indexMap[id]] \in Records /\ file'[indexMap[id]][1] = id
  BY <1>1, <1>2 DEF PublishedInv, LinesStay, TypeOK, DataOK
<1>3. ASSUME NEW i \in Inserts, PublishRecord(i) PROVE PublishedInv'
  <2>1. /\ landed[i] < writeOffset'
        /\ file'[landed[i]] = record[i] /\ record[i] \in Records
    BY <1>1, <1>3 DEF PublishRecord, WrittenInv, Written, LinesStay, CallInv, TypeOK, InsertOK
  <2>2. ASSUME NEW id \in Ids, indexMap'[id] # Nothing
        PROVE  /\ indexMap'[id] < writeOffset'
               /\ file'[indexMap'[id]] \in Records /\ file'[indexMap'[id]][1] = id
    <3>1. CASE id = record[i][1]
      BY <1>3, <2>1, <3>1 DEF PublishRecord, TypeOK, DataOK
    <3>2. CASE id # record[i][1]
      BY <1>2, <1>3, <2>2, <3>2 DEF PublishRecord, TypeOK, DataOK
    <3> QED
      BY <3>1, <3>2
  <2> QED
    BY <2>2 DEF PublishedInv
<1>4. CASE UNCHANGED indexMap
  BY <1>2, <1>4 DEF PublishedInv
<1> QED
  BY <1>3, <1>4 DEF Next, InsertStep, QueryStep, EnterInsert, RejectInsert, WriteRecord, WriteFails,
                    LeaveInsert, EnterQuery, RejectQuery, Scan, LeaveQuery, NextRecord,
                    CloseIterator, CallClose, CloseResumes, SpuriousWakeup

LEMMA IteratorStep ==
  ASSUME TypeInv, PublishedInv, [Next]_vars, NEW q \in Queries, IteratorInv(q)
  PROVE  IteratorInv(q)'
<1> USE DEF TypeInv
<1>1. LinesStay /\ writeOffset \in Nat /\ writeOffset' \in Nat /\ Offsets \subseteq Nat
  BY LinesAreKept, TypeInvStep, CallsAreFinite DEF Offsets, TypeOK, DataOK
<1>2. CASE offsets'[q] = offsets[q] /\ asked'[q] = asked[q]
  <2>1. \A n \in DOMAIN offsets[q] : offsets[q][n] \in Offsets
    BY ElementOfSeq, LenProperties DEF TypeOK, QueryOK
  <2>2. \A n \in DOMAIN offsets[q] : offsets[q][n] < writeOffset'
                                     /\ file'[offsets[q][n]] = file[offsets[q][n]]
    BY <1>1, <2>1 DEF IteratorInv, LinesStay
  <2> QED
    BY <1>2, <2>2 DEF IteratorInv
<1>3. CASE EnterQuery(q)
  <2>1. DOMAIN offsets'[q] = {}
    BY <1>3, EmptySeq, LenProperties DEF EnterQuery, CallInv
  <2> QED
    BY <2>1 DEF IteratorInv
<1>4. CASE Scan(q)
  <2>1. PICK ids \in FirstOf(Matches(asked[q][1]), asked[q][2]) :
          offsets' = [offsets EXCEPT ![q] = [n \in DOMAIN ids |-> indexMap[ids[n]]]]
    BY <1>4 DEF Scan
  <2>2. query[q] = "scanning"
    BY <1>4 DEF Scan
  <2>3. /\ \A n \in DOMAIN ids : ids[n] \in Matches(asked[q][1])
        /\ \A m, n \in DOMAIN ids : m < n => ids[m] < ids[n]
    BY <2>2, ScannedWalk
  <2>4. /\ DOMAIN offsets'[q] = DOMAIN ids
        /\ \A n \in DOMAIN ids : offsets'[q][n] = indexMap[ids[n]]
    BY <2>1 DEF TypeOK, QueryOK
  <2>5. UNCHANGED <<file, writeOffset, asked>>
    BY <1>4 DEF Scan
  <2>6. ASSUME NEW n \in DOMAIN ids
        PROVE  /\ offsets'[q][n] < writeOffset
               /\ file[offsets'[q][n]] \in Records /\ file[offsets'[q][n]][1] = ids[n]
               /\ ids[n] > asked[q][1]
    BY <2>3, <2>4 DEF PublishedInv, Matches
  <2> QED
    BY <2>3, <2>4, <2>5, <2>6 DEF IteratorInv
<1>5. ASSUME NEW p \in Queries, p # q, EnterQuery(p) \/ Scan(p) PROVE IteratorInv(q)'
  BY <1>2, <1>5 DEF EnterQuery, Scan, TypeOK, QueryOK
<1>6. CASE UNCHANGED <<offsets, asked>>
  BY <1>2, <1>6
<1> QED
  BY <1>3, <1>4, <1>5, <1>6 DEF Next, InsertStep, QueryStep, EnterInsert, RejectInsert, WriteRecord,
                    WriteFails, PublishRecord, LeaveInsert, RejectQuery, LeaveQuery, NextRecord,
                    CloseIterator, CallClose, CloseResumes, SpuriousWakeup

LEMMA LinesInvariant == SafeSpec => [](TypeInv /\ LinesInv)
<1>1. Init => TypeInv /\ LinesInv
  <2> SUFFICES ASSUME Init PROVE LinesInv
    BY TypeInvInit
  <2>1. Written = {} /\ \A id \in Ids : indexMap[id] = Nothing
    BY DEF Init, Written
  <2>2. \A q \in Queries : DOMAIN offsets[q] = {}
    BY EmptySeq, LenProperties DEF Init
  <2> QED
    BY <2>1, <2>2 DEF LinesInv, WrittenInv, PublishedInv, IteratorInv
<1>2. TypeInv /\ LinesInv /\ [Next]_vars => (TypeInv /\ LinesInv)'
  BY TypeInvStep, WrittenStep, PublishedStep, IteratorStep DEF LinesInv
<1> QED
  BY <1>1, <1>2, PTL DEF SafeSpec

\* Whatever the map or an iterator points at is the whole line of a record with
\* the right id, and no insert writes over it, also after writes that failed.
THEOREM PublishedLinesAreWhole == SafeSpec => []IndexPointsAtRecords
<1>1. TypeInv /\ LinesInv => IndexPointsAtRecords
  BY DEF TypeInv, LinesInv, WrittenInv, PublishedInv, IteratorInv, Written, IndexPointsAtRecords
<1> QED
  BY <1>1, LinesInvariant, PTL

-----------------------------------------------------------------------------
(* The refinement *)

\* What SnapshotIndex sees under an id, and of a query.
Text(id) == IF indexMap[id] = Nothing THEN Nothing ELSE file[indexMap[id]][2]
View(q) ==
  IF query[q] \in {"idle", "scanning"} THEN Nothing
  ELSE [n \in DOMAIN offsets[q] |-> file[offsets[q][n]]]

\* A step that changes none of it.
LEMMA SnapshotStutters ==
  ASSUME \A id \in Ids : Text(id)' = Text(id),
         \A i \in Inserts : Outcome(i)' = Outcome(i),
         \A q \in Queries : View(q)' = View(q),
         UNCHANGED <<asked, cursor, returned>>
  PROVE  UNCHANGED Abstract!vars
BY DEF Abstract!vars, Text, View

LEMMA TextsStay ==
  ASSUME TypeInv, LinesInv, [Next]_vars, indexMap' = indexMap, NEW id \in Ids
  PROVE  Text(id)' = Text(id)
BY LinesAreKept DEF Text, LinesStay, LinesInv, PublishedInv, TypeInv, TypeOK, DataOK

LEMMA ViewStays ==
  ASSUME TypeInv, LinesInv, [Next]_vars, NEW q \in Queries,
         query'[q] \in {"idle", "scanning"} <=> query[q] \in {"idle", "scanning"},
         offsets'[q] = offsets[q]
  PROVE  View(q)' = View(q)
<1>1. \A n \in DOMAIN offsets[q] : offsets[q][n] \in Offsets
  BY ElementOfSeq, LenProperties DEF TypeInv, TypeOK, QueryOK
<1>2. \A n \in DOMAIN offsets[q] : file'[offsets[q][n]] = file[offsets[q][n]]
  BY <1>1, LinesAreKept DEF LinesStay, LinesInv, IteratorInv
<1> QED
  BY <1>2 DEF View

LEMMA ViewIsRecords ==
  ASSUME TypeInv, LinesInv, NEW q \in Queries, query[q] \notin {"idle", "scanning"}
  PROVE  /\ View(q) \in Seq(Records) /\ Len(View(q)) = Len(offsets[q])
         /\ View(q) # Nothing
         /\ \A n \in 1 .. Len(offsets[q]) : View(q)[n] = file[offsets[q][n]]
<1>1. Len(offsets[q]) \in Nat /\ DOMAIN offsets[q] = 1 .. Len(offsets[q])
  BY LenProperties DEF TypeInv, TypeOK, QueryOK
<1>2. View(q) \in [1 .. Len(offsets[q]) -> Records]
  BY <1>1 DEF View, LinesInv, IteratorInv
<1>3. View(q) \in Seq(Records) /\ Len(View(q)) = Len(offsets[q])
  BY <1>1, <1>2, ArrayIsSequence
<1> QED
  BY <1>1, <1>3, NothingAssumption DEF View

\* A map update publishes a record, whose text is the insert.
LEMMA PublishIsPut ==
  ASSUME TypeInv, LinesInv, [Next]_vars, NEW i \in Inserts, PublishRecord(i)
  PROVE  Abstract!Put(i)
<1>1. /\ insert[i] = "publishing" /\ insert' = [insert EXCEPT ![i] = "leaving"]
      /\ indexMap' = [indexMap EXCEPT ![record[i][1]] = landed[i]]
      /\ UNCHANGED <<file, record, landed, query, asked, offsets, cursor, returned>>
  BY DEF PublishRecord
<1>2. PICK id \in Ids : id = record[i][1]
  BY <1>1 DEF TypeInv, CallInv, Records
<1>3. file[landed[i]][2] = i /\ landed[i] \in Offsets
  BY <1>1 DEF LinesInv, WrittenInv, Written, TypeInv, CallInv, TypeOK, InsertOK
<1>4. landed[i] # Nothing
  BY <1>3, IdsAssumption, CallsAreFinite DEF Offsets
<1>5. \A k \in Ids : Text(k)' = IF k = id THEN i ELSE Text(k)
  BY <1>1, <1>2, <1>3, <1>4 DEF Text, TypeInv, TypeOK, DataOK
<1>6. /\ Outcome(i) = "pending"
      /\ \A j \in Inserts : Outcome(j)' = IF j = i THEN "stored" ELSE Outcome(j)
  BY <1>1 DEF Outcome, TypeInv, TypeOK, InsertOK
<1>7. \A q \in Queries : View(q)' = View(q)
  BY <1>1 DEF View
<1> DEFINE store == [k \in Ids |-> Text(k)]
           outcome == [j \in Inserts |-> Outcome(j)]
<1>8. store' = [store EXCEPT ![id] = i]
  BY <1>5
<1>9. outcome[i] = "pending" /\ outcome' = [outcome EXCEPT ![i] = "stored"]
  BY <1>6
<1>10. \E k \in Ids : store' = [store EXCEPT ![k] = i]
  BY <1>8
<1> DEFINE view == [q \in Queries |-> View(q)]
<1>11. view' = view /\ UNCHANGED <<asked, cursor, returned>>
  BY <1>1, <1>7
<1> QED
  BY <1>9, <1>10, <1>11, Zenon DEF Abstract!Put, Text, View

LEMMA RefusalIsRefuse ==
  ASSUME TypeInv, LinesInv, [Next]_vars, NEW i \in Inserts,
         RejectInsert(i) \/ WriteFails(i)
  PROVE  Abstract!Refuse(i)
<1>1. /\ Outcome(i) = "pending"
      /\ \A j \in Inserts : Outcome(j)' = IF j = i THEN "refused" ELSE Outcome(j)
  BY DEF RejectInsert, WriteFails, Outcome, TypeInv, TypeOK, InsertOK
<1>2. UNCHANGED <<indexMap, query, asked, offsets, cursor, returned>>
  BY DEF RejectInsert, WriteFails
<1>3. /\ \A k \in Ids : Text(k)' = Text(k)
      /\ \A q \in Queries : View(q)' = View(q)
  BY <1>2, TextsStay, ViewStays
<1> DEFINE outcome == [j \in Inserts |-> Outcome(j)]
<1>4. outcome[i] = "pending" /\ outcome' = [outcome EXCEPT ![i] = "refused"]
  BY <1>1
<1> QED
  BY <1>2, <1>3, <1>4 DEF Abstract!Refuse, Text, View

LEMMA EnterQueryIsAsk ==
  ASSUME TypeInv, LinesInv, [Next]_vars, NEW q \in Queries, EnterQuery(q)
  PROVE  Abstract!Ask(q)
<1>1. /\ query[q] = "idle" /\ query' = [query EXCEPT ![q] = "scanning"]
      /\ UNCHANGED <<file, indexMap, insert, offsets, cursor, returned>>
  BY DEF EnterQuery
<1>2. /\ asked[q] = <<>>
      /\ \E minId \in Ids \cup {0}, limit \in Limits :
           asked' = [asked EXCEPT ![q] = <<minId, limit>>]
  BY DEF EnterQuery, TypeInv, CallInv
<1>3. /\ \A k \in Ids : Text(k)' = Text(k)
      /\ \A j \in Inserts : Outcome(j)' = Outcome(j)
  BY <1>1, TextsStay DEF Outcome
<1>4. View(q) = Nothing /\ \A p \in Queries : View(p)' = View(p)
  BY <1>1, ViewStays DEF View, TypeInv, TypeOK, QueryOK
<1> QED
  BY <1>1, <1>2, <1>3, <1>4 DEF Abstract!Ask, Text, View

LEMMA RejectQueryIsRefuse ==
  ASSUME TypeInv, LinesInv, [Next]_vars, NEW q \in Queries, RejectQuery(q)
  PROVE  Abstract!RefuseQuery(q)
<1>1. /\ query[q] = "idle" /\ query' = [query EXCEPT ![q] = "iterating"]
      /\ UNCHANGED <<file, indexMap, insert, asked, offsets, cursor, returned>>
  BY DEF RejectQuery
<1>2. asked[q] = <<>> /\ offsets[q] = <<>>
  BY <1>1 DEF TypeInv, CallInv
<1>3. /\ \A k \in Ids : Text(k)' = Text(k)
      /\ \A j \in Inserts : Outcome(j)' = Outcome(j)
  BY <1>1, TextsStay DEF Outcome
<1>4. \A p \in Queries \ {q} : View(p)' = View(p)
  BY <1>1, ViewStays DEF TypeInv, TypeOK, QueryOK
<1>5. View(q) = Nothing /\ View(q)' = <<>>
  BY <1>1, <1>2, EmptySeq DEF View, TypeInv, TypeOK, QueryOK
<1> DEFINE view == [p \in Queries |-> View(p)]
<1>6. view[q] = Nothing /\ view' = [view EXCEPT ![q] = <<>>]
  BY <1>4, <1>5
<1> QED
  BY <1>1, <1>2, <1>3, <1>6 DEF Abstract!RefuseQuery, Text, View

\* The walk through the map selects what it should, from one instant's records.
LEMMA ScanSelects ==
  ASSUME TypeInv, LinesInv, NEW q \in Queries, query[q] = "scanning",
         NEW ids \in FirstOf(Matches(asked[q][1]), asked[q][2])
  PROVE  ids \in Abstract!Select(asked[q][1], asked[q][2])
<1> DEFINE minId == asked[q][1]
           limit == asked[q][2]
           present == {id \in Ids : id > minId /\ Text(id) # Nothing}
<1>1. Matches(minId) = present
  <2>1. ASSUME NEW id \in Ids PROVE indexMap[id] # Nothing <=> Text(id) # Nothing
    BY InsertsAssumption DEF Text, LinesInv, PublishedInv, Records
  <2> QED
    BY <2>1 DEF Matches
<1>2. /\ ids \in [1 .. Len(ids) -> present] /\ DOMAIN ids = 1 .. Len(ids)
      /\ Len(ids) \in 0 .. Cardinality(present)
      /\ Len(ids) = 0 \/ Len(ids) <= limit
      /\ \A m, n \in DOMAIN ids : m < n => ids[m] < ids[n]
      /\ \A id \in present \ Range(ids) :
           Len(ids) >= limit /\ \A n \in DOMAIN ids : ids[n] < id
  BY <1>1, ScannedWalk
<1>3. ids \in UNION {[1 .. n -> present] : n \in 0 .. Cardinality(present)}
  BY <1>2
<1>4. /\ present = {id \in Ids :
                      /\ id > minId
                      /\ [k \in Ids |-> IF indexMap[k] = Nothing THEN Nothing
                                        ELSE file[indexMap[k]][2]][id] # Nothing}
      /\ Cardinality(present) = Abstract!Cardinality(present)
  BY DEF Text, Abstract!Cardinality, Cardinality
<1> HIDE DEF present, minId, limit
<1> QED
  BY <1>2, <1>3, <1>4 DEF Abstract!Select, Abstract!Range, Range, minId, limit

LEMMA ScanIsLook ==
  ASSUME TypeInv, LinesInv, [Next]_vars, NEW q \in Queries, Scan(q)
  PROVE  Abstract!Look(q)
<1>1. /\ query[q] = "scanning" /\ query' = [query EXCEPT ![q] = "leaving"]
      /\ UNCHANGED <<file, indexMap, insert, asked, cursor, returned>>
  BY DEF Scan
<1>2. PICK ids \in FirstOf(Matches(asked[q][1]), asked[q][2]) :
        offsets' = [offsets EXCEPT ![q] = [n \in DOMAIN ids |-> indexMap[ids[n]]]]
  BY DEF Scan
<1>3. /\ \A k \in Ids : Text(k)' = Text(k)
      /\ \A j \in Inserts : Outcome(j)' = Outcome(j)
  BY <1>1, TextsStay DEF Outcome
<1>4. \A p \in Queries \ {q} : View(p)' = View(p)
  BY <1>1, <1>2, ViewStays DEF TypeInv, TypeOK, QueryOK
<1>5. View(q) = Nothing /\ View(q)' = [n \in DOMAIN ids |-> <<ids[n], Text(ids[n])>>]
  <2>1. View(q)' = [n \in DOMAIN ids |-> file[indexMap[ids[n]]]]
    BY <1>1, <1>2 DEF View, TypeInv, TypeOK, QueryOK
  <2>2. ASSUME NEW n \in DOMAIN ids
        PROVE  file[indexMap[ids[n]]] = <<ids[n], Text(ids[n])>>
    <3>1. ids[n] \in Ids /\ indexMap[ids[n]] # Nothing
      <4>1. ids[n] \in Matches(asked[q][1])
        BY <1>1, ScannedWalk
      <4> QED
        BY <4>1 DEF Matches
    <3>2. file[indexMap[ids[n]]] \in Records /\ file[indexMap[ids[n]]][1] = ids[n]
      BY <3>1 DEF LinesInv, PublishedInv
    <3> QED
      BY <3>1, <3>2 DEF Text, Records
  <2> QED
    BY <1>1, <2>1, <2>2 DEF View
<1>6. asked[q] # <<>>
  BY <1>1 DEF TypeInv, CallInv
<1>7. ids \in Abstract!Select(asked[q][1], asked[q][2])
  BY <1>1, ScanSelects
<1> DEFINE view == [p \in Queries |-> View(p)]
           store == [k \in Ids |-> Text(k)]
<1>8. \A n \in DOMAIN ids : ids[n] \in Ids
  BY <1>1, ScannedWalk DEF Matches
<1>9. view[q] = Nothing
      /\ view' = [view EXCEPT ![q] = [n \in DOMAIN ids |-> <<ids[n], store[ids[n]]>>]]
  BY <1>4, <1>5, <1>8
<1> QED
  BY <1>1, <1>3, <1>6, <1>7, <1>9 DEF Abstract!Look, Text, View

LEMMA NextIsAdvance ==
  ASSUME TypeInv, LinesInv, [Next]_vars, NEW q \in Queries, NextRecord(q)
  PROVE  Abstract!Advance(q)
<1>1. /\ query[q] = "iterating" /\ cursor[q] < Len(offsets[q])
      /\ cursor' = [cursor EXCEPT ![q] = cursor[q] + 1]
      /\ \/ returned' = [returned EXCEPT ![q] =
                           Append(returned[q], file[offsets[q][cursor[q] + 1]])]
         \/ UNCHANGED returned
      /\ UNCHANGED <<file, indexMap, insert, query, offsets, asked>>
  BY DEF NextRecord, HasNext
<1>2. /\ \A k \in Ids : Text(k)' = Text(k)
      /\ \A j \in Inserts : Outcome(j)' = Outcome(j)
      /\ \A p \in Queries : View(p)' = View(p)
  BY <1>1 DEF Text, Outcome, View
<1>3. /\ View(q) # Nothing /\ Len(View(q)) = Len(offsets[q])
      /\ \A n \in 1 .. Len(offsets[q]) : View(q)[n] = file[offsets[q][n]]
  BY <1>1, ViewIsRecords
<1>4. cursor[q] + 1 \in 1 .. Len(offsets[q])
  BY <1>1, LenProperties DEF TypeInv, TypeOK, QueryOK
<1>5. \/ returned' = [returned EXCEPT ![q] = Append(returned[q], View(q)[cursor[q] + 1])]
      \/ UNCHANGED returned
  BY <1>1, <1>3, <1>4
<1> DEFINE view == [p \in Queries |-> View(p)]
<1>6. /\ view[q] # Nothing /\ cursor[q] < Len(view[q])
      /\ \/ returned' = [returned EXCEPT ![q] = Append(returned[q], view[q][cursor[q] + 1])]
         \/ UNCHANGED returned
      /\ view' = view
  BY <1>1, <1>2, <1>3, <1>5
<1> QED
  BY <1>1, <1>2, <1>6 DEF Abstract!Advance, Text, View

\* Each step of the index is one of SnapshotIndex, or none.
LEMMA RefinementStep ==
  ASSUME TypeInv, LinesInv, [Next]_vars
  PROVE  [Abstract!Next]_(Abstract!vars)
<1>1. ASSUME UNCHANGED <<indexMap, asked, offsets, cursor, returned>>,
             \A i \in Inserts : Outcome(i)' = Outcome(i),
             \A q \in Queries :
               query'[q] \in {"idle", "scanning"} <=> query[q] \in {"idle", "scanning"}
      PROVE  UNCHANGED Abstract!vars
  <2>1. \A k \in Ids : Text(k)' = Text(k)
    BY <1>1, TextsStay
  <2>2. \A q \in Queries : View(q)' = View(q)
    BY <1>1, ViewStays
  <2> QED
    BY <1>1, <2>1, <2>2, SnapshotStutters
<1>2. ASSUME NEW i \in Inserts, EnterInsert(i) \/ WriteRecord(i) \/ LeaveInsert(i)
      PROVE  UNCHANGED Abstract!vars
  <2>1. \A j \in Inserts : Outcome(j)' = Outcome(j)
    BY <1>2 DEF EnterInsert, WriteRecord, LeaveInsert, Outcome, TypeInv, TypeOK, InsertOK
  <2>2. UNCHANGED <<indexMap, query, asked, offsets, cursor, returned>>
    BY <1>2 DEF EnterInsert, WriteRecord, LeaveInsert
  <2> QED
    BY <1>1, <2>1, <2>2
<1>3. ASSUME NEW i \in Inserts,
             EnterInsert(i) \/ RejectInsert(i) \/ InsertStep(i)
      PROVE  [Abstract!Next]_(Abstract!vars)
  BY <1>2, <1>3, PublishIsPut, RefusalIsRefuse DEF InsertStep, Abstract!Next
<1>4. ASSUME NEW q \in Queries, LeaveQuery(q) \/ CloseIterator(q)
      PROVE  UNCHANGED Abstract!vars
  <2>1. \A p \in Queries :
          query'[p] \in {"idle", "scanning"} <=> query[p] \in {"idle", "scanning"}
    BY <1>4 DEF LeaveQuery, CloseIterator, TypeInv, TypeOK, QueryOK
  <2>2. UNCHANGED <<indexMap, insert, asked, offsets, cursor, returned>>
    BY <1>4 DEF LeaveQuery, CloseIterator
  <2> QED
    BY <1>1, <2>1, <2>2 DEF Outcome
<1>5. ASSUME NEW q \in Queries,
             \/ EnterQuery(q) \/ RejectQuery(q) \/ QueryStep(q)
             \/ NextRecord(q) \/ CloseIterator(q)
      PROVE  [Abstract!Next]_(Abstract!vars)
  BY <1>4, <1>5, EnterQueryIsAsk, RejectQueryIsRefuse, ScanIsLook, NextIsAdvance
     DEF QueryStep, Abstract!Next
<1>6. ASSUME NEW c \in Closers, CallClose(c) \/ CloseResumes(c) \/ SpuriousWakeup(c)
      PROVE  UNCHANGED Abstract!vars
  BY <1>1, <1>6 DEF CallClose, CloseResumes, SpuriousWakeup, Outcome
<1>7. CASE UNCHANGED vars
  BY <1>1, <1>7 DEF Outcome
<1> QED
  BY <1>3, <1>5, <1>6, <1>7 DEF Next

\* The file, the map and the locks behave as SnapshotIndex says, for any number
\* of inserts, queries and ids: an insert takes effect when it is published, or
\* never; and an iterator walks through the records as they were at the instant
\* of the scan, whatever is written, torn or published meanwhile.
THEOREM FileIndexImplementsSnapshot == SafeSpec => ImplementsSnapshotIndex
<1>1. Init => Abstract!Init
  BY DEF Init, Abstract!Init, Outcome
<1>2. TypeInv /\ LinesInv /\ [Next]_vars => [Abstract!Next]_(Abstract!vars)
  BY RefinementStep
<1> QED
  BY <1>1, <1>2, LinesInvariant, PTL DEF SafeSpec, ImplementsSnapshotIndex, Abstract!SafeSpec
=============================================================================
