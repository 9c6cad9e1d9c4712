-------------------------- MODULE SequenceLemmas --------------------------
(***************************************************************************)
(* What the proofs need of the sequences in the models: queues to which    *)
(* elements are added at the tail and from which they are taken at the     *)
(* head, and walks through an ordered map.                                 *)
(***************************************************************************)
EXTENDS Walks, FiniteSetTheorems, SequenceTheorems, TLAPS

-----------------------------------------------------------------------------
(* Queues *)

\* Appending adds exactly the new element, and repeats nothing if it is new.
LEMMA AppendElements ==
  ASSUME NEW S, NEW s \in Seq(S), NEW e \in S
  PROVE  /\ Range(Append(s, e)) = Range(s) \cup {e}
         /\ IsInjective(s) /\ e \notin Range(s) => IsInjective(Append(s, e))
<1> DEFINE t == Append(s, e)
<1>1. /\ t \in Seq(S)
      /\ Len(t) = Len(s) + 1
      /\ \A i \in 1..Len(s) : t[i] = s[i]
      /\ t[Len(s) + 1] = e
  BY AppendProperties
<1>2. /\ DOMAIN s = 1..Len(s) /\ DOMAIN t = 1..Len(s) + 1 /\ Len(s) \in Nat
  BY <1>1, LenProperties
<1> HIDE DEF t
<1>3. Range(t) = Range(s) \cup {e}
  <2>1. ASSUME NEW x \in Range(t) PROVE x \in Range(s) \cup {e}
    BY <1>1, <1>2, <2>1 DEF Range
  <2>2. ASSUME NEW x \in Range(s) PROVE x \in Range(t)
    <3>1. PICK i \in 1..Len(s) : s[i] = x
      BY <1>2, <2>2 DEF Range
    <3>2. i \in DOMAIN t /\ t[i] = x
      BY <1>1, <1>2, <3>1
    <3> QED
      BY <3>2 DEF Range
  <2>3. e \in Range(t)
    BY <1>1, <1>2 DEF Range
  <2> QED
    BY <2>1, <2>2, <2>3
<1>4. ASSUME IsInjective(s), e \notin Range(s) PROVE IsInjective(t)
  BY <1>1, <1>2, <1>4 DEF IsInjective, Range
<1> QED
  BY <1>3, <1>4 DEF t

\* Taking the head removes exactly that element and repeats nothing.
LEMMA TailElements ==
  ASSUME NEW S, NEW s \in Seq(S), s # <<>>, IsInjective(s)
  PROVE  /\ Head(s) \in Range(s)
         /\ Range(Tail(s)) = Range(s) \ {Head(s)}
         /\ IsInjective(Tail(s))
<1> DEFINE t == Tail(s)
<1>1. /\ t \in Seq(S)
      /\ Len(t) = Len(s) - 1
      /\ \A i \in 1..Len(t) : t[i] = s[i + 1]
  BY HeadTailProperties
<1>2. /\ DOMAIN s = 1..Len(s) /\ DOMAIN t = 1..Len(t) /\ Len(s) \in Nat \ {0}
      /\ Head(s) = s[1]
  BY <1>1, LenProperties, EmptySeq
<1> HIDE DEF t
<1>3. Head(s) \in Range(s)
  BY <1>2 DEF Range
<1>4. Range(t) = Range(s) \ {Head(s)}
  <2>1. ASSUME NEW x \in Range(t) PROVE x \in Range(s) \ {Head(s)}
    <3>1. PICK i \in 1..Len(t) : t[i] = x
      BY <1>2, <2>1 DEF Range
    <3>2. i + 1 \in DOMAIN s /\ s[i + 1] = x /\ i + 1 # 1 /\ 1 \in DOMAIN s
      BY <1>1, <1>2, <3>1
    <3> QED
      BY <1>2, <3>2 DEF IsInjective, Range
  <2>2. ASSUME NEW x \in Range(s), x # Head(s) PROVE x \in Range(t)
    <3>1. PICK i \in 1..Len(s) : s[i] = x
      BY <1>2, <2>2 DEF Range
    <3>2. i - 1 \in DOMAIN t /\ t[i - 1] = x
      BY <1>1, <1>2, <2>2, <3>1
    <3> QED
      BY <3>2 DEF Range
  <2> QED
    BY <2>1, <2>2
<1>5. IsInjective(t)
  BY <1>1, <1>2 DEF IsInjective
<1> QED
  BY <1>3, <1>4, <1>5 DEF t

\* The empty queue holds nothing.
LEMMA EmptyElements == Range(<<>>) = {} /\ IsInjective(<<>>)
BY DEF Range, IsInjective

-----------------------------------------------------------------------------
(* Induction and recursion *)

\* Induction over the natural numbers, for the set of those that are good.
LEMMA Induct ==
  ASSUME NEW G \in SUBSET Nat, 0 \in G, \A n \in G : n + 1 \in G
  PROVE  G = Nat
<1> SUFFICES ASSUME Nat \ G # {} PROVE FALSE
  OBVIOUS
<1> DEFINE R == OpToRel(<, Nat)
<1>1. \E x \in Nat \ G : \A y \in Nat \ G : ~ (<<y, x>> \in R)
  <2>1. IsWellFoundedOn(R, Nat)
    BY NatLessThanWellFounded
  <2> QED
    BY <2>1, WFMin
<1>2. PICK x \in Nat \ G : \A y \in Nat \ G : ~ (y < x)
  BY <1>1 DEF OpToRel
<1>3. x # 0 /\ x - 1 \in Nat /\ x - 1 < x
  BY <1>2
<1>4. x - 1 \in G
  BY <1>2, <1>3
<1>5. (x - 1) + 1 \in G
  BY <1>4
<1> QED
  BY <1>2, <1>5

\* A set of natural numbers has a least member.
LEMMA Least ==
  ASSUME NEW T \in SUBSET Nat, T # {}
  PROVE  \E n \in T : \A m \in T : n <= m
<1> DEFINE R == OpToRel(<, Nat)
<1>1. \E n \in T : \A m \in T : ~ (<<m, n>> \in R)
  <2>1. IsWellFoundedOn(R, Nat)
    BY NatLessThanWellFounded
  <2> QED
    BY <2>1, WFMin
<1>2. PICK n \in T : \A m \in T : ~ (m < n)
  BY <1>1 DEF OpToRel
<1> QED
  BY <1>2

\* Induction in which the good numbers are all that are smaller.
LEMMA InductBelow ==
  ASSUME NEW G \in SUBSET Nat, \A n \in Nat : (\A m \in 0 .. n - 1 : m \in G) => n \in G
  PROVE  G = Nat
<1> SUFFICES ASSUME Nat \ G # {} PROVE FALSE
  OBVIOUS
<1>1. PICK n \in Nat \ G : \A m \in Nat \ G : n <= m
  <2> DEFINE T == Nat \ G
  <2>1. T \in SUBSET Nat /\ T # {}
    OBVIOUS
  <2> HIDE DEF T
  <2>2. \E n \in T : \A m \in T : n <= m
    BY <2>1, Least
  <2> QED
    BY <2>2 DEF T
<1> QED
  BY <1>1

\* A function may be defined by recursion on a size of its arguments: if what a
\* step makes of f for d depends on the values of f at smaller arguments only,
\* some f is what the step makes of it.
Decreases(D, V, bound, size, step) ==
  /\ V # {}
  /\ bound \in Nat
  /\ size \in [D -> 0 .. bound]
  /\ step \in [D -> [[D -> V] -> V]]
  /\ \A d \in D : \A f, g \in [D -> V] :
       (\A e \in D : size[e] < size[d] => f[e] = g[e]) => step[d][f] = step[d][g]

\* Some f is what such a step makes of it, so that the function that CHOOSEs one by
\* a recursive definition satisfies the definition.
LEMMA Recursion ==
  ASSUME NEW D, NEW V, NEW bound, NEW size, NEW step, Decreases(D, V, bound, size, step)
  PROVE  \E f \in [D -> V] : \A d \in D : f[d] = step[d][f]
<1> USE DEF Decreases
<1> PICK default \in V : TRUE
  OBVIOUS
<1> DEFINE Good(n, f) == \A d \in D : size[d] < n => f[d] = step[d][f]
           G == {n \in Nat : \E f \in [D -> V] : Good(n, f)}
<1>1. 0 \in G
  <2>1. [d \in D |-> default] \in [D -> V] /\ Good(0, [d \in D |-> default])
    OBVIOUS
  <2> QED
    BY <2>1
<1>2. ASSUME NEW n \in G PROVE n + 1 \in G
  <2>1. PICK f \in [D -> V] : Good(n, f)
    OBVIOUS
  <2> DEFINE g == [d \in D |-> IF size[d] < n THEN f[d] ELSE step[d][f]]
  <2>2. g \in [D -> V]
    OBVIOUS
  <2>3. \A d \in D : size[d] < n => g[d] = f[d]
    OBVIOUS
  <2>4. \A d \in D : g[d] = step[d][f]
    BY <2>1
  <2> HIDE DEF g
  <2>5. Good(n + 1, g)
    <3> SUFFICES ASSUME NEW d \in D, size[d] < n + 1 PROVE step[d][g] = step[d][f]
      BY <2>4
    <3>1. \A e \in D : size[e] < size[d] => g[e] = f[e]
      BY <2>3
    <3> QED
      BY <2>1, <2>2, <3>1
  <2> QED
    BY <2>2, <2>5
<1> HIDE DEF G
<1>3. G = Nat
  <2>1. G \in SUBSET Nat
    BY DEF G
  <2> QED
    BY <1>1, <1>2, <2>1, Induct
<1>4. bound + 1 \in G
  BY <1>3
<1>5. PICK f \in [D -> V] : Good(bound + 1, f)
  BY <1>4 DEF G
<1> QED
  BY <1>5

-----------------------------------------------------------------------------
(* Walks *)

\* A function on the numbers up to n is a sequence of that length.
LEMMA ArrayIsSequence ==
  ASSUME NEW S, NEW n \in Nat, NEW f \in [1 .. n -> S]
  PROVE  f \in Seq(S) /\ Len(f) = n /\ DOMAIN f = 1 .. n
OBVIOUS

\* A walk ascends, is as long as it may be, and passes over nothing: with fewer
\* elements than the limit it covers them all, and otherwise what it has left
\* out is beyond its end.
LEMMA WalkProperties ==
  ASSUME NEW ids \in SUBSET Int, IsFiniteSet(ids), NEW limit \in Int,
         NEW walk \in FirstOf(ids, limit)
  PROVE  /\ walk \in [1 .. Len(walk) -> ids] /\ DOMAIN walk = 1 .. Len(walk)
         /\ Len(walk) \in 0 .. Cardinality(ids)
         /\ Len(walk) = 0 \/ Len(walk) <= limit
         /\ \A m, n \in DOMAIN walk : m < n => walk[m] < walk[n]
         /\ \A id \in ids \ Range(walk) :
              Len(walk) >= limit /\ \A n \in DOMAIN walk : walk[n] < id
<1> DEFINE size == Cardinality(ids)
           count == IF limit < 0 THEN 0 ELSE IF limit < size THEN limit ELSE size
<1>1. size \in Nat
  BY FS_CardinalityType
<1>2. /\ count \in Nat /\ count \in 0 .. size
      /\ count = 0 \/ count <= limit
      /\ count = size \/ count >= limit
  BY <1>1
<1>3. /\ walk \in [1 .. count -> ids]
      /\ \A m, n \in 1 .. count : m < n => walk[m] < walk[n]
      /\ \A id \in ids : id \in Range(walk) \/ \A n \in 1 .. count : walk[n] < id
  BY DEF FirstOf
<1> HIDE DEF count
<1>4. walk \in Seq(ids) /\ Len(walk) = count /\ DOMAIN walk = 1 .. count
  <2>1. count \in Nat /\ walk \in [1 .. count -> ids]
    BY <1>2, <1>3
  <2> QED
    BY <2>1, ArrayIsSequence
<1>5. ASSUME NEW id \in ids \ Range(walk) PROVE count >= limit
  <2> SUFFICES ASSUME count = size PROVE FALSE
    BY <1>2
  <2>1. walk \in Injection(1 .. size, ids)
    <3>1. ASSUME NEW m \in 1 .. size, NEW n \in 1 .. size, m # n PROVE walk[m] # walk[n]
      <4>1. walk[m] \in Int /\ walk[n] \in Int
        BY <1>3
      <4>2. m < n \/ n < m
        BY <1>1, <3>1
      <4> QED
        BY <1>3, <4>1, <4>2
    <3> QED
      BY <1>3, <3>1 DEF Injection, IsInjective
  <2>2. Cardinality(1 .. size) = Cardinality(ids)
    BY <1>1, FS_Interval DEF size
  <2>3. walk \in Surjection(1 .. size, ids)
    BY <2>1, <2>2, FS_Injection
  <2> QED
    BY <1>4, <2>3 DEF Surjection, Range
<1>6. walk \in [1 .. Len(walk) -> ids] /\ Len(walk) \in 0 .. size
      /\ (Len(walk) = 0 \/ Len(walk) <= limit)
  BY <1>1, <1>2, <1>3, <1>4
<1>7. \A id \in ids \ Range(walk) :
        Len(walk) >= limit /\ \A n \in DOMAIN walk : walk[n] < id
  BY <1>3, <1>4, <1>5
<1> QED
  BY <1>3, <1>4, <1>6, <1>7 DEF size
=============================================================================
