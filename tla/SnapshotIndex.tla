--------------------------- MODULE SnapshotIndex ---------------------------
(***************************************************************************)
(* What the index promises for SELECT * WHERE id > X LIMIT Y: an insert    *)
(* takes effect at one instant or not at all, and a query's iterator walks *)
(* through the records as they were at one instant, in ascending order of  *)
(* id, whatever is inserted meanwhile.  A record that cannot be read is    *)
(* passed over.                                                            *)
(*                                                                         *)
(* FileIndex, GoIndex and AppendIndex are shown to implement this module.  *)
(***************************************************************************)
EXTENDS Integers, Sequences, FiniteSets, Functions

CONSTANTS
  Inserts,  \* the inserts; each stands for the text it adds too
  Queries,
  Ids,
  Limits,   \* the limits that queries pass
  NoText    \* no text, and no view yet

VARIABLES
  store,    \* the text under each id
  outcome,  \* what became of each insert
  asked,    \* minId and limit of each query, once it is called
  view,     \* the records a query selected, or NoText before it has
  position, \* how many of them its iterator has passed
  got       \* the ones that its caller received

vars == <<store, outcome, asked, view, position, got>>

Init ==
  /\ store = [id \in Ids |-> NoText]
  /\ outcome = [i \in Inserts |-> "pending"]
  /\ asked = [q \in Queries |-> <<>>]
  /\ view = [q \in Queries |-> NoText]
  /\ position = [q \in Queries |-> 0]
  /\ got = [q \in Queries |-> <<>>]

\* What a query may select: present ids above minId, in ascending order and no
\* more of them than limit.  One is left out only if the limit is reached, and
\* then it is above all that are taken.
Select(minId, limit) ==
  LET present == {id \in Ids : id > minId /\ store[id] # NoText}
  IN  {ids \in UNION {[1 .. n -> present] : n \in 0 .. Cardinality(present)} :
         /\ Len(ids) = 0 \/ Len(ids) <= limit
         /\ \A m, n \in DOMAIN ids : m < n => ids[m] < ids[n]
         /\ \A id \in present \ Range(ids) :
              Len(ids) >= limit /\ \A n \in DOMAIN ids : ids[n] < id}

Put(i) ==
  /\ outcome[i] = "pending"
  /\ \E id \in Ids : store' = [store EXCEPT ![id] = i]
  /\ outcome' = [outcome EXCEPT ![i] = "stored"]
  /\ UNCHANGED <<asked, view, position, got>>

Refuse(i) ==
  /\ outcome[i] = "pending"
  /\ outcome' = [outcome EXCEPT ![i] = "refused"]
  /\ UNCHANGED <<store, asked, view, position, got>>

Ask(q) ==
  /\ asked[q] = <<>>
  /\ view[q] = NoText
  /\ \E minId \in Ids \cup {0}, limit \in Limits :
       asked' = [asked EXCEPT ![q] = <<minId, limit>>]
  /\ UNCHANGED <<store, outcome, view, position, got>>

Look(q) ==
  /\ asked[q] # <<>>
  /\ view[q] = NoText
  /\ \E ids \in Select(asked[q][1], asked[q][2]) :
       view' = [view EXCEPT ![q] = [n \in DOMAIN ids |-> <<ids[n], store[ids[n]]>>]]
  /\ UNCHANGED <<store, outcome, asked, position, got>>

RefuseQuery(q) ==
  /\ asked[q] = <<>>
  /\ view[q] = NoText
  /\ view' = [view EXCEPT ![q] = <<>>]
  /\ UNCHANGED <<store, outcome, asked, position, got>>

Advance(q) ==
  /\ view[q] # NoText
  /\ position[q] < Len(view[q])
  /\ position' = [position EXCEPT ![q] = @ + 1]
  /\ \/ got' = [got EXCEPT ![q] = Append(@, view[q][position[q] + 1])]
     \/ UNCHANGED got
  /\ UNCHANGED <<store, outcome, asked, view>>

Next ==
  \/ \E i \in Inserts : Put(i) \/ Refuse(i)
  \/ \E q \in Queries : Ask(q) \/ Look(q) \/ RefuseQuery(q) \/ Advance(q)

SafeSpec == Init /\ [][Next]_vars
=============================================================================
