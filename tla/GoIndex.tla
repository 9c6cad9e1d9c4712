------------------------------ MODULE GoIndex ------------------------------
(***************************************************************************)
(* src/go-concurrency-practice/final_iterator_plus_index/library.go: the   *)
(* file index in Go.  Insert and Query look at the index's context, then   *)
(* add themselves to a wait group; Close cancels the context and waits for *)
(* the group.                                                              *)
(*                                                                         *)
(* Each critical section is one action.  The file, open, writeData and     *)
(* readAt are not in the source and are modelled from their use: a write   *)
(* appends at the end of the file and tells the offset, or fails and may   *)
(* leave a torn line.  The map is ordered, as the source assumes.  A panic *)
(* of the wait group ends the program.                                     *)
(***************************************************************************)
EXTENDS IndexCalls

CONSTANT Closers  \* one member per call of Close

VARIABLES
  file,       \* the lines of the file; an offset is a position in it
  indexMap,   \* id -> offset, or Nothing
  cancelled,  \* is the index's context done?
  wg,         \* the counter of the wait group
  releasing,  \* is a Done about to release the waiters?
  insert,     \* where each Insert is, or what it returned
  record,     \* the record it adds
  landed,     \* byte_offset
  query,      \* where each Query is; then what became of its iterator
  asked,      \* the minId and the limit of its call
  offsets,    \* fileOffsets of the iterator
  cursor,     \* lastReadIndex of the iterator
  returned,   \* the records Next handed out
  closer,     \* where each Close is
  panicked    \* has the wait group panicked?

dataVars == <<file, indexMap>>
insertVars == <<insert, record, landed>>
queryVars == <<query, asked, offsets, cursor, returned>>
groupVars == <<wg, releasing, panicked>>
lifeVars == <<cancelled, closer>>
vars == <<dataVars, insertVars, queryVars, groupVars, lifeVars>>


Offsets == 1 .. Len(file)

DataOK ==
  /\ file \in Seq(Records \cup {Torn})
  /\ indexMap \in [Ids -> Offsets \cup {Nothing}]

InsertOK ==
  /\ insert \in [Inserts -> {"idle", "accepted", "writing", "publishing", "failing",
                             "leaving", "ok", "rejected", "failed"}]
  /\ record \in [Inserts -> Records \cup {<<>>}]
  /\ landed \in [Inserts -> Offsets \cup {0}]

QueryOK ==
  /\ query \in [Queries -> {"idle", "accepted", "scanning", "leaving", "iterating", "closed"}]
  /\ asked \in [Queries -> (Ids \cup {0}) \X Limits \cup {<<>>}]
  /\ offsets \in [Queries -> Seq(Offsets)]
  /\ cursor \in [Queries -> Nat]
  /\ \A q \in Queries : cursor[q] <= Len(offsets[q])
  /\ returned \in [Queries -> Seq(Records)]

LifeOK ==
  /\ wg \in Nat
  /\ cancelled \in BOOLEAN /\ releasing \in BOOLEAN /\ panicked \in BOOLEAN
  /\ closer \in [Closers -> {"idle", "cancelled", "asleep", "woken", "returned"}]

TypeOK == DataOK /\ InsertOK /\ QueryOK /\ LifeOK

Init ==
  /\ file = <<>>
  /\ indexMap = [id \in Ids |-> Nothing]
  /\ cancelled = FALSE
  /\ wg = 0
  /\ releasing = FALSE
  /\ panicked = FALSE
  /\ insert = [i \in Inserts |-> "idle"]
  /\ record = [i \in Inserts |-> <<>>]
  /\ landed = [i \in Inserts |-> 0]
  /\ query = [q \in Queries |-> "idle"]
  /\ asked = [q \in Queries |-> <<>>]
  /\ offsets = [q \in Queries |-> <<>>]
  /\ cursor = [q \in Queries |-> 0]
  /\ returned = [q \in Queries |-> <<>>]
  /\ closer = [c \in Closers |-> "idle"]

-----------------------------------------------------------------------------
(* sync.WaitGroup *)

\* Definitions named Faulty... are never part of the specification: each is a
\* plausible mistake in the definition that follows it, kept to show that the
\* properties notice it.

\* Add(1): "Add called concurrently with Wait" if the waiters of the last
\* round are not released yet.
WgAdd ==
  /\ wg' = wg + 1
  /\ panicked' = releasing
  /\ UNCHANGED releasing

WgDone ==
  /\ wg' = wg - 1
  /\ releasing' = (wg = 1 /\ \E c \in Closers : closer[c] = "asleep")
  /\ UNCHANGED panicked

\* Of several waiters only one is released.
FaultyWgReleases ==
  /\ releasing
  /\ releasing' = FALSE
  /\ \E c \in Closers : closer[c] = "asleep" /\ closer' = [closer EXCEPT ![c] = "woken"]
  /\ UNCHANGED <<dataVars, insertVars, queryVars, wg, panicked, cancelled>>
WgReleases ==
  /\ releasing
  /\ releasing' = FALSE
  /\ closer' = [c \in Closers |-> IF closer[c] = "asleep" THEN "woken" ELSE closer[c]]
  /\ UNCHANGED <<dataVars, insertVars, queryVars, wg, panicked, cancelled>>

\* Wait: returns at once, or sleeps until released.
WgWait(c) ==
  /\ closer[c] = "cancelled"
  /\ closer' = [closer EXCEPT ![c] = IF wg = 0 THEN "returned" ELSE "asleep"]
  /\ UNCHANGED <<dataVars, insertVars, queryVars, groupVars, cancelled>>

\* The counter is not looked at again.
FaultyWgWaitReturns(c) ==
  /\ closer[c] = "woken"
  /\ closer' = [closer EXCEPT ![c] = "returned"]
  /\ UNCHANGED <<dataVars, insertVars, queryVars, groupVars, cancelled>>
\* "WaitGroup is reused before previous Wait has returned" if the group's state
\* is not zero again: somebody was added since the release, or others have come
\* to wait and are being released in their turn.
WgWaitReturns(c) ==
  /\ closer[c] = "woken"
  /\ \/ /\ wg = 0 /\ ~releasing
        /\ closer' = [closer EXCEPT ![c] = "returned"]
        /\ UNCHANGED panicked
     \/ /\ wg # 0 \/ releasing
        /\ panicked' = TRUE
        /\ UNCHANGED closer
  /\ UNCHANGED <<dataVars, insertVars, queryVars, wg, releasing, cancelled>>

-----------------------------------------------------------------------------
(* Insert *)

\* The select on ctx.Done(): an open index lets the call go on.
CheckInsert(i) ==
  /\ insert[i] = "idle"
  /\ insert' = [insert EXCEPT ![i] = IF cancelled THEN "rejected" ELSE "accepted"]
  /\ UNCHANGED <<dataVars, record, landed, queryVars, groupVars, lifeVars>>

AddInsert(i) ==
  /\ insert[i] = "accepted"
  /\ WgAdd
  /\ insert' = [insert EXCEPT ![i] = "writing"]
  /\ \E id \in Ids : record' = [record EXCEPT ![i] = <<id, i>>]
  /\ UNCHANGED <<dataVars, landed, queryVars, lifeVars>>

\* The offset is that of the line before.
FaultyWriteRecord(i) ==
  /\ insert[i] = "writing"
  /\ file' = Append(file, record[i])
  /\ landed' = [landed EXCEPT ![i] = Len(file)]
  /\ insert' = [insert EXCEPT ![i] = "publishing"]
  /\ UNCHANGED <<indexMap, record, queryVars, groupVars, lifeVars>>
\* open and writeData succeed, under the lock of the file.
WriteRecord(i) ==
  /\ insert[i] = "writing"
  /\ file' = Append(file, record[i])
  /\ landed' = [landed EXCEPT ![i] = Len(file) + 1]
  /\ insert' = [insert EXCEPT ![i] = "publishing"]
  /\ UNCHANGED <<indexMap, record, queryVars, groupVars, lifeVars>>

\* open or writeData fails.
WriteFails(i) ==
  /\ insert[i] = "writing"
  /\ file' \in {file, Append(file, Torn)}
  /\ insert' = [insert EXCEPT ![i] = "failing"]
  /\ UNCHANGED <<indexMap, record, landed, queryVars, groupVars, lifeVars>>

PublishRecord(i) ==
  /\ insert[i] = "publishing"
  /\ indexMap' = [indexMap EXCEPT ![record[i][1]] = landed[i]]
  /\ insert' = [insert EXCEPT ![i] = "leaving"]
  /\ UNCHANGED <<file, record, landed, queryVars, groupVars, lifeVars>>

\* The deferred Done, on every way out.
LeaveInsert(i) ==
  /\ \/ insert[i] = "leaving" /\ insert' = [insert EXCEPT ![i] = "ok"]
     \/ insert[i] = "failing" /\ insert' = [insert EXCEPT ![i] = "failed"]
  /\ WgDone
  /\ UNCHANGED <<dataVars, record, landed, queryVars, lifeVars>>

-----------------------------------------------------------------------------
(* Query *)

\* A closed index yields an empty iterator.
CheckQuery(q) ==
  /\ query[q] = "idle"
  /\ \/ ~cancelled /\ query' = [query EXCEPT ![q] = "accepted"]
     \/ cancelled /\ query' = [query EXCEPT ![q] = "iterating"]
  /\ UNCHANGED <<dataVars, insertVars, asked, offsets, cursor, returned, groupVars, lifeVars>>

AddQuery(q) ==
  /\ query[q] = "accepted"
  /\ WgAdd
  /\ query' = [query EXCEPT ![q] = "scanning"]
  /\ asked' \in {[asked EXCEPT ![q] = args] : args \in (Ids \cup {0}) \X Limits}
  /\ UNCHANGED <<dataVars, insertVars, offsets, cursor, returned, lifeVars>>

\* The ids that the loop over the map gets to.  It breaks after an id with which
\* count has reached the limit, so with a limit below one it ends with the
\* smallest id, which it may have taken in.
Visited(limit) ==
  {id \in Ids : /\ indexMap[id] # Nothing
                /\ limit >= 1 \/ \A k \in Ids : indexMap[k] # Nothing => id <= k}
Effective(limit) == IF limit < 1 THEN 1 ELSE limit

\* Ids at or below minId count against the limit.
FaultyCollect(minId, limit) ==
  FirstOf({id \in Visited(limit) :
             /\ id > minId
             /\ Cardinality({k \in Visited(limit) : k < id}) < limit}, Effective(limit))
Collect(minId, limit) == FirstOf({id \in Visited(limit) : id > minId}, Effective(limit))

Scan(q) ==
  /\ query[q] = "scanning"
  /\ \E ids \in Collect(asked[q][1], asked[q][2]) :
       offsets' = [offsets EXCEPT ![q] = [n \in DOMAIN ids |-> indexMap[ids[n]]]]
  /\ query' = [query EXCEPT ![q] = "leaving"]
  /\ UNCHANGED <<dataVars, insertVars, asked, cursor, returned, groupVars, lifeVars>>

LeaveQuery(q) ==
  /\ query[q] = "leaving"
  /\ query' = [query EXCEPT ![q] = "iterating"]
  /\ WgDone
  /\ UNCHANGED <<dataVars, insertVars, asked, offsets, cursor, returned, lifeVars>>

-----------------------------------------------------------------------------
(* The iterator: HasNext, Next and Close *)

HasNext(q) == query[q] = "iterating" /\ cursor[q] < Len(offsets[q])

\* The cursor is advanced before the read, which may fail.
NextRecord(q) ==
  /\ HasNext(q)
  /\ cursor' = [cursor EXCEPT ![q] = @ + 1]
  /\ \/ returned' = [returned EXCEPT ![q] = Append(@, file[offsets[q][cursor[q] + 1]])]
     \/ UNCHANGED returned
  /\ UNCHANGED <<dataVars, insertVars, query, asked, offsets, groupVars, lifeVars>>

CloseIterator(q) ==
  /\ query[q] = "iterating"
  /\ query' = [query EXCEPT ![q] = "closed"]
  /\ UNCHANGED <<dataVars, insertVars, asked, offsets, cursor, returned, groupVars, lifeVars>>

-----------------------------------------------------------------------------
\* Close cancels the context; then come WgWait and WgWaitReturns.
CallClose(c) ==
  /\ closer[c] = "idle"
  /\ cancelled' = TRUE
  /\ closer' = [closer EXCEPT ![c] = "cancelled"]
  /\ UNCHANGED <<dataVars, insertVars, queryVars, groupVars>>

Running == ~panicked

InsertStep(i) ==
  AddInsert(i) \/ WriteRecord(i) \/ WriteFails(i) \/ PublishRecord(i) \/ LeaveInsert(i)
QueryStep(q) == AddQuery(q) \/ Scan(q) \/ LeaveQuery(q)
CloseStep(c) == WgWait(c) \/ WgWaitReturns(c)

Next ==
  /\ Running
  /\ \/ \E i \in Inserts : CheckInsert(i) \/ InsertStep(i)
     \/ \E q \in Queries : \/ CheckQuery(q)
                           \/ QueryStep(q)
                           \/ NextRecord(q)
                           \/ CloseIterator(q)
     \/ \E c \in Closers : CallClose(c) \/ CloseStep(c)
     \/ WgReleases

SafeSpec == Init /\ [][Next]_vars

\* A call that has begun and is not blocked goes on.  Nobody has to make a
\* call or advance an iterator.
Fairness ==
  /\ \A i \in Inserts : WF_vars(Running /\ InsertStep(i))
  /\ \A q \in Queries : WF_vars(Running /\ QueryStep(q))
  /\ \A c \in Closers : WF_vars(Running /\ CloseStep(c))
  /\ WF_vars(Running /\ WgReleases)

Spec == SafeSpec /\ Fairness

-----------------------------------------------------------------------------
(* What holds *)

\* An offset that is in the map or with an iterator leads to a complete line
\* of the right id, though any insert may leave a torn line between those of
\* others; an iterator's ids ascend from above minId, and a limit of at least one
\* is kept to.
OffsetsAreSound ==
  /\ TypeOK
  /\ \A i \in Inserts :
       insert[i] \in {"publishing", "leaving", "ok"} =>
         landed[i] \in DOMAIN file /\ file[landed[i]] = record[i]
  /\ \A id \in Ids :
       indexMap[id] # Nothing =>
         file[indexMap[id]] \in Records /\ file[indexMap[id]][1] = id
  /\ \A q \in Queries : offsets[q] # <<>> =>
       LET ids == [n \in DOMAIN offsets[q] |-> file[offsets[q][n]][1]]
       IN  /\ asked[q][2] >= 1 => Len(ids) <= asked[q][2]
           /\ ids[1] > asked[q][1]
           /\ \A n \in 2 .. Len(ids) : ids[n - 1] < ids[n]

\* What Close does wait for: at the instant it returns, nothing that was added
\* to the wait group is still at work, whichever calls failed or came between.
CloseDrainsAdded ==
  [][\A c \in Closers : closer[c] # "returned" /\ closer'[c] = "returned" =>
       /\ \A i \in Inserts : insert[i] \in {"idle", "accepted", "ok", "rejected", "failed"}
       /\ \A q \in Queries : query[q] \in {"idle", "accepted", "iterating", "closed"}]_vars

\* A Close whose Wait sleeps is woken and returns, or the program has died.
CloseReturns ==
  \A c \in Closers : closer[c] = "asleep" ~> closer[c] = "returned" \/ panicked

Outcome(i) ==
  CASE insert[i] \in {"idle", "accepted", "writing", "publishing"} -> "pending"
    [] insert[i] \in {"leaving", "ok"} -> "stored"
    [] OTHER -> "refused"

\* A query with a limit below one is left out: whether it yields a record
\* depends on the smallest id in the map.
Proper(q) == asked[q] = <<>> \/ asked[q][2] >= 1

Abstract == INSTANCE SnapshotIndex WITH
  NoText <- Nothing,
  store <- [id \in Ids |->
              IF indexMap[id] = Nothing THEN Nothing ELSE file[indexMap[id]][2]],
  outcome <- [i \in Inserts |-> Outcome(i)],
  asked <- [q \in Queries |-> IF Proper(q) THEN asked[q] ELSE <<>>],
  view <- [q \in Queries |->
             IF query[q] \in {"idle", "accepted", "scanning"} \/ ~Proper(q) THEN Nothing
             ELSE [n \in DOMAIN offsets[q] |-> file[offsets[q][n]]]],
  position <- [q \in Queries |-> IF Proper(q) THEN cursor[q] ELSE 0],
  got <- [q \in Queries |-> IF Proper(q) THEN returned[q] ELSE <<>>]

\* Queries with a limit of at least one see, through the file and the map, the
\* records of one instant, in order.
ImplementsSnapshotIndex == Abstract!SafeSpec

-----------------------------------------------------------------------------
(* What the source claims and the code does not do *)

\* "wait for all in-flight operations to complete before returning" (Close):
\* once a Close has returned nothing that it let in is at work.
CloseWaits ==
  (\E c \in Closers : closer[c] = "returned") =>
    /\ \A i \in Inserts : insert[i] \in {"idle", "ok", "rejected", "failed"}
    /\ \A q \in Queries : query[q] \in {"idle", "iterating", "closed"}

\* "Results are limited to `limit` records" (Query in the interface Index): an
\* iterator never holds more offsets than its query asked for.
ResultsAreLimited ==
  \A q \in Queries : asked[q] # <<>> /\ asked[q][2] >= 0 => Len(offsets[q]) <= asked[q][2]
=============================================================================
