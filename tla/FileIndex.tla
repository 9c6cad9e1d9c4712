----------------------------- MODULE FileIndex -----------------------------
(***************************************************************************)
(* src/iterator_plus_index.cpp: an index from ids to offsets in a file of  *)
(* records.  Insert appends to the file under writeMu and then updates the *)
(* map under idxMu; Query copies the offsets it selects under idxMu        *)
(* (shared) into an iterator that reads the file without a lock; Close     *)
(* refuses new calls and waits for those in flight.                        *)
(*                                                                         *)
(* Each critical section is one action.  An offset counts records, not     *)
(* bytes, and an insert stands for its text.  The owner deletes iterators  *)
(* before the index, as the source demands.                                *)
(***************************************************************************)
EXTENDS IndexCalls

CONSTANT Closers  \* one member per call of Close

VARIABLES
  file,        \* what is at each offset
  writeOffset,
  indexMap,    \* id -> offset, or Nothing
  inFlight,
  closed,
  insert,      \* where each Insert is, or what it returned
  record,      \* the record it adds
  landed,      \* the offset it learnt
  query,       \* where each Query is; then what became of its iterator
  asked,       \* the minId and the limit of its call
  offsets,     \* fileOffsets of the iterator
  cursor,
  returned,    \* the records Next handed out
  closer       \* where each Close is

insertVars == <<insert, record, landed>>
queryVars == <<query, asked, offsets, cursor, returned>>
dataVars == <<file, writeOffset, indexMap>>
lifeVars == <<inFlight, closed, closer>>
vars == <<dataVars, insertVars, queryVars, lifeVars>>

\* Every Insert may fail once the file is written, so no offset is beyond.
Offsets == 0 .. Cardinality(Inserts)

DataOK ==
  /\ file \in [Offsets -> Records \cup {<<>>, Torn}]
  /\ writeOffset \in Offsets
  /\ indexMap \in [Ids -> Offsets \cup {Nothing}]

InsertOK ==
  /\ insert \in [Inserts -> {"idle", "writing", "publishing", "leaving", "failing",
                             "ok", "rejected", "failed"}]
  /\ record \in [Inserts -> Records \cup {<<>>}]
  /\ landed \in [Inserts -> Offsets]

QueryOK ==
  /\ query \in [Queries -> {"idle", "scanning", "leaving", "iterating", "closed"}]
  /\ asked \in [Queries -> (Ids \cup {0}) \X Limits \cup {<<>>}]
  /\ offsets \in [Queries -> Seq(Offsets)]
  /\ cursor \in [Queries -> Nat]
  /\ \A q \in Queries : cursor[q] <= Len(offsets[q])
  /\ returned \in [Queries -> Seq(Records)]

LifeOK ==
  /\ inFlight \in Nat
  /\ closed \in BOOLEAN
  /\ closer \in [Closers -> {"idle", "asleep", "awake", "returned"}]

TypeOK == DataOK /\ InsertOK /\ QueryOK /\ LifeOK

Init ==
  /\ file = [o \in Offsets |-> <<>>]
  /\ writeOffset = 0
  /\ indexMap = [id \in Ids |-> Nothing]
  /\ inFlight = 0
  /\ closed = FALSE
  /\ insert = [i \in Inserts |-> "idle"]
  /\ record = [i \in Inserts |-> <<>>]
  /\ landed = [i \in Inserts |-> 0]
  /\ query = [q \in Queries |-> "idle"]
  /\ asked = [q \in Queries |-> <<>>]
  /\ offsets = [q \in Queries |-> <<>>]
  /\ cursor = [q \in Queries |-> 0]
  /\ returned = [q \in Queries |-> <<>>]
  /\ closer = [c \in Closers |-> "idle"]

-----------------------------------------------------------------------------
(* enter and leave *)

\* Definitions named Faulty... are never part of the specification: each is a
\* plausible mistake in the definition that follows it, kept to show that the
\* properties notice it.

FaultyEnter == inFlight' = inFlight + 1 /\ UNCHANGED <<closed, closer>>
Enter == ~closed /\ inFlight' = inFlight + 1 /\ UNCHANGED <<closed, closer>>

FaultyLeave == inFlight' = inFlight - 1 /\ UNCHANGED <<closed, closer>>
Leave ==
  /\ inFlight' = inFlight - 1
  /\ closer' = [c \in Closers |->
                  IF closer[c] = "asleep" /\ inFlight = 1 THEN "awake" ELSE closer[c]]
  /\ UNCHANGED closed

-----------------------------------------------------------------------------
(* Insert *)

EnterInsert(i) ==
  /\ insert[i] = "idle"
  /\ Enter
  /\ insert' = [insert EXCEPT ![i] = "writing"]
  /\ \E id \in Ids : record' = [record EXCEPT ![i] = <<id, i>>]
  /\ UNCHANGED <<dataVars, queryVars, landed>>

RejectInsert(i) ==
  /\ insert[i] = "idle"
  /\ closed
  /\ insert' = [insert EXCEPT ![i] = "rejected"]
  /\ UNCHANGED <<dataVars, queryVars, lifeVars, record, landed>>

WriteRecord(i) ==
  /\ insert[i] = "writing"
  /\ file' = [file EXCEPT ![writeOffset] = record[i]]
  /\ landed' = [landed EXCEPT ![i] = writeOffset]
  /\ writeOffset' = writeOffset + 1
  /\ insert' = [insert EXCEPT ![i] = "publishing"]
  /\ UNCHANGED <<indexMap, record, queryVars, lifeVars>>

\* The short write is not noticed.
FaultyWriteFails(i) ==
  /\ insert[i] = "writing"
  /\ file' = [file EXCEPT ![writeOffset] = Torn]
  /\ landed' = [landed EXCEPT ![i] = writeOffset]
  /\ writeOffset' = writeOffset + 1
  /\ insert' = [insert EXCEPT ![i] = "publishing"]
  /\ UNCHANGED <<indexMap, record, queryVars, lifeVars>>
\* pwrite writes nothing, or a part of the line: writeOffset stays, so the
\* next record overwrites it.
WriteFails(i) ==
  /\ insert[i] = "writing"
  /\ file' \in {file, [file EXCEPT ![writeOffset] = Torn]}
  /\ insert' = [insert EXCEPT ![i] = "failing"]
  /\ UNCHANGED <<writeOffset, indexMap, record, landed, queryVars, lifeVars>>

PublishRecord(i) ==
  /\ insert[i] = "publishing"
  /\ indexMap' = [indexMap EXCEPT ![record[i][1]] = landed[i]]
  /\ insert' = [insert EXCEPT ![i] = "leaving"]
  /\ UNCHANGED <<file, writeOffset, record, landed, queryVars, lifeVars>>

LeaveInsert(i) ==
  /\ \/ insert[i] = "leaving" /\ insert' = [insert EXCEPT ![i] = "ok"]
     \/ insert[i] = "failing" /\ insert' = [insert EXCEPT ![i] = "failed"]
  /\ Leave
  /\ UNCHANGED <<dataVars, queryVars, record, landed>>

-----------------------------------------------------------------------------
(* Query *)

EnterQuery(q) ==
  /\ query[q] = "idle"
  /\ Enter
  /\ query' = [query EXCEPT ![q] = "scanning"]
  /\ asked' \in {[asked EXCEPT ![q] = call] : call \in (Ids \cup {0}) \X Limits}
  /\ UNCHANGED <<dataVars, insertVars, offsets, cursor, returned>>

\* A closed index yields an empty iterator.
RejectQuery(q) ==
  /\ query[q] = "idle"
  /\ closed
  /\ query' = [query EXCEPT ![q] = "iterating"]
  /\ UNCHANGED <<dataVars, insertVars, lifeVars, asked, offsets, cursor, returned>>

\* lower_bound
FaultyMatches(minId) == {id \in Ids : id >= minId /\ indexMap[id] # Nothing}
Matches(minId) == {id \in Ids : id > minId /\ indexMap[id] # Nothing}

\* The loop of Query, from upper_bound(minId) on while count < limit.
Scan(q) ==
  /\ query[q] = "scanning"
  /\ \E ids \in FirstOf(Matches(asked[q][1]), asked[q][2]) :
       offsets' = [offsets EXCEPT ![q] = [n \in DOMAIN ids |-> indexMap[ids[n]]]]
  /\ query' = [query EXCEPT ![q] = "leaving"]
  /\ UNCHANGED <<dataVars, insertVars, lifeVars, asked, cursor, returned>>

LeaveQuery(q) ==
  /\ query[q] = "leaving"
  /\ query' = [query EXCEPT ![q] = "iterating"]
  /\ Leave
  /\ UNCHANGED <<dataVars, insertVars, asked, offsets, cursor, returned>>

-----------------------------------------------------------------------------
(* The iterator: HasNext, Next and Close *)

HasNext(q) == query[q] = "iterating" /\ cursor[q] < Len(offsets[q])

\* The cursor is advanced before the read: a read that fails skips a record.
NextRecord(q) ==
  /\ HasNext(q)
  /\ cursor' = [cursor EXCEPT ![q] = @ + 1]
  /\ \/ /\ file[offsets[q][cursor[q] + 1]] \in Records
        /\ returned' = [returned EXCEPT ![q] = Append(@, file[offsets[q][cursor[q] + 1]])]
     \/ UNCHANGED returned
  /\ UNCHANGED <<dataVars, insertVars, lifeVars, query, asked, offsets>>

CloseIterator(q) ==
  /\ query[q] = "iterating"
  /\ query' = [query EXCEPT ![q] = "closed"]
  /\ UNCHANGED <<dataVars, insertVars, lifeVars, asked, offsets, cursor, returned>>

-----------------------------------------------------------------------------
(* Close *)

\* After the first look at inFlight, and after every wakeup.
CloseLooks(c) ==
  closer' = [closer EXCEPT ![c] = IF inFlight = 0 THEN "returned" ELSE "asleep"]

CallClose(c) ==
  /\ closer[c] = "idle"
  /\ closed' = TRUE
  /\ CloseLooks(c)
  /\ UNCHANGED <<dataVars, insertVars, queryVars, inFlight>>

CloseResumes(c) ==
  /\ closer[c] = "awake"
  /\ CloseLooks(c)
  /\ UNCHANGED <<dataVars, insertVars, queryVars, inFlight, closed>>

SpuriousWakeup(c) ==
  /\ closer[c] = "asleep"
  /\ closer' = [closer EXCEPT ![c] = "awake"]
  /\ UNCHANGED <<dataVars, insertVars, queryVars, inFlight, closed>>

-----------------------------------------------------------------------------
InsertStep(i) == WriteRecord(i) \/ WriteFails(i) \/ PublishRecord(i) \/ LeaveInsert(i)
QueryStep(q) == Scan(q) \/ LeaveQuery(q)

Next ==
  \/ \E i \in Inserts : EnterInsert(i) \/ RejectInsert(i) \/ InsertStep(i)
  \/ \E q \in Queries : \/ EnterQuery(q)
                        \/ RejectQuery(q)
                        \/ QueryStep(q)
                        \/ NextRecord(q)
                        \/ CloseIterator(q)
  \/ \E c \in Closers : CallClose(c) \/ CloseResumes(c) \/ SpuriousWakeup(c)

SafeSpec == Init /\ [][Next]_vars

\* A call that has begun and is not blocked goes on.  Nobody has to make a
\* call or advance an iterator.
Fairness ==
  /\ \A i \in Inserts : WF_vars(InsertStep(i))
  /\ \A q \in Queries : WF_vars(QueryStep(q))
  /\ \A c \in Closers : WF_vars(CloseResumes(c))

Spec == SafeSpec /\ Fairness

-----------------------------------------------------------------------------
(* Safety *)

\* "only then update the index": whatever is published is completely in the
\* file, under the right id, and no two inserts landed on the same offset, also
\* after a failed write left a torn line behind.  So it is for the offsets that
\* an iterator took away before: its ids ascend from above minId, and no insert
\* has overwritten a line it has still to read.
IndexPointsAtRecords ==
  /\ TypeOK
  /\ \A i \in Inserts :
       insert[i] \in {"publishing", "leaving", "ok"} => file[landed[i]] = record[i]
  /\ \A id \in Ids :
       indexMap[id] # Nothing =>
         file[indexMap[id]] \in Records /\ file[indexMap[id]][1] = id
  /\ \A q \in Queries :
       /\ \A n \in DOMAIN offsets[q] :
            file[offsets[q][n]] \in Records /\ file[offsets[q][n]][1] > asked[q][1]
       /\ \A m, n \in DOMAIN offsets[q] :
            m < n => file[offsets[q][m]][1] < file[offsets[q][n]][1]

\* "drain in-flight ops": when a Close has returned, no Insert or Query is
\* between enter and leave, and none will be.  And none sleeps in Close when
\* there is nobody left to wake it.
CloseDrains ==
  /\ (\E c \in Closers : closer[c] = "returned") =>
       /\ \A i \in Inserts : insert[i] \in {"idle", "ok", "rejected", "failed"}
       /\ \A q \in Queries : query[q] \in {"idle", "iterating", "closed"}
  /\ (\E c \in Closers : closer[c] = "asleep") =>
       \/ \E i \in Inserts : insert[i] \in {"writing", "publishing", "leaving", "failing"}
       \/ \E q \in Queries : query[q] \in {"scanning", "leaving"}

-----------------------------------------------------------------------------
(* Liveness *)

\* Every Close returns: the last operation to leave wakes all that wait.
CloseReturns ==
  \A c \in Closers : closer[c] = "asleep" ~> closer[c] = "returned"

-----------------------------------------------------------------------------
(* Refinement *)

Outcome(i) ==
  CASE insert[i] \in {"idle", "writing", "publishing"} -> "pending"
    [] insert[i] \in {"leaving", "ok"} -> "stored"
    [] OTHER -> "refused"

Abstract == INSTANCE SnapshotIndex WITH
  NoText <- Nothing,
  store <- [id \in Ids |->
              IF indexMap[id] = Nothing THEN Nothing ELSE file[indexMap[id]][2]],
  outcome <- [i \in Inserts |-> Outcome(i)],
  view <- [q \in Queries |->
             IF query[q] \in {"idle", "scanning"} THEN Nothing
             ELSE [n \in DOMAIN offsets[q] |-> file[offsets[q][n]]]],
  position <- cursor,
  got <- returned

\* The file, the map and the locks together behave as module SnapshotIndex
\* says: an iterator's records are those of one instant, in order.
ImplementsSnapshotIndex == Abstract!SafeSpec
=============================================================================
