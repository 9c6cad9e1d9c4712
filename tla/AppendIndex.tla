---------------------------- MODULE AppendIndex ----------------------------
(***************************************************************************)
(* src/index_and_iterator.cpp: the first version of the index.  insert     *)
(* appends a line to the table through one output stream under fileMutex,  *)
(* and then updates the map under mapMutex; query collects offsets under   *)
(* mapMutex (shared), and its iterator reads the file through a stream of  *)
(* its own.  Nothing looks at the state of a stream once it is open.       *)
(*                                                                         *)
(* Each critical section is one action.  An offset counts lines, and tellp *)
(* on a stream that has failed yields -1.  The storage is sound or failing *)
(* from the start; what is said of a sound one holds until the first       *)
(* failure.                                                                *)
(***************************************************************************)
EXTENDS IndexCalls

VARIABLES
  storage,         \* may reads and writes fail?
  table,           \* the lines of the file
  outFile,         \* the state of the output stream
  idToOffsetMap,   \* id -> offset, or Nothing
  insert,          \* where each insert is
  record,          \* the record it adds
  currentOffset,   \* the offset it learnt
  query,           \* where each query is; then what became of its iterator
  asked,           \* the minId and the limit of its call
  offsets,         \* the iterator's offsets
  currentIndex,    \* how many of them next has passed
  inFile,          \* the state of the iterator's input stream
  returned         \* the records next handed out

tableVars == <<storage, table, outFile>>
insertVars == <<insert, record, currentOffset>>
queryVars == <<query, asked, offsets, currentIndex, inFile, returned>>
vars == <<tableVars, idToOffsetMap, insertVars, queryVars>>

NoPosition == -1
\* A record that was not read: its id is whatever the memory held before.
Garbage == <<"garbage">>

\* The line at an offset; behind the end of the file there is none.
LineAt(offset) == IF offset \in DOMAIN table THEN table[offset] ELSE <<>>

Offsets == {NoPosition} \cup 1 .. Len(table) + 1

TypeOK ==
  /\ storage \in {"sound", "failing"}
  /\ table \in Seq(Records \cup {Torn})
  /\ outFile \in {"good", "bad"}
  /\ idToOffsetMap \in [Ids -> Offsets \cup {Nothing}]
  /\ insert \in [Inserts -> {"idle", "publishing", "done"}]
  /\ record \in [Inserts -> Records \cup {<<>>}]
  /\ currentOffset \in [Inserts -> Offsets \cup {0}]
  /\ query \in [Queries -> {"idle", "scanning", "opening", "iterating", "thrown"}]
  /\ inFile \in [Queries -> {"good", "bad"}]
  /\ asked \in [Queries -> (Ids \cup {0}) \X Limits \cup {<<>>}]
  /\ offsets \in [Queries -> Seq(Offsets)]
  /\ currentIndex \in [Queries -> Nat]
  /\ \A q \in Queries : currentIndex[q] <= Len(offsets[q])
  /\ returned \in [Queries -> Seq(Records \cup {Garbage})]

\* The stream is opened at the end of what an earlier process left, whose last
\* line may be cut off.  The map starts empty all the same.
Init ==
  /\ storage \in {"sound", "failing"}
  /\ table \in {<<>>, <<Torn>>}
  /\ outFile = "good"
  /\ idToOffsetMap = [id \in Ids |-> Nothing]
  /\ insert = [i \in Inserts |-> "idle"]
  /\ record = [i \in Inserts |-> <<>>]
  /\ currentOffset = [i \in Inserts |-> 0]
  /\ query = [q \in Queries |-> "idle"]
  /\ asked = [q \in Queries |-> <<>>]
  /\ offsets = [q \in Queries |-> <<>>]
  /\ currentIndex = [q \in Queries |-> 0]
  /\ inFile = [q \in Queries |-> "good"]
  /\ returned = [q \in Queries |-> <<>>]

-----------------------------------------------------------------------------
(* insert *)

\* Definitions named Faulty... are never part of the specification: each is a
\* plausible mistake in the definition that follows it, kept to show that the
\* properties notice it.

\* The position is asked for after the write.
FaultyTellp == IF outFile = "good" THEN Len(table) + 2 ELSE NoPosition
Tellp == IF outFile = "good" THEN Len(table) + 1 ELSE NoPosition

\* The line goes out completely with the flush; or the write fails, with
\* nothing or a part of it in the file; or the stream has failed before and
\* writes nothing.
WriteLine(line) ==
  \/ outFile = "good" /\ table' = Append(table, line) /\ UNCHANGED outFile
  \/ /\ outFile = "good"
     /\ storage = "failing"
     /\ table' \in {table, Append(table, Torn)}
     /\ outFile' = "bad"
  \/ outFile = "bad" /\ UNCHANGED <<table, outFile>>

\* The section under fileMutex.
WriteRecord(i) ==
  /\ insert[i] = "idle"
  /\ insert' = [insert EXCEPT ![i] = "publishing"]
  /\ currentOffset' = [currentOffset EXCEPT ![i] = Tellp]
  /\ \E id \in Ids :
       record' = [record EXCEPT ![i] = <<id, i>>] /\ WriteLine(<<id, i>>)
  /\ UNCHANGED <<storage, idToOffsetMap, queryVars>>

\* The section under mapMutex, whatever became of the write.
PublishRecord(i) ==
  /\ insert[i] = "publishing"
  /\ insert' = [insert EXCEPT ![i] = "done"]
  /\ idToOffsetMap' = [idToOffsetMap EXCEPT ![record[i][1]] = currentOffset[i]]
  /\ UNCHANGED <<tableVars, record, currentOffset, queryVars>>

-----------------------------------------------------------------------------
(* query *)

\* One more than the greatest size_t: 2^64 in the program, 2^16 within TLC's
\* integers.  A negative limit is converted to a size beyond that of any map.
Sizes == 65536
AsSize(limit) == limit % Sizes

CallQuery(q) ==
  /\ query[q] = "idle"
  /\ query' = [query EXCEPT ![q] = "scanning"]
  /\ asked' \in {[asked EXCEPT ![q] = args] : args \in (Ids \cup {0}) \X Limits}
  /\ UNCHANGED <<tableVars, idToOffsetMap, insertVars, offsets, currentIndex, inFile, returned>>

\* size() <= limit
FaultyCollected(minId, limit) ==
  FirstOf({id \in Ids : id > minId /\ idToOffsetMap[id] # Nothing}, AsSize(limit) + 1)
\* The ids from upper_bound(minId) on, while fewer than limit are collected.
Collected(minId, limit) ==
  FirstOf({id \in Ids : id > minId /\ idToOffsetMap[id] # Nothing}, AsSize(limit))

Scan(q) ==
  /\ query[q] = "scanning"
  /\ query' = [query EXCEPT ![q] = "opening"]
  /\ \E ids \in Collected(asked[q][1], asked[q][2]) :
       offsets' = [offsets EXCEPT ![q] = [n \in DOMAIN ids |-> idToOffsetMap[ids[n]]]]
  /\ UNCHANGED <<tableVars, idToOffsetMap, insertVars, asked, currentIndex, inFile, returned>>

\* The iterator opens the file, or its constructor throws.
OpenIterator(q) ==
  /\ query[q] = "opening"
  /\ \/ query' = [query EXCEPT ![q] = "iterating"]
     \/ query' = [query EXCEPT ![q] = "thrown"]
  /\ UNCHANGED <<tableVars, idToOffsetMap, insertVars, asked, offsets, currentIndex,
                 inFile, returned>>

-----------------------------------------------------------------------------
(* The iterator *)

HasNext(q) == query[q] = "iterating" /\ currentIndex[q] < Len(offsets[q])

ReadSucceeds(q, line) ==
  /\ inFile[q] = "good"
  /\ line \in Records
  /\ returned' = [returned EXCEPT ![q] = Append(@, line)]
  /\ UNCHANGED inFile

\* No seekg and no read succeeds on a stream that has failed; a line that is
\* cut off or missing, or a position of -1, makes it fail, except that enough
\* of a torn line may be there to be taken for a record.
ReadFails(q, line) ==
  /\ returned' = [returned EXCEPT ![q] = Append(@, Garbage)]
  /\ \/ inFile[q] = "bad" /\ UNCHANGED inFile
     \/ /\ inFile[q] = "good"
        /\ storage = "failing" \/ line \notin Records
        /\ inFile' = [inFile EXCEPT ![q] = "bad"]
     \/ inFile[q] = "good" /\ line = Torn /\ UNCHANGED inFile

\* The record is returned in either case.
NextRecord(q) ==
  /\ HasNext(q)
  /\ currentIndex' = [currentIndex EXCEPT ![q] = @ + 1]
  /\ LET line == LineAt(offsets[q][currentIndex[q] + 1])
     IN  ReadSucceeds(q, line) \/ ReadFails(q, line)
  /\ UNCHANGED <<tableVars, idToOffsetMap, insertVars, query, asked, offsets>>

-----------------------------------------------------------------------------
Next ==
  \/ \E i \in Inserts : WriteRecord(i) \/ PublishRecord(i)
  \/ \E q \in Queries : CallQuery(q) \/ Scan(q) \/ OpenIterator(q) \/ NextRecord(q)

SafeSpec == Init /\ [][Next]_vars

-----------------------------------------------------------------------------
(* What holds *)

LeadsTo(offset, id) == LineAt(offset) \in Records /\ LineAt(offset)[1] = id

\* "if we update map first [...] the reader can take this offset to be read
\* from (even though nothing is written)": as long as no write has failed, an
\* offset that is in the map or with an iterator leads to a complete line, of
\* the right id, in ascending order, also behind a line that a crash cut off.
\* On a sound storage no iterator hands out a record it has not read, and on
\* any storage the records it has read are in order.
OffsetsAreSound ==
  /\ TypeOK
  /\ outFile = "good" =>
       /\ \A id \in Ids : idToOffsetMap[id] # Nothing => LeadsTo(idToOffsetMap[id], id)
       /\ \A q \in Queries : \A n \in DOMAIN offsets[q] :
            \E id \in Ids : LeadsTo(offsets[q][n], id) /\ id > asked[q][1]
  /\ storage = "sound" =>
       outFile = "good" /\ \A q \in Queries : Garbage \notin ToSet(returned[q])
  /\ \A q \in Queries : \A m, n \in DOMAIN returned[q] :
       m < n /\ Garbage \notin {returned[q][m], returned[q][n]} =>
         returned[q][m][1] < returned[q][n][1]

-----------------------------------------------------------------------------
(* Refinement, for a sound storage; a failing one is left out of the picture *)

Sound == storage = "sound"

Abstract == INSTANCE SnapshotIndex WITH
  NoText <- Nothing,
  Limits <- {AsSize(limit) : limit \in Limits},
  store <- [id \in Ids |->
              IF Sound /\ idToOffsetMap[id] # Nothing
              THEN table[idToOffsetMap[id]][2] ELSE Nothing],
  outcome <- [i \in Inserts |->
                IF Sound /\ insert[i] = "done" THEN "stored" ELSE "pending"],
  asked <- [q \in Queries |->
              IF Sound /\ asked[q] # <<>>
              THEN <<asked[q][1], AsSize(asked[q][2])>> ELSE <<>>],
  view <- [q \in Queries |->
             IF Sound /\ query[q] \notin {"idle", "scanning"}
             THEN [n \in DOMAIN offsets[q] |-> table[offsets[q][n]]] ELSE Nothing],
  position <- [q \in Queries |-> IF Sound THEN currentIndex[q] ELSE 0],
  got <- [q \in Queries |-> IF Sound THEN returned[q] ELSE <<>>]

\* Two locks one after the other and reads without one behave as module
\* SnapshotIndex says: an insert takes effect when it is published, and an
\* iterator walks the records of one instant.  A negative limit is none at all.
ImplementsSnapshotIndex == Abstract!SafeSpec

-----------------------------------------------------------------------------
(* What the source claims and the code does not do *)

\* "flushing per insert to guarantee bytes are on disk before the offset is
\* published" (insert): what is in the map is in the file.
PublishedIsWritten ==
  \A id \in Ids : idToOffsetMap[id] # Nothing => LeadsTo(idToOffsetMap[id], id)
=============================================================================
