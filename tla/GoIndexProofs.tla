---------------------------- MODULE GoIndexProofs ----------------------------
(***************************************************************************)
(* Theorems about GoIndex for every finite set of inserts, queries and     *)
(* ids, and any calls of Close.                                            *)
(***************************************************************************)
EXTENDS GoIndex, SequenceLemmas

USE DEF dataVars, insertVars, queryVars, groupVars, lifeVars, vars

\* The inserts whose line is in the file, and the calls in the wait group.
Written == {i \in Inserts : insert[i] \in {"publishing", "leaving", "ok"}}
Inserting == {i \in Inserts : insert[i] \in {"writing", "publishing", "failing", "leaving"}}
Querying == {q \in Queries : query[q] \in {"scanning", "leaving"}}

\* Who was added knows its record, or what it was asked; who was not has
\* nothing yet.
CallInv ==
  /\ \A i \in Inserts :
       insert[i] \in {"writing", "publishing", "failing", "leaving", "ok", "failed"} =>
         record[i] \in Records /\ record[i][2] = i
  /\ \A q \in Queries :
       /\ query[q] \in {"idle", "accepted"} => asked[q] = <<>>
       /\ query[q] \in {"scanning", "leaving"} => asked[q] \in (Ids \cup {0}) \X Limits
       /\ asked[q] = <<>> => offsets[q] = <<>>
       /\ query[q] \in {"idle", "accepted", "scanning"} =>
            cursor[q] = 0 /\ offsets[q] = <<>> /\ returned[q] = <<>>

\* The wait group counts the calls that are at work.
GroupInv == wg = Cardinality(Inserting) + Cardinality(Querying)

TypeInv == TypeOK /\ CallInv /\ GroupInv

\* What insert, map and iterators know of the file.
WrittenInv == \A i \in Written : landed[i] \in Offsets /\ file[landed[i]] = record[i]
PublishedInv ==
  \A id \in Ids :
    indexMap[id] # Nothing =>
      /\ indexMap[id] \in Offsets
      /\ file[indexMap[id]] \in Records /\ file[indexMap[id]][1] = id
IteratorInv(q) ==
  /\ \A n \in DOMAIN offsets[q] :
       file[offsets[q][n]] \in Records /\ file[offsets[q][n]][1] > asked[q][1]
  /\ \A m, n \in DOMAIN offsets[q] :
       m < n => file[offsets[q][m]][1] < file[offsets[q][n]][1]
  /\ Len(offsets[q]) = 0 \/ Len(offsets[q]) <= Effective(asked[q][2])

LinesInv == WrittenInv /\ PublishedInv /\ \A q \in Queries : IteratorInv(q)

-----------------------------------------------------------------------------
(* The wait group *)

LEMMA CallsAreFinite ==
  /\ IsFiniteSet(Inserting) /\ Cardinality(Inserting) \in Nat
  /\ IsFiniteSet(Querying) /\ Cardinality(Querying) \in Nat
<1>1. Inserting \in SUBSET Inserts /\ Querying \in SUBSET Queries
  BY DEF Inserting, Querying
<1> QED
  BY <1>1, InsertsAssumption, QueriesAssumption, FS_Subset, FS_CardinalityType

\* Add and Done, by an insert or by a query.
LEMMA AddCounts ==
  ASSUME TypeOK, GroupInv, WgAdd, UNCHANGED lifeVars,
         \/ \E i \in Inserts : Inserting' = Inserting \cup {i} /\ i \notin Inserting
                               /\ Querying' = Querying
         \/ \E q \in Queries : Querying' = Querying \cup {q} /\ q \notin Querying
                               /\ Inserting' = Inserting
  PROVE  LifeOK' /\ GroupInv'
<1>1. wg' = Cardinality(Inserting') + Cardinality(Querying')
  <2>1. ASSUME NEW i \in Inserts,
               Inserting' = Inserting \cup {i}, i \notin Inserting, Querying' = Querying
        PROVE  <1>1!:
    <3>1. Cardinality(Inserting') = Cardinality(Inserting) + 1
      BY <2>1, CallsAreFinite, FS_AddElement
    <3> QED
      BY <2>1, <3>1, CallsAreFinite DEF WgAdd, GroupInv
  <2>2. ASSUME NEW q \in Queries,
               Querying' = Querying \cup {q}, q \notin Querying, Inserting' = Inserting
        PROVE  <1>1!:
    <3>1. Cardinality(Querying') = Cardinality(Querying) + 1
      BY <2>2, CallsAreFinite, FS_AddElement
    <3> QED
      BY <2>2, <3>1, CallsAreFinite DEF WgAdd, GroupInv
  <2> QED
    BY <2>1, <2>2
<1> QED
  BY <1>1 DEF WgAdd, GroupInv, TypeOK, LifeOK

LEMMA DoneCounts ==
  ASSUME TypeOK, GroupInv, WgDone, UNCHANGED lifeVars,
         \/ \E i \in Inserting : Inserting' = Inserting \ {i} /\ Querying' = Querying
         \/ \E q \in Querying : Querying' = Querying \ {q} /\ Inserting' = Inserting
  PROVE  LifeOK' /\ GroupInv'
<1>1. wg' = Cardinality(Inserting') + Cardinality(Querying') /\ wg' \in Nat
  <2>1. ASSUME NEW i \in Inserting, Inserting' = Inserting \ {i}, Querying' = Querying
        PROVE  <1>1!1 /\ <1>1!2
    <3>1. Cardinality(Inserting') = Cardinality(Inserting) - 1 /\ Cardinality(Inserting) # 0
      BY <2>1, CallsAreFinite, FS_RemoveElement, FS_EmptySet
    <3> QED
      BY <2>1, <3>1, CallsAreFinite DEF WgDone, GroupInv
  <2>2. ASSUME NEW q \in Querying, Querying' = Querying \ {q}, Inserting' = Inserting
        PROVE  <1>1!1 /\ <1>1!2
    <3>1. Cardinality(Querying') = Cardinality(Querying) - 1 /\ Cardinality(Querying) # 0
      BY <2>2, CallsAreFinite, FS_RemoveElement, FS_EmptySet
    <3> QED
      BY <2>2, <3>1, CallsAreFinite DEF WgDone, GroupInv
  <2> QED
    BY <2>1, <2>2
<1> QED
  BY <1>1 DEF WgDone, GroupInv, TypeOK, LifeOK

-----------------------------------------------------------------------------
(* Lines and walks *)

\* The file only grows, so what was at an offset stays there.
LinesStay ==
  /\ Offsets \subseteq Offsets'
  /\ \A o \in Offsets : file'[o] = file[o]

LEMMA FileGrows ==
  ASSUME TypeOK, CallInv, [Next]_vars
  PROVE  file' \in Seq(Records \cup {Torn}) /\ LinesStay
<1>1. Len(file) \in Nat /\ file \in Seq(Records \cup {Torn})
  BY LenProperties DEF TypeOK, DataOK
<1>2. ASSUME NEW line \in Records \cup {Torn}, file' = Append(file, line)
      PROVE  file' \in Seq(Records \cup {Torn}) /\ LinesStay
  BY <1>1, <1>2, AppendProperties DEF LinesStay, Offsets
<1>3. CASE file' = file
  BY <1>1, <1>3 DEF LinesStay, Offsets
<1>4. ASSUME NEW i \in Inserts, WriteRecord(i) \/ WriteFails(i)
      PROVE  file' \in Seq(Records \cup {Torn}) /\ LinesStay
  BY <1>2, <1>3, <1>4 DEF WriteRecord, WriteFails, CallInv
<1> QED
  BY <1>3, <1>4 DEF Next, InsertStep, QueryStep, CloseStep, CheckInsert, AddInsert,
       PublishRecord, LeaveInsert, CheckQuery, AddQuery, Scan, LeaveQuery, NextRecord,
       CloseIterator, CallClose, WgWait, WgWaitReturns, WgReleases

\* The walk of a query, which was added, through the ids the loop takes in.
LEMMA CollectedWalk ==
  ASSUME TypeInv, NEW q \in Queries, query[q] = "scanning",
         NEW ids \in Collect(asked[q][1], asked[q][2])
  PROVE  LET taken == {id \in Visited(asked[q][2]) : id > asked[q][1]}
         IN  /\ asked[q] \in (Ids \cup {0}) \X Limits
             /\ taken \subseteq Ids
             /\ ids \in [1 .. Len(ids) -> taken] /\ DOMAIN ids = 1 .. Len(ids)
             /\ Len(ids) \in 0 .. Cardinality(taken)
             /\ Len(ids) = 0 \/ Len(ids) <= Effective(asked[q][2])
             /\ \A m, n \in DOMAIN ids : m < n => ids[m] < ids[n]
             /\ \A id \in taken \ Range(ids) :
                  Len(ids) >= Effective(asked[q][2]) /\ \A n \in DOMAIN ids : ids[n] < id
<1> DEFINE taken == {id \in Visited(asked[q][2]) : id > asked[q][1]}
<1>1. asked[q] \in (Ids \cup {0}) \X Limits
  BY DEF TypeInv, CallInv
<1>2. Effective(asked[q][2]) \in Int
  BY <1>1, LimitsAssumption DEF Effective
<1>3. taken \in SUBSET Ids
  BY DEF Visited
<1>4. taken \in SUBSET Int /\ IsFiniteSet(taken)
  <2>1. Ids \in SUBSET Int /\ IsFiniteSet(Ids)
    BY IdsAssumption
  <2> QED
    BY <1>3, <2>1, FS_Subset
<1>5. ids \in FirstOf(taken, Effective(asked[q][2]))
  BY DEF Collect
<1> HIDE DEF taken
<1> QED
  BY <1>1, <1>2, <1>3, <1>4, <1>5, WalkProperties DEF taken

LEMMA CollectedTaken ==
  ASSUME TypeInv, NEW q \in Queries, query[q] = "scanning",
         NEW ids \in Collect(asked[q][1], asked[q][2])
  PROVE  /\ DOMAIN ids = 1 .. Len(ids) /\ Len(ids) \in Nat
         /\ Len(ids) = 0 \/ Len(ids) <= Effective(asked[q][2])
         /\ \A n \in DOMAIN ids :
              ids[n] \in Ids /\ indexMap[ids[n]] # Nothing /\ ids[n] > asked[q][1]
         /\ \A m, n \in DOMAIN ids : m < n => ids[m] < ids[n]
<1> DEFINE taken == {id \in Visited(asked[q][2]) : id > asked[q][1]}
<1>1. /\ ids \in [1 .. Len(ids) -> taken] /\ DOMAIN ids = 1 .. Len(ids)
      /\ Len(ids) \in 0 .. Cardinality(taken) /\ taken \subseteq Ids
      /\ Len(ids) = 0 \/ Len(ids) <= Effective(asked[q][2])
      /\ \A m, n \in DOMAIN ids : m < n => ids[m] < ids[n]
  BY CollectedWalk
<1>2. \A n \in DOMAIN ids : ids[n] \in taken
  BY <1>1
<1>3. \A id \in taken : id \in Ids /\ indexMap[id] # Nothing /\ id > asked[q][1]
  BY DEF Visited
<1>4. Len(ids) \in Nat
  BY <1>1
<1> HIDE DEF taken
<1> QED
  BY <1>1, <1>2, <1>3, <1>4

-----------------------------------------------------------------------------
(* Types, and the counter *)

\* What grows with the file.
LEMMA OffsetsGrow ==
  ASSUME TypeOK, LinesStay
  PROVE  /\ UNCHANGED indexMap => indexMap' \in [Ids -> Offsets' \cup {Nothing}]
         /\ UNCHANGED landed => landed' \in [Inserts -> Offsets' \cup {0}]
         /\ UNCHANGED offsets => offsets' \in [Queries -> Seq(Offsets')]
<1>1. Offsets \subseteq Offsets'
  BY DEF LinesStay
<1>2. \A s \in Seq(Offsets) : s \in Seq(Offsets')
  BY <1>1, SeqMonotonic
<1> HIDE DEF Offsets
<1> QED
  BY <1>1, <1>2 DEF TypeOK, DataOK, InsertOK, QueryOK

LEMMA TypeInvStep == TypeInv /\ LinesInv /\ [Next]_vars => TypeInv'
<1> SUFFICES ASSUME TypeInv, LinesInv, [Next]_vars PROVE TypeInv'
  OBVIOUS
<1> USE DEF TypeInv
<1>1. file' \in Seq(Records \cup {Torn}) /\ LinesStay
  BY FileGrows
<1>2. /\ UNCHANGED indexMap => DataOK'
      /\ UNCHANGED landed => landed' \in [Inserts -> Offsets' \cup {0}]
      /\ UNCHANGED offsets => offsets' \in [Queries -> Seq(Offsets')]
  BY <1>1, OffsetsGrow DEF DataOK
<1>3. UNCHANGED queryVars => QueryOK'
  BY <1>2 DEF TypeOK, QueryOK
<1>4. UNCHANGED insertVars => InsertOK'
  BY <1>2 DEF TypeOK, InsertOK
<1>5. UNCHANGED <<groupVars, lifeVars>> => LifeOK'
  BY DEF TypeOK, LifeOK
<1>6. UNCHANGED <<query, insert, wg>> => GroupInv'
  BY DEF GroupInv, Inserting, Querying
<1> HIDE DEF Offsets
<1>7. ASSUME NEW i \in Inserts, CheckInsert(i) PROVE TypeInv'
  <2>1. Inserting' = Inserting /\ Querying' = Querying
    BY <1>7 DEF CheckInsert, Inserting, Querying, TypeOK, InsertOK
  <2>2. InsertOK' /\ CallInv'
    BY <1>2, <1>7 DEF CheckInsert, CallInv, TypeOK, InsertOK
  <2> QED
    BY <1>2, <1>3, <1>5, <1>7, <2>1, <2>2 DEF CheckInsert, GroupInv, TypeOK
<1>8. ASSUME NEW i \in Inserts, AddInsert(i) PROVE TypeInv'
  <2>1. Inserting' = Inserting \cup {i} /\ i \notin Inserting /\ Querying' = Querying
    BY <1>8 DEF AddInsert, Inserting, Querying, TypeOK, InsertOK
  <2>2. LifeOK' /\ GroupInv'
    BY <1>8, <2>1, AddCounts DEF AddInsert
  <2>3. InsertOK' /\ CallInv'
    BY <1>2, <1>8 DEF AddInsert, Records, CallInv, TypeOK, InsertOK
  <2> QED
    BY <1>2, <1>3, <1>8, <2>2, <2>3 DEF AddInsert, TypeOK
<1>9. ASSUME NEW i \in Inserts, WriteRecord(i) PROVE TypeInv'
  <2>1. Inserting' = Inserting /\ Querying' = Querying
    BY <1>9 DEF WriteRecord, Inserting, Querying, TypeOK, InsertOK
  <2>2. Len(file) + 1 \in Offsets'
    <3>1. record[i] \in Records /\ file \in Seq(Records \cup {Torn})
      BY <1>9 DEF WriteRecord, CallInv, TypeOK, DataOK
    <3>2. Len(file') = Len(file) + 1 /\ Len(file) \in Nat
      BY <1>9, <3>1, AppendProperties, LenProperties DEF WriteRecord
    <3> QED
      BY <3>2 DEF Offsets
  <2>3. landed' \in [Inserts -> Offsets' \cup {0}]
    <3>1. landed \in [Inserts -> Offsets' \cup {0}]
      BY <1>1 DEF LinesStay, TypeOK, InsertOK
    <3> QED
      BY <1>9, <2>2, <3>1 DEF WriteRecord
  <2>4. InsertOK' /\ CallInv'
    BY <1>9, <2>3 DEF WriteRecord, CallInv, TypeOK, InsertOK
  <2> QED
    BY <1>2, <1>3, <1>5, <1>9, <2>1, <2>4 DEF WriteRecord, GroupInv, TypeOK
<1>10. ASSUME NEW i \in Inserts, WriteFails(i) PROVE TypeInv'
  <2>1. Inserting' = Inserting /\ Querying' = Querying
    BY <1>10 DEF WriteFails, Inserting, Querying, TypeOK, InsertOK
  <2>2. InsertOK' /\ CallInv'
    BY <1>2, <1>10 DEF WriteFails, CallInv, TypeOK, InsertOK
  <2> QED
    BY <1>2, <1>3, <1>5, <1>10, <2>1, <2>2 DEF WriteFails, GroupInv, TypeOK
<1>11. ASSUME NEW i \in Inserts, PublishRecord(i) PROVE TypeInv'
  <2>1. Inserting' = Inserting /\ Querying' = Querying
    BY <1>11 DEF PublishRecord, Inserting, Querying, TypeOK, InsertOK
  <2>2. InsertOK' /\ CallInv'
    BY <1>2, <1>11 DEF PublishRecord, CallInv, TypeOK, InsertOK
  <2>3. DataOK'
    <3>1. file' = file /\ Offsets' = Offsets
      BY <1>11 DEF PublishRecord, Offsets
    <3>2. landed[i] \in Offsets
      BY <1>11 DEF PublishRecord, LinesInv, WrittenInv, Written
    <3> QED
      BY <1>11, <3>1, <3>2 DEF PublishRecord, TypeOK, DataOK, InsertOK
  <2> QED
    BY <1>2, <1>3, <1>5, <1>11, <2>1, <2>2, <2>3 DEF PublishRecord, GroupInv, TypeOK
<1>12. ASSUME NEW i \in Inserts, LeaveInsert(i) PROVE TypeInv'
  <2>1. i \in Inserting /\ Inserting' = Inserting \ {i} /\ Querying' = Querying
    BY <1>12 DEF LeaveInsert, Inserting, Querying, TypeOK, InsertOK
  <2>2. LifeOK' /\ GroupInv'
    BY <1>12, <2>1, DoneCounts DEF LeaveInsert
  <2>3. InsertOK' /\ CallInv'
    BY <1>2, <1>12 DEF LeaveInsert, CallInv, TypeOK, InsertOK
  <2> QED
    BY <1>2, <1>3, <1>12, <2>2, <2>3 DEF LeaveInsert, TypeOK
<1>13. ASSUME NEW q \in Queries, CheckQuery(q) PROVE TypeInv'
  <2>1. Inserting' = Inserting /\ Querying' = Querying
    BY <1>13 DEF CheckQuery, Inserting, Querying, TypeOK, QueryOK
  <2>2. QueryOK' /\ CallInv'
    BY <1>2, <1>13 DEF CheckQuery, CallInv, TypeOK, QueryOK
  <2> QED
    BY <1>2, <1>4, <1>5, <1>13, <2>1, <2>2 DEF CheckQuery, GroupInv, TypeOK
<1>14. ASSUME NEW q \in Queries, AddQuery(q) PROVE TypeInv'
  <2>1. Inserting' = Inserting /\ Querying' = Querying \cup {q} /\ q \notin Querying
    BY <1>14 DEF AddQuery, Inserting, Querying, TypeOK, QueryOK
  <2>2. LifeOK' /\ GroupInv'
    BY <1>14, <2>1, AddCounts DEF AddQuery
  <2>3. QueryOK'
    BY <1>2, <1>14 DEF AddQuery, TypeOK, QueryOK
  <2>4. offsets[q] = <<>> /\ offsets' = offsets /\ \A p \in Queries \ {q} : asked'[p] = asked[p]
    BY <1>2, <1>14 DEF AddQuery, CallInv, TypeOK, QueryOK
  <2>5. CallInv'
    BY <1>2, <1>14, <2>4 DEF AddQuery, CallInv, TypeOK, QueryOK
  <2> QED
    BY <1>2, <1>4, <1>14, <2>2, <2>3, <2>5 DEF AddQuery, TypeOK
<1>15. ASSUME NEW q \in Queries, Scan(q) PROVE TypeInv'
  <2>1. Inserting' = Inserting /\ Querying' = Querying
    BY <1>15 DEF Scan, Inserting, Querying, TypeOK, QueryOK
  <2>2. PICK ids \in Collect(asked[q][1], asked[q][2]) :
          offsets' = [offsets EXCEPT ![q] = [n \in DOMAIN ids |-> indexMap[ids[n]]]]
    BY <1>15 DEF Scan
  <2>3. query[q] = "scanning" /\ UNCHANGED file /\ Offsets' = Offsets
    BY <1>15 DEF Scan, Offsets
  <2>4. /\ DOMAIN ids = 1 .. Len(ids) /\ Len(ids) \in Nat
        /\ \A n \in DOMAIN ids : ids[n] \in Ids /\ indexMap[ids[n]] # Nothing
    BY <2>3, CollectedTaken
  <2>5. [n \in DOMAIN ids |-> indexMap[ids[n]]] \in [1 .. Len(ids) -> Offsets]
    BY <2>4 DEF TypeOK, DataOK
  <2>6. [n \in DOMAIN ids |-> indexMap[ids[n]]] \in Seq(Offsets)
    BY <2>4, <2>5, ArrayIsSequence
  <2>7. offsets' \in [Queries -> Seq(Offsets')]
    BY <2>2, <2>3, <2>6 DEF TypeOK, QueryOK
  <2>8. \A p \in Queries : cursor'[p] <= Len(offsets'[p])
    <3>1. cursor[q] = 0 /\ cursor' = cursor
      BY <1>15 DEF Scan, CallInv
    <3>2. Len(offsets'[q]) \in Nat
      BY <2>7, LenProperties
    <3>3. \A p \in Queries : p # q => offsets'[p] = offsets[p]
      BY <2>2 DEF TypeOK, QueryOK
    <3>4. \A p \in Queries : cursor[p] <= Len(offsets[p])
      BY DEF TypeOK, QueryOK
    <3> QED
      BY <3>1, <3>2, <3>3, <3>4
  <2>9. QueryOK' /\ CallInv'
    BY <1>15, <2>2, <2>7, <2>8 DEF Scan, CallInv, TypeOK, QueryOK
  <2> QED
    BY <1>2, <1>4, <1>5, <1>15, <2>1, <2>9 DEF Scan, GroupInv, TypeOK
<1>16. ASSUME NEW q \in Queries, LeaveQuery(q) PROVE TypeInv'
  <2>1. Inserting' = Inserting /\ q \in Querying /\ Querying' = Querying \ {q}
    BY <1>16 DEF LeaveQuery, Inserting, Querying, TypeOK, QueryOK
  <2>2. LifeOK' /\ GroupInv'
    BY <1>16, <2>1, DoneCounts DEF LeaveQuery
  <2>3. QueryOK' /\ CallInv'
    BY <1>2, <1>16 DEF LeaveQuery, CallInv, TypeOK, QueryOK
  <2> QED
    BY <1>2, <1>4, <1>16, <2>2, <2>3 DEF LeaveQuery, TypeOK
<1>17. ASSUME NEW q \in Queries, CloseIterator(q) PROVE TypeInv'
  <2>1. Inserting' = Inserting /\ Querying' = Querying
    BY <1>17 DEF CloseIterator, Inserting, Querying, TypeOK, QueryOK
  <2>2. QueryOK' /\ CallInv'
    BY <1>2, <1>17 DEF CloseIterator, CallInv, TypeOK, QueryOK
  <2> QED
    BY <1>2, <1>4, <1>5, <1>17, <2>1, <2>2 DEF CloseIterator, GroupInv, TypeOK
<1>18. ASSUME NEW q \in Queries, NextRecord(q) PROVE TypeInv'
  <2>1. Inserting' = Inserting /\ Querying' = Querying
    BY <1>18 DEF NextRecord, Inserting, Querying
  <2>2. Len(offsets[q]) \in Nat
    BY LenProperties DEF TypeOK, QueryOK
  <2>3. /\ cursor' \in [Queries -> Nat]
        /\ \A p \in Queries : cursor'[p] <= Len(offsets'[p])
    BY <1>18, <2>2 DEF NextRecord, HasNext, TypeOK, QueryOK
  <2>4. returned' \in [Queries -> Seq(Records)]
    <3>1. CASE UNCHANGED returned
      BY <3>1 DEF TypeOK, QueryOK
    <3>2. CASE returned' = [returned EXCEPT ![q] =
                              Append(@, file[offsets[q][cursor[q] + 1]])]
      <4>1. file[offsets[q][cursor[q] + 1]] \in Records
        <5>1. cursor[q] + 1 \in DOMAIN offsets[q]
          BY <1>18, <2>2, LenProperties DEF NextRecord, HasNext, TypeOK, QueryOK
        <5> QED
          BY <5>1 DEF LinesInv, IteratorInv
      <4>2. Append(returned[q], file[offsets[q][cursor[q] + 1]]) \in Seq(Records)
        BY <4>1, AppendProperties DEF TypeOK, QueryOK
      <4> QED
        BY <3>2, <4>2 DEF TypeOK, QueryOK
    <3> QED
      BY <1>18, <3>1, <3>2 DEF NextRecord
  <2>5. QueryOK' /\ CallInv'
    BY <1>2, <1>18, <2>3, <2>4 DEF NextRecord, HasNext, CallInv, TypeOK, QueryOK
  <2> QED
    BY <1>2, <1>4, <1>5, <1>18, <2>1, <2>5 DEF NextRecord, GroupInv, TypeOK
<1>19. ASSUME NEW c \in Closers, CallClose(c) \/ CloseStep(c) PROVE TypeInv'
  <2>1. LifeOK' /\ wg' = wg /\ UNCHANGED <<dataVars, insertVars, queryVars>>
    BY <1>19 DEF CallClose, CloseStep, WgWait, WgWaitReturns, TypeOK, LifeOK
  <2>2. CallInv'
    BY <2>1 DEF CallInv
  <2> QED
    BY <1>2, <1>3, <1>4, <1>6, <2>1, <2>2 DEF TypeOK
<1>20. CASE WgReleases
  <2>1. LifeOK' /\ wg' = wg /\ UNCHANGED <<dataVars, insertVars, queryVars>>
    BY <1>20 DEF WgReleases, TypeOK, LifeOK
  <2>2. CallInv'
    BY <2>1 DEF CallInv
  <2> QED
    BY <1>2, <1>3, <1>4, <1>6, <2>1, <2>2 DEF TypeOK
<1>21. CASE UNCHANGED vars
  <2>1. CallInv'
    BY <1>21 DEF CallInv
  <2> QED
    BY <1>2, <1>3, <1>4, <1>5, <1>6, <1>21, <2>1 DEF TypeOK
<1> QED
  BY <1>7, <1>8, <1>9, <1>10, <1>11, <1>12, <1>13, <1>14, <1>15, <1>16, <1>17, <1>18,
     <1>19, <1>20, <1>21
     DEF Next, InsertStep, QueryStep

-----------------------------------------------------------------------------
(* The lines of the file *)

LEMMA WrittenStep ==
  ASSUME TypeInv, WrittenInv, [Next]_vars
  PROVE  WrittenInv'
<1> USE DEF TypeInv
<1>1. LinesStay
  BY FileGrows
<1>2. ASSUME NEW i \in Written PROVE landed[i] \in Offsets' /\ file'[landed[i]] = record[i]
  BY <1>1 DEF WrittenInv, LinesStay
<1>3. CASE UNCHANGED landed /\ Written' = Written /\ \A i \in Written : record'[i] = record[i]
  BY <1>2, <1>3 DEF WrittenInv
<1>4. ASSUME NEW i \in Inserts, WriteRecord(i) PROVE WrittenInv'
  <2>1. record[i] \in Records /\ file \in Seq(Records \cup {Torn})
    BY <1>4 DEF WriteRecord, CallInv, TypeOK, DataOK
  <2>2. /\ Len(file) \in Nat /\ Len(file') = Len(file) + 1
        /\ file'[Len(file) + 1] = record[i]
    BY <1>4, <2>1, AppendProperties, LenProperties DEF WriteRecord
  <2>3. landed'[i] = Len(file) + 1 /\ record' = record
    BY <1>4 DEF WriteRecord, TypeOK, InsertOK
  <2>4. landed'[i] \in Offsets' /\ file'[landed'[i]] = record'[i]
    BY <2>2, <2>3 DEF Offsets
  <2>5. ASSUME NEW j \in Written', j # i
        PROVE  landed'[j] \in Offsets' /\ file'[landed'[j]] = record'[j]
    <3>1. j \in Written /\ landed'[j] = landed[j] /\ record' = record
      BY <1>4, <2>5 DEF WriteRecord, Written, TypeOK, InsertOK
    <3> QED
      BY <1>2, <3>1
  <2> QED
    BY <2>4, <2>5 DEF WrittenInv
<1>5. ASSUME NEW i \in Inserts,
             \/ CheckInsert(i) \/ AddInsert(i) \/ WriteFails(i) \/ PublishRecord(i)
             \/ LeaveInsert(i)
      PROVE  WrittenInv'
  <2>1. UNCHANGED landed /\ Written' = Written
    BY <1>5 DEF CheckInsert, AddInsert, WriteFails, PublishRecord, LeaveInsert, Written,
                TypeOK, InsertOK
  <2>2. \A j \in Written : record'[j] = record[j]
    BY <1>5 DEF CheckInsert, AddInsert, WriteFails, PublishRecord, LeaveInsert, Written,
                TypeOK, InsertOK
  <2> QED
    BY <1>3, <2>1, <2>2
<1>6. CASE UNCHANGED insertVars
  BY <1>3, <1>6 DEF Written
<1> QED
  BY <1>4, <1>5, <1>6 DEF Next, InsertStep, QueryStep, CloseStep, CheckQuery, AddQuery, Scan,
       LeaveQuery, NextRecord, CloseIterator, CallClose, WgWait, WgWaitReturns, WgReleases

LEMMA PublishedStep ==
  ASSUME TypeInv, WrittenInv, PublishedInv, [Next]_vars
  PROVE  PublishedInv'
<1> USE DEF TypeInv
<1>1. LinesStay
  BY FileGrows
<1>2. ASSUME NEW id \in Ids, indexMap[id] # Nothing
      PROVE  /\ indexMap[id] \in Offsets'
             /\ file'[indexMap[id]] \in Records /\ file'[indexMap[id]][1] = id
  BY <1>1, <1>2 DEF PublishedInv, LinesStay
<1>3. ASSUME NEW i \in Inserts, PublishRecord(i) PROVE PublishedInv'
  <2>1. /\ landed[i] \in Offsets' /\ file' = file
        /\ file[landed[i]] = record[i] /\ record[i] \in Records
    BY <1>1, <1>3 DEF PublishRecord, WrittenInv, Written, LinesStay, CallInv, TypeOK, InsertOK
  <2>2. ASSUME NEW id \in Ids, indexMap'[id] # Nothing
        PROVE  /\ indexMap'[id] \in Offsets'
               /\ file'[indexMap'[id]] \in Records /\ file'[indexMap'[id]][1] = id
    <3>1. CASE id = record[i][1]
      <4>1. indexMap'[id] = landed[i]
        BY <1>3, <3>1 DEF PublishRecord, TypeOK, DataOK
      <4> QED
        BY <2>1, <3>1, <4>1
    <3>2. CASE id # record[i][1]
      <4>1. indexMap'[id] = indexMap[id]
        BY <1>3, <3>2 DEF PublishRecord, TypeOK, DataOK
      <4> QED
        BY <1>2, <2>2, <4>1
    <3> QED
      BY <3>1, <3>2
  <2> QED
    BY <2>2 DEF PublishedInv
<1>4. CASE UNCHANGED indexMap
  BY <1>2, <1>4 DEF PublishedInv
<1> QED
  BY <1>3, <1>4 DEF Next, InsertStep, QueryStep, CloseStep, CheckInsert, AddInsert, WriteRecord,
       WriteFails, LeaveInsert, CheckQuery, AddQuery, Scan, LeaveQuery, NextRecord,
       CloseIterator, CallClose, WgWait, WgWaitReturns, WgReleases

LEMMA IteratorStep ==
  ASSUME TypeInv, PublishedInv, [Next]_vars, NEW q \in Queries, IteratorInv(q)
  PROVE  IteratorInv(q)'
<1> USE DEF TypeInv
<1>1. LinesStay
  BY FileGrows
<1>2. CASE offsets'[q] = offsets[q] /\ asked'[q] = asked[q]
  <2>1. \A n \in DOMAIN offsets[q] : offsets[q][n] \in Offsets
    BY ElementOfSeq, LenProperties DEF TypeOK, QueryOK
  <2>2. \A n \in DOMAIN offsets[q] : file'[offsets[q][n]] = file[offsets[q][n]]
    BY <1>1, <2>1 DEF LinesStay
  <2> QED
    BY <1>2, <2>2 DEF IteratorInv
<1>3. CASE AddQuery(q)
  <2>1. offsets'[q] = <<>>
    BY <1>3 DEF AddQuery, CallInv
  <2> QED
    BY <2>1, EmptySeq, LenProperties DEF IteratorInv
<1>4. CASE Scan(q)
  <2>1. PICK ids \in Collect(asked[q][1], asked[q][2]) :
          offsets' = [offsets EXCEPT ![q] = [n \in DOMAIN ids |-> indexMap[ids[n]]]]
    BY <1>4 DEF Scan
  <2>2. query[q] = "scanning" /\ UNCHANGED <<file, asked>>
    BY <1>4 DEF Scan
  <2>3. /\ DOMAIN ids = 1 .. Len(ids) /\ Len(ids) \in Nat
        /\ Len(ids) = 0 \/ Len(ids) <= Effective(asked[q][2])
        /\ \A n \in DOMAIN ids :
             ids[n] \in Ids /\ indexMap[ids[n]] # Nothing /\ ids[n] > asked[q][1]
        /\ \A m, n \in DOMAIN ids : m < n => ids[m] < ids[n]
    BY <2>2, CollectedTaken
  <2>4. offsets'[q] = [n \in DOMAIN ids |-> indexMap[ids[n]]]
    BY <2>1 DEF TypeOK, QueryOK
  <2>5. DOMAIN offsets'[q] = DOMAIN ids /\ \A n \in DOMAIN ids : offsets'[q][n] = indexMap[ids[n]]
    BY <2>4
  <2>6. Len(offsets'[q]) = Len(ids)
    <3>1. offsets'[q] \in [1 .. Len(ids) -> Offsets]
      BY <2>3, <2>4 DEF PublishedInv
    <3> QED
      BY <2>3, <3>1, ArrayIsSequence
  <2>7. ASSUME NEW n \in DOMAIN ids
        PROVE  /\ file[offsets'[q][n]] \in Records /\ file[offsets'[q][n]][1] = ids[n]
               /\ ids[n] > asked[q][1]
    BY <2>3, <2>5 DEF PublishedInv
  <2> QED
    BY <2>2, <2>3, <2>5, <2>6, <2>7 DEF IteratorInv
<1>5. ASSUME NEW p \in Queries, p # q, AddQuery(p) \/ Scan(p) PROVE IteratorInv(q)'
  BY <1>2, <1>5 DEF AddQuery, Scan, TypeOK, QueryOK
<1>6. CASE UNCHANGED <<offsets, asked>>
  BY <1>2, <1>6
<1> QED
  BY <1>3, <1>4, <1>5, <1>6
     DEF Next, InsertStep, QueryStep, CloseStep, CheckInsert, AddInsert, WriteRecord,
         WriteFails, PublishRecord, LeaveInsert, CheckQuery, LeaveQuery, NextRecord,
         CloseIterator, CallClose, WgWait, WgWaitReturns, WgReleases

LEMMA LinesInvariant == SafeSpec => [](TypeInv /\ LinesInv)
<1>1. Init => TypeInv /\ LinesInv
  <2> SUFFICES ASSUME Init PROVE TypeInv /\ LinesInv
    OBVIOUS
  <2>1. Inserting = {} /\ Querying = {} /\ Written = {}
    BY DEF Init, Inserting, Querying, Written
  <2>2. GroupInv
    BY <2>1, FS_EmptySet DEF Init, GroupInv
  <2>3. DataOK /\ InsertOK /\ LifeOK
    BY EmptySeq DEF Init, DataOK, InsertOK, LifeOK
  <2>4. QueryOK /\ CallInv
    BY EmptySeq, LenProperties DEF Init, QueryOK, CallInv
  <2>5. \A q \in Queries : DOMAIN offsets[q] = {} /\ Len(offsets[q]) = 0
    BY EmptySeq, LenProperties DEF Init
  <2>6. LinesInv
    BY <2>1, <2>5 DEF Init, LinesInv, WrittenInv, PublishedInv, IteratorInv
  <2> QED
    BY <2>2, <2>3, <2>4, <2>6 DEF TypeInv, TypeOK
<1>2. TypeInv /\ LinesInv /\ [Next]_vars => (TypeInv /\ LinesInv)'
  BY TypeInvStep, WrittenStep, PublishedStep, IteratorStep DEF LinesInv
<1> QED
  BY <1>1, <1>2, PTL DEF SafeSpec

\* The variables keep their types: the counter of the wait group is never
\* negative, so no Done panics, and no offset leads beyond the file.
THEOREM GoTypeCorrect == SafeSpec => []TypeOK
BY LinesInvariant, PTL DEF TypeInv

\* Whatever the map or an iterator points at is the whole line of a record with
\* the right id, though inserts fail and leave torn lines; and an iterator has
\* no more of them than a limit of at least one.
THEOREM GoOffsetsAreSound == SafeSpec => []OffsetsAreSound
<1>1. TypeInv /\ LinesInv => OffsetsAreSound
  <2> SUFFICES ASSUME TypeInv, LinesInv PROVE OffsetsAreSound
    OBVIOUS
  <2>1. /\ TypeOK
        /\ \A i \in Inserts :
             insert[i] \in {"publishing", "leaving", "ok"} =>
               landed[i] \in DOMAIN file /\ file[landed[i]] = record[i]
        /\ \A id \in Ids :
             indexMap[id] # Nothing =>
               file[indexMap[id]] \in Records /\ file[indexMap[id]][1] = id
    BY LenProperties
       DEF TypeInv, TypeOK, DataOK, LinesInv, WrittenInv, PublishedInv, Written, Offsets
  <2>2. ASSUME NEW q \in Queries, offsets[q] # <<>>
        PROVE  LET ids == [n \in DOMAIN offsets[q] |-> file[offsets[q][n]][1]]
               IN  /\ asked[q][2] >= 1 => Len(ids) <= asked[q][2]
                   /\ ids[1] > asked[q][1]
                   /\ \A n \in 2 .. Len(ids) : ids[n - 1] < ids[n]
    <3> DEFINE ids == [n \in DOMAIN offsets[q] |-> file[offsets[q][n]][1]]
    <3>1. /\ Len(offsets[q]) \in Nat \ {0} /\ DOMAIN offsets[q] = 1 .. Len(offsets[q])
      BY <2>2, LenProperties, EmptySeq DEF TypeInv, TypeOK, QueryOK
    <3>2. IteratorInv(q)
      BY DEF LinesInv
    <3>3. ids \in [1 .. Len(offsets[q]) -> Ids]
      BY <3>1, <3>2 DEF IteratorInv, Records
    <3>4. Len(ids) = Len(offsets[q])
      BY <3>1, <3>3, ArrayIsSequence
    <3>5. asked[q][2] >= 1 => Len(ids) <= asked[q][2]
      <4>1. Len(ids) <= Effective(asked[q][2])
        BY <3>1, <3>2, <3>4 DEF IteratorInv
      <4>2. asked[q] \in (Ids \cup {0}) \X Limits
        BY <2>2 DEF TypeInv, CallInv, TypeOK, QueryOK
      <4>3. asked[q][2] \in Int
        BY <4>2, LimitsAssumption
      <4> QED
        BY <4>1, <4>3 DEF Effective
    <3>6. ids[1] > asked[q][1]
      BY <3>1, <3>2 DEF IteratorInv
    <3>7. ASSUME NEW n \in 2 .. Len(ids) PROVE ids[n - 1] < ids[n]
      <4>1. n \in DOMAIN offsets[q] /\ n - 1 \in DOMAIN offsets[q] /\ n - 1 < n
        BY <3>1, <3>4
      <4> QED
        BY <3>2, <4>1 DEF IteratorInv
    <3> QED
      BY <3>5, <3>6, <3>7
  <2> QED
    BY <2>1, <2>2 DEF OffsetsAreSound
<1> QED
  BY <1>1, LinesInvariant, PTL

\* At the instant a Close returns, at once or woken, no call that was added to
\* the wait group is at work.
THEOREM GoCloseDrains == SafeSpec => CloseDrainsAdded
<1>1. ASSUME TypeInv, [Next]_vars, NEW c \in Closers,
             closer[c] # "returned", closer'[c] = "returned"
      PROVE  /\ \A i \in Inserts : insert[i] \in {"idle", "accepted", "ok", "rejected", "failed"}
             /\ \A q \in Queries : query[q] \in {"idle", "accepted", "iterating", "closed"}
  <2>1. wg = 0
    <3>1. closer \in [Closers -> {"idle", "cancelled", "asleep", "woken", "returned"}]
      BY <1>1 DEF TypeInv, TypeOK, LifeOK
    <3>2. CASE UNCHANGED closer
      BY <1>1, <3>2
    <3>3. ASSUME NEW d \in Closers, CallClose(d) \/ CloseStep(d) PROVE wg = 0
      BY <1>1, <3>1, <3>3 DEF CallClose, CloseStep, WgWait, WgWaitReturns
    <3>4. CASE WgReleases
      BY <1>1, <3>1, <3>4 DEF WgReleases
    <3> QED
      BY <1>1, <3>2, <3>3, <3>4
         DEF Next, InsertStep, QueryStep, CheckInsert, AddInsert, WriteRecord, WriteFails,
             PublishRecord, LeaveInsert, CheckQuery, AddQuery, Scan, LeaveQuery, NextRecord,
             CloseIterator
  <2>2. Inserting = {} /\ Querying = {}
    BY <1>1, <2>1, CallsAreFinite, FS_EmptySet DEF TypeInv, GroupInv
  <2> QED
    BY <1>1, <2>2 DEF Inserting, Querying, TypeInv, TypeOK, InsertOK, QueryOK
<1>2. TypeInv /\ [Next]_vars =>
        [\A c \in Closers : closer[c] # "returned" /\ closer'[c] = "returned" =>
           /\ \A i \in Inserts : insert[i] \in {"idle", "accepted", "ok", "rejected", "failed"}
           /\ \A q \in Queries : query[q] \in {"idle", "accepted", "iterating", "closed"}]_vars
  BY <1>1
<1> QED
  BY <1>2, LinesInvariant, PTL DEF SafeSpec, CloseDrainsAdded

-----------------------------------------------------------------------------
(* The refinement *)

\* What SnapshotIndex sees under an id, and of a query.
Text(id) == IF indexMap[id] = Nothing THEN Nothing ELSE file[indexMap[id]][2]
Asked(q) == IF Proper(q) THEN asked[q] ELSE <<>>
View(q) ==
  IF query[q] \in {"idle", "accepted", "scanning"} \/ ~Proper(q) THEN Nothing
  ELSE [n \in DOMAIN offsets[q] |-> file[offsets[q][n]]]
Position(q) == IF Proper(q) THEN cursor[q] ELSE 0
Got(q) == IF Proper(q) THEN returned[q] ELSE <<>>

\* A query of which SnapshotIndex sees no change, and a step in which it sees
\* none at all.
Same(q) ==
  Asked(q)' = Asked(q) /\ View(q)' = View(q) /\ Position(q)' = Position(q) /\ Got(q)' = Got(q)

LEMMA SnapshotStutters ==
  ASSUME \A id \in Ids : Text(id)' = Text(id),
         \A i \in Inserts : Outcome(i)' = Outcome(i),
         \A q \in Queries : Same(q)
  PROVE  UNCHANGED Abstract!vars
BY DEF Abstract!vars, Same, Text, Asked, View, Position, Got

LEMMA TextsStay ==
  ASSUME TypeInv, LinesInv, [Next]_vars, indexMap' = indexMap, NEW id \in Ids
  PROVE  Text(id)' = Text(id)
BY FileGrows DEF Text, LinesStay, LinesInv, PublishedInv, TypeInv

LEMMA QueryStays ==
  ASSUME TypeInv, LinesInv, [Next]_vars, NEW q \in Queries,
         query'[q] \in {"idle", "accepted", "scanning"}
           <=> query[q] \in {"idle", "accepted", "scanning"},
         asked'[q] = asked[q], offsets'[q] = offsets[q], cursor'[q] = cursor[q],
         returned'[q] = returned[q]
  PROVE  Same(q)
<1>1. \A n \in DOMAIN offsets[q] : offsets[q][n] \in Offsets
  BY ElementOfSeq, LenProperties DEF TypeInv, TypeOK, QueryOK
<1>2. \A n \in DOMAIN offsets[q] : file'[offsets[q][n]] = file[offsets[q][n]]
  BY <1>1, FileGrows DEF LinesStay, TypeInv
<1>3. View(q)' = View(q)
  BY <1>2 DEF View, Proper
<1> QED
  BY <1>3 DEF Same, Asked, Position, Got, Proper

\* A query with a limit below one is out of sight from the moment it is made.
LEMMA ImproperStays ==
  ASSUME NEW q \in Queries, ~Proper(q), asked'[q] = asked[q]
  PROVE  Same(q)
BY DEF Same, Asked, View, Position, Got, Proper

LEMMA ViewIsRecords ==
  ASSUME TypeInv, LinesInv, NEW q \in Queries, Proper(q),
         query[q] \notin {"idle", "accepted", "scanning"}
  PROVE  /\ View(q) \in Seq(Records) /\ Len(View(q)) = Len(offsets[q])
         /\ View(q) # Nothing
         /\ \A n \in 1 .. Len(offsets[q]) : View(q)[n] = file[offsets[q][n]]
<1>1. Len(offsets[q]) \in Nat /\ DOMAIN offsets[q] = 1 .. Len(offsets[q])
  BY LenProperties DEF TypeInv, TypeOK, QueryOK
<1>2. View(q) \in [1 .. Len(offsets[q]) -> Records]
  BY <1>1 DEF View, LinesInv, IteratorInv
<1>3. View(q) \in Seq(Records) /\ Len(View(q)) = Len(offsets[q])
  BY <1>1, <1>2, ArrayIsSequence
<1> QED
  BY <1>1, <1>3, NothingAssumption DEF View

\* A map update publishes a record, whose text is the insert.
LEMMA PublishIsPut ==
  ASSUME TypeInv, LinesInv, [Next]_vars, NEW i \in Inserts, PublishRecord(i)
  PROVE  Abstract!Put(i)
<1>1. /\ insert[i] = "publishing" /\ insert' = [insert EXCEPT ![i] = "leaving"]
      /\ indexMap' = [indexMap EXCEPT ![record[i][1]] = landed[i]]
      /\ UNCHANGED <<file, record, landed, query, asked, offsets, cursor, returned>>
  BY DEF PublishRecord
<1>2. PICK id \in Ids : id = record[i][1]
  BY <1>1 DEF TypeInv, CallInv, Records
<1>3. file[landed[i]][2] = i /\ landed[i] \in Offsets
  BY <1>1 DEF LinesInv, WrittenInv, Written, TypeInv, CallInv
<1>4. landed[i] # Nothing
  BY <1>3, IdsAssumption DEF Offsets
<1>5. \A k \in Ids : Text(k)' = IF k = id THEN i ELSE Text(k)
  BY <1>1, <1>2, <1>3, <1>4 DEF Text, TypeInv, TypeOK, DataOK
<1>6. /\ Outcome(i) = "pending"
      /\ \A j \in Inserts : Outcome(j)' = IF j = i THEN "stored" ELSE Outcome(j)
  BY <1>1 DEF Outcome, TypeInv, TypeOK, InsertOK
<1>7. \A q \in Queries : Same(q)
  BY <1>1 DEF Same, Asked, View, Position, Got, Proper
<1> DEFINE store == [k \in Ids |-> Text(k)]
           outcome == [j \in Inserts |-> Outcome(j)]
<1>8. store' = [store EXCEPT ![id] = i]
  BY <1>5
<1>9. outcome[i] = "pending" /\ outcome' = [outcome EXCEPT ![i] = "stored"]
  BY <1>6
<1> QED
  BY <1>2, <1>7, <1>8, <1>9 DEF Abstract!Put, Same, Text, Asked, View, Position, Got

LEMMA RefusalIsRefuse ==
  ASSUME TypeInv, LinesInv, [Next]_vars, NEW i \in Inserts,
         (CheckInsert(i) /\ cancelled) \/ WriteFails(i)
  PROVE  Abstract!Refuse(i)
<1>1. /\ Outcome(i) = "pending"
      /\ \A j \in Inserts : Outcome(j)' = IF j = i THEN "refused" ELSE Outcome(j)
  BY DEF CheckInsert, WriteFails, Outcome, TypeInv, TypeOK, InsertOK
<1>2. UNCHANGED <<indexMap, query, asked, offsets, cursor, returned>>
  BY DEF CheckInsert, WriteFails
<1>3. /\ \A k \in Ids : Text(k)' = Text(k)
      /\ \A q \in Queries : Same(q)
  BY <1>2, TextsStay, QueryStays
<1> DEFINE outcome == [j \in Inserts |-> Outcome(j)]
<1>4. outcome[i] = "pending" /\ outcome' = [outcome EXCEPT ![i] = "refused"]
  BY <1>1
<1> QED
  BY <1>3, <1>4 DEF Abstract!Refuse, Same, Text, Asked, View, Position, Got

LEMMA AddQueryIsAsk ==
  ASSUME TypeInv, LinesInv, [Next]_vars, NEW q \in Queries, AddQuery(q)
  PROVE  Abstract!Ask(q) \/ UNCHANGED Abstract!vars
<1>1. /\ query[q] = "accepted" /\ query' = [query EXCEPT ![q] = "scanning"]
      /\ UNCHANGED <<file, indexMap, insert, offsets, cursor, returned>>
  BY DEF AddQuery
<1>2. PICK minId \in Ids \cup {0}, limit \in Limits :
        asked' = [asked EXCEPT ![q] = <<minId, limit>>]
  BY DEF AddQuery
<1>3. /\ \A k \in Ids : Text(k)' = Text(k)
      /\ \A j \in Inserts : Outcome(j)' = Outcome(j)
  BY <1>1, TextsStay DEF Outcome
<1>4. \A p \in Queries \ {q} : Same(p)
  BY <1>1, <1>2, QueryStays DEF TypeInv, TypeOK, QueryOK
<1>5. asked[q] = <<>> /\ cursor[q] = 0 /\ returned[q] = <<>> /\ asked'[q] = <<minId, limit>>
  BY <1>1, <1>2 DEF TypeInv, CallInv, TypeOK, QueryOK
<1>6. /\ Asked(q) = <<>> /\ View(q) = Nothing /\ View(q)' = Nothing
      /\ Position(q)' = Position(q) /\ Got(q)' = Got(q)
  BY <1>1, <1>5 DEF Asked, View, Position, Got, Proper, TypeInv, TypeOK, QueryOK
<1>7. CASE limit >= 1
  <2>1. Asked(q)' = <<minId, limit>>
    BY <1>5, <1>7 DEF Asked, Proper
  <2> DEFINE askd == [p \in Queries |-> Asked(p)]
             view == [p \in Queries |-> View(p)]
  <2>2. askd[q] = <<>> /\ view[q] = Nothing
        /\ askd' = [askd EXCEPT ![q] = <<minId, limit>>] /\ view' = view
    BY <1>4, <1>6, <2>1 DEF Same
  <2>3. \A p \in Queries : Position(p)' = Position(p) /\ Got(p)' = Got(p)
    BY <1>4, <1>6 DEF Same
  <2>4. \E m \in Ids \cup {0}, l \in Limits : askd' = [askd EXCEPT ![q] = <<m, l>>]
    BY <2>2
  <2> HIDE DEF askd, view
  <2>5. /\ askd[q] = <<>> /\ view[q] = Nothing /\ view' = view
        /\ \E m \in Ids \cup {0}, l \in Limits : askd' = [askd EXCEPT ![q] = <<m, l>>]
    BY <2>2, <2>4
  <2> USE DEF askd, view
  <2> DEFINE store == [k \in Ids |-> Text(k)]
             outcome == [j \in Inserts |-> Outcome(j)]
             position == [p \in Queries |-> Position(p)]
             got == [p \in Queries |-> Got(p)]
  <2>6. UNCHANGED <<store, outcome, position, got>>
    BY <1>3, <2>3
  <2>7. Abstract!Ask(q)
    BY <2>5, <2>6, Zenon DEF Abstract!Ask, Text, Asked, View, Position, Got
  <2> QED
    BY <2>7
<1>8. CASE ~(limit >= 1)
  <2>1. Asked(q)' = <<>>
    BY <1>5, <1>8 DEF Asked, Proper
  <2>2. \A p \in Queries : Same(p)
    BY <1>4, <1>6, <2>1 DEF Same
  <2> QED
    BY <1>3, <2>2, SnapshotStutters
<1> QED
  BY <1>7, <1>8

LEMMA CheckQueryIsRefuse ==
  ASSUME TypeInv, LinesInv, [Next]_vars, NEW q \in Queries, CheckQuery(q)
  PROVE  Abstract!RefuseQuery(q) \/ UNCHANGED Abstract!vars
<1>1. /\ query[q] = "idle"
      /\ UNCHANGED <<file, indexMap, insert, asked, offsets, cursor, returned>>
  BY DEF CheckQuery
<1>2. asked[q] = <<>> /\ offsets[q] = <<>>
  BY <1>1 DEF TypeInv, CallInv
<1>3. /\ \A k \in Ids : Text(k)' = Text(k)
      /\ \A j \in Inserts : Outcome(j)' = Outcome(j)
  BY <1>1, TextsStay DEF Outcome
<1>4. CASE query' = [query EXCEPT ![q] = "accepted"]
  <2>1. \A p \in Queries : Same(p)
    BY <1>1, <1>4, QueryStays DEF TypeInv, TypeOK, QueryOK
  <2> QED
    BY <1>3, <2>1, SnapshotStutters
<1>5. CASE query' = [query EXCEPT ![q] = "iterating"]
  <2>1. \A p \in Queries \ {q} : Same(p)
    BY <1>1, <1>5, QueryStays DEF TypeInv, TypeOK, QueryOK
  <2>2. /\ View(q) = Nothing /\ View(q)' = <<>> /\ Asked(q) = <<>>
        /\ Asked(q)' = Asked(q) /\ Position(q)' = Position(q) /\ Got(q)' = Got(q)
    BY <1>1, <1>2, <1>5, EmptySeq
       DEF View, Asked, Position, Got, Proper, TypeInv, TypeOK, QueryOK
  <2> DEFINE view == [p \in Queries |-> View(p)]
             askd == [p \in Queries |-> Asked(p)]
  <2>3. view[q] = Nothing /\ view' = [view EXCEPT ![q] = <<>>] /\ askd[q] = <<>>
    BY <2>1, <2>2 DEF Same
  <2>4. \A p \in Queries : Asked(p)' = Asked(p) /\ Position(p)' = Position(p) /\ Got(p)' = Got(p)
    BY <2>1, <2>2 DEF Same
  <2> QED
    BY <1>3, <2>3, <2>4 DEF Abstract!RefuseQuery, Text, Asked, View, Position, Got
<1> QED
  BY <1>4, <1>5 DEF CheckQuery

\* The loop over the map selects what it should, from one instant's records.
LEMMA ScanSelects ==
  ASSUME TypeInv, LinesInv, NEW q \in Queries, query[q] = "scanning", Proper(q),
         NEW ids \in Collect(asked[q][1], asked[q][2])
  PROVE  ids \in Abstract!Select(asked[q][1], asked[q][2])
<1> DEFINE minId == asked[q][1]
           limit == asked[q][2]
           taken == {id \in Visited(limit) : id > minId}
           present == {id \in Ids : id > minId /\ Text(id) # Nothing}
<1>1. limit >= 1 /\ limit \in Int
  <2>1. asked[q] # <<>> /\ asked[q] \in (Ids \cup {0}) \X Limits \cup {<<>>}
    BY DEF TypeInv, CallInv, TypeOK, QueryOK
  <2>2. limit \in Limits
    BY <2>1
  <2> QED
    BY <2>1, <2>2, LimitsAssumption DEF Proper
<1>2. taken = present /\ Effective(limit) = limit
  <2>1. ASSUME NEW id \in Ids PROVE indexMap[id] # Nothing <=> Text(id) # Nothing
    BY InsertsAssumption DEF Text, LinesInv, PublishedInv, Records
  <2> QED
    BY <1>1, <2>1 DEF Visited, Effective
<1>3. /\ ids \in [1 .. Len(ids) -> taken] /\ DOMAIN ids = 1 .. Len(ids)
      /\ Len(ids) \in 0 .. Cardinality(taken)
      /\ Len(ids) = 0 \/ Len(ids) <= Effective(limit)
      /\ \A m, n \in DOMAIN ids : m < n => ids[m] < ids[n]
      /\ \A id \in taken \ Range(ids) :
           Len(ids) >= Effective(limit) /\ \A n \in DOMAIN ids : ids[n] < id
  BY CollectedWalk
<1>4. ids \in UNION {[1 .. n -> present] : n \in 0 .. Cardinality(present)}
  BY <1>2, <1>3
<1>5. /\ present = {id \in Ids :
                      /\ id > minId
                      /\ [k \in Ids |-> IF indexMap[k] = Nothing THEN Nothing
                                        ELSE file[indexMap[k]][2]][id] # Nothing}
      /\ Cardinality(present) = Abstract!Cardinality(present)
  BY DEF Text, Abstract!Cardinality, Cardinality
<1> HIDE DEF taken, present, minId, limit
<1> QED
  BY <1>2, <1>3, <1>4, <1>5 DEF Abstract!Select, Abstract!Range, Range, minId, limit

LEMMA ScanIsLook ==
  ASSUME TypeInv, LinesInv, [Next]_vars, NEW q \in Queries, Scan(q), Proper(q)
  PROVE  Abstract!Look(q)
<1>1. /\ query[q] = "scanning" /\ query' = [query EXCEPT ![q] = "leaving"]
      /\ UNCHANGED <<file, indexMap, insert, asked, cursor, returned>>
  BY DEF Scan
<1>2. PICK ids \in Collect(asked[q][1], asked[q][2]) :
        offsets' = [offsets EXCEPT ![q] = [n \in DOMAIN ids |-> indexMap[ids[n]]]]
  BY DEF Scan
<1>3. /\ \A k \in Ids : Text(k)' = Text(k)
      /\ \A j \in Inserts : Outcome(j)' = Outcome(j)
  BY <1>1, TextsStay DEF Outcome
<1>4. \A p \in Queries \ {q} : Same(p)
  BY <1>1, <1>2, QueryStays DEF TypeInv, TypeOK, QueryOK
<1>5. \A n \in DOMAIN ids : ids[n] \in Ids /\ indexMap[ids[n]] # Nothing
  BY <1>1, CollectedTaken
<1>6. View(q) = Nothing /\ View(q)' = [n \in DOMAIN ids |-> <<ids[n], Text(ids[n])>>]
  <2>1. View(q)' = [n \in DOMAIN ids |-> file[indexMap[ids[n]]]]
    BY <1>1, <1>2 DEF View, Proper, TypeInv, TypeOK, QueryOK
  <2>2. ASSUME NEW n \in DOMAIN ids
        PROVE  file[indexMap[ids[n]]] = <<ids[n], Text(ids[n])>>
    <3>1. file[indexMap[ids[n]]] \in Records /\ file[indexMap[ids[n]]][1] = ids[n]
      BY <1>5 DEF LinesInv, PublishedInv
    <3> QED
      BY <1>5, <3>1 DEF Text, Records
  <2> QED
    BY <1>1, <2>1, <2>2 DEF View
<1>7. /\ Asked(q) = asked[q] /\ asked[q] # <<>>
      /\ Asked(q)' = Asked(q) /\ Position(q)' = Position(q) /\ Got(q)' = Got(q)
  BY <1>1 DEF Asked, Position, Got, Proper, TypeInv, CallInv
<1>8. ids \in Abstract!Select(asked[q][1], asked[q][2])
  BY <1>1, ScanSelects
<1> DEFINE view == [p \in Queries |-> View(p)]
           store == [k \in Ids |-> Text(k)]
           askd == [p \in Queries |-> Asked(p)]
<1>9. /\ view[q] = Nothing
      /\ view' = [view EXCEPT ![q] = [n \in DOMAIN ids |-> <<ids[n], store[ids[n]]>>]]
  BY <1>4, <1>5, <1>6 DEF Same
<1>10. \A p \in Queries : Asked(p)' = Asked(p) /\ Position(p)' = Position(p) /\ Got(p)' = Got(p)
  BY <1>4, <1>7 DEF Same
<1>11. askd[q] # <<>> /\ ids \in Abstract!Select(askd[q][1], askd[q][2])
  <2>1. askd[q] = asked[q]
    BY <1>7
  <2>2. PICK a : a = asked[q]
    OBVIOUS
  <2> QED
    BY <1>7, <1>8, <2>1, <2>2
<1> QED
  BY <1>3, <1>9, <1>10, <1>11 DEF Abstract!Look, Text, Asked, View, Position, Got

LEMMA NextIsAdvance ==
  ASSUME TypeInv, LinesInv, [Next]_vars, NEW q \in Queries, NextRecord(q), Proper(q)
  PROVE  Abstract!Advance(q)
<1>1. /\ query[q] = "iterating" /\ cursor[q] < Len(offsets[q])
      /\ cursor' = [cursor EXCEPT ![q] = cursor[q] + 1]
      /\ \/ returned' = [returned EXCEPT ![q] =
                           Append(returned[q], file[offsets[q][cursor[q] + 1]])]
         \/ UNCHANGED returned
      /\ UNCHANGED <<file, indexMap, insert, query, offsets, asked>>
  BY DEF NextRecord, HasNext
<1>2. /\ \A k \in Ids : Text(k)' = Text(k)
      /\ \A j \in Inserts : Outcome(j)' = Outcome(j)
      /\ \A p \in Queries : Asked(p)' = Asked(p) /\ View(p)' = View(p)
  BY <1>1 DEF Text, Outcome, Asked, View, Proper
<1>3. /\ View(q) # Nothing /\ Len(View(q)) = Len(offsets[q])
      /\ \A n \in 1 .. Len(offsets[q]) : View(q)[n] = file[offsets[q][n]]
  BY <1>1, ViewIsRecords
<1>4. cursor[q] + 1 \in 1 .. Len(offsets[q])
  BY <1>1, LenProperties DEF TypeInv, TypeOK, QueryOK
<1> DEFINE view == [p \in Queries |-> View(p)]
           position == [p \in Queries |-> Position(p)]
           got == [p \in Queries |-> Got(p)]
<1>5. /\ position[q] = cursor[q] /\ got[q] = returned[q]
      /\ position' = [position EXCEPT ![q] = position[q] + 1]
  BY <1>1 DEF Position, Got, Proper, TypeInv, TypeOK, QueryOK
<1>6. \/ got' = [got EXCEPT ![q] = Append(got[q], view[q][position[q] + 1])]
      \/ UNCHANGED got
  <2>1. CASE UNCHANGED returned
    BY <1>1, <2>1 DEF Got, Proper
  <2>2. CASE returned' = [returned EXCEPT ![q] =
                            Append(returned[q], file[offsets[q][cursor[q] + 1]])]
    <3>1. view[q][position[q] + 1] = file[offsets[q][cursor[q] + 1]]
      BY <1>3, <1>4, <1>5
    <3>2. PICK longer : longer = Append(returned[q], file[offsets[q][cursor[q] + 1]])
      OBVIOUS
    <3>3. returned' = [returned EXCEPT ![q] = longer]
      BY <2>2, <3>2
    <3>4. got' = [got EXCEPT ![q] = longer]
      BY <1>1, <3>3 DEF Got, Proper, TypeInv, TypeOK, QueryOK
    <3> QED
      BY <1>5, <3>1, <3>2, <3>4
  <2> QED
    BY <1>1, <2>1, <2>2
<1>7. view[q] # Nothing /\ position[q] < Len(view[q])
  BY <1>1, <1>3, <1>5
<1> QED
  BY <1>2, <1>5, <1>6, <1>7 DEF Abstract!Advance, Text, Asked, View, Position, Got

\* Each step of the index is one of SnapshotIndex, or none.
LEMMA RefinementStep ==
  ASSUME TypeInv, LinesInv, [Next]_vars
  PROVE  [Abstract!Next]_(Abstract!vars)
<1>1. ASSUME UNCHANGED <<indexMap, query, asked, offsets, cursor, returned>>,
             \A i \in Inserts : Outcome(i)' = Outcome(i)
      PROVE  UNCHANGED Abstract!vars
  BY <1>1, TextsStay, QueryStays, SnapshotStutters
<1>2. ASSUME NEW i \in Inserts,
             (CheckInsert(i) /\ ~cancelled) \/ AddInsert(i) \/ WriteRecord(i) \/ LeaveInsert(i)
      PROVE  UNCHANGED Abstract!vars
  <2>1. \A j \in Inserts : Outcome(j)' = Outcome(j)
    BY <1>2 DEF CheckInsert, AddInsert, WriteRecord, LeaveInsert, Outcome, TypeInv, TypeOK,
                InsertOK
  <2>2. UNCHANGED <<indexMap, query, asked, offsets, cursor, returned>>
    BY <1>2 DEF CheckInsert, AddInsert, WriteRecord, LeaveInsert
  <2> QED
    BY <1>1, <2>1, <2>2
<1>3. ASSUME NEW i \in Inserts, CheckInsert(i) \/ InsertStep(i)
      PROVE  [Abstract!Next]_(Abstract!vars)
  BY <1>2, <1>3, PublishIsPut, RefusalIsRefuse DEF InsertStep, Abstract!Next
<1>4. ASSUME NEW q \in Queries,
             \/ LeaveQuery(q) \/ CloseIterator(q)
             \/ (Scan(q) \/ NextRecord(q)) /\ ~Proper(q)
      PROVE  UNCHANGED Abstract!vars
  <2>1. UNCHANGED <<indexMap, insert, asked>>
    BY <1>4 DEF LeaveQuery, CloseIterator, Scan, NextRecord
  <2>2. \A p \in Queries \ {q} : Same(p)
    BY <1>4, QueryStays
       DEF LeaveQuery, CloseIterator, Scan, NextRecord, TypeInv, TypeOK, QueryOK
  <2>3. Same(q)
    <3>1. CASE ~Proper(q)
      BY <2>1, <3>1, ImproperStays
    <3>2. CASE LeaveQuery(q) \/ CloseIterator(q)
      BY <3>2, QueryStays DEF LeaveQuery, CloseIterator, TypeInv, TypeOK, QueryOK
    <3> QED
      BY <1>4, <3>1, <3>2
  <2> QED
    BY <2>1, <2>2, <2>3, TextsStay, SnapshotStutters DEF Outcome
<1>5. ASSUME NEW q \in Queries,
             CheckQuery(q) \/ QueryStep(q) \/ NextRecord(q) \/ CloseIterator(q)
      PROVE  [Abstract!Next]_(Abstract!vars)
  BY <1>4, <1>5, AddQueryIsAsk, CheckQueryIsRefuse, ScanIsLook, NextIsAdvance
     DEF QueryStep, Abstract!Next
<1>6. ASSUME NEW c \in Closers, CallClose(c) \/ CloseStep(c) PROVE UNCHANGED Abstract!vars
  BY <1>1, <1>6 DEF CallClose, CloseStep, WgWait, WgWaitReturns, Outcome
<1>7. CASE WgReleases \/ UNCHANGED vars
  BY <1>1, <1>7 DEF WgReleases, Outcome
<1> QED
  BY <1>3, <1>5, <1>6, <1>7 DEF Next

\* The Go index behaves as SnapshotIndex says for every query with a limit of at
\* least one, whatever Close, the wait group and queries with other limits do.
THEOREM GoIndexImplementsSnapshot == SafeSpec => ImplementsSnapshotIndex
<1>1. Init => Abstract!Init
  BY DEF Init, Abstract!Init, Outcome, Proper
<1>2. TypeInv /\ LinesInv /\ [Next]_vars => [Abstract!Next]_(Abstract!vars)
  BY RefinementStep
<1> QED
  BY <1>1, <1>2, LinesInvariant, PTL DEF SafeSpec, ImplementsSnapshotIndex, Abstract!SafeSpec
=============================================================================
