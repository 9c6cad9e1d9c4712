---------------------------- MODULE ProgramProofs ----------------------------
(***************************************************************************)
(* Theorems about the smaller programs, for any number of their calls and  *)
(* goroutines: the stubs' closed flag, the event bus, the semaphore, the   *)
(* graceful shutdown, the pipeline and the first version of the index.     *)
(***************************************************************************)
EXTENDS MCPrograms, FiniteSetTheorems, SequenceLemmas

\* A step is one of the program that runs, and the others do not move.
LEMMA OneProgramRuns ==
  ASSUME [Next]_vars
  PROVE  /\ [Bus!Next]_busVars
         /\ [Sem!Next]_semVars
         /\ [Pipe!Next]_pipeVars
         /\ [Flag!Next]_flagVars
         /\ [Shutdown!Next]_shutdownVars
         /\ [Index!Next]_indexVars
BY DEF Next, vars, RunsBus, RunsSemaphore, RunsPipeline, RunsFlag, RunsShutdown, RunsIndex

-----------------------------------------------------------------------------
(* The closed flag *)

\* The function of the Once runs in one caller at a time, and its second half
\* is over when anybody returns.
OnceOK ==
  /\ once = "fresh" => \A c \in Closings : closing[c] = "idle"
  /\ once = "running" =>
       \E c \in Closings : closing[c] = "inside" /\ \A d \in Closings \ {c} : closing[d] # "inside"
  /\ once = "over" => \A c \in Closings : closing[c] # "inside"
  /\ flag <=> once = "over"
  /\ teardowns = IF once = "over" THEN 1 ELSE 0
  /\ (\E c \in Closings : closing[c] = "returned") => once = "over"

\* A call that began after a Close finds the flag set.
LateOK ==
  \A m \in Methods : late[m] => flag /\ method[m] # "accepted"

FlagInv == Flag!TypeOK /\ OnceOK /\ LateOK

LEMMA FlagStep ==
  ASSUME FlagInv, [Flag!Next]_flagVars
  PROVE  FlagInv'
<1>1. CASE UNCHANGED flagVars
  BY <1>1 DEF FlagInv, Flag!TypeOK, OnceOK, LateOK, flagVars
<1>2. ASSUME NEW m \in Methods, Flag!CallMethod(m) PROVE FlagInv'
  BY <1>2 DEF FlagInv, Flag!TypeOK, OnceOK, LateOK, Flag!CallMethod
<1>3. ASSUME NEW m \in Methods, Flag!MethodLooks(m) PROVE FlagInv'
  BY <1>3 DEF FlagInv, Flag!TypeOK, OnceOK, LateOK, Flag!MethodLooks
<1>4. ASSUME NEW c \in Closings, Flag!EnterOnce(c) PROVE FlagInv'
  <2>1. /\ closing[c] = "idle" /\ UNCHANGED <<flag, teardowns, method, late>>
        /\ Flag!TypeOK /\ OnceOK /\ LateOK
    BY <1>4 DEF FlagInv, Flag!EnterOnce
  <2>2. Flag!TypeOK' /\ LateOK'
    BY <1>4, <2>1 DEF Flag!TypeOK, LateOK, Flag!EnterOnce
  <2>3. CASE once = "fresh" /\ once' = "running" /\ closing' = [closing EXCEPT ![c] = "inside"]
    <3>1. closing'[c] = "inside" /\ \A d \in Closings \ {c} : closing'[d] = "idle"
      BY <2>1, <2>3 DEF OnceOK, Flag!TypeOK
    <3> QED
      BY <2>1, <2>2, <2>3, <3>1 DEF FlagInv, OnceOK
  <2>4. CASE once # "fresh" /\ once' = once /\ closing' = [closing EXCEPT ![c] = "behind"]
    <3>1. /\ closing'[c] = "behind"
          /\ \A d \in Closings \ {c} : closing'[d] = closing[d]
      BY <2>1, <2>4 DEF Flag!TypeOK
    <3> QED
      BY <2>1, <2>2, <2>4, <3>1 DEF FlagInv, OnceOK
  <2> QED
    BY <1>4, <2>3, <2>4 DEF Flag!EnterOnce
<1>5. ASSUME NEW c \in Closings, Flag!Teardown(c) PROVE FlagInv'
  BY <1>5 DEF FlagInv, Flag!TypeOK, OnceOK, LateOK, Flag!Teardown
<1>6. ASSUME NEW c \in Closings, Flag!OnceReturns(c) PROVE FlagInv'
  BY <1>6 DEF FlagInv, Flag!TypeOK, OnceOK, LateOK, Flag!OnceReturns
<1> QED
  BY <1>1, <1>2, <1>3, <1>4, <1>5, <1>6 DEF Flag!Next, Flag!CloseStep

\* No method of the stubs is let in after some Close has returned, whichever
\* of the callers of Close it was that did the teardown, and that runs once
\* (lld-connection-pool.go and lld-rate-limiter.go).
THEOREM StubsCloseIsFinal == Spec => []CloseIsFinal
<1>1. Init => FlagInv
  <2> SUFFICES ASSUME Flag!Init PROVE FlagInv
    BY DEF Init
  <2>1. Flag!TypeOK
    <3>1. late \in [Methods -> BOOLEAN]
      BY Zenon DEF Flag!Init
    <3>2. /\ method \in [Methods -> {"idle", "called", "accepted", "ErrClosed"}]
          /\ closing \in [Closings -> {"idle", "inside", "behind", "returned"}]
          /\ once \in {"fresh", "running", "over"} /\ teardowns \in 0 .. 1
      BY DEF Flag!Init
    <3>3. flag \in BOOLEAN
      BY DEF Flag!Init
    <3> QED
      BY <3>1, <3>2, <3>3 DEF Flag!TypeOK
  <2>2. OnceOK
    BY DEF Flag!Init, OnceOK
  <2>3. LateOK
    BY DEF Flag!Init, LateOK
  <2> QED
    BY <2>1, <2>2, <2>3 DEF FlagInv
<1>2. FlagInv /\ [Next]_vars => FlagInv'
  BY OneProgramRuns, FlagStep
<1>3. FlagInv => CloseIsFinal
  BY DEF FlagInv, OnceOK, LateOK, CloseIsFinal, Flag!CloseIsFinal
<1> QED
  BY <1>1, <1>2, <1>3, PTL DEF Spec

-----------------------------------------------------------------------------
(* The event bus *)

Ended == {s \in Subscriptions : subscribe[s] = "ended"}

BusTypes ==
  /\ topics \in [Topics -> SUBSET Subscriptions]
  /\ closed \in BOOLEAN
  /\ subscribe \in [Subscriptions -> {"idle", "ErrClosed", "ErrSubscriberLimitReached",
                                      "ranging", "ended"}]
  /\ close \in [Closes -> {"idle", "selecting", "nil", "ctx.Err"}]

\* The counter is that of the goroutines at work, and the channels are closed
\* all at once, when nobody registers any more.
BusInv ==
  /\ BusTypes
  /\ wg = Cardinality(Bus!Ranging)
  /\ Bus!Registered = Bus!Ranging \cup Ended
  /\ closedChs = IF closed THEN Bus!Registered ELSE {}
  /\ ~doubly
  /\ \A c \in Closes : close[c] # "idle" => closed
  /\ (\E c \in Closes : close[c] = "nil") => Bus!Ranging = {}

\* Ranging is finite.
LEMMA RangingIsFinite == IsFiniteSet(Bus!Ranging) /\ Bus!Ranging \subseteq Subscriptions
<1>1. Bus!Ranging \in SUBSET Subscriptions
  BY DEF Bus!Ranging
<1> QED
  BY <1>1, SubscriptionsAssumption, FS_Subset

LEMMA SubscribeKeeps ==
  ASSUME BusInv, NEW s \in Subscriptions, NEW t \in Topics, Bus!Subscribe(s, t)
  PROVE  BusInv'
<1>1. /\ subscribe[s] = "idle" /\ ~closed
      /\ topics' = [topics EXCEPT ![t] = @ \cup {s}]
      /\ wg' = wg + 1
      /\ subscribe' = [subscribe EXCEPT ![s] = "ranging"]
      /\ UNCHANGED <<closed, closedChs, doubly, publish, close>>
  BY DEF Bus!Subscribe
<1>2. BusTypes'
  BY <1>1 DEF BusInv, BusTypes
<1>3. Bus!Ranging' = Bus!Ranging \cup {s} /\ s \notin Bus!Ranging /\ Ended' = Ended
  BY <1>1 DEF BusInv, BusTypes, Bus!Ranging, Ended
<1>4. Cardinality(Bus!Ranging') = Cardinality(Bus!Ranging) + 1
  BY <1>3, RangingIsFinite, FS_AddElement
<1>5. Bus!Registered' = Bus!Registered \cup {s}
  BY <1>1 DEF BusInv, BusTypes, Bus!Registered
<1> QED
  BY <1>1, <1>2, <1>3, <1>4, <1>5 DEF BusInv

LEMMA HandlerEndKeeps ==
  ASSUME BusInv, NEW s \in Subscriptions, Bus!HandlerEnds(s)
  PROVE  BusInv'
<1>1. /\ subscribe[s] = "ranging"
      /\ wg' = wg - 1
      /\ subscribe' = [subscribe EXCEPT ![s] = "ended"]
      /\ UNCHANGED <<topics, closed, closedChs, doubly, publish, close>>
  BY DEF Bus!HandlerEnds
<1>2. BusTypes'
  BY <1>1 DEF BusInv, BusTypes
<1>3. /\ Bus!Ranging' = Bus!Ranging \ {s} /\ s \in Bus!Ranging
      /\ Ended' = Ended \cup {s}
  BY <1>1 DEF BusInv, BusTypes, Bus!Ranging, Ended
<1>4. Cardinality(Bus!Ranging') = Cardinality(Bus!Ranging) - 1
  BY <1>3, RangingIsFinite, FS_RemoveElement
<1>5. Bus!Registered' = Bus!Registered
  BY <1>1 DEF Bus!Registered
<1> QED
  BY <1>1, <1>2, <1>3, <1>4, <1>5 DEF BusInv

\* Steps that leave the subscriptions that range or have ended alone.
LEMMA RangingStays ==
  ASSUME BusInv, UNCHANGED <<topics, wg>>, BusTypes',
         \A s \in Subscriptions :
           subscribe'[s] = subscribe[s] \/ {subscribe[s], subscribe'[s]} \cap {"ranging", "ended"} = {}
  PROVE  /\ Bus!Ranging' = Bus!Ranging /\ Ended' = Ended
         /\ Bus!Registered' = Bus!Registered
         /\ wg' = Cardinality(Bus!Ranging')
BY DEF BusInv, Bus!Ranging, Ended, Bus!Registered

LEMMA CloseOnceKeeps ==
  ASSUME BusInv, NEW c \in Closes, Bus!CloseOnce(c)
  PROVE  BusInv'
<1>1. /\ close[c] = "idle" /\ close' = [close EXCEPT ![c] = "selecting"]
      /\ UNCHANGED <<topics, wg, subscribe, publish>>
  BY DEF Bus!CloseOnce
<1>2. BusTypes'
  BY <1>1 DEF Bus!CloseOnce, BusInv, BusTypes
<1>3. /\ Bus!Ranging' = Bus!Ranging /\ Ended' = Ended
      /\ Bus!Registered' = Bus!Registered /\ wg' = Cardinality(Bus!Ranging')
  BY <1>1, <1>2, RangingStays
<1>4. closed' = TRUE /\ closedChs' = Bus!Registered /\ doubly' = FALSE
  <2>1. CASE ~closed
    BY <2>1 DEF Bus!CloseOnce, BusInv
  <2>2. CASE closed
    BY <2>2 DEF Bus!CloseOnce, BusInv, BusTypes
  <2> QED
    BY <2>1, <2>2
<1>5. \A d \in Closes : close'[d] = "nil" => close[d] = "nil"
  BY <1>1 DEF BusInv, BusTypes
<1> QED
  BY <1>1, <1>2, <1>3, <1>4, <1>5 DEF BusInv

LEMMA BusStep ==
  ASSUME BusInv, [Bus!Next]_busVars
  PROVE  BusInv'
<1>1. CASE UNCHANGED busVars
  BY <1>1 DEF busVars, BusInv, BusTypes, Bus!Ranging, Ended, Bus!Registered
<1>2. ASSUME NEW p \in Publishes, NEW t \in Topics, Bus!Publish(p, t) PROVE BusInv'
  BY <1>2 DEF Bus!Publish, BusInv, BusTypes, Bus!Ranging, Ended, Bus!Registered
<1>3. ASSUME NEW s \in Subscriptions, NEW t \in Topics, Bus!SubscribeRefused(s, t)
      PROVE  BusInv'
  <2>1. /\ BusTypes' /\ UNCHANGED <<topics, closed, closedChs, doubly, wg, close>>
        /\ \A r \in Subscriptions :
             subscribe'[r] = subscribe[r]
             \/ {subscribe[r], subscribe'[r]} \cap {"ranging", "ended"} = {}
    BY <1>3 DEF Bus!SubscribeRefused, BusInv, BusTypes
  <2> QED
    BY <2>1, RangingStays DEF BusInv
<1>4. ASSUME NEW s \in Subscriptions, NEW t \in Topics, Bus!Subscribe(s, t) PROVE BusInv'
  BY <1>4, SubscribeKeeps
<1>5. ASSUME NEW s \in Subscriptions, Bus!HandlerEnds(s) PROVE BusInv'
  BY <1>5, HandlerEndKeeps
<1>6. ASSUME NEW c \in Closes, Bus!CloseOnce(c) PROVE BusInv'
  BY <1>6, CloseOnceKeeps
<1>7. ASSUME NEW c \in Closes, Bus!CloseReturns(c) PROVE BusInv'
  <2>1. /\ wg = 0 /\ close[c] = "selecting" /\ close' = [close EXCEPT ![c] = "nil"]
        /\ UNCHANGED <<topics, closed, closedChs, doubly, wg, subscribe, publish>>
    BY <1>7 DEF Bus!CloseReturns
  <2>2. BusTypes' /\ \A d \in Closes : close'[d] # "idle" => close[d] # "idle"
    BY <2>1 DEF BusInv, BusTypes
  <2>3. Bus!Ranging = {}
    BY <2>1, RangingIsFinite, FS_EmptySet DEF BusInv
  <2> QED
    BY <2>1, <2>2, <2>3, RangingStays DEF BusInv
<1>8. ASSUME NEW c \in Closes, Bus!CloseGivesUp(c) PROVE BusInv'
  <2>1. /\ close[c] = "selecting" /\ close' = [close EXCEPT ![c] = "ctx.Err"]
        /\ UNCHANGED <<topics, closed, closedChs, doubly, wg, subscribe, publish>>
    BY <1>8 DEF Bus!CloseGivesUp
  <2>2. /\ BusTypes'
        /\ \A d \in Closes : /\ close'[d] # "idle" => close[d] # "idle"
                             /\ close'[d] = "nil" => close[d] = "nil"
    BY <2>1 DEF BusInv, BusTypes
  <2> QED
    BY <2>1, <2>2, RangingStays DEF BusInv
<1> QED
  BY <1>1, <1>2, <1>3, <1>4, <1>5, <1>6, <1>7, <1>8 DEF Bus!Next

\* Once a Close of the event bus has returned nil no subscriber's goroutine is
\* left and none starts later, and every channel was closed once, however many
\* callers race (lld-event-bus.go).
THEOREM EventBusCloseDrains == Spec => []BusCloseDrains
<1>1. Init => BusInv
  <2> SUFFICES ASSUME Bus!Init PROVE BusInv
    BY DEF Init
  <2>1. BusTypes
    BY DEF Bus!Init, BusTypes
  <2>2. Bus!Ranging = {} /\ Ended = {} /\ Bus!Registered = {}
    BY DEF Bus!Init, Bus!Ranging, Ended, Bus!Registered
  <2> QED
    BY <2>1, <2>2, FS_EmptySet DEF Bus!Init, BusInv
<1>2. BusInv /\ [Next]_vars => BusInv'
  BY OneProgramRuns, BusStep
<1>3. BusInv => BusCloseDrains
  <2>1. Cardinality(Bus!Ranging) = Bus!Cardinality(Bus!Ranging)
    BY DEF Cardinality, Bus!Cardinality
  <2> QED
    BY <2>1 DEF BusInv, BusCloseDrains, Bus!CloseDrains, Ended
<1> QED
  BY <1>1, <1>2, <1>3, PTL DEF Spec

-----------------------------------------------------------------------------
(* The first version of the index: types and calls *)

\* A call that was made knows its record, or what it was asked.
CallsInv ==
  /\ \A i \in Inserts :
       insert[i] # "idle" =>
         record[i] \in Index!Records /\ record[i][2] = i /\ currentOffset[i] \in Index!Offsets
  /\ \A q \in Queries :
       /\ query[q] = "idle" => asked[q] = <<>>
       /\ query[q] # "idle" => asked[q] \in (Ids \cup {0}) \X Limits
       /\ query[q] \in {"idle", "scanning"} => offsets[q] = <<>>
       /\ query[q] # "iterating" => currentIndex[q] = 0
       /\ Len(returned[q]) = currentIndex[q]

\* A sound storage never makes the output stream fail.
SoundInv == storage = "sound" => outFile = "good"

LEMMA NotRecords ==
  /\ Index!Torn \notin Index!Records /\ Index!Garbage \notin Index!Records
  /\ <<>> \notin Index!Records
  /\ \A line \in Index!Records : line[1] \in Ids /\ line[2] \in Inserts /\ line = <<line[1], line[2]>>
BY DEF Index!Torn, Index!Garbage, Index!Records

\* The table is only appended to, and not at all once the stream has failed.
TableGrows ==
  /\ Len(table) <= Len(table')
  /\ \A offset \in DOMAIN table : offset \in DOMAIN table' /\ table'[offset] = table[offset]
  /\ outFile = "bad" => table' = table /\ outFile' = "bad"
  /\ storage' = storage

LEMMA AppendedTable ==
  ASSUME Index!TypeOK, NEW line \in Index!Records \cup {Index!Torn},
         table' = Append(table, line)
  PROVE  /\ table' \in Seq(Index!Records \cup {Index!Torn})
         /\ Len(table') = Len(table) + 1 /\ table'[Len(table) + 1] = line
         /\ DOMAIN table = 1 .. Len(table) /\ DOMAIN table' = 1 .. Len(table) + 1
         /\ Len(table) \in Nat
         /\ \A offset \in DOMAIN table : table'[offset] = table[offset]
<1>1. table \in Seq(Index!Records \cup {Index!Torn})
  BY DEF Index!TypeOK
<1>2. table' \in Seq(Index!Records \cup {Index!Torn}) /\ Len(table') = Len(table) + 1
      /\ table'[Len(table) + 1] = line /\ \A n \in 1 .. Len(table) : table'[n] = table[n]
  BY <1>1, AppendProperties
<1> QED
  BY <1>1, <1>2, LenProperties

\* A write adds the record at the offset that tellp told, or makes the stream
\* fail and leaves nothing there but perhaps a torn line.
LEMMA WriteTable ==
  ASSUME Index!TypeOK, NEW i \in Inserts, Index!WriteRecord(i)
  PROVE  /\ TableGrows
         /\ table' \in Seq(Index!Records \cup {Index!Torn}) /\ outFile' \in {"good", "bad"}
         /\ record'[i] \in Index!Records /\ record'[i][2] = i
         /\ storage = "sound" => outFile' = outFile
         /\ outFile' = "good" => currentOffset'[i] \in DOMAIN table'
                                 /\ table'[currentOffset'[i]] = record'[i]
         /\ outFile' = "bad" => currentOffset'[i] \notin DOMAIN table'
                                \/ table'[currentOffset'[i]] = Index!Torn
         /\ currentOffset'[i] \in Index!Offsets'
<1> DEFINE offset == currentOffset'[i]
<1>1. PICK id \in Ids : record' = [record EXCEPT ![i] = <<id, i>>] /\ Index!WriteLine(<<id, i>>)
  BY DEF Index!WriteRecord
<1>2. offset = Index!Tellp /\ storage' = storage
  BY DEF Index!WriteRecord, Index!TypeOK
<1>3. record'[i] = <<id, i>> /\ <<id, i>> \in Index!Records
  BY <1>1 DEF Index!TypeOK, Index!Records
<1>4. /\ table \in Seq(Index!Records \cup {Index!Torn}) /\ outFile \in {"good", "bad"}
      /\ Len(table) \in Nat /\ DOMAIN table = 1 .. Len(table)
  <2>1. table \in Seq(Index!Records \cup {Index!Torn}) /\ outFile \in {"good", "bad"}
    BY DEF Index!TypeOK
  <2> QED
    BY <2>1, LenProperties
<1>5. CASE outFile = "good" /\ table' = Append(table, <<id, i>>) /\ outFile' = outFile
  <2>1. /\ table' \in Seq(Index!Records \cup {Index!Torn})
        /\ Len(table') = Len(table) + 1 /\ table'[Len(table) + 1] = <<id, i>>
        /\ DOMAIN table' = 1 .. Len(table) + 1
        /\ \A o \in DOMAIN table : table'[o] = table[o]
    BY <1>3, <1>5, AppendedTable
  <2>2. offset = Len(table) + 1
    BY <1>2, <1>5 DEF Index!Tellp
  <2>3. offset \in DOMAIN table' /\ table'[offset] = record'[i] /\ offset \in Index!Offsets'
    BY <1>3, <1>4, <2>1, <2>2 DEF Index!Offsets
  <2> QED
    BY <1>2, <1>3, <1>4, <1>5, <2>1, <2>3 DEF TableGrows
<1>6. CASE outFile = "good" /\ storage = "failing" /\ table' = table /\ outFile' = "bad"
  <2>1. offset = Len(table) + 1
    BY <1>2, <1>6 DEF Index!Tellp
  <2>2. offset \notin DOMAIN table' /\ offset \in Index!Offsets'
    BY <1>4, <1>6, <2>1 DEF Index!Offsets
  <2> QED
    BY <1>2, <1>3, <1>4, <1>6, <2>2 DEF TableGrows
<1>7. CASE /\ outFile = "good" /\ storage = "failing"
           /\ table' = Append(table, Index!Torn) /\ outFile' = "bad"
  <2>1. /\ table' \in Seq(Index!Records \cup {Index!Torn})
        /\ Len(table') = Len(table) + 1 /\ table'[Len(table) + 1] = Index!Torn
        /\ DOMAIN table' = 1 .. Len(table) + 1
        /\ \A o \in DOMAIN table : table'[o] = table[o]
    BY <1>7, AppendedTable
  <2>2. offset = Len(table) + 1
    BY <1>2, <1>7 DEF Index!Tellp
  <2>3. table'[offset] = Index!Torn /\ offset \in Index!Offsets'
    BY <1>4, <2>1, <2>2 DEF Index!Offsets
  <2> QED
    BY <1>2, <1>3, <1>4, <1>7, <2>1, <2>3 DEF TableGrows
<1>8. CASE outFile = "bad" /\ UNCHANGED <<table, outFile>>
  <2>1. offset = -1
    BY <1>2, <1>8 DEF Index!Tellp, Index!NoPosition
  <2>2. offset \notin DOMAIN table' /\ offset \in Index!Offsets'
    BY <1>4, <1>8, <2>1 DEF Index!Offsets, Index!NoPosition
  <2> QED
    BY <1>2, <1>3, <1>4, <1>8, <2>2 DEF TableGrows
<1> QED
  BY <1>1, <1>5, <1>6, <1>7, <1>8 DEF Index!WriteLine

\* Nobody else writes.
LEMMA TableStep ==
  ASSUME Index!TypeOK, [Index!Next]_indexVars
  PROVE  /\ TableGrows
         /\ table' \in Seq(Index!Records \cup {Index!Torn}) /\ outFile' \in {"good", "bad"}
         /\ storage = "sound" => outFile' = outFile
         /\ Index!Offsets \subseteq Index!Offsets'
<1>1. /\ table \in Seq(Index!Records \cup {Index!Torn}) /\ outFile \in {"good", "bad"}
      /\ Len(table) \in Nat
  <2>1. table \in Seq(Index!Records \cup {Index!Torn}) /\ outFile \in {"good", "bad"}
    BY DEF Index!TypeOK
  <2> QED
    BY <2>1, LenProperties
<1>2. CASE UNCHANGED <<storage, table, outFile>>
  BY <1>1, <1>2 DEF TableGrows, Index!Offsets
<1>3. ASSUME NEW i \in Inserts, Index!WriteRecord(i)
      PROVE  /\ TableGrows
             /\ table' \in Seq(Index!Records \cup {Index!Torn}) /\ outFile' \in {"good", "bad"}
             /\ storage = "sound" => outFile' = outFile
             /\ Index!Offsets \subseteq Index!Offsets'
  <2>1. /\ TableGrows
        /\ table' \in Seq(Index!Records \cup {Index!Torn}) /\ outFile' \in {"good", "bad"}
        /\ storage = "sound" => outFile' = outFile
    BY <1>3, WriteTable
  <2>2. Len(table') \in Nat /\ Len(table) <= Len(table')
    BY <2>1, LenProperties DEF TableGrows
  <2>3. Index!Offsets \subseteq Index!Offsets'
    BY <1>1, <2>2 DEF Index!Offsets
  <2> QED
    BY <2>1, <2>3
<1> QED
  BY <1>2, <1>3 DEF Index!Next, indexVars, Index!tableVars, Index!PublishRecord, Index!CallQuery,
                    Index!Scan, Index!OpenIterator, Index!NextRecord

\* The walk of a query through the ids above minId that the map has.
Present(minId) == {id \in Ids : id > minId /\ idToOffsetMap[id] # Nothing}

LEMMA CollectedWalk ==
  ASSUME CallsInv, NEW q \in Queries, query[q] = "scanning",
         NEW ids \in Index!Collected(asked[q][1], asked[q][2])
  PROVE  LET present == Present(asked[q][1])
             limit == Index!AsSize(asked[q][2])
         IN  /\ asked[q] \in (Ids \cup {0}) \X Limits
             /\ ids \in [1 .. Len(ids) -> present] /\ DOMAIN ids = 1 .. Len(ids)
             /\ Len(ids) \in 0 .. Cardinality(present)
             /\ Len(ids) = 0 \/ Len(ids) <= limit
             /\ \A m, n \in DOMAIN ids : m < n => ids[m] < ids[n]
             /\ \A id \in present \ Range(ids) :
                  Len(ids) >= limit /\ \A n \in DOMAIN ids : ids[n] < id
<1> DEFINE present == Present(asked[q][1])
           limit == Index!AsSize(asked[q][2])
<1>1. asked[q] \in (Ids \cup {0}) \X Limits
  BY DEF CallsInv
<1>2. limit \in Int
  <2>1. asked[q][2] \in Int
    BY <1>1, LimitsAssumption
  <2> QED
    BY <2>1 DEF Index!AsSize, Index!Sizes
<1>3. present \in SUBSET Int /\ IsFiniteSet(present)
  <2>1. Ids \in SUBSET Int /\ IsFiniteSet(Ids) /\ present \in SUBSET Ids
    BY IdsAssumption DEF Present
  <2> QED
    BY <2>1, FS_Subset
<1>4. ids \in FirstOf(present, limit)
  <2>1. ids \in Index!FirstOf(present, limit)
    BY DEF Index!Collected, Present
  <2>2. Index!FirstOf(present, limit) = FirstOf(present, limit)
    BY DEF Index!FirstOf, FirstOf, Index!Range, Range, Index!Cardinality, Cardinality
  <2> QED
    BY <2>1, <2>2
<1> HIDE DEF present, limit
<1>5. /\ ids \in [1 .. Len(ids) -> present] /\ DOMAIN ids = 1 .. Len(ids)
      /\ Len(ids) \in 0 .. Cardinality(present)
      /\ Len(ids) = 0 \/ Len(ids) <= limit
      /\ \A m, n \in DOMAIN ids : m < n => ids[m] < ids[n]
      /\ \A id \in present \ Range(ids) :
           Len(ids) >= limit /\ \A n \in DOMAIN ids : ids[n] < id
  BY <1>2, <1>3, <1>4, WalkProperties
<1> QED
  BY <1>1, <1>5 DEF present, limit

TypesInv == Index!TypeOK /\ CallsInv /\ SoundInv

\* The parts of the types that insert and query keep for each other.
MapTypes ==
  /\ idToOffsetMap \in [Ids -> Index!Offsets \cup {Nothing}]
  /\ insert \in [Inserts -> {"idle", "publishing", "done"}]
  /\ record \in [Inserts -> Index!Records \cup {<<>>}]
  /\ currentOffset \in [Inserts -> Index!Offsets \cup {0}]
QueryTypes ==
  /\ query \in [Queries -> {"idle", "scanning", "opening", "iterating", "thrown"}]
  /\ inFile \in [Queries -> {"good", "bad"}]
  /\ asked \in [Queries -> (Ids \cup {0}) \X Limits \cup {<<>>}]
  /\ offsets \in [Queries -> Seq(Index!Offsets)]
  /\ currentIndex \in [Queries -> Nat]
  /\ \A q \in Queries : currentIndex[q] <= Len(offsets[q])
  /\ returned \in [Queries -> Seq(Index!Records \cup {Index!Garbage})]

LEMMA TypeParts ==
  /\ Index!TypeOK => MapTypes /\ QueryTypes
  /\ /\ MapTypes /\ QueryTypes
     /\ storage \in {"sound", "failing"} /\ outFile \in {"good", "bad"}
     /\ table \in Seq(Index!Records \cup {Index!Torn})
     => Index!TypeOK
BY DEF Index!TypeOK, MapTypes, QueryTypes

LEMMA MapTypesStay ==
  ASSUME MapTypes, Index!Offsets \subseteq Index!Offsets', UNCHANGED idToOffsetMap,
         UNCHANGED <<insert, record, currentOffset>>
  PROVE  MapTypes'
BY DEF MapTypes

LEMMA QueryTypesStay ==
  ASSUME QueryTypes, Index!Offsets \subseteq Index!Offsets',
         UNCHANGED <<query, asked, offsets, currentIndex, inFile, returned>>
  PROVE  QueryTypes'
<1>1. offsets' \in [Queries -> Seq(Index!Offsets')]
  <2>1. ASSUME NEW q \in Queries PROVE offsets[q] \in Seq(Index!Offsets')
    BY DEF QueryTypes
  <2> QED
    BY <2>1 DEF QueryTypes
<1> QED
  BY <1>1 DEF QueryTypes

LEMMA TypesStep ==
  ASSUME TypesInv, [Index!Next]_indexVars
  PROVE  TypesInv'
<1> USE DEF Index!tableVars, Index!insertVars, Index!queryVars
<1>0. /\ TableGrows
      /\ table' \in Seq(Index!Records \cup {Index!Torn}) /\ outFile' \in {"good", "bad"}
      /\ storage \in {"sound", "failing"} /\ storage' = storage
      /\ storage = "sound" => outFile' = outFile
      /\ Index!Offsets \subseteq Index!Offsets'
      /\ MapTypes /\ QueryTypes
  BY TableStep, TypeParts DEF TypesInv, TableGrows, Index!TypeOK
<1> SUFFICES MapTypes' /\ QueryTypes' /\ CallsInv' /\ SoundInv'
  <2>1. storage' \in {"sound", "failing"}
    BY <1>0
  <2>2. (MapTypes /\ QueryTypes
         /\ storage \in {"sound", "failing"} /\ outFile \in {"good", "bad"}
         /\ table \in Seq(Index!Records \cup {Index!Torn})
         => Index!TypeOK)'
    BY TypeParts, PTL
  <2> QED
    BY <1>0, <2>1, <2>2 DEF TypesInv, Index!Records, Index!Torn
<1>1. ASSUME NEW i \in Inserts, Index!WriteRecord(i)
      PROVE  MapTypes' /\ QueryTypes' /\ CallsInv' /\ SoundInv'
  <2>1. record'[i] \in Index!Records /\ record'[i][2] = i /\ currentOffset'[i] \in Index!Offsets'
    BY <1>1, WriteTable DEF TypesInv
  <2>2. /\ insert' = [insert EXCEPT ![i] = "publishing"]
        /\ \E offset : currentOffset' = [currentOffset EXCEPT ![i] = offset]
        /\ \E line : record' = [record EXCEPT ![i] = line]
        /\ UNCHANGED <<idToOffsetMap, query, asked, offsets, currentIndex, inFile, returned>>
    BY <1>1 DEF Index!WriteRecord
  <2>3. MapTypes'
    BY <1>0, <2>1, <2>2 DEF MapTypes
  <2>4. QueryTypes'
    BY <1>0, <2>2, QueryTypesStay
  <2>5. CallsInv'
    BY <1>0, <2>1, <2>2 DEF CallsInv, TypesInv, MapTypes
  <2>6. SoundInv'
    BY <1>0, <2>2 DEF SoundInv, TypesInv
  <2> QED
    BY <2>3, <2>4, <2>5, <2>6
<1>2. ASSUME NEW i \in Inserts, Index!PublishRecord(i)
      PROVE  MapTypes' /\ QueryTypes' /\ CallsInv' /\ SoundInv'
  <2>1. /\ insert[i] = "publishing" /\ insert' = [insert EXCEPT ![i] = "done"]
        /\ idToOffsetMap' = [idToOffsetMap EXCEPT ![record[i][1]] = currentOffset[i]]
        /\ UNCHANGED <<storage, table, outFile, record, currentOffset, query, asked, offsets,
                       currentIndex, inFile, returned>>
    BY <1>2 DEF Index!PublishRecord
  <2>2. CallsInv' /\ SoundInv'
    BY <1>0, <2>1 DEF CallsInv, SoundInv, TypesInv, MapTypes
  <2>3. currentOffset[i] \in Index!Offsets
    BY <2>1 DEF CallsInv, TypesInv
  <2>4. MapTypes'
    BY <1>0, <2>1, <2>3 DEF MapTypes
  <2>5. QueryTypes'
    BY <1>0, <2>1, QueryTypesStay
  <2> QED
    BY <2>2, <2>4, <2>5
<1>3. ASSUME NEW q \in Queries, Index!CallQuery(q)
      PROVE  MapTypes' /\ QueryTypes' /\ CallsInv' /\ SoundInv'
  <2>1. /\ query[q] = "idle" /\ query' = [query EXCEPT ![q] = "scanning"]
        /\ \E args \in (Ids \cup {0}) \X Limits : asked' = [asked EXCEPT ![q] = args]
        /\ UNCHANGED <<storage, table, outFile, idToOffsetMap, insert, record, currentOffset,
                       offsets, currentIndex, inFile, returned>>
    BY <1>3 DEF Index!CallQuery
  <2>2. CallsInv' /\ SoundInv'
    BY <1>0, <2>1 DEF CallsInv, SoundInv, TypesInv, QueryTypes, Index!Offsets, Index!NoPosition
  <2>3. MapTypes'
    BY <1>0, <2>1, MapTypesStay
  <2>4. QueryTypes'
    BY <1>0, <2>1 DEF QueryTypes, Index!Offsets, Index!NoPosition
  <2> QED
    BY <2>2, <2>3, <2>4
<1>4. ASSUME NEW q \in Queries, Index!Scan(q)
      PROVE  MapTypes' /\ QueryTypes' /\ CallsInv' /\ SoundInv'
  <2>1. PICK ids \in Index!Collected(asked[q][1], asked[q][2]) :
          offsets' = [offsets EXCEPT ![q] = [n \in DOMAIN ids |-> idToOffsetMap[ids[n]]]]
    BY <1>4 DEF Index!Scan
  <2>2. /\ query[q] = "scanning" /\ query' = [query EXCEPT ![q] = "opening"]
        /\ UNCHANGED <<storage, table, outFile, idToOffsetMap, insert, record, currentOffset,
                       asked, currentIndex, inFile, returned>>
    BY <1>4 DEF Index!Scan
  <2>3. /\ DOMAIN ids = 1 .. Len(ids) /\ Len(ids) \in Nat
        /\ \A n \in DOMAIN ids : ids[n] \in Present(asked[q][1])
    BY <2>2, CollectedWalk DEF TypesInv
  <2>4. [n \in DOMAIN ids |-> idToOffsetMap[ids[n]]] \in [1 .. Len(ids) -> Index!Offsets]
    BY <1>0, <2>3 DEF Present, MapTypes
  <2>5. /\ offsets'[q] \in Seq(Index!Offsets) /\ Len(offsets'[q]) \in Nat
        /\ \A p \in Queries \ {q} : offsets'[p] = offsets[p]
        /\ offsets' \in [Queries -> Seq(Index!Offsets)]
    BY <1>0, <2>1, <2>3, <2>4, ArrayIsSequence DEF QueryTypes
  <2>6. CallsInv' /\ SoundInv'
    BY <1>0, <2>2, <2>5 DEF CallsInv, SoundInv, TypesInv, QueryTypes, Index!Offsets, Index!NoPosition
  <2>7. MapTypes'
    BY <1>0, <2>2, MapTypesStay
  <2>8. Index!Offsets' = Index!Offsets
    BY <2>2 DEF Index!Offsets
  <2>9. \A p \in Queries : currentIndex'[p] <= Len(offsets'[p])
    <3>1. currentIndex[q] = 0
      BY <2>2 DEF TypesInv, CallsInv
    <3> QED
      BY <1>0, <2>2, <2>5, <3>1 DEF QueryTypes
  <2>10. QueryTypes'
    BY <1>0, <2>2, <2>5, <2>8, <2>9 DEF QueryTypes
  <2> QED
    BY <2>6, <2>7, <2>10
<1>5. ASSUME NEW q \in Queries, Index!OpenIterator(q)
      PROVE  MapTypes' /\ QueryTypes' /\ CallsInv' /\ SoundInv'
  <2>1. /\ query[q] = "opening"
        /\ \E s \in {"iterating", "thrown"} : query' = [query EXCEPT ![q] = s]
        /\ UNCHANGED <<storage, table, outFile, idToOffsetMap, insert, record, currentOffset,
                       asked, offsets, currentIndex, inFile, returned>>
    BY <1>5 DEF Index!OpenIterator
  <2>2. CallsInv' /\ SoundInv'
    BY <1>0, <2>1 DEF CallsInv, SoundInv, TypesInv, QueryTypes, Index!Offsets, Index!NoPosition
  <2>3. MapTypes'
    BY <1>0, <2>1, MapTypesStay
  <2>4. QueryTypes'
    BY <1>0, <2>1 DEF QueryTypes, Index!Offsets, Index!NoPosition
  <2> QED
    BY <2>2, <2>3, <2>4
<1>6. ASSUME NEW q \in Queries, Index!NextRecord(q)
      PROVE  MapTypes' /\ QueryTypes' /\ CallsInv' /\ SoundInv'
  <2>1. /\ query[q] = "iterating" /\ currentIndex[q] < Len(offsets[q])
        /\ currentIndex' = [currentIndex EXCEPT ![q] = currentIndex[q] + 1]
        /\ UNCHANGED <<storage, table, outFile, idToOffsetMap, insert, record, currentOffset,
                       query, asked, offsets>>
    BY <1>6 DEF Index!NextRecord, Index!HasNext
  <2>2. PICK line \in Index!Records \cup {Index!Garbage} :
          returned' = [returned EXCEPT ![q] = Append(returned[q], line)]
    BY <1>6 DEF Index!NextRecord, Index!ReadSucceeds, Index!ReadFails
  <2>3. /\ returned[q] \in Seq(Index!Records \cup {Index!Garbage})
        /\ returned'[q] = Append(returned[q], line)
        /\ \A p \in Queries \ {q} : returned'[p] = returned[p]
    BY <1>0, <2>2 DEF QueryTypes
  <2>4. /\ returned'[q] \in Seq(Index!Records \cup {Index!Garbage})
        /\ Len(returned'[q]) = Len(returned[q]) + 1
    BY <2>3, AppendProperties
  <2>5. returned' \in [Queries -> Seq(Index!Records \cup {Index!Garbage})]
    BY <1>0, <2>2, <2>4 DEF QueryTypes
  <2>6. CallsInv'
    BY <1>0, <2>1, <2>3, <2>4 DEF CallsInv, TypesInv, QueryTypes, Index!Offsets, Index!NoPosition
  <2>7. inFile' \in [Queries -> {"good", "bad"}] /\ Len(offsets[q]) \in Nat
    BY <1>0, <1>6, LenProperties
       DEF QueryTypes, Index!NextRecord, Index!ReadSucceeds, Index!ReadFails
  <2>8. MapTypes'
    BY <1>0, <2>1, MapTypesStay
  <2>9. Index!Offsets' = Index!Offsets
    BY <2>1 DEF Index!Offsets
  <2>10. /\ currentIndex' \in [Queries -> Nat]
         /\ \A p \in Queries : currentIndex'[p] <= Len(offsets'[p])
    BY <1>0, <2>1, <2>7 DEF QueryTypes
  <2>11. /\ query' \in [Queries -> {"idle", "scanning", "opening", "iterating", "thrown"}]
         /\ asked' \in [Queries -> (Ids \cup {0}) \X Limits \cup {<<>>}]
         /\ offsets' \in [Queries -> Seq(Index!Offsets')]
    BY <1>0, <2>1, <2>9 DEF QueryTypes
  <2>12. QueryTypes'
    BY <2>5, <2>7, <2>10, <2>11 DEF QueryTypes, Index!Records, Index!Garbage
  <2>13. SoundInv'
    BY <2>1 DEF TypesInv, SoundInv
  <2> QED
    BY <2>6, <2>8, <2>12, <2>13
<1>7. CASE UNCHANGED indexVars
  <2>1. MapTypes' /\ QueryTypes'
    BY <1>0, <1>7, MapTypesStay, QueryTypesStay DEF indexVars
  <2>2. CallsInv' /\ SoundInv'
    BY <1>7 DEF indexVars, TypesInv, CallsInv, SoundInv, Index!Offsets, Index!NoPosition
  <2> QED
    BY <2>1, <2>2
<1> QED
  BY <1>1, <1>2, <1>3, <1>4, <1>5, <1>6, <1>7 DEF Index!Next

-----------------------------------------------------------------------------
(* The first version of the index: lines and offsets *)

IsRecord(offset) == Index!LineAt(offset) \in Index!Records
IdAt(offset) == Index!LineAt(offset)[1]

\* Until the output stream fails every offset that is known leads to a record;
\* and an offset that leads to one, then or later, leads to the right one.
WrittenInv ==
  \A i \in Inserts : insert[i] # "idle" =>
    /\ outFile = "good" => IsRecord(currentOffset[i])
    /\ IsRecord(currentOffset[i]) => Index!LineAt(currentOffset[i]) = record[i]
MapInv ==
  \A id \in Ids : idToOffsetMap[id] # Nothing =>
    /\ outFile = "good" => IsRecord(idToOffsetMap[id])
    /\ IsRecord(idToOffsetMap[id]) => IdAt(idToOffsetMap[id]) = id
IteratorInv(q) ==
  /\ \A n \in DOMAIN offsets[q] :
       /\ outFile = "good" => IsRecord(offsets[q][n])
       /\ IsRecord(offsets[q][n]) => IdAt(offsets[q][n]) > asked[q][1]
  /\ \A m, n \in DOMAIN offsets[q] :
       m < n /\ IsRecord(offsets[q][m]) /\ IsRecord(offsets[q][n]) =>
         IdAt(offsets[q][m]) < IdAt(offsets[q][n])
\* What an iterator hands out is garbage or the record at its offset, and
\* garbage only from a storage that fails.
ReaderInv(q) ==
  /\ storage = "sound" => inFile[q] = "good"
  /\ \A n \in DOMAIN returned[q] :
       /\ storage = "sound" => returned[q][n] # Index!Garbage
       /\ returned[q][n] # Index!Garbage =>
            /\ n \in DOMAIN offsets[q] /\ IsRecord(offsets[q][n])
            /\ returned[q][n] = Index!LineAt(offsets[q][n])

LinesInv == WrittenInv /\ MapInv /\ \A q \in Queries : IteratorInv(q) /\ ReaderInv(q)

\* A line at an offset that leads to a record, unless the stream has failed,
\* stays what it is; and the stream does not recover.
LinesStay ==
  /\ outFile' = "good" => outFile = "good"
  /\ \A offset : (outFile = "good" => IsRecord(offset)) =>
       (IF offset \in DOMAIN table' THEN table'[offset] ELSE <<>>) = Index!LineAt(offset)

LEMMA LinesAreKept == TypesInv /\ [Index!Next]_indexVars => LinesStay
<1> SUFFICES ASSUME TypesInv, [Index!Next]_indexVars PROVE LinesStay
  OBVIOUS
<1>1. TableGrows /\ outFile \in {"good", "bad"} /\ outFile' \in {"good", "bad"}
  BY TableStep DEF TypesInv, Index!TypeOK
<1>2. ASSUME NEW offset, outFile = "good" => IsRecord(offset)
      PROVE  (IF offset \in DOMAIN table' THEN table'[offset] ELSE <<>>) = Index!LineAt(offset)
  <2>1. CASE outFile = "bad"
    BY <1>1, <2>1 DEF TableGrows, Index!LineAt
  <2>2. CASE outFile = "good"
    <3>1. offset \in DOMAIN table
      BY <1>2, <2>2, NotRecords DEF IsRecord, Index!LineAt
    <3> QED
      BY <1>1, <3>1 DEF TableGrows, Index!LineAt
  <2> QED
    BY <1>1, <2>1, <2>2
<1> QED
  BY <1>1, <1>2 DEF LinesStay, TableGrows

LEMMA WrittenStep ==
  ASSUME TypesInv, WrittenInv, [Index!Next]_indexVars
  PROVE  WrittenInv'
<1> USE DEF Index!tableVars, Index!insertVars, Index!queryVars
<1>1. LinesStay
  BY LinesAreKept
<1>2. ASSUME NEW i \in Inserts, insert[i] # "idle"
      PROVE  /\ outFile' = "good" =>
                  (IF currentOffset[i] \in DOMAIN table'
                   THEN table'[currentOffset[i]] ELSE <<>>) \in Index!Records
             /\ (IF currentOffset[i] \in DOMAIN table'
                 THEN table'[currentOffset[i]] ELSE <<>>) \in Index!Records =>
                  (IF currentOffset[i] \in DOMAIN table'
                   THEN table'[currentOffset[i]] ELSE <<>>) = record[i]
  BY <1>1, <1>2 DEF LinesStay, WrittenInv, IsRecord
<1>3. ASSUME NEW i \in Inserts, Index!WriteRecord(i) PROVE WrittenInv'
  <2>1. /\ insert' = [insert EXCEPT ![i] = "publishing"]
        /\ \E offset : currentOffset' = [currentOffset EXCEPT ![i] = offset]
        /\ \E line : record' = [record EXCEPT ![i] = line]
    BY <1>3 DEF Index!WriteRecord
  <2>2. \A j \in Inserts \ {i} :
          insert'[j] = insert[j] /\ currentOffset'[j] = currentOffset[j] /\ record'[j] = record[j]
    BY <2>1 DEF TypesInv, Index!TypeOK
  <2>3. /\ outFile' = "good" => Index!LineAt(currentOffset[i])' \in Index!Records
        /\ Index!LineAt(currentOffset[i])' \in Index!Records =>
             Index!LineAt(currentOffset[i])' = record'[i]
    <3>1. /\ outFile' \in {"good", "bad"} /\ record'[i] \in Index!Records
          /\ outFile' = "good" => currentOffset'[i] \in DOMAIN table'
                                  /\ table'[currentOffset'[i]] = record'[i]
          /\ outFile' = "bad" => currentOffset'[i] \notin DOMAIN table'
                                 \/ table'[currentOffset'[i]] = Index!Torn
      BY <1>3, WriteTable DEF TypesInv
    <3> QED
      BY <3>1, NotRecords DEF Index!LineAt
  <2> QED
    BY <1>2, <2>2, <2>3 DEF WrittenInv, IsRecord, Index!LineAt, Index!Records
<1>4. CASE /\ UNCHANGED <<record, currentOffset>>
           /\ \A i \in Inserts : insert'[i] # "idle" => insert[i] # "idle"
  BY <1>2, <1>4 DEF WrittenInv, IsRecord, Index!LineAt, Index!Records
<1>5. ASSUME NEW i \in Inserts, Index!PublishRecord(i) PROVE WrittenInv'
  BY <1>4, <1>5 DEF Index!PublishRecord, TypesInv, Index!TypeOK
<1> QED
  BY <1>3, <1>4, <1>5 DEF Index!Next, indexVars, Index!CallQuery, Index!Scan,
                          Index!OpenIterator, Index!NextRecord

LEMMA MapStep ==
  ASSUME TypesInv, WrittenInv, MapInv, [Index!Next]_indexVars
  PROVE  MapInv'
<1> USE DEF Index!tableVars, Index!insertVars, Index!queryVars
<1>1. LinesStay
  BY LinesAreKept
<1>2. ASSUME NEW id \in Ids, idToOffsetMap[id] # Nothing
      PROVE  /\ outFile' = "good" =>
                  (IF idToOffsetMap[id] \in DOMAIN table'
                   THEN table'[idToOffsetMap[id]] ELSE <<>>) \in Index!Records
             /\ (IF idToOffsetMap[id] \in DOMAIN table'
                 THEN table'[idToOffsetMap[id]] ELSE <<>>) \in Index!Records =>
                  (IF idToOffsetMap[id] \in DOMAIN table'
                   THEN table'[idToOffsetMap[id]] ELSE <<>>)[1] = id
  BY <1>1, <1>2 DEF LinesStay, MapInv, IsRecord, IdAt
<1>3. ASSUME NEW i \in Inserts, Index!PublishRecord(i) PROVE MapInv'
  <2>1. /\ insert[i] # "idle" /\ UNCHANGED <<storage, table, outFile>>
        /\ idToOffsetMap' = [idToOffsetMap EXCEPT ![record[i][1]] = currentOffset[i]]
    BY <1>3 DEF Index!PublishRecord
  <2>2. /\ outFile = "good" => IsRecord(currentOffset[i])
        /\ IsRecord(currentOffset[i]) => IdAt(currentOffset[i]) = record[i][1]
    BY <2>1 DEF WrittenInv, IdAt
  <2> QED
    BY <2>1, <2>2 DEF MapInv, IsRecord, IdAt, Index!LineAt, Index!Records, TypesInv, Index!TypeOK
<1>4. CASE UNCHANGED idToOffsetMap
  BY <1>2, <1>4 DEF MapInv, IsRecord, IdAt, Index!LineAt, Index!Records
<1> QED
  BY <1>3, <1>4 DEF Index!Next, indexVars, Index!WriteRecord, Index!CallQuery, Index!Scan,
                    Index!OpenIterator, Index!NextRecord

LEMMA IteratorStep ==
  ASSUME TypesInv, MapInv, [Index!Next]_indexVars, NEW q \in Queries, IteratorInv(q)
  PROVE  IteratorInv(q)'
<1> USE DEF Index!tableVars, Index!insertVars, Index!queryVars
<1>1. LinesStay
  BY LinesAreKept
<1>2. CASE offsets'[q] = offsets[q] /\ (asked'[q] = asked[q] \/ offsets[q] = <<>>)
  <2>1. \A n \in DOMAIN offsets[q] : asked'[q] = asked[q]
    BY <1>2, EmptySeq, LenProperties
  <2>2. \A n \in DOMAIN offsets[q] :
          (IF offsets[q][n] \in DOMAIN table' THEN table'[offsets[q][n]] ELSE <<>>)
            = Index!LineAt(offsets[q][n])
    BY <1>1 DEF LinesStay, IteratorInv
  <2>3. \A n \in DOMAIN offsets'[q] : Index!LineAt(offsets[q][n])' = Index!LineAt(offsets[q][n])
    BY <1>2, <2>2 DEF Index!LineAt
  <2> QED
    BY <1>1, <1>2, <2>1, <2>3 DEF LinesStay, IteratorInv, IsRecord, IdAt, Index!Records
<1>3. ASSUME NEW p \in Queries, Index!CallQuery(p) PROVE IteratorInv(q)'
  BY <1>2, <1>3 DEF Index!CallQuery, TypesInv, CallsInv, Index!TypeOK
<1>4. CASE Index!Scan(q)
  <2>1. PICK ids \in Index!Collected(asked[q][1], asked[q][2]) :
          offsets' = [offsets EXCEPT ![q] = [n \in DOMAIN ids |-> idToOffsetMap[ids[n]]]]
    BY <1>4 DEF Index!Scan
  <2>2. query[q] = "scanning" /\ UNCHANGED <<table, outFile, asked>>
    BY <1>4 DEF Index!Scan
  <2>3. /\ \A n \in DOMAIN ids : ids[n] \in Present(asked[q][1])
        /\ \A m, n \in DOMAIN ids : m < n => ids[m] < ids[n]
    BY <2>2, CollectedWalk DEF TypesInv
  <2>4. /\ DOMAIN offsets'[q] = DOMAIN ids
        /\ \A n \in DOMAIN ids : offsets'[q][n] = idToOffsetMap[ids[n]]
    BY <2>1 DEF TypesInv, Index!TypeOK
  <2>5. ASSUME NEW n \in DOMAIN ids
        PROVE  /\ outFile = "good" => IsRecord(idToOffsetMap[ids[n]])
               /\ IsRecord(idToOffsetMap[ids[n]]) => IdAt(idToOffsetMap[ids[n]]) = ids[n]
               /\ ids[n] > asked[q][1]
    BY <2>3 DEF Present, MapInv
  <2>6. ASSUME NEW n \in DOMAIN ids
        PROVE  Index!LineAt(offsets[q][n])' = Index!LineAt(idToOffsetMap[ids[n]])
    BY <2>2, <2>4 DEF Index!LineAt
  <2> QED
    BY <2>2, <2>3, <2>4, <2>5, <2>6 DEF IteratorInv, IsRecord, IdAt, Index!Records
<1>5. ASSUME NEW p \in Queries, p # q, Index!Scan(p) PROVE IteratorInv(q)'
  BY <1>2, <1>5 DEF Index!Scan, TypesInv, Index!TypeOK
<1>6. CASE UNCHANGED <<offsets, asked>>
  BY <1>2, <1>6
<1> QED
  BY <1>3, <1>4, <1>5, <1>6 DEF Index!Next, indexVars, Index!WriteRecord, Index!PublishRecord,
                                Index!OpenIterator, Index!NextRecord

LEMMA ReaderStep ==
  ASSUME TypesInv, [Index!Next]_indexVars, NEW q \in Queries, IteratorInv(q), ReaderInv(q)
  PROVE  ReaderInv(q)'
<1> USE DEF Index!tableVars, Index!insertVars, Index!queryVars
<1>1. LinesStay /\ storage' = storage
  BY LinesAreKept, TableStep DEF TypesInv, TableGrows
<1>2. \A n \in DOMAIN offsets[q] :
        (IF offsets[q][n] \in DOMAIN table' THEN table'[offsets[q][n]] ELSE <<>>)
          = Index!LineAt(offsets[q][n])
  BY <1>1 DEF LinesStay, IteratorInv
<1>3. CASE returned'[q] = returned[q] /\ inFile'[q] = inFile[q]
           /\ (offsets'[q] = offsets[q] \/ returned[q] = <<>>)
  <2>1. \A n \in DOMAIN returned[q] : offsets'[q] = offsets[q]
    BY <1>3, EmptySeq, LenProperties
  <2>2. \A n \in DOMAIN returned[q] :
          n \in DOMAIN offsets[q] =>
            Index!LineAt(offsets[q][n])' = Index!LineAt(offsets[q][n])
    BY <1>2, <2>1 DEF Index!LineAt
  <2> QED
    BY <1>1, <1>3, <2>1, <2>2 DEF ReaderInv, IsRecord, Index!Records, Index!Garbage
<1>4. CASE Index!NextRecord(q)
  <2> DEFINE k == currentIndex[q] + 1
             line == Index!LineAt(offsets[q][k])
  <2>1. /\ currentIndex[q] < Len(offsets[q])
        /\ Index!ReadSucceeds(q, line) \/ Index!ReadFails(q, line)
        /\ UNCHANGED <<table, outFile, offsets>>
    BY <1>4 DEF Index!NextRecord, Index!HasNext
  <2>2. /\ k \in DOMAIN offsets[q] /\ Len(returned[q]) = currentIndex[q]
        /\ currentIndex[q] \in Nat
    <3>1. /\ currentIndex[q] \in Nat /\ Len(offsets[q]) \in Nat
          /\ DOMAIN offsets[q] = 1 .. Len(offsets[q])
      BY LenProperties DEF TypesInv, Index!TypeOK
    <3> QED
      BY <2>1, <3>1 DEF TypesInv, CallsInv
  <2>3. returned[q] \in Seq(Index!Records \cup {Index!Garbage}) /\ outFile \in {"good", "bad"}
        /\ inFile \in [Queries -> {"good", "bad"}] /\ storage \in {"sound", "failing"}
    BY DEF TypesInv, Index!TypeOK
  <2>4. storage = "sound" => line \in Index!Records
    BY <2>2 DEF TypesInv, SoundInv, IteratorInv, IsRecord
  <2> HIDE DEF k, line
  <2>5. PICK result \in Index!Records \cup {Index!Garbage} :
          /\ returned' = [returned EXCEPT ![q] = Append(returned[q], result)]
          /\ result # Index!Garbage => line \in Index!Records /\ result = line
          /\ storage = "sound" => result # Index!Garbage /\ inFile' = inFile
    <3>1. CASE Index!ReadSucceeds(q, line)
      BY <3>1, NotRecords DEF Index!ReadSucceeds
    <3>2. CASE Index!ReadFails(q, line)
      <4>1. storage # "sound"
        BY <2>4, <3>2, NotRecords DEF Index!ReadFails, ReaderInv
      <4> QED
        BY <3>2, <4>1 DEF Index!ReadFails
    <3> QED
      BY <2>1, <3>1, <3>2
  <2>6. /\ returned'[q] = Append(returned[q], result)
        /\ DOMAIN returned[q] = 1 .. currentIndex[q] /\ DOMAIN returned'[q] = 1 .. k
        /\ \A n \in DOMAIN returned[q] : returned'[q][n] = returned[q][n]
        /\ returned'[q][k] = result
    <3>1. returned'[q] = Append(returned[q], result)
      BY <2>5 DEF TypesInv, Index!TypeOK
    <3>2. /\ Len(returned'[q]) = Len(returned[q]) + 1
          /\ \A n \in 1 .. Len(returned[q]) : returned'[q][n] = returned[q][n]
          /\ returned'[q][Len(returned[q]) + 1] = result
          /\ returned'[q] \in Seq(Index!Records \cup {Index!Garbage})
      BY <2>3, <3>1, AppendProperties
    <3> QED
      BY <2>2, <2>3, <3>1, <3>2, LenProperties DEF k
  <2>7. ASSUME NEW n \in DOMAIN returned'[q]
        PROVE  /\ storage' = "sound" => returned'[q][n] # Index!Garbage
               /\ returned'[q][n] # Index!Garbage =>
                    /\ n \in DOMAIN offsets[q] /\ IsRecord(offsets[q][n])
                    /\ returned'[q][n] = Index!LineAt(offsets[q][n])
    <3>1. CASE n = k
      BY <1>1, <2>2, <2>5, <2>6, <3>1 DEF line, IsRecord
    <3>2. CASE n # k
      <4>1. n \in DOMAIN returned[q]
        BY <2>2, <2>6, <3>2 DEF k
      <4> QED
        BY <1>1, <2>6, <4>1 DEF ReaderInv
    <3> QED
      BY <3>1, <3>2
  <2> QED
    BY <1>1, <2>1, <2>5, <2>7 DEF ReaderInv, IsRecord, Index!LineAt, Index!Records, Index!Garbage
<1>5. ASSUME NEW p \in Queries, Index!Scan(p) PROVE ReaderInv(q)'
  <2>1. returned' = returned /\ inFile' = inFile /\ query[p] = "scanning"
        /\ \A r \in Queries \ {p} : offsets'[r] = offsets[r]
    BY <1>5 DEF Index!Scan, TypesInv, Index!TypeOK
  <2>2. Len(returned[p]) = 0
    BY <2>1 DEF TypesInv, CallsInv
  <2>3. returned[p] = <<>>
    BY <2>2, EmptySeq DEF TypesInv, Index!TypeOK
  <2> QED
    BY <1>3, <2>1, <2>3
<1>6. ASSUME NEW p \in Queries, p # q, Index!NextRecord(p) PROVE ReaderInv(q)'
  <2>1. returned'[q] = returned[q] /\ inFile'[q] = inFile[q] /\ offsets' = offsets
    BY <1>6 DEF Index!NextRecord, Index!ReadSucceeds, Index!ReadFails, TypesInv, Index!TypeOK
  <2> QED
    BY <1>3, <2>1
<1>7. CASE UNCHANGED <<offsets, returned, inFile>>
  BY <1>3, <1>7
<1> QED
  BY <1>4, <1>5, <1>6, <1>7 DEF Index!Next, indexVars, Index!WriteRecord, Index!PublishRecord,
                                Index!CallQuery, Index!OpenIterator

LEMMA IndexInvariant == Spec => [](TypesInv /\ LinesInv)
<1>1. Init => TypesInv /\ LinesInv
  <2> SUFFICES ASSUME Index!Init PROVE TypesInv /\ LinesInv
    BY DEF Init
  <2>1. Index!TypeOK
    <3>1. table \in Seq(Index!Records \cup {Index!Torn})
      <4>1. Index!Torn \in Index!Records \cup {Index!Torn}
        OBVIOUS
      <4>2. <<>> \in Seq(Index!Records \cup {Index!Torn})
            /\ <<Index!Torn>> \in Seq(Index!Records \cup {Index!Torn})
        BY <4>1
      <4> QED
        BY <4>2 DEF Index!Init
    <3>2. MapTypes
      BY DEF Index!Init, MapTypes
    <3>3. QueryTypes
      BY EmptySeq DEF Index!Init, QueryTypes
    <3>4. storage \in {"sound", "failing"} /\ outFile \in {"good", "bad"}
      BY DEF Index!Init
    <3> QED
      BY <3>1, <3>2, <3>3, <3>4, TypeParts
  <2>2. CallsInv /\ SoundInv
    BY DEF Index!Init, CallsInv, SoundInv
  <2>3. /\ \A i \in Inserts : insert[i] = "idle"
        /\ \A id \in Ids : idToOffsetMap[id] = Nothing
        /\ \A q \in Queries : DOMAIN offsets[q] = {} /\ DOMAIN returned[q] = {}
                              /\ inFile[q] = "good"
    BY EmptySeq, LenProperties DEF Index!Init
  <2> QED
    BY <2>1, <2>2, <2>3 DEF TypesInv, LinesInv, WrittenInv, MapInv, IteratorInv, ReaderInv
<1>2. TypesInv /\ LinesInv /\ [Next]_vars => (TypesInv /\ LinesInv)'
  BY OneProgramRuns, TypesStep, WrittenStep, MapStep, IteratorStep, ReaderStep DEF LinesInv
<1> QED
  BY <1>1, <1>2, PTL DEF Spec

\* Offsets of the first version of the index lead to whole records of the right
\* ids, in ascending order, until a write fails; and a record that an iterator
\* hands out is never out of order, nor garbage if the storage is sound
\* (index_and_iterator.cpp).
THEOREM FirstIndexOffsetsAreSound == Spec => []AppendOffsetsAreSound
<1>1. ASSUME TypesInv, LinesInv PROVE AppendOffsetsAreSound
  <2>1. \A id \in Ids : outFile = "good" /\ idToOffsetMap[id] # Nothing =>
          Index!LeadsTo(idToOffsetMap[id], id)
    BY <1>1 DEF LinesInv, MapInv, IsRecord, IdAt, Index!LeadsTo
  <2>2. ASSUME NEW q \in Queries, NEW n \in DOMAIN offsets[q], outFile = "good"
        PROVE  \E id \in Ids : Index!LeadsTo(offsets[q][n], id) /\ id > asked[q][1]
    <3>1. IsRecord(offsets[q][n]) /\ IdAt(offsets[q][n]) > asked[q][1]
      BY <1>1, <2>2 DEF LinesInv, IteratorInv
    <3> QED
      BY <3>1, NotRecords DEF IsRecord, IdAt, Index!LeadsTo
  <2>3. ASSUME NEW q \in Queries, storage = "sound"
        PROVE  Index!Garbage \notin Index!ToSet(returned[q])
    BY <1>1, <2>3 DEF LinesInv, ReaderInv, Index!ToSet
  <2>4. ASSUME NEW q \in Queries, NEW m \in DOMAIN returned[q], NEW n \in DOMAIN returned[q],
               m < n, Index!Garbage \notin {returned[q][m], returned[q][n]}
        PROVE  returned[q][m][1] < returned[q][n][1]
    BY <1>1, <2>4 DEF LinesInv, ReaderInv, IteratorInv, IdAt
  <2> QED
    BY <1>1, <2>1, <2>2, <2>3, <2>4
       DEF TypesInv, SoundInv, AppendOffsetsAreSound, Index!OffsetsAreSound
<1> QED
  BY <1>1, IndexInvariant, PTL

-----------------------------------------------------------------------------
(* The first version of the index: the refinement *)

\* What SnapshotIndex sees under an id, of an insert, and of a query.
Text(id) ==
  IF Index!Sound /\ idToOffsetMap[id] # Nothing THEN table[idToOffsetMap[id]][2] ELSE Nothing
Outcome(i) == IF Index!Sound /\ insert[i] = "done" THEN "stored" ELSE "pending"
Asked(q) ==
  IF Index!Sound /\ asked[q] # <<>> THEN <<asked[q][1], Index!AsSize(asked[q][2])>> ELSE <<>>
View(q) ==
  IF Index!Sound /\ query[q] \notin {"idle", "scanning"}
  THEN [n \in DOMAIN offsets[q] |-> table[offsets[q][n]]] ELSE Nothing
Position(q) == IF Index!Sound THEN currentIndex[q] ELSE 0
Got(q) == IF Index!Sound THEN returned[q] ELSE <<>>

\* A step that changes none of it.
LEMMA SnapshotStutters ==
  ASSUME \A id \in Ids : Text(id)' = Text(id),
         \A i \in Inserts : Outcome(i)' = Outcome(i),
         \A q \in Queries : /\ Asked(q)' = Asked(q) /\ View(q)' = View(q)
                            /\ Position(q)' = Position(q) /\ Got(q)' = Got(q)
  PROVE  UNCHANGED Index!Abstract!vars
BY DEF Index!Abstract!vars, Text, Outcome, Asked, View, Position, Got

\* Of a failing storage SnapshotIndex sees nothing.
LEMMA FailingStutters ==
  ASSUME TypesInv, [Index!Next]_indexVars, storage # "sound"
  PROVE  UNCHANGED Index!Abstract!vars
<1>1. ~Index!Sound /\ ~Index!Sound'
  BY TableStep DEF TypesInv, TableGrows, Index!Sound
<1> QED
  BY <1>1, SnapshotStutters DEF Text, Outcome, Asked, View, Position, Got

\* On a sound storage every offset that is known leads to a record.
LEMMA SoundOffsets ==
  ASSUME TypesInv, LinesInv, storage = "sound"
  PROVE  /\ \A id \in Ids : idToOffsetMap[id] # Nothing =>
              /\ table[idToOffsetMap[id]] \in Index!Records /\ table[idToOffsetMap[id]][1] = id
              /\ idToOffsetMap[id] \in DOMAIN table
         /\ \A q \in Queries : \A n \in DOMAIN offsets[q] :
              /\ table[offsets[q][n]] \in Index!Records /\ offsets[q][n] \in DOMAIN table
              /\ Index!LineAt(offsets[q][n]) = table[offsets[q][n]]
         /\ \A i \in Inserts : insert[i] # "idle" =>
              currentOffset[i] \in DOMAIN table /\ table[currentOffset[i]] = record[i]
<1>1. outFile = "good"
  BY DEF TypesInv, SoundInv
<1>2. \A offset : IsRecord(offset) =>
         offset \in DOMAIN table /\ Index!LineAt(offset) = table[offset]
                                 /\ table[offset] \in Index!Records
  BY NotRecords DEF IsRecord, Index!LineAt
<1> QED
  BY <1>1, <1>2 DEF LinesInv, WrittenInv, MapInv, IteratorInv, IdAt

LEMMA TextsStay ==
  ASSUME TypesInv, LinesInv, [Index!Next]_indexVars, storage = "sound",
         idToOffsetMap' = idToOffsetMap, NEW id \in Ids
  PROVE  Text(id)' = Text(id)
<1>1. storage' = storage /\ \A offset \in DOMAIN table : table'[offset] = table[offset]
  BY TableStep DEF TypesInv, TableGrows
<1> QED
  BY <1>1, SoundOffsets DEF Text, Index!Sound

\* What SnapshotIndex sees of a query that a step does not touch.
Same(q) == /\ Asked(q)' = Asked(q) /\ View(q)' = View(q)
           /\ Position(q)' = Position(q) /\ Got(q)' = Got(q)

LEMMA QueryStays ==
  ASSUME TypesInv, LinesInv, [Index!Next]_indexVars, storage = "sound", NEW q \in Queries,
         query'[q] \in {"idle", "scanning"} <=> query[q] \in {"idle", "scanning"},
         asked'[q] = asked[q], offsets'[q] = offsets[q],
         currentIndex'[q] = currentIndex[q], returned'[q] = returned[q]
  PROVE  Same(q)
<1>1. storage' = storage /\ \A offset \in DOMAIN table : table'[offset] = table[offset]
  BY TableStep DEF TypesInv, TableGrows
<1>2. \A n \in DOMAIN offsets[q] : table'[offsets[q][n]] = table[offsets[q][n]]
  BY <1>1, SoundOffsets
<1> QED
  BY <1>1, <1>2 DEF Same, Asked, View, Position, Got, Index!Sound, Index!AsSize, Index!Sizes

LEMMA PublishIsPut ==
  ASSUME TypesInv, LinesInv, [Index!Next]_indexVars, storage = "sound",
         NEW i \in Inserts, Index!PublishRecord(i)
  PROVE  Index!Abstract!Put(i)
<1>1. /\ insert[i] = "publishing" /\ insert' = [insert EXCEPT ![i] = "done"]
      /\ idToOffsetMap' = [idToOffsetMap EXCEPT ![record[i][1]] = currentOffset[i]]
      /\ UNCHANGED <<storage, table, query, asked, offsets, currentIndex, returned>>
  BY DEF Index!PublishRecord, Index!tableVars, Index!queryVars
<1>2. PICK id \in Ids : id = record[i][1]
  BY <1>1, NotRecords DEF TypesInv, CallsInv
<1>3. /\ table[currentOffset[i]][2] = i
      /\ currentOffset[i] # Nothing /\ currentOffset[i] \in DOMAIN table
  <2>1. /\ currentOffset[i] \in DOMAIN table /\ table[currentOffset[i]] = record[i]
        /\ record[i][2] = i
    BY <1>1, SoundOffsets DEF TypesInv, CallsInv
  <2>2. DOMAIN table = 1 .. Len(table)
    BY LenProperties DEF TypesInv, Index!TypeOK
  <2> QED
    BY <2>1, <2>2, IdsAssumption
<1>4. \A k \in Ids : Text(k)' = IF k = id THEN i ELSE Text(k)
  BY <1>1, <1>2, <1>3 DEF Text, Index!Sound, TypesInv, Index!TypeOK
<1>5. /\ Outcome(i) = "pending"
      /\ \A j \in Inserts : Outcome(j)' = IF j = i THEN "stored" ELSE Outcome(j)
  BY <1>1 DEF Outcome, Index!Sound, TypesInv, Index!TypeOK
<1>6. \A q \in Queries : Same(q)
  BY <1>1, QueryStays
<1> DEFINE store == [k \in Ids |-> Text(k)]
           outcome == [j \in Inserts |-> Outcome(j)]
<1>7. \E k \in Ids : store' = [store EXCEPT ![k] = i]
  BY <1>4
<1>8. outcome[i] = "pending" /\ outcome' = [outcome EXCEPT ![i] = "stored"]
  BY <1>5
<1> DEFINE askd == [q \in Queries |-> Asked(q)]
           view == [q \in Queries |-> View(q)]
           position == [q \in Queries |-> Position(q)]
           got == [q \in Queries |-> Got(q)]
<1>9. UNCHANGED <<askd, view, position, got>>
  BY <1>6 DEF Same
<1> QED
  BY <1>7, <1>8, <1>9, Zenon
     DEF Index!Abstract!Put, Text, Outcome, Asked, View, Position, Got

LEMMA CallQueryIsAsk ==
  ASSUME TypesInv, LinesInv, [Index!Next]_indexVars, storage = "sound",
         NEW q \in Queries, Index!CallQuery(q)
  PROVE  Index!Abstract!Ask(q)
<1>1. /\ query[q] = "idle" /\ query' = [query EXCEPT ![q] = "scanning"]
      /\ UNCHANGED <<storage, table, idToOffsetMap, insert, offsets, currentIndex, returned>>
  BY DEF Index!CallQuery, Index!tableVars, Index!insertVars
<1>2. PICK minId \in Ids \cup {0}, limit \in Limits :
        asked' = [asked EXCEPT ![q] = <<minId, limit>>]
  BY DEF Index!CallQuery
<1>3. asked[q] = <<>> /\ asked'[q] = <<minId, limit>>
  BY <1>1, <1>2 DEF TypesInv, CallsInv, Index!TypeOK
<1>4. \A p \in Queries \ {q} : Same(p)
  BY <1>1, <1>2, QueryStays DEF TypesInv, Index!TypeOK
<1>5. /\ Asked(q) = <<>> /\ View(q) = Nothing /\ View(q)' = Nothing
      /\ Asked(q)' = <<minId, Index!AsSize(limit)>>
      /\ Position(q)' = Position(q) /\ Got(q)' = Got(q)
  BY <1>1, <1>3 DEF Asked, View, Position, Got, Index!Sound, TypesInv, Index!TypeOK,
                    Index!AsSize, Index!Sizes
<1> DEFINE store == [k \in Ids |-> Text(k)]
           outcome == [j \in Inserts |-> Outcome(j)]
           askd == [p \in Queries |-> Asked(p)]
           view == [p \in Queries |-> View(p)]
           position == [p \in Queries |-> Position(p)]
           got == [p \in Queries |-> Got(p)]
<1>6. UNCHANGED <<store, outcome>>
  BY <1>1, TextsStay DEF Outcome, Index!Sound
<1>7. UNCHANGED <<view, position, got>>
  BY <1>4, <1>5 DEF Same
<1>8. askd[q] = <<>> /\ view[q] = Nothing
      /\ askd' = [askd EXCEPT ![q] = <<minId, Index!AsSize(limit)>>]
  BY <1>4, <1>5 DEF Same
<1>9. \E m \in Ids \cup {0}, l \in {Index!AsSize(k) : k \in Limits} :
        askd' = [askd EXCEPT ![q] = <<m, l>>]
  <2>1. Index!AsSize(limit) \in {Index!AsSize(k) : k \in Limits}
    OBVIOUS
  <2> QED
    BY <1>8, <2>1
<1> QED
  BY <1>6, <1>7, <1>8, <1>9, Zenon
     DEF Index!Abstract!Ask, Text, Outcome, Asked, View, Position, Got

\* The walk through the map selects what it should, from one instant's records.
LEMMA ScanSelects ==
  ASSUME TypesInv, LinesInv, storage = "sound", NEW q \in Queries, query[q] = "scanning",
         NEW ids \in Index!Collected(asked[q][1], asked[q][2])
  PROVE  ids \in Index!Abstract!Select(asked[q][1], Index!AsSize(asked[q][2]))
<1> DEFINE minId == asked[q][1]
           limit == Index!AsSize(asked[q][2])
           present == {id \in Ids : id > minId /\ Text(id) # Nothing}
<1>1. Present(minId) = present
  <2>1. ASSUME NEW id \in Ids PROVE idToOffsetMap[id] # Nothing <=> Text(id) # Nothing
    BY SoundOffsets, NotRecords, NothingAssumption DEF Text, Index!Sound
  <2> QED
    BY <2>1 DEF Present
<1>2. /\ ids \in [1 .. Len(ids) -> present] /\ DOMAIN ids = 1 .. Len(ids)
      /\ Len(ids) \in 0 .. Cardinality(present)
      /\ Len(ids) = 0 \/ Len(ids) <= limit
      /\ \A m, n \in DOMAIN ids : m < n => ids[m] < ids[n]
      /\ \A id \in present \ Range(ids) :
           Len(ids) >= limit /\ \A n \in DOMAIN ids : ids[n] < id
  BY <1>1, CollectedWalk DEF TypesInv
<1>3. ids \in UNION {[1 .. n -> present] : n \in 0 .. Cardinality(present)}
  BY <1>2
<1>4. /\ present = {id \in Ids :
                      /\ id > minId
                      /\ [k \in Ids |-> IF Index!Sound /\ idToOffsetMap[k] # Nothing
                                        THEN table[idToOffsetMap[k]][2] ELSE Nothing][id] # Nothing}
      /\ Cardinality(present) = Index!Abstract!Cardinality(present)
  BY DEF Text, Index!Abstract!Cardinality, Cardinality
<1> HIDE DEF present, minId, limit
<1> QED
  BY <1>2, <1>3, <1>4
     DEF Index!Abstract!Select, Index!Abstract!Range, Range, minId, limit

LEMMA ScanIsLook ==
  ASSUME TypesInv, LinesInv, [Index!Next]_indexVars, storage = "sound",
         NEW q \in Queries, Index!Scan(q)
  PROVE  Index!Abstract!Look(q)
<1>1. /\ query[q] = "scanning" /\ query' = [query EXCEPT ![q] = "opening"]
      /\ UNCHANGED <<storage, table, idToOffsetMap, insert, asked, currentIndex, returned>>
  BY DEF Index!Scan, Index!tableVars, Index!insertVars
<1>2. PICK ids \in Index!Collected(asked[q][1], asked[q][2]) :
        offsets' = [offsets EXCEPT ![q] = [n \in DOMAIN ids |-> idToOffsetMap[ids[n]]]]
  BY DEF Index!Scan
<1>3. \A p \in Queries \ {q} : Same(p)
  BY <1>1, <1>2, QueryStays DEF TypesInv, Index!TypeOK
<1>4. \A n \in DOMAIN ids : ids[n] \in Ids /\ idToOffsetMap[ids[n]] # Nothing
  BY <1>1, CollectedWalk DEF Present, TypesInv
<1>5. View(q) = Nothing /\ View(q)' = [n \in DOMAIN ids |-> <<ids[n], Text(ids[n])>>]
  <2>1. View(q)' = [n \in DOMAIN ids |-> table[idToOffsetMap[ids[n]]]]
    BY <1>1, <1>2 DEF View, Index!Sound, TypesInv, Index!TypeOK
  <2>2. ASSUME NEW n \in DOMAIN ids
        PROVE  table[idToOffsetMap[ids[n]]] = <<ids[n], Text(ids[n])>>
    BY <1>4, SoundOffsets, NotRecords DEF Text, Index!Sound
  <2> QED
    BY <1>1, <2>1, <2>2 DEF View
<1>6. /\ asked[q] \in (Ids \cup {0}) \X Limits
      /\ Asked(q) = <<asked[q][1], Index!AsSize(asked[q][2])>> /\ Asked(q) # <<>>
      /\ Asked(q)' = Asked(q) /\ Position(q)' = Position(q) /\ Got(q)' = Got(q)
  <2>1. asked[q] \in (Ids \cup {0}) \X Limits /\ asked[q] # <<>>
    BY <1>1 DEF TypesInv, CallsInv
  <2> QED
    BY <1>1, <2>1 DEF Asked, Position, Got, Index!Sound, Index!AsSize, Index!Sizes
<1>7. ids \in Index!Abstract!Select(Asked(q)[1], Asked(q)[2])
  BY <1>1, <1>6, ScanSelects
<1> DEFINE store == [k \in Ids |-> Text(k)]
           outcome == [j \in Inserts |-> Outcome(j)]
           askd == [p \in Queries |-> Asked(p)]
           view == [p \in Queries |-> View(p)]
           position == [p \in Queries |-> Position(p)]
           got == [p \in Queries |-> Got(p)]
<1>8. UNCHANGED <<store, outcome>>
  BY <1>1, TextsStay DEF Outcome, Index!Sound
<1>9. UNCHANGED <<askd, position, got>>
  BY <1>3, <1>6 DEF Same
<1>10. askd[q] # <<>> /\ view[q] = Nothing
  BY <1>5, <1>6
<1>11. \E ns \in Index!Abstract!Select(askd[q][1], askd[q][2]) :
         view' = [view EXCEPT ![q] = [n \in DOMAIN ns |-> <<ns[n], store[ns[n]]>>]]
  <2>1. [n \in DOMAIN ids |-> <<ids[n], Text(ids[n])>>]
          = [n \in DOMAIN ids |-> <<ids[n], store[ids[n]]>>]
    BY <1>4
  <2>2. view' = [view EXCEPT ![q] = [n \in DOMAIN ids |-> <<ids[n], store[ids[n]]>>]]
    BY <1>3, <1>5, <2>1 DEF Same
  <2>3. askd[q] = Asked(q)
    OBVIOUS
  <2> QED
    BY <1>7, <2>2, <2>3
<1> QED
  BY <1>8, <1>9, <1>10, <1>11, Zenon
     DEF Index!Abstract!Look, Text, Outcome, Asked, View, Position, Got

LEMMA NextIsAdvance ==
  ASSUME TypesInv, LinesInv, [Index!Next]_indexVars, storage = "sound",
         NEW q \in Queries, Index!NextRecord(q)
  PROVE  Index!Abstract!Advance(q)
<1> DEFINE k == currentIndex[q] + 1
<1>1. /\ query[q] = "iterating" /\ currentIndex[q] < Len(offsets[q])
      /\ currentIndex' = [currentIndex EXCEPT ![q] = k]
      /\ UNCHANGED <<storage, table, idToOffsetMap, insert, query, asked, offsets>>
  BY DEF Index!NextRecord, Index!HasNext, Index!tableVars, Index!insertVars
<1>2. /\ currentIndex[q] \in Nat /\ Len(offsets[q]) \in Nat
      /\ DOMAIN offsets[q] = 1 .. Len(offsets[q])
  BY LenProperties DEF TypesInv, Index!TypeOK
<1>3. k \in DOMAIN offsets[q]
  BY <1>1, <1>2
<1>4. returned' = [returned EXCEPT ![q] = Append(returned[q], table[offsets[q][k]])]
  <2>1. /\ table[offsets[q][k]] \in Index!Records
        /\ Index!LineAt(offsets[q][k]) = table[offsets[q][k]]
    BY <1>3, SoundOffsets
  <2>2. inFile[q] = "good"
    BY DEF LinesInv, ReaderInv
  <2>3. Index!ReadSucceeds(q, Index!LineAt(offsets[q][k]))
        \/ Index!ReadFails(q, Index!LineAt(offsets[q][k]))
    BY DEF Index!NextRecord
  <2> HIDE DEF k
  <2>4. ~Index!ReadFails(q, Index!LineAt(offsets[q][k]))
    BY <2>1, <2>2, NotRecords DEF Index!ReadFails
  <2> QED
    BY <2>1, <2>3, <2>4 DEF Index!ReadSucceeds
<1>5. View(q) \in Seq(Index!Records) /\ Len(View(q)) = Len(offsets[q])
      /\ View(q)[k] = table[offsets[q][k]] /\ View(q) # Nothing
  <2>1. View(q) = [n \in 1 .. Len(offsets[q]) |-> table[offsets[q][n]]]
    BY <1>1, <1>2 DEF View, Index!Sound
  <2>2. View(q) \in [1 .. Len(offsets[q]) -> Index!Records]
    BY <1>2, <2>1, SoundOffsets
  <2>3. View(q) \in Seq(Index!Records) /\ Len(View(q)) = Len(offsets[q])
    BY <1>2, <2>2, ArrayIsSequence
  <2> QED
    BY <1>2, <1>3, <2>1, <2>3, NothingAssumption
<1> HIDE DEF k
<1> DEFINE store == [j \in Ids |-> Text(j)]
           outcome == [j \in Inserts |-> Outcome(j)]
           askd == [p \in Queries |-> Asked(p)]
           view == [p \in Queries |-> View(p)]
           position == [p \in Queries |-> Position(p)]
           got == [p \in Queries |-> Got(p)]
<1>6. UNCHANGED <<store, outcome, askd, view>>
  <2>1. /\ \A j \in Ids : Text(j)' = Text(j)
        /\ \A j \in Inserts : Outcome(j)' = Outcome(j)
        /\ \A p \in Queries : Asked(p)' = Asked(p) /\ View(p)' = View(p)
    BY <1>1 DEF Text, Outcome, Asked, View, Index!Sound, Index!AsSize, Index!Sizes
  <2> QED
    BY <2>1
<1>7. /\ position[q] = currentIndex[q] /\ view[q] # Nothing /\ position[q] < Len(view[q])
      /\ position' = [position EXCEPT ![q] = position[q] + 1]
  <2>1. position = currentIndex /\ position' = currentIndex'
    BY <1>1 DEF Position, Index!Sound, TypesInv, Index!TypeOK
  <2> QED
    BY <1>1, <1>5, <2>1 DEF k
<1>8. got' = [got EXCEPT ![q] = Append(got[q], view[q][position[q] + 1])]
  <2>1. got = returned /\ got' = returned'
    BY <1>1, <1>4 DEF Got, Index!Sound, TypesInv, Index!TypeOK
  <2> QED
    BY <1>4, <1>5, <1>7, <2>1 DEF k
<1> QED
  BY <1>6, <1>7, <1>8, Zenon
     DEF Index!Abstract!Advance, Text, Outcome, Asked, View, Position, Got

\* Each step of the index is one of SnapshotIndex, or none.
LEMMA SnapshotStep ==
  ASSUME TypesInv, LinesInv, [Index!Next]_indexVars
  PROVE  [Index!Abstract!Next]_(Index!Abstract!vars)
<1> USE DEF Index!tableVars, Index!insertVars, Index!queryVars
<1> SUFFICES ASSUME storage = "sound" PROVE [Index!Abstract!Next]_(Index!Abstract!vars)
  BY FailingStutters
<1>1. storage' = storage
  BY TableStep DEF TypesInv, TableGrows
<1>2. ASSUME UNCHANGED <<idToOffsetMap, asked, offsets, currentIndex, returned>>,
             \A i \in Inserts : insert'[i] = "done" <=> insert[i] = "done",
             \A q \in Queries :
               query'[q] \in {"idle", "scanning"} <=> query[q] \in {"idle", "scanning"}
      PROVE  UNCHANGED Index!Abstract!vars
  <2>1. \A id \in Ids : Text(id)' = Text(id)
    BY <1>2, TextsStay
  <2>2. \A i \in Inserts : Outcome(i)' = Outcome(i)
    BY <1>1, <1>2 DEF Outcome, Index!Sound
  <2>3. \A q \in Queries : Same(q)
    BY <1>2, QueryStays
  <2> QED
    BY <2>1, <2>2, <2>3, SnapshotStutters DEF Same
<1>3. ASSUME NEW i \in Inserts, Index!WriteRecord(i) PROVE UNCHANGED Index!Abstract!vars
  BY <1>2, <1>3 DEF Index!WriteRecord, TypesInv, Index!TypeOK
<1>4. ASSUME NEW q \in Queries, Index!OpenIterator(q) PROVE UNCHANGED Index!Abstract!vars
  BY <1>2, <1>4 DEF Index!OpenIterator, TypesInv, Index!TypeOK
<1>5. CASE UNCHANGED indexVars
  BY <1>2, <1>5 DEF indexVars
<1>6. ASSUME NEW i \in Inserts, Index!PublishRecord(i)
      PROVE  [Index!Abstract!Next]_(Index!Abstract!vars)
  BY <1>6, PublishIsPut DEF Index!Abstract!Next
<1>7. ASSUME NEW q \in Queries, Index!CallQuery(q) \/ Index!Scan(q) \/ Index!NextRecord(q)
      PROVE  [Index!Abstract!Next]_(Index!Abstract!vars)
  BY <1>7, CallQueryIsAsk, ScanIsLook, NextIsAdvance DEF Index!Abstract!Next
<1> QED
  BY <1>3, <1>4, <1>5, <1>6, <1>7 DEF Index!Next

\* On a sound storage the first version of the index behaves as SnapshotIndex
\* says, for any number of inserts, queries and ids, though it takes its two
\* locks one after the other and reads the file without one; a negative limit
\* counts as none at all (index_and_iterator.cpp).
THEOREM FirstIndexImplementsSnapshot == Spec => AppendImplementsSnapshotIndex
<1>1. Init => Index!Abstract!Init
  <2> SUFFICES ASSUME Index!Init PROVE Index!Abstract!Init
    BY DEF Init
  <2>1. /\ \A id \in Ids : Text(id) = Nothing
        /\ \A i \in Inserts : Outcome(i) = "pending"
        /\ \A q \in Queries : /\ Asked(q) = <<>> /\ View(q) = Nothing
                              /\ Position(q) = 0 /\ Got(q) = <<>>
    BY DEF Index!Init, Text, Outcome, Asked, View, Position, Got
  <2> QED
    BY <2>1 DEF Index!Abstract!Init, Text, Outcome, Asked, View, Position, Got
<1>2. TypesInv /\ LinesInv /\ [Next]_vars => [Index!Abstract!Next]_(Index!Abstract!vars)
  BY OneProgramRuns, SnapshotStep
<1> QED
  BY <1>1, <1>2, IndexInvariant, PTL
     DEF Spec, AppendImplementsSnapshotIndex, Index!ImplementsSnapshotIndex,
         Index!Abstract!SafeSpec

-----------------------------------------------------------------------------
(* The semaphore *)

Working == {w \in Workers : work[w] = "working"}
Unfinished == {w \in Workers : work[w] \in {"started", "parked", "working", "released"}}

SemTypes ==
  /\ work \in [Workers -> {"unborn", "started", "parked", "working", "released", "ended"}]
  /\ sem \in {"starting", "waiting", "ended"}

\* The channel holds one element per worker at work, and is full when anybody is
\* parked; the wait group counts those who have started and not ended.
SemInv ==
  /\ SemTypes
  /\ tokens = Cardinality(Working) /\ tokens <= N
  /\ unfinished = Cardinality(Unfinished)
  /\ (\E w \in Workers : work[w] = "parked") => tokens = N
  /\ sem # "starting" => \A w \in Workers : work[w] # "unborn"
  /\ sem = "ended" => \A w \in Workers : work[w] = "ended"

LEMMA WorkersCount ==
  /\ IsFiniteSet(Working) /\ Cardinality(Working) \in Nat
  /\ IsFiniteSet(Unfinished) /\ Cardinality(Unfinished) \in Nat
<1>1. Working \in SUBSET Workers /\ Unfinished \in SUBSET Workers
  BY DEF Working, Unfinished
<1> QED
  BY <1>1, WorkersAssumption, FS_Subset, FS_CardinalityType

LEMMA SemStep ==
  ASSUME SemInv, [Sem!Next]_semVars
  PROVE  SemInv'
<1> USE WorkersAssumption
<1>1. ASSUME NEW w \in Workers, Sem!StartWorker(w) PROVE SemInv'
  <2>1. /\ sem = "starting" /\ work[w] = "unborn"
        /\ work' = [work EXCEPT ![w] = "started"]
        /\ unfinished' = unfinished + 1 /\ UNCHANGED <<tokens, sem>>
    BY <1>1 DEF Sem!StartWorker
  <2>2. /\ Working' = Working
        /\ Unfinished' = Unfinished \cup {w} /\ w \notin Unfinished
    BY <2>1 DEF SemInv, SemTypes, Working, Unfinished
  <2>3. Cardinality(Unfinished') = Cardinality(Unfinished) + 1
    BY <2>2, WorkersCount, FS_AddElement
  <2> QED
    BY <2>1, <2>2, <2>3 DEF SemInv, SemTypes
<1>2. ASSUME NEW w \in Workers, Sem!Acquire(w) PROVE SemInv'
  <2>1. work[w] = "started" /\ UNCHANGED <<unfinished, sem>>
    BY <1>2 DEF Sem!Acquire
  <2>2. CASE tokens < N /\ tokens' = tokens + 1 /\ work' = [work EXCEPT ![w] = "working"]
    <3>1. /\ Working' = Working \cup {w} /\ w \notin Working
          /\ Unfinished' = Unfinished
      BY <2>1, <2>2 DEF SemInv, SemTypes, Working, Unfinished
    <3>2. Cardinality(Working') = Cardinality(Working) + 1
      BY <3>1, WorkersCount, FS_AddElement
    <3>3. tokens \in Nat /\ \A v \in Workers : work'[v] # "parked"
      BY <2>1, <2>2, WorkersCount DEF SemInv, SemTypes
    <3> QED
      BY <2>1, <2>2, <3>1, <3>2, <3>3 DEF SemInv, SemTypes
  <2>3. CASE tokens = N /\ UNCHANGED tokens /\ work' = [work EXCEPT ![w] = "parked"]
    <3>1. Working' = Working /\ Unfinished' = Unfinished
      BY <2>1, <2>3 DEF SemInv, SemTypes, Working, Unfinished
    <3> QED
      BY <2>1, <2>3, <3>1 DEF SemInv, SemTypes
  <2> QED
    BY <1>2, <2>2, <2>3 DEF Sem!Acquire
<1>3. ASSUME NEW w \in Workers, Sem!Release(w) PROVE SemInv'
  <2>1. work[w] = "working" /\ UNCHANGED <<unfinished, sem>>
    BY <1>3 DEF Sem!Release
  <2>2. ASSUME NEW v \in Workers, work[v] = "parked", UNCHANGED tokens,
               work' = [work EXCEPT ![w] = "released", ![v] = "working"]
        PROVE  SemInv'
    <3>1. /\ Working' = (Working \ {w}) \cup {v} /\ w \in Working /\ v \notin Working \ {w}
          /\ Unfinished' = Unfinished
      BY <2>1, <2>2 DEF SemInv, SemTypes, Working, Unfinished
    <3>2. IsFiniteSet(Working \ {w}) /\ Cardinality(Working \ {w}) = Cardinality(Working) - 1
      BY <3>1, WorkersCount, FS_RemoveElement
    <3> DEFINE rest == Working \ {w}
    <3>3. Cardinality(rest \cup {v}) = Cardinality(rest) + 1
      BY <3>1, <3>2, FS_AddElement
    <3>4. Cardinality(Working') = Cardinality(Working)
      BY <3>1, <3>2, <3>3, WorkersCount
    <3> QED
      BY <2>1, <2>2, <3>1, <3>4 DEF SemInv, SemTypes
  <2>3. CASE /\ \A v \in Workers : work[v] # "parked"
             /\ work' = [work EXCEPT ![w] = "released"] /\ tokens' = tokens - 1
    <3>1. /\ Working' = Working \ {w} /\ w \in Working /\ Unfinished' = Unfinished
      BY <2>1, <2>3 DEF SemInv, SemTypes, Working, Unfinished
    <3>2. Cardinality(Working') = Cardinality(Working) - 1
      BY <3>1, WorkersCount, FS_RemoveElement
    <3>3. tokens \in Nat /\ \A v \in Workers : work'[v] # "parked"
      BY <2>1, <2>3, WorkersCount DEF SemInv, SemTypes
    <3> QED
      BY <2>1, <2>3, <3>1, <3>2, <3>3 DEF SemInv, SemTypes
  <2> QED
    BY <1>3, <2>2, <2>3 DEF Sem!Release
<1>4. ASSUME NEW w \in Workers, Sem!WorkerEnds(w) PROVE SemInv'
  <2>1. /\ work[w] = "released" /\ work' = [work EXCEPT ![w] = "ended"]
        /\ unfinished' = unfinished - 1 /\ UNCHANGED <<tokens, sem>>
    BY <1>4 DEF Sem!WorkerEnds
  <2>2. /\ Working' = Working
        /\ Unfinished' = Unfinished \ {w} /\ w \in Unfinished
    BY <2>1 DEF SemInv, SemTypes, Working, Unfinished
  <2>3. Cardinality(Unfinished') = Cardinality(Unfinished) - 1
    BY <2>2, WorkersCount, FS_RemoveElement
  <2> QED
    BY <2>1, <2>2, <2>3 DEF SemInv, SemTypes
<1>5. CASE Sem!AllStarted
  BY <1>5 DEF Sem!AllStarted, SemInv, SemTypes, Working, Unfinished
<1>6. CASE Sem!MainEnds
  <2>1. /\ sem = "waiting" /\ unfinished = 0 /\ sem' = "ended"
        /\ UNCHANGED <<tokens, work, unfinished>>
    BY <1>6 DEF Sem!MainEnds
  <2>2. Unfinished = {}
    BY <2>1, WorkersCount, FS_EmptySet DEF SemInv
  <2>3. \A w \in Workers : work[w] = "ended"
    BY <2>1, <2>2 DEF SemInv, SemTypes, Unfinished
  <2> QED
    BY <2>1, <2>3 DEF SemInv, SemTypes, Working, Unfinished
<1>7. CASE UNCHANGED semVars
  BY <1>7 DEF semVars, SemInv, SemTypes, Working, Unfinished
<1> QED
  BY <1>1, <1>2, <1>3, <1>4, <1>5, <1>6, <1>7 DEF Sem!Next

LEMMA SemInvariant == Spec => []SemInv
<1>1. Init => SemInv
  <2> SUFFICES ASSUME Sem!Init PROVE SemInv
    BY DEF Init
  <2>1. Working = {} /\ Unfinished = {}
    BY DEF Sem!Init, Working, Unfinished
  <2> QED
    BY <2>1, WorkersAssumption, FS_EmptySet DEF Sem!Init, SemInv, SemTypes
<1>2. SemInv /\ [Next]_vars => SemInv'
  BY OneProgramRuns, SemStep
<1> QED
  BY <1>1, <1>2, PTL DEF Spec

\* The main of the semaphore program does not end before any of its workers
\* (build-a-semaphore/main.go).
THEOREM SemaphoreMainEndsLast ==
  Spec => [](sem = "ended" => \A w \in Workers : work[w] = "ended")
<1>1. SemInv => (sem = "ended" => \A w \in Workers : work[w] = "ended")
  BY DEF SemInv
<1> QED
  BY <1>1, SemInvariant, PTL

\* What Permits sees of a worker.
Permit(w) == CASE work[w] = "parked" -> "asking"
               [] work[w] = "working" -> "holding"
               [] OTHER -> "away"

LEMMA PermitStep ==
  ASSUME SemInv, [Sem!Next]_semVars
  PROVE  [Sem!P!Next]_([w \in Workers |-> Permit(w)])
<1> DEFINE state == [w \in Workers |-> Permit(w)]
<1> SUFFICES [Sem!P!Next]_state
  OBVIOUS
<1>0. /\ state = [w \in Workers |-> CASE work[w] = "parked" -> "asking"
                                      [] work[w] = "working" -> "holding"
                                      [] OTHER -> "away"]
      /\ Sem!P!Holders = Working
      /\ Sem!P!Cardinality(Working) = Cardinality(Working)
  BY DEF Permit, Working, Sem!P!Holders, Sem!P!Cardinality, Cardinality
<1>1. ASSUME NEW w \in Workers, Sem!StartWorker(w) \/ Sem!WorkerEnds(w) PROVE state' = state
  BY <1>1 DEF Sem!StartWorker, Sem!WorkerEnds, Permit, SemInv, SemTypes
<1>2. ASSUME NEW w \in Workers, Sem!Acquire(w) PROVE Sem!P!Ask(w) \/ Sem!P!Grant(w)
  <2>1. state[w] = "away"
    BY <1>2 DEF Sem!Acquire, Permit
  <2>2. CASE tokens < N /\ work' = [work EXCEPT ![w] = "working"]
    <3>1. state' = [state EXCEPT ![w] = "holding"]
      BY <2>2 DEF Permit, SemInv, SemTypes
    <3>2. Sem!P!Cardinality(Sem!P!Holders) < N
      BY <1>0, <2>2 DEF SemInv
    <3> QED
      BY <2>1, <3>1, <3>2 DEF Sem!P!Grant, Permit
  <2>3. CASE work' = [work EXCEPT ![w] = "parked"]
    <3>1. state' = [state EXCEPT ![w] = "asking"]
      BY <2>3 DEF Permit, SemInv, SemTypes
    <3> QED
      BY <2>1, <3>1 DEF Sem!P!Ask, Permit
  <2> QED
    BY <1>2, <2>2, <2>3 DEF Sem!Acquire
<1>3. ASSUME NEW w \in Workers, Sem!Release(w)
      PROVE  Sem!P!GiveBack(w) \/ \E v \in Workers : Sem!P!HandOver(w, v)
  <2>1. state[w] = "holding"
    BY <1>3 DEF Sem!Release, Permit
  <2>2. ASSUME NEW v \in Workers, work[v] = "parked",
               work' = [work EXCEPT ![w] = "released", ![v] = "working"]
        PROVE  Sem!P!HandOver(w, v)
    <3>1. state[v] = "asking" /\ v # w
      BY <1>3, <2>2 DEF Permit, Sem!Release
    <3>2. state' = [state EXCEPT ![w] = "away", ![v] = "holding"]
      BY <2>2, <3>1 DEF Permit, SemInv, SemTypes
    <3> QED
      BY <2>1, <3>1, <3>2 DEF Sem!P!HandOver, Permit
  <2>3. CASE work' = [work EXCEPT ![w] = "released"]
    <3>1. state' = [state EXCEPT ![w] = "away"]
      BY <2>3 DEF Permit, SemInv, SemTypes
    <3> QED
      BY <2>1, <3>1 DEF Sem!P!GiveBack, Permit
  <2> QED
    BY <1>3, <2>2, <2>3 DEF Sem!Release
<1>4. CASE Sem!AllStarted \/ Sem!MainEnds \/ UNCHANGED semVars
  BY <1>4 DEF Sem!AllStarted, Sem!MainEnds, semVars, Permit
<1> QED
  BY <1>1, <1>2, <1>3, <1>4 DEF Sem!Next, Sem!P!Next

\* Every behaviour of the semaphore is a behaviour of N permits (the safety
\* part of SemaphoreImplementsPermits): no more than N workers work at once.
THEOREM SemaphoreHandsOutPermits == Spec => Sem!P!SafeSpec
<1>1. Init => Sem!P!Init
  BY DEF Init, Sem!Init, Sem!P!Init
<1>2. SemInv /\ [Next]_vars => [Sem!P!Next]_([w \in Workers |-> Permit(w)])
  BY OneProgramRuns, PermitStep
<1> QED
  BY <1>1, <1>2, SemInvariant, PTL DEF Spec, Sem!P!SafeSpec, Permit

-----------------------------------------------------------------------------
(* The graceful shutdown *)

\* The wait group counts the worker until its cleanup is over.
ShutdownInv ==
  /\ worker \in {"selecting", "cleaning", "returned"}
  /\ undone = IF worker = "returned" THEN 0 ELSE 1
  /\ exit = "exited" => worker = "returned"

\* However often it is interrupted, main does not exit before the worker's
\* cleanup is over (graceful-shutdown-with-context/main.go; the safety part of
\* CleansUpAndExits).
THEOREM ShutdownCleansUpFirst == Spec => [](exit = "exited" => worker = "returned")
<1>1. Init => ShutdownInv
  BY DEF Init, Shutdown!Init, ShutdownInv
<1>2. ShutdownInv /\ [Next]_vars => ShutdownInv'
  <2> SUFFICES ASSUME ShutdownInv, [Shutdown!Next]_shutdownVars PROVE ShutdownInv'
    BY OneProgramRuns
  <2> QED
    BY DEF ShutdownInv, shutdownVars, Shutdown!Next, Shutdown!Interrupt, Shutdown!Tick,
           Shutdown!DoWork, Shutdown!StartCleanup, Shutdown!FinishCleanup, Shutdown!MainExits
<1>3. ShutdownInv => (exit = "exited" => worker = "returned")
  BY DEF ShutdownInv
<1> QED
  BY <1>1, <1>2, <1>3, PTL DEF Spec

-----------------------------------------------------------------------------
(* The pipeline *)

\* How often x is in s.
Count(s, x) == Pipe!Cardinality({i \in DOMAIN s : s[i] = x})

LEMMA SameBag ==
  ASSUME NEW s, NEW t, \A x : x \in Pipe!Range(s) <=> x \in Pipe!Range(t),
         \A x : Count(s, x) = Count(t, x)
  PROVE  Pipe!ToBag(s) = Pipe!ToBag(t)
<1>1. /\ Pipe!ToBag(s) = [x \in Pipe!Range(s) |-> Count(s, x)]
      /\ Pipe!ToBag(t) = [x \in Pipe!Range(t) |-> Count(t, x)]
  BY DEF Pipe!ToBag, Count
<1> QED
  BY <1>1

LEMMA InRange == \A s, x : x \in Pipe!Range(s) <=> \E i \in DOMAIN s : s[i] = x
BY DEF Pipe!Range

\* Two sequences that are rearrangements of each other are the same bag.
Rearranges(f, s, t) ==
  /\ f \in [DOMAIN s -> DOMAIN t]
  /\ \A i, j \in DOMAIN s : f[i] = f[j] => i = j
  /\ \A k \in DOMAIN t : \E i \in DOMAIN s : f[i] = k
  /\ \A i \in DOMAIN s : s[i] = t[f[i]]

LEMMA Rearranged ==
  ASSUME NEW f, NEW s, NEW t, IsFiniteSet(DOMAIN s), Rearranges(f, s, t)
  PROVE  Pipe!ToBag(s) = Pipe!ToBag(t)
<1> USE DEF Rearranges
<1>1. \A x : x \in Pipe!Range(s) <=> x \in Pipe!Range(t)
  BY InRange
<1>2. ASSUME NEW x PROVE Count(s, x) = Count(t, x)
  <2> DEFINE from == {i \in DOMAIN s : s[i] = x}
             to == {k \in DOMAIN t : t[k] = x}
             g == [i \in from |-> f[i]]
  <2>1. IsFiniteSet(from)
    <3>1. from \subseteq DOMAIN s
      OBVIOUS
    <3> QED
      BY <3>1, FS_Subset
  <2>2. g \in Bijection(from, to)
    <3>1. g \in [from -> to]
      OBVIOUS
    <3>2. \A i, j \in from : g[i] = g[j] => i = j
      OBVIOUS
    <3>3. \A k \in to : \E i \in from : g[i] = k
      OBVIOUS
    <3> HIDE DEF from, to, g
    <3> QED
      BY <3>1, <3>2, <3>3 DEF Bijection, Injection, Surjection, IsInjective
  <2>3. Cardinality(from) = Cardinality(to)
    <3> HIDE DEF from, to, g
    <3> QED
      BY <2>1, <2>2, FS_Bijection DEF ExistsBijection
  <2> QED
    BY <2>3 DEF Count, Pipe!Cardinality, Cardinality
<1> QED
  BY <1>1, <1>2, SameBag

PipeTypes ==
  /\ next \in 1 .. Numbers + 1
  /\ val \in [Pipe!Processors -> Nat]
  /\ processor \in [Pipe!Processors -> {"receiving", "sending", "sleeping", "ended"}]
  /\ printed \in Seq(Nat)

\* The wait group counts the processors that have not ended.
Running(p) == IF processor[p] = "ended" THEN 0 ELSE 1

\* The channels are closed one after the other, each after its last send.
ClosingInv ==
  /\ running = Running("processor1") + Running("processor2")
  /\ inputClosed => next = Numbers + 1
  /\ (\E p \in Pipe!Processors : processor[p] = "ended") => inputClosed
  /\ outputClosed => \A p \in Pipe!Processors : processor[p] = "ended"
  /\ pipe = "ended" => outputClosed

\* The numbers on their way from the generator to main.
InFlight == {val[p] : p \in {q \in Pipe!Processors : processor[q] = "sending"}}

\* The numbers that have been sent and are not on their way.
Arrived == (1 .. next - 1) \ InFlight

\* What is printed at i is what the processor share[n] made of n = number[i]:
\* each number the generator has sent is on its way or printed, once.
Printed(share, number) ==
  /\ \A i, j \in 1 .. Len(printed) : number[i] = number[j] => i = j
  /\ \A i \in 1 .. Len(printed) :
       /\ number[i] \in Arrived
       /\ printed[i] = Pipe!Result(share[number[i]], number[i])
  /\ \A n \in Arrived : \E i \in 1 .. Len(printed) : number[i] = n

PrintedInv ==
  /\ InFlight \subseteq 1 .. next - 1
  /\ \A p, q \in Pipe!Processors :
       processor[p] = "sending" /\ processor[q] = "sending" /\ val[p] = val[q] => p = q
  /\ \E share \in [1 .. Numbers -> Pipe!Processors],
        number \in [1 .. Len(printed) -> 1 .. Numbers] : Printed(share, number)

PipeInv == PipeTypes /\ ClosingInv /\ PrintedInv

\* The actions other than GiveNumber and PrintResult send nothing.
LEMMA PrintedStays ==
  ASSUME PipeInv, UNCHANGED <<next, val, printed>>,
         \A p \in Pipe!Processors : processor'[p] = "sending" <=> processor[p] = "sending"
  PROVE  PrintedInv'
<1>1. InFlight' = InFlight
  BY DEF InFlight
<1>2. \A share, number : Printed(share, number)' <=> Printed(share, number)
  BY <1>1, Zenon DEF Printed, Arrived
<1>3. \A p, q \in Pipe!Processors :
        processor'[p] = "sending" /\ processor'[q] = "sending" /\ val'[p] = val'[q] => p = q
  BY DEF PipeInv, PrintedInv
<1> QED
  BY <1>1, <1>2, <1>3, Zenon DEF PipeInv, PrintedInv

LEMMA GivenIsInFlight ==
  ASSUME PipeInv, NEW p \in Pipe!Processors, Pipe!GiveNumber(p)
  PROVE  PrintedInv'
<1>1. /\ next <= Numbers /\ processor[p] = "receiving" /\ next' = next + 1
      /\ val' = [val EXCEPT ![p] = next] /\ processor' = [processor EXCEPT ![p] = "sending"]
      /\ UNCHANGED printed /\ next \in Nat \ {0}
      /\ PipeTypes /\ PrintedInv /\ InFlight \subseteq 1 .. next - 1
  <2>1. PipeTypes /\ PrintedInv
    BY DEF PipeInv
  <2>2. next \in Nat \ {0} /\ InFlight \subseteq 1 .. next - 1
    BY <2>1, NumbersAssumption DEF PipeTypes, PrintedInv
  <2> QED
    BY <2>1, <2>2 DEF Pipe!GiveNumber
<1>2. InFlight' = InFlight \cup {next}
  BY <1>1 DEF InFlight, PipeTypes
<1>3. Arrived' = Arrived /\ InFlight' \subseteq 1 .. next' - 1
  BY <1>1, <1>2 DEF Arrived
<1>4. \A q, r \in Pipe!Processors :
        processor'[q] = "sending" /\ processor'[r] = "sending" /\ val'[q] = val'[r] => q = r
  <2>1. \A q \in Pipe!Processors \ {p} : processor'[q] = "sending" =>
          processor[q] = "sending" /\ val'[q] = val[q] /\ val[q] \in InFlight
    BY <1>1 DEF PipeTypes, InFlight
  <2>2. val'[p] = next /\ next \notin InFlight
    BY <1>1 DEF PipeTypes
  <2> QED
    BY <1>1, <2>1, <2>2 DEF PrintedInv
<1>5. \A share, number : Printed(share, number) => Printed(share, number)'
  BY <1>1, <1>3, Zenon DEF Printed
<1> QED
  BY <1>1, <1>3, <1>4, <1>5, Zenon DEF PrintedInv

LEMMA PrintedArrives ==
  ASSUME PipeInv, NEW p \in Pipe!Processors, Pipe!PrintResult(p)
  PROVE  PrintedInv'
<1>0. PICK n, k : n = val[p] /\ k = Len(printed)
  OBVIOUS
<1>1. /\ processor[p] = "sending" /\ printed' = Append(printed, Pipe!Result(p, n))
      /\ processor' = [processor EXCEPT ![p] = "sleeping"]
      /\ UNCHANGED <<next, val>>
      /\ PipeTypes /\ PrintedInv /\ k \in Nat
      /\ InFlight \subseteq 1 .. next - 1 /\ next - 1 \in 0 .. Numbers
  <2>1. PipeTypes /\ PrintedInv
    BY DEF PipeInv
  <2>2. k \in Nat /\ InFlight \subseteq 1 .. next - 1 /\ next - 1 \in 0 .. Numbers
    BY <1>0, <2>1, NumbersAssumption DEF PipeTypes, PrintedInv
  <2> QED
    BY <1>0, <2>1, <2>2 DEF Pipe!PrintResult
<1>2. n \in InFlight /\ n \in 1 .. Numbers
  BY <1>0, <1>1, NumbersAssumption DEF InFlight
<1>3. InFlight' = InFlight \ {n}
  BY <1>0, <1>1 DEF InFlight, PipeTypes, PrintedInv
<1>4. Arrived' = Arrived \cup {n} /\ n \notin Arrived /\ InFlight' \subseteq 1 .. next' - 1
  BY <1>1, <1>2, <1>3 DEF Arrived
<1>5. \A q, r \in Pipe!Processors :
        processor'[q] = "sending" /\ processor'[r] = "sending" /\ val'[q] = val'[r] => q = r
  BY <1>1 DEF PipeTypes, PrintedInv
<1>6. PICK share \in [1 .. Numbers -> Pipe!Processors],
           number \in [1 .. k -> 1 .. Numbers] : Printed(share, number)
  BY <1>0, <1>1 DEF PrintedInv
<1> DEFINE share2 == [share EXCEPT ![n] = p]
           number2 == [i \in 1 .. k + 1 |-> IF i = k + 1 THEN n ELSE number[i]]
<1>7. Len(printed') = k + 1 /\ printed'[k + 1] = Pipe!Result(p, n)
  BY <1>0, <1>1 DEF PipeTypes
<1>8. \A i \in 1 .. k : printed'[i] = printed[i]
  BY <1>0, <1>1 DEF PipeTypes
<1>9. /\ \A i, j \in 1 .. k : number[i] = number[j] => i = j
      /\ \A i \in 1 .. k : number[i] \in Arrived /\ printed[i] = Pipe!Result(share[number[i]], number[i])
      /\ \A a \in Arrived : \E i \in 1 .. k : number[i] = a
  BY <1>0, <1>6, Zenon DEF Printed
<1>10. share2 \in [1 .. Numbers -> Pipe!Processors] /\ number2 \in [1 .. k + 1 -> 1 .. Numbers]
  BY <1>1, <1>2
<1>11. number2[k + 1] = n /\ share2[n] = p /\ \A i \in 1 .. k : number2[i] = number[i]
  BY <1>1, <1>2
<1>12. \A i \in 1 .. k : share2[number[i]] = share[number[i]]
  BY <1>4, <1>9
<1>13. \A i \in 1 .. k + 1 : i \in 1 .. k \/ i = k + 1
  BY <1>1
<1>14. Printed(share2, number2)'
  <2> HIDE DEF share2, number2
  <2>1. \A i, j \in 1 .. k + 1 : number2[i] = number2[j] => i = j
    BY <1>4, <1>9, <1>11, <1>13
  <2>2. \A i \in 1 .. k + 1 : /\ number2[i] \in Arrived'
                              /\ printed'[i] = Pipe!Result(share2[number2[i]], number2[i])
    BY <1>4, <1>7, <1>8, <1>9, <1>11, <1>12, <1>13
  <2>3. \A a \in Arrived' : \E i \in 1 .. k + 1 : number2[i] = a
    <3>1. k + 1 \in 1 .. k + 1 /\ 1 .. k \subseteq 1 .. k + 1
      BY <1>1
    <3> QED
      BY <1>4, <1>9, <1>11, <3>1
  <2> QED
    BY <1>7, <2>1, <2>2, <2>3 DEF Printed
<1> QED
  <2> HIDE DEF share2, number2
  <2>1. number2 \in [1 .. Len(printed') -> 1 .. Numbers]
    BY <1>7, <1>10
  <2> QED
    BY <1>4, <1>5, <1>10, <1>14, <2>1, Zenon DEF PrintedInv

LEMMA PipeTypesStep ==
  ASSUME PipeInv, [Pipe!Next]_pipeVars
  PROVE  PipeTypes'
<1> USE NumbersAssumption DEF PipeTypes
<1>1. PipeTypes
  BY DEF PipeInv
<1>2. ASSUME NEW p \in Pipe!Processors, Pipe!GiveNumber(p) PROVE PipeTypes'
  BY <1>1, <1>2 DEF Pipe!GiveNumber
<1>3. ASSUME NEW p \in Pipe!Processors, Pipe!PrintResult(p) PROVE PipeTypes'
  <2>1. Pipe!Result(p, val[p]) \in Nat
    BY <1>1, <1>3 DEF Pipe!Result
  <2> QED
    BY <1>1, <1>3, <2>1 DEF Pipe!PrintResult
<1>4. ASSUME NEW p \in Pipe!Processors, Pipe!WakeUp(p) PROVE PipeTypes'
  BY <1>1, <1>4 DEF Pipe!WakeUp
<1>5. ASSUME NEW p \in Pipe!Processors, Pipe!ProcessorEnds(p) PROVE PipeTypes'
  BY <1>1, <1>5 DEF Pipe!ProcessorEnds
<1>6. CASE Pipe!CloseInput \/ Pipe!CloseOutput \/ Pipe!MainEnds \/ UNCHANGED pipeVars
  BY <1>1, <1>6 DEF Pipe!CloseInput, Pipe!CloseOutput, Pipe!MainEnds, pipeVars
<1> QED
  BY <1>2, <1>3, <1>4, <1>5, <1>6 DEF Pipe!Next

LEMMA ClosingStep ==
  ASSUME PipeInv, [Pipe!Next]_pipeVars
  PROVE  ClosingInv'
<1> USE NumbersAssumption DEF ClosingInv, Running, PipeTypes, Pipe!Processors
<1>1. PipeTypes /\ ClosingInv
  BY DEF PipeInv
<1>2. ASSUME NEW p \in Pipe!Processors, Pipe!GiveNumber(p) PROVE ClosingInv'
  BY <1>1, <1>2 DEF Pipe!GiveNumber
<1>3. ASSUME NEW p \in Pipe!Processors, Pipe!PrintResult(p) PROVE ClosingInv'
  BY <1>1, <1>3 DEF Pipe!PrintResult
<1>4. ASSUME NEW p \in Pipe!Processors, Pipe!WakeUp(p) PROVE ClosingInv'
  BY <1>1, <1>4 DEF Pipe!WakeUp
<1>5. ASSUME NEW p \in Pipe!Processors, Pipe!ProcessorEnds(p) PROVE ClosingInv'
  BY <1>1, <1>5 DEF Pipe!ProcessorEnds
<1>6. CASE Pipe!CloseInput \/ Pipe!CloseOutput \/ Pipe!MainEnds \/ UNCHANGED pipeVars
  BY <1>1, <1>6 DEF Pipe!CloseInput, Pipe!CloseOutput, Pipe!MainEnds, pipeVars
<1> QED
  BY <1>2, <1>3, <1>4, <1>5, <1>6 DEF Pipe!Next

LEMMA PrintedStep ==
  ASSUME PipeInv, [Pipe!Next]_pipeVars
  PROVE  PrintedInv'
<1>1. ASSUME NEW p \in Pipe!Processors, Pipe!WakeUp(p) \/ Pipe!ProcessorEnds(p)
      PROVE  PrintedInv'
  <2>1. /\ UNCHANGED <<next, val, printed>>
        /\ \A q \in Pipe!Processors : processor'[q] = "sending" <=> processor[q] = "sending"
    BY <1>1 DEF Pipe!WakeUp, Pipe!ProcessorEnds, PipeInv, PipeTypes
  <2> QED
    BY <2>1, PrintedStays
<1>2. CASE Pipe!CloseInput \/ Pipe!CloseOutput \/ Pipe!MainEnds \/ UNCHANGED pipeVars
  <2>1. UNCHANGED <<next, val, printed, processor>>
    BY <1>2 DEF Pipe!CloseInput, Pipe!CloseOutput, Pipe!MainEnds, pipeVars
  <2> QED
    BY <2>1, PrintedStays
<1> QED
  BY <1>1, <1>2, GivenIsInFlight, PrintedArrives DEF Pipe!Next

LEMMA PipeInvariant == Spec => []PipeInv
<1>1. Init => PipeInv
  <2> SUFFICES ASSUME Pipe!Init PROVE PipeInv
    BY DEF Init
  <2>1. PipeTypes /\ ClosingInv
    BY NumbersAssumption DEF Pipe!Init, PipeTypes, ClosingInv, Running, Pipe!Processors
  <2>2. InFlight = {} /\ Arrived = {} /\ Len(printed) = 0
    BY DEF Pipe!Init, InFlight, Arrived
  <2>3. \A share, number : Printed(share, number)
    BY <2>2 DEF Printed
  <2> DEFINE share == [n \in 1 .. Numbers |-> "processor1"]
             number == [i \in 1 .. Len(printed) |-> 1]
  <2>4. share \in [1 .. Numbers -> Pipe!Processors] /\ number \in [1 .. Len(printed) -> 1 .. Numbers]
    BY <2>2 DEF Pipe!Processors
  <2>5. \A p \in Pipe!Processors : processor[p] = "receiving"
    BY DEF Pipe!Init
  <2> HIDE DEF share, number
  <2> QED
    BY <2>1, <2>2, <2>3, <2>4, <2>5 DEF PipeInv, PrintedInv
<1>2. PipeInv /\ [Next]_vars => PipeInv'
  BY OneProgramRuns, PipeTypesStep, ClosingStep, PrintedStep DEF PipeInv
<1> QED
  BY <1>1, <1>2, PTL DEF Spec

\* The processors are done when the merged channel is closed, and when main
\* ends it has printed what exactly one of them makes of each number
\* (PipelinePrintsEachOnce, fan-in-and-out/main.go), however many numbers the
\* generator counts.
THEOREM PipelineIsComplete == Spec => []PipelinePrintsEachOnce
<1>1. ASSUME PipeInv PROVE PipelinePrintsEachOnce
  <2>1. outputClosed => \A p \in Pipe!Processors : processor[p] = "ended"
    BY <1>1 DEF PipeInv, ClosingInv
  <2>2. ASSUME pipe = "ended"
        PROVE  \E share \in [1 .. Numbers -> Pipe!Processors] :
                 Pipe!ToBag(printed) = Pipe!ToBag([n \in 1 .. Numbers |-> Pipe!Result(share[n], n)])
    <3>1. /\ next = Numbers + 1
          /\ \A p \in Pipe!Processors : processor[p] = "ended"
      BY <1>1, <2>2 DEF PipeInv, ClosingInv, Pipe!Processors
    <3>2. InFlight = {}
      BY <3>1 DEF InFlight
    <3>3. Arrived = 1 .. Numbers
      BY <3>1, <3>2, NumbersAssumption DEF Arrived
    <3>4. PICK share \in [1 .. Numbers -> Pipe!Processors],
               number \in [1 .. Len(printed) -> 1 .. Numbers] : Printed(share, number)
      BY <1>1 DEF PipeInv, PrintedInv
    <3> DEFINE results == [n \in 1 .. Numbers |-> Pipe!Result(share[n], n)]
    <3>5. /\ DOMAIN printed = 1 .. Len(printed) /\ Len(printed) \in Nat
          /\ DOMAIN results = 1 .. Numbers
      BY <1>1 DEF PipeInv, PipeTypes
    <3>6. /\ \A i, j \in 1 .. Len(printed) : number[i] = number[j] => i = j
          /\ \A k \in 1 .. Numbers : \E i \in 1 .. Len(printed) : number[i] = k
          /\ \A i \in 1 .. Len(printed) : printed[i] = results[number[i]]
      BY <3>3, <3>4 DEF Printed
    <3>7. Pipe!ToBag(printed) = Pipe!ToBag(results)
      <4> HIDE DEF results
      <4> QED
        <5>1. IsFiniteSet(DOMAIN printed)
          BY <3>5, FS_Interval
        <5>2. Rearranges(number, printed, results)
          BY <3>5, <3>6 DEF Rearranges
        <5> QED
          BY <5>1, <5>2, Rearranged
    <3> QED
      BY <3>7, Zenon
  <2> QED
    BY <2>1, <2>2, Zenon DEF PipelinePrintsEachOnce, Pipe!EachNumberOnce
<1> QED
  BY <1>1, PipeInvariant, PTL
=============================================================================
