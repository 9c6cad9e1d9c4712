--------------------------- MODULE ConnPoolProofs ---------------------------
(***************************************************************************)
(* Theorems about ConnPool for any size, any finite set of clients and any *)
(* descriptors.                                                            *)
(***************************************************************************)
EXTENDS ConnPool, FiniteSetTheorems, SequenceLemmas

\* Who is parked in Acquire is in the queue of receivers, once.
WaitersOK ==
  /\ IsInjective(waiters)
  /\ \A g \in Clients : g \in Range(waiters) <=> client[g] = "waiting"

\* SlotConservation, and what it needs of a pool that nobody has seen yet.
SlotsOK ==
  /\ pool = "building" => Len(idle) < MaxSize
  /\ pool \in {"building", "failed"} => \A g \in Clients : client[g] = "away"
  /\ pool = "open" => Len(idle) + Cardinality(Borrowers) = MaxSize
  /\ pool = "closed" => Len(idle) + Cardinality(Borrowers) <= MaxSize
  /\ waiters # <<>> => idle = <<>> /\ pool = "open"

PoolInv == TypeOK /\ WaitersOK /\ SlotsOK

\* A connection is at one place, and those that are open are at some place.
LeaseOK ==
  /\ \A g \in Clients : client[g] \in {"away", "waiting", "creating"} => conn[g] = Nil
  /\ \A g, h \in Clients : conn[g] # Nil /\ conn[g] = conn[h] => g = h
  /\ \A m, n \in DOMAIN idle : idle[m] # Nil /\ idle[m] = idle[n] => m = n
  /\ \A g \in Clients, n \in DOMAIN idle : idle[n] # Nil => conn[g] # idle[n]
  /\ \A c \in Conns :
       c \in opened <=> (\E g \in Clients : conn[g] = c) \/ \E n \in DOMAIN idle : idle[n] = c

-----------------------------------------------------------------------------
(* The queue of receivers *)

LEMMA RemoveAtElements ==
  ASSUME NEW S, NEW s \in Seq(S), NEW n \in DOMAIN s, IsInjective(s)
  PROVE  /\ RemoveAt(s, n) \in Seq(S)
         /\ IsInjective(RemoveAt(s, n))
         /\ Range(RemoveAt(s, n)) = Range(s) \ {s[n]}
<1> DEFINE before == SubSeq(s, 1, n - 1)
           after == SubSeq(s, n + 1, Len(s))
           rest == before \o after
           N == Len(s)
<1>1. DOMAIN s = 1 .. N /\ N \in Nat /\ n \in 1 .. N /\ \A k \in 1 .. N : s[k] \in S
  BY LenProperties, ElementOfSeq
<1>2. /\ before \in Seq(S) /\ Len(before) = n - 1
      /\ \A k \in 1 .. n - 1 : before[k] = s[k]
  BY <1>1, SubSeqProperties
<1>3. /\ after \in Seq(S) /\ Len(after) = N - n
      /\ \A k \in 1 .. N - n : after[k] = s[n + k]
  BY <1>1, SubSeqProperties
<1> HIDE DEF before, after, N
<1>4. /\ rest \in Seq(S) /\ Len(rest) = Len(before) + Len(after)
      /\ \A k \in 1 .. Len(before) + Len(after) :
           rest[k] = IF k <= Len(before) THEN before[k] ELSE after[k - Len(before)]
  BY <1>2, <1>3, ConcatProperties
<1> HIDE DEF rest
<1>5. Len(rest) = N - 1 /\ DOMAIN rest = 1 .. N - 1
  BY <1>1, <1>2, <1>3, <1>4, LenProperties
<1>6. ASSUME NEW k \in 1 .. N - 1 PROVE rest[k] = IF k < n THEN s[k] ELSE s[k + 1]
  <2>1. CASE k < n
    BY <1>1, <1>2, <1>3, <1>4, <2>1
  <2>2. CASE ~(k < n)
    <3>1. rest[k] = after[k - (n - 1)] /\ k - (n - 1) \in 1 .. N - n
      BY <1>1, <1>2, <1>3, <1>4, <2>2
    <3>2. after[k - (n - 1)] = s[n + (k - (n - 1))] /\ n + (k - (n - 1)) = k + 1
      BY <1>1, <1>3, <3>1
    <3> QED
      BY <2>2, <3>1, <3>2
  <2> QED
    BY <2>1, <2>2
<1>7. IsInjective(rest)
  <2> SUFFICES ASSUME NEW j \in 1 .. N - 1, NEW k \in 1 .. N - 1, rest[j] = rest[k]
               PROVE  j = k
    BY <1>5 DEF IsInjective
  <2> DEFINE at(i) == IF i < n THEN i ELSE i + 1
  <2>1. at(j) \in 1 .. N /\ at(k) \in 1 .. N /\ s[at(j)] = s[at(k)]
    BY <1>1, <1>6
  <2>2. at(j) = at(k)
    BY <1>1, <2>1 DEF IsInjective
  <2> QED
    BY <1>1, <2>2
<1>8. ASSUME NEW e \in Range(rest) PROVE e \in Range(s) \ {s[n]}
  <2>1. PICK k \in 1 .. N - 1 : rest[k] = e
    BY <1>5 DEF Range
  <2>2. PICK i \in 1 .. N : i # n /\ s[i] = e
    BY <1>1, <1>6, <2>1
  <2> QED
    BY <1>1, <2>2 DEF IsInjective, Range
<1>9. ASSUME NEW e \in Range(s), e # s[n] PROVE e \in Range(rest)
  <2>1. PICK k \in 1 .. N : s[k] = e
    BY <1>1 DEF Range
  <2>2. CASE k < n
    BY <1>1, <1>5, <1>6, <2>1, <2>2 DEF Range
  <2>3. CASE k > n
    <3>1. k - 1 \in 1 .. N - 1 /\ rest[k - 1] = e
      BY <1>1, <1>6, <2>1, <2>3
    <3> QED
      BY <1>5, <3>1 DEF Range
  <2> QED
    BY <1>1, <1>9, <2>1, <2>2, <2>3
<1> QED
  BY <1>4, <1>7, <1>8, <1>9 DEF RemoveAt, rest, before, after, N

\* The first in the queue, and the queue without somebody.
LEMMA UnparkRemoves ==
  ASSUME TypeOK, WaitersOK, NEW g, Unpark(g)
  PROVE  /\ waiters' \in Seq(Clients) /\ IsInjective(waiters')
         /\ Range(waiters') = Range(waiters) \ {g}
  BY RemoveAtElements DEF Unpark, TypeOK, WaitersOK

LEMMA ServedWaits ==
  ASSUME TypeOK, WaitersOK, waiters # <<>>
  PROVE  Serve \in Clients /\ client[Serve] = "waiting"
<1>1. Serve \in Range(waiters) /\ Serve \in Clients
  BY TailElements, HeadTailProperties DEF Serve, TypeOK, WaitersOK
<1> QED
  BY <1>1 DEF WaitersOK

-----------------------------------------------------------------------------
(* Slots *)

LEMMA BorrowersAreFinite == IsFiniteSet(Borrowers) /\ Cardinality(Borrowers) \in Nat
<1>1. Borrowers \in SUBSET Clients
  BY DEF Borrowers
<1> QED
  BY <1>1, ClientsAssumption, FS_Subset, FS_CardinalityType

LEMMA OneBorrowerMore ==
  ASSUME NEW g \in Clients, g \notin Borrowers, Borrowers' = Borrowers \cup {g}
  PROVE  Cardinality(Borrowers') = Cardinality(Borrowers) + 1
BY BorrowersAreFinite, FS_AddElement

LEMMA OneBorrowerLess ==
  ASSUME NEW g \in Borrowers, Borrowers' = Borrowers \ {g}
  PROVE  Cardinality(Borrowers') = Cardinality(Borrowers) - 1
BY BorrowersAreFinite, FS_RemoveElement

LEMMA PoolInvStep == PoolInv /\ [Next]_vars => PoolInv'
<1> SUFFICES ASSUME PoolInv, [Next]_vars PROVE PoolInv'
  OBVIOUS
<1> USE DEF PoolInv
<1>1. MaxSize \in Nat \ {0} /\ Len(idle) \in Nat /\ Cardinality(Borrowers) \in Nat
  BY SizeAssumption, BorrowersAreFinite, LenProperties DEF TypeOK
<1>2. CASE BuildConn
  <2>1. PICK c \in Conns : idle' = Append(idle, c) /\ opened' = opened \cup {c}
    BY <1>2 DEF BuildConn
  <2>2. idle' \in Seq(Conns \cup {Nil}) /\ Len(idle') = Len(idle) + 1
    BY <2>1, AppendProperties DEF TypeOK
  <2>3. Borrowers = {} /\ Borrowers' = {} /\ waiters = <<>>
    <3>1. Borrowers = {} /\ Borrowers' = {}
      BY <1>2 DEF BuildConn, SlotsOK, Borrowers
    <3> QED
      BY <1>2, <3>1 DEF BuildConn, SlotsOK
  <2>4. TypeOK'
    BY <1>1, <1>2, <2>1, <2>2 DEF BuildConn, TypeOK, SlotsOK
  <2>5. SlotsOK'
    BY <1>1, <1>2, <2>2, <2>3, FS_EmptySet DEF BuildConn, SlotsOK
  <2> QED
    BY <1>2, <2>4, <2>5 DEF BuildConn, WaitersOK
<1>3. CASE BuildFails
  BY <1>3 DEF BuildFails, TypeOK, WaitersOK, SlotsOK, Borrowers
<1>4. CASE Close
  <2>1. Borrowers' = Borrowers
    BY <1>4 DEF Close, Borrowers, TypeOK
  <2>2. WaitersOK'
    BY <1>4, EmptyElements DEF Close, WaitersOK, TypeOK
  <2>3. TypeOK'
    BY <1>4, EmptySeq DEF Close, TypeOK
  <2> QED
    BY <1>1, <1>4, <2>1, <2>2, <2>3 DEF Close, SlotsOK
<1>5. ASSUME NEW g \in Clients, AcquireTakes(g) PROVE PoolInv'
  <2>1. idle' \in Seq(Conns \cup {Nil}) /\ Len(idle') = Len(idle) - 1
        /\ Head(idle) \in Conns \cup {Nil}
    BY <1>5, HeadTailProperties DEF AcquireTakes, TypeOK
  <2>2. g \notin Borrowers /\ Borrowers' = Borrowers \cup {g}
    BY <1>5 DEF AcquireTakes, Borrowers, TypeOK
  <2>3. Cardinality(Borrowers') = Cardinality(Borrowers) + 1
    BY <2>2, OneBorrowerMore
  <2>4. TypeOK'
    BY <1>1, <1>5, <2>1 DEF AcquireTakes, TypeOK
  <2>5. WaitersOK'
    BY <1>5 DEF AcquireTakes, WaitersOK, TypeOK
  <2>6. SlotsOK'
    BY <1>1, <1>5, <2>1, <2>3 DEF AcquireTakes, SlotsOK, Published
  <2> QED
    BY <2>4, <2>5, <2>6
<1>6. ASSUME NEW g \in Clients, AcquireWaits(g) PROVE PoolInv'
  <2>1. /\ waiters' \in Seq(Clients)
        /\ Range(waiters') = Range(waiters) \cup {g} /\ IsInjective(waiters')
    <3>1. g \notin Range(waiters) /\ waiters' = Append(waiters, g)
      BY <1>6 DEF AcquireWaits, WaitersOK
    <3> QED
      BY <3>1, AppendElements, AppendProperties DEF TypeOK, WaitersOK
  <2>2. Borrowers' = Borrowers
    BY <1>6 DEF AcquireWaits, Borrowers, TypeOK
  <2>3. TypeOK' /\ WaitersOK'
    BY <1>6, <2>1 DEF AcquireWaits, TypeOK, WaitersOK
  <2> QED
    BY <1>6, <2>2, <2>3 DEF AcquireWaits, SlotsOK
<1>7. ASSUME NEW g \in Clients, AcquireTimesOut(g) PROVE PoolInv'
  <2>1. /\ waiters' \in Seq(Clients) /\ IsInjective(waiters')
        /\ Range(waiters') = Range(waiters) \ {g} /\ waiters # <<>>
    BY <1>7, UnparkRemoves, EmptySeq, LenProperties DEF AcquireTimesOut, Unpark
  <2>2. Borrowers' = Borrowers
    BY <1>7 DEF AcquireTimesOut, Borrowers, TypeOK
  <2>3. TypeOK' /\ WaitersOK'
    BY <1>7, <2>1 DEF AcquireTimesOut, TypeOK, WaitersOK
  <2> QED
    BY <1>7, <2>1, <2>2, <2>3 DEF AcquireTimesOut, SlotsOK
<1>8. ASSUME NEW g \in Clients,
             ReleaseStarts(g) \/ DestroyCloses(g) \/ DestroyCreates(g) \/ (DestroyChecks(g) /\ pool = "open")
      PROVE  PoolInv'
  <2>1. /\ TypeOK'
        /\ client[g] \in {"using", "creating", "created"}
        /\ \E place \in {"creating", "created", "pushing"} : client' = [client EXCEPT ![g] = place]
        /\ UNCHANGED <<pool, idle, waiters>>
    BY <1>8 DEF ReleaseStarts, DestroyCloses, DestroyCreates, DestroyChecks, TypeOK
  <2>2. Borrowers' = Borrowers
    BY <2>1 DEF Borrowers, TypeOK
  <2>3. WaitersOK'
    BY <2>1 DEF WaitersOK, TypeOK
  <2>4. pool \in {"open", "closed"}
    BY <2>1 DEF SlotsOK, TypeOK
  <2> QED
    BY <2>1, <2>2, <2>3, <2>4 DEF SlotsOK
<1>9. ASSUME NEW g \in Clients, ReleaseCloses(g) \/ (DestroyChecks(g) /\ pool = "closed")
      PROVE  PoolInv'
  <2>1. /\ TypeOK'
        /\ client[g] \in {"using", "created"}
        /\ client' = [client EXCEPT ![g] = "away"]
        /\ UNCHANGED <<pool, idle, waiters>> /\ pool = "closed"
    BY <1>9 DEF ReleaseCloses, DestroyChecks, TypeOK
  <2>2. g \in Borrowers /\ Borrowers' = Borrowers \ {g}
    BY <2>1 DEF Borrowers, TypeOK
  <2>3. Cardinality(Borrowers') = Cardinality(Borrowers) - 1
    BY <2>2, OneBorrowerLess
  <2>4. WaitersOK'
    BY <2>1 DEF WaitersOK, TypeOK
  <2> QED
    BY <1>1, <2>1, <2>3, <2>4 DEF SlotsOK
<1>10. ASSUME NEW g \in Clients, PushConn(g), waiters # <<>> PROVE PoolInv'
  <2>1. Serve \in Clients /\ client[Serve] = "waiting" /\ client[g] = "pushing"
    BY <1>10, ServedWaits DEF PushConn
  <2>2. /\ client' = [client EXCEPT ![g] = "away", ![Serve] = "using"]
        /\ conn' = [conn EXCEPT ![g] = Nil, ![Serve] = conn[g]]
        /\ Unpark(Serve) /\ UNCHANGED <<pool, idle, opened>>
    BY <1>10 DEF PushConn
  <2>3. /\ waiters' \in Seq(Clients) /\ IsInjective(waiters')
        /\ Range(waiters') = Range(waiters) \ {Serve}
    BY <2>2, UnparkRemoves
  <2> HIDE DEF Serve
  <2>4. Cardinality(Borrowers') = Cardinality(Borrowers)
    <3>1. g \in Borrowers /\ Serve \notin Borrowers \ {g}
          /\ Borrowers' = (Borrowers \ {g}) \cup {Serve}
      BY <2>1, <2>2 DEF Borrowers, TypeOK
    <3>2. IsFiniteSet(Borrowers \ {g}) /\ Cardinality(Borrowers \ {g}) = Cardinality(Borrowers) - 1
      BY <3>1, BorrowersAreFinite, FS_RemoveElement
    <3>3. Cardinality(Borrowers') = Cardinality(Borrowers \ {g}) + 1
      BY <3>1, <3>2, FS_AddElement
    <3> QED
      BY <1>1, <3>2, <3>3
  <2>5. TypeOK'
    BY <2>1, <2>2, <2>3 DEF TypeOK
  <2>6. WaitersOK'
    BY <2>1, <2>2, <2>3 DEF TypeOK, WaitersOK
  <2>7. SlotsOK'
    BY <1>10, <2>2, <2>4 DEF SlotsOK
  <2> QED
    BY <2>5, <2>6, <2>7
<1>11. ASSUME NEW g \in Clients, PushConn(g), waiters = <<>> PROVE PoolInv'
  <2>1. /\ client[g] = "pushing" /\ Len(idle) < MaxSize
        /\ idle' = Append(idle, conn[g])
        /\ client' = [client EXCEPT ![g] = "away"] /\ conn' = [conn EXCEPT ![g] = Nil]
        /\ UNCHANGED <<pool, waiters, opened>>
    BY <1>11 DEF PushConn
  <2>2. idle' \in Seq(Conns \cup {Nil}) /\ Len(idle') = Len(idle) + 1
    BY <2>1, AppendProperties DEF TypeOK
  <2>3. g \in Borrowers /\ Borrowers' = Borrowers \ {g}
    BY <2>1 DEF Borrowers, TypeOK
  <2>4. Cardinality(Borrowers') = Cardinality(Borrowers) - 1
    BY <2>3, OneBorrowerLess
  <2>5. TypeOK'
    BY <1>1, <2>1, <2>2 DEF TypeOK
  <2>6. WaitersOK'
    BY <2>1 DEF TypeOK, WaitersOK
  <2>7. SlotsOK'
    BY <1>1, <1>11, <2>1, <2>2, <2>4 DEF SlotsOK
  <2> QED
    BY <2>5, <2>6, <2>7
<1>12. CASE UNCHANGED vars
  <2>1. Borrowers' = Borrowers
    BY <1>12 DEF vars, Borrowers
  <2> QED
    BY <1>12, <2>1 DEF vars, TypeOK, WaitersOK, SlotsOK
<1>13. ASSUME NEW g \in Clients, DestroyChecks(g) PROVE pool \in {"open", "closed"}
  BY <1>13 DEF DestroyChecks
<1> QED
  BY <1>2, <1>3, <1>4, <1>5, <1>6, <1>7, <1>8, <1>9, <1>10, <1>11, <1>12, <1>13
     DEF Next, GivesBack

LEMMA PoolInvInit == Init => PoolInv
<1> SUFFICES ASSUME Init PROVE PoolInv
  OBVIOUS
<1>1. TypeOK
  BY SizeAssumption, EmptySeq, LenProperties DEF Init, TypeOK
<1>2. WaitersOK
  BY EmptyElements DEF Init, WaitersOK
<1>3. SlotsOK
  BY SizeAssumption, EmptySeq, LenProperties DEF Init, SlotsOK
<1> QED
  BY <1>1, <1>2, <1>3 DEF PoolInv

\* Slots are neither lost nor made up, whatever fails or is replaced; a Release
\* finds room; and nobody waits beside an idle connection or in a closed pool.
THEOREM SlotsAreConserved == SafeSpec => []SlotConservation
<1>1. PoolInv => SlotConservation
  BY DEF PoolInv, SlotsOK, SlotConservation
<1> QED
  BY <1>1, PoolInvInit, PoolInvStep, PTL DEF SafeSpec

-----------------------------------------------------------------------------
(* Leases *)

LEMMA LeaseStep ==
  ASSUME PoolInv, LeaseOK, [Next]_vars
  PROVE  LeaseOK'
<1> USE DEF PoolInv
<1>1. DOMAIN idle = 1 .. Len(idle) /\ Len(idle) \in Nat /\ Nil \notin Conns
      /\ \A n \in DOMAIN idle : idle[n] \in Conns \cup {Nil}
  BY ConnsAssumption, LenProperties, ElementOfSeq DEF TypeOK
\* A connection, or nil, joins the buffer.
<1>2. ASSUME NEW c \in Conns \cup {Nil}, idle' = Append(idle, c)
      PROVE  /\ DOMAIN idle' = 1 .. Len(idle) + 1
             /\ \A n \in DOMAIN idle : idle'[n] = idle[n]
             /\ idle'[Len(idle) + 1] = c
  BY <1>1, <1>2, AppendProperties, LenProperties DEF TypeOK
<1>3. CASE BuildConn
  <2>1. PICK c \in Conns \ opened :
          /\ idle' = Append(idle, c) /\ opened' = opened \cup {c}
          /\ UNCHANGED <<client, conn>>
    BY <1>3 DEF BuildConn
  <2>2. /\ \A g \in Clients : conn[g] # c
        /\ \A n \in DOMAIN idle : idle[n] # c
    BY <2>1 DEF LeaseOK
  <2>3. /\ DOMAIN idle' = 1 .. Len(idle) + 1
        /\ \A n \in DOMAIN idle : idle'[n] = idle[n]
        /\ idle'[Len(idle) + 1] = c
    BY <1>2, <2>1
  <2>4. \A n \in DOMAIN idle' : n \in DOMAIN idle \/ n = Len(idle) + 1
    BY <1>1, <2>3
  <2>5. DOMAIN idle \subseteq DOMAIN idle' /\ Len(idle) + 1 \in DOMAIN idle'
    BY <1>1, <2>3
  <2> QED
    BY <2>1, <2>2, <2>3, <2>4, <2>5 DEF LeaseOK, TypeOK
<1>4. CASE UNCHANGED <<idle, client, conn, opened>>
  BY <1>4 DEF LeaseOK
<1>5. CASE Close
  BY <1>5 DEF Close, LeaseOK, TypeOK
<1>6. ASSUME NEW g \in Clients, AcquireTakes(g) PROVE LeaseOK'
  <2>1. /\ Head(idle) = idle[1] /\ 1 \in DOMAIN idle
        /\ DOMAIN idle' = 1 .. Len(idle) - 1
        /\ \A n \in DOMAIN idle' : idle'[n] = idle[n + 1] /\ n + 1 \in DOMAIN idle /\ n + 1 # 1
    BY <1>1, <1>6, HeadTailProperties, LenProperties, EmptySeq DEF AcquireTakes, TypeOK
  <2>2. \A n \in DOMAIN idle : n = 1 \/ (n - 1 \in DOMAIN idle' /\ idle'[n - 1] = idle[n])
    BY <1>1, <2>1
  <2>3. /\ client[g] = "away" /\ client' = [client EXCEPT ![g] = "using"]
        /\ conn' = [conn EXCEPT ![g] = idle[1]] /\ UNCHANGED opened
    BY <1>6, <2>1 DEF AcquireTakes
  <2>4. conn[g] = Nil /\ conn'[g] = idle[1] /\ \A h \in Clients : h # g => conn'[h] = conn[h]
    BY <2>3 DEF LeaseOK, TypeOK
  <2>5. \A h, k \in Clients : conn'[h] # Nil /\ conn'[h] = conn'[k] => h = k
    BY <2>1, <2>4 DEF LeaseOK
  <2>6. /\ \A m, n \in DOMAIN idle' : idle'[m] # Nil /\ idle'[m] = idle'[n] => m + 1 = n + 1
        /\ \A h \in Clients, n \in DOMAIN idle' : idle'[n] # Nil => conn'[h] # idle'[n]
    BY <2>1, <2>4 DEF LeaseOK
  <2>7. \A m, n \in DOMAIN idle' : m + 1 = n + 1 => m = n
    BY <1>1, <2>1
  <2>8. \A c \in Conns :
          (\E h \in Clients : conn'[h] = c) \/ (\E n \in DOMAIN idle' : idle'[n] = c)
            <=> (\E h \in Clients : conn[h] = c) \/ \E n \in DOMAIN idle : idle[n] = c
    <3> SUFFICES ASSUME NEW c \in Conns PROVE <2>8!(c)
      OBVIOUS
    <3>1. c # Nil
      BY <1>1
    <3>2. ASSUME NEW h \in Clients, conn'[h] = c
          PROVE  (\E k \in Clients : conn[k] = c) \/ \E n \in DOMAIN idle : idle[n] = c
      BY <2>1, <2>4, <3>2
    <3>3. ASSUME NEW n \in DOMAIN idle', idle'[n] = c PROVE \E m \in DOMAIN idle : idle[m] = c
      BY <2>1, <3>3
    <3>4. ASSUME NEW h \in Clients, conn[h] = c PROVE \E k \in Clients : conn'[k] = c
      BY <2>4, <3>1, <3>4
    <3>5. ASSUME NEW n \in DOMAIN idle, idle[n] = c
          PROVE  (\E k \in Clients : conn'[k] = c) \/ \E m \in DOMAIN idle' : idle'[m] = c
      BY <2>2, <2>4, <3>5
    <3> QED
      BY <3>2, <3>3, <3>4, <3>5
  <2>9. \A h \in Clients : client'[h] \in {"away", "waiting", "creating"} => conn'[h] = Nil
    BY <2>3, <2>4 DEF LeaseOK, TypeOK
  <2> QED
    BY <2>3, <2>5, <2>6, <2>7, <2>8, <2>9 DEF LeaseOK
<1>7. ASSUME NEW g \in Clients, AcquireWaits(g) \/ AcquireTimesOut(g) \/ ReleaseStarts(g)
      PROVE  LeaseOK'
  BY <1>7 DEF AcquireWaits, AcquireTimesOut, ReleaseStarts, LeaseOK, TypeOK
\* The connection of a client is closed and forgotten.
<1>8. ASSUME NEW g \in Clients, UNCHANGED idle,
             opened' = opened \ {conn[g]}, conn' = [conn EXCEPT ![g] = Nil],
             \E place \in {"away", "creating"} : client' = [client EXCEPT ![g] = place]
      PROVE  LeaseOK'
  BY <1>1, <1>8 DEF LeaseOK, TypeOK
<1>9. ASSUME NEW g \in Clients, ReleaseCloses(g) \/ DestroyCloses(g) PROVE LeaseOK'
  BY <1>8, <1>9 DEF ReleaseCloses, DestroyCloses
<1>10. ASSUME NEW g \in Clients, DestroyChecks(g) PROVE LeaseOK'
  <2>1. CASE pool = "closed"
    BY <1>8, <1>10, <2>1 DEF DestroyChecks
  <2>2. CASE pool = "open"
    BY <1>10, <2>2 DEF DestroyChecks, LeaseOK, TypeOK
  <2> QED
    BY <1>10, <2>1, <2>2 DEF DestroyChecks
<1>11. ASSUME NEW g \in Clients, DestroyCreates(g) PROVE LeaseOK'
  <2>1. client[g] = "creating" /\ client' = [client EXCEPT ![g] = "created"]
        /\ UNCHANGED idle /\ conn[g] = Nil
    BY <1>11 DEF DestroyCreates, LeaseOK
  <2>2. CASE UNCHANGED <<opened, conn>>
    BY <2>1, <2>2 DEF LeaseOK, TypeOK
  <2>3. ASSUME NEW c \in Conns \ opened, opened' = opened \cup {c}, conn' = [conn EXCEPT ![g] = c]
        PROVE  LeaseOK'
    BY <1>1, <2>1, <2>3 DEF LeaseOK, TypeOK
  <2> QED
    BY <1>11, <2>2, <2>3 DEF DestroyCreates
<1>12. ASSUME NEW g \in Clients, PushConn(g), waiters # <<>> PROVE LeaseOK'
  <2>1. Serve \in Clients /\ client[Serve] = "waiting" /\ client[g] = "pushing"
    BY <1>12, ServedWaits DEF PushConn
  <2>2. /\ client' = [client EXCEPT ![g] = "away", ![Serve] = "using"]
        /\ conn' = [conn EXCEPT ![g] = Nil, ![Serve] = conn[g]]
        /\ UNCHANGED <<idle, opened>>
    BY <1>12 DEF PushConn
  <2> HIDE DEF Serve
  <2>3. /\ conn[Serve] = Nil /\ conn'[Serve] = conn[g] /\ conn'[g] = Nil /\ g # Serve
        /\ \A h \in Clients : h \notin {g, Serve} => conn'[h] = conn[h]
    BY <2>1, <2>2 DEF LeaseOK, TypeOK
  <2>4. \A h \in Clients : client'[h] \in {"away", "waiting", "creating"} => conn'[h] = Nil
    BY <2>1, <2>2, <2>3 DEF LeaseOK, TypeOK
  <2>5. \A h, k \in Clients : conn'[h] # Nil /\ conn'[h] = conn'[k] => h = k
    BY <2>3 DEF LeaseOK
  <2>6. \A h \in Clients, n \in DOMAIN idle : idle[n] # Nil => conn'[h] # idle[n]
    BY <2>3 DEF LeaseOK
  <2>7. \A c \in Conns : (\E h \in Clients : conn'[h] = c) <=> \E h \in Clients : conn[h] = c
    <3> SUFFICES ASSUME NEW c \in Conns PROVE <2>7!(c)
      OBVIOUS
    <3>1. c # Nil
      BY <1>1
    <3>2. ASSUME NEW h \in Clients, conn'[h] = c PROVE \E k \in Clients : conn[k] = c
      BY <2>3, <3>1, <3>2
    <3>3. ASSUME NEW h \in Clients, conn[h] = c PROVE \E k \in Clients : conn'[k] = c
      BY <2>1, <2>3, <3>1, <3>3
    <3> QED
      BY <3>2, <3>3
  <2>8. idle' = idle /\ \A c \in Conns : c \in opened' <=> c \in opened
    BY <2>2
  <2> QED
    BY <2>4, <2>5, <2>6, <2>7, <2>8 DEF LeaseOK
<1>13. ASSUME NEW g \in Clients, PushConn(g), waiters = <<>> PROVE LeaseOK'
  <2>1. /\ idle' = Append(idle, conn[g]) /\ client' = [client EXCEPT ![g] = "away"]
        /\ conn' = [conn EXCEPT ![g] = Nil] /\ UNCHANGED opened
    BY <1>13 DEF PushConn
  <2>2. /\ DOMAIN idle' = 1 .. Len(idle) + 1
        /\ \A n \in DOMAIN idle : idle'[n] = idle[n]
        /\ idle'[Len(idle) + 1] = conn[g]
    BY <1>2, <2>1 DEF TypeOK
  <2>3. /\ \A n \in DOMAIN idle' : n \in DOMAIN idle \/ n = Len(idle) + 1
        /\ DOMAIN idle \subseteq DOMAIN idle' /\ Len(idle) + 1 \in DOMAIN idle'
    BY <1>1, <2>2
  <2>4. conn'[g] = Nil /\ \A h \in Clients : h # g => conn'[h] = conn[h]
    BY <2>1 DEF TypeOK
  <2>5. \A h \in Clients : client'[h] \in {"away", "waiting", "creating"} => conn'[h] = Nil
    BY <2>1, <2>4 DEF LeaseOK, TypeOK
  <2>6. /\ \A h, k \in Clients : conn'[h] # Nil /\ conn'[h] = conn'[k] => h = k
        /\ \A m, n \in DOMAIN idle' : idle'[m] # Nil /\ idle'[m] = idle'[n] => m = n
        /\ \A h \in Clients, n \in DOMAIN idle' : idle'[n] # Nil => conn'[h] # idle'[n]
    BY <2>2, <2>3, <2>4 DEF LeaseOK
  <2>7. \A c \in Conns :
          (\E h \in Clients : conn'[h] = c) \/ (\E n \in DOMAIN idle' : idle'[n] = c)
            <=> (\E h \in Clients : conn[h] = c) \/ \E n \in DOMAIN idle : idle[n] = c
    BY <1>1, <2>2, <2>3, <2>4
  <2> QED
    BY <2>1, <2>5, <2>6, <2>7 DEF LeaseOK
<1>14. CASE BuildFails
  BY <1>4, <1>14 DEF BuildFails
<1>15. CASE UNCHANGED vars
  BY <1>4, <1>15 DEF vars
<1> QED
  BY <1>3, <1>5, <1>6, <1>7, <1>9, <1>10, <1>11, <1>12, <1>13, <1>14, <1>15 DEF Next, GivesBack

\* Two sets of at most one member, one of which is empty.
LEMMA AtMostOne ==
  ASSUME NEW S, NEW T,
         \A x, y \in S : x = y, \A x, y \in T : x = y, S = {} \/ T = {}
  PROVE  Cardinality(S) + Cardinality(T) <= 1
<1>1. \A X : (\A x, y \in X : x = y) => Cardinality(X) \in {0, 1}
  <2> SUFFICES ASSUME NEW X, \A x, y \in X : x = y PROVE Cardinality(X) \in {0, 1}
    OBVIOUS
  <2>1. CASE X = {}
    BY <2>1, FS_EmptySet
  <2>2. ASSUME NEW x \in X PROVE Cardinality(X) = 1
    <3>1. X = {x}
      BY <2>2
    <3> QED
      BY <3>1, FS_Singleton
  <2> QED
    BY <2>1, <2>2
<1>2. Cardinality({}) = 0
  BY FS_EmptySet
<1> QED
  BY <1>1, <1>2

\* A connection has one user at most, is not idle meanwhile, and is open as long
\* as somebody has it or it is idle.
THEOREM LeasesAreExclusive == SafeSpec => []ExclusiveLease
<1>1. Init => LeaseOK
  <2> SUFFICES ASSUME Init PROVE LeaseOK
    OBVIOUS
  <2>1. DOMAIN idle = {}
    BY EmptySeq, LenProperties DEF Init
  <2> QED
    BY <2>1, ConnsAssumption DEF Init, LeaseOK
<1>2. PoolInv /\ LeaseOK => ExclusiveLease
  <2> SUFFICES ASSUME PoolInv, LeaseOK, NEW c \in Conns
               PROVE  /\ Cardinality({g \in Clients : conn[g] = c})
                           + Cardinality({i \in DOMAIN idle : idle[i] = c}) <= 1
                      /\ c \in opened <=> \/ \E g \in Clients : conn[g] = c
                                          \/ c \in ToSet(idle)
    BY DEF ExclusiveLease
  <2>1. c # Nil
    BY ConnsAssumption
  <2> DEFINE users == {g \in Clients : conn[g] = c}
             places == {i \in DOMAIN idle : idle[i] = c}
  <2>2. /\ \A x, y \in users : x = y
        /\ \A x, y \in places : x = y
        /\ users = {} \/ places = {}
    BY <2>1 DEF LeaseOK
  <2>3. Cardinality(users) + Cardinality(places) <= 1
    BY <2>2, AtMostOne
  <2> QED
    BY <2>3 DEF LeaseOK, ToSet
<1> QED
  BY <1>1, <1>2, PoolInvInit, PoolInvStep, LeaseStep, PTL DEF SafeSpec

-----------------------------------------------------------------------------
(* Refinement *)

\* A slot is a permit: every step of the pool lets a client ask, takes or gives
\* back a permit, hands it over or lets clients stop asking, or is invisible.
THEOREM PoolImplementsPermits == SafeSpec => Abstract!SafeSpec
<1> DEFINE state == [g \in Clients |->
                       IF client[g] = "away" THEN "away"
                       ELSE IF client[g] = "waiting" THEN "asking" ELSE "holding"]
<1>1. Init => Abstract!Init
  BY DEF Init, Abstract!Init
<1>2. PoolInv /\ [Next]_vars => [Abstract!Next]_state
  <2> SUFFICES ASSUME PoolInv, [Next]_vars PROVE Abstract!Next \/ UNCHANGED state
    OBVIOUS
  <2> USE DEF PoolInv
  <2>0. Abstract!Holders = Borrowers
    BY DEF Abstract!Holders, Borrowers, TypeOK
  <2>1. CASE UNCHANGED client
    BY <2>1
  <2>2. CASE Close
    <3>1. Abstract!GiveUp
      <4> DEFINE asking == {g \in Clients : state[g] = "asking"}
      <4>1. state' = [g \in Clients |-> IF g \in asking THEN "away" ELSE state[g]]
        BY <2>2 DEF Close, TypeOK
      <4> QED
        BY <4>1 DEF Abstract!GiveUp
    <3> QED
      BY <3>1 DEF Abstract!Next
  <2>3. ASSUME NEW g \in Clients, AcquireTakes(g) PROVE Abstract!Grant(g)
    <3>1. Len(idle) \in Nat \ {0} /\ Cardinality(Borrowers) < MaxSize
      BY <2>3, SizeAssumption, BorrowersAreFinite, LenProperties, EmptySeq
         DEF AcquireTakes, Published, SlotsOK, TypeOK
    <3>2. state[g] # "holding" /\ state' = [state EXCEPT ![g] = "holding"]
      BY <2>3 DEF AcquireTakes, TypeOK
    <3>3. Abstract!Cardinality(Abstract!Holders) = Cardinality(Borrowers)
      BY <2>0 DEF Abstract!Cardinality, Cardinality
    <3> QED
      BY <3>1, <3>2, <3>3 DEF Abstract!Grant
  <2>4. ASSUME NEW g \in Clients, AcquireWaits(g) PROVE Abstract!Ask(g)
    BY <2>4 DEF AcquireWaits, TypeOK, Abstract!Ask
  <2>5. ASSUME NEW g \in Clients, AcquireTimesOut(g) PROVE Abstract!GiveUp
    <3>1. {g} \in SUBSET {h \in Clients : state[h] = "asking"}
      BY <2>5 DEF AcquireTimesOut
    <3>2. state' = [h \in Clients |-> IF h \in {g} THEN "away" ELSE state[h]]
      BY <2>5 DEF AcquireTimesOut, TypeOK
    <3> QED
      BY <3>1, <3>2 DEF Abstract!GiveUp
  <2>6. ASSUME NEW g \in Clients, client[g] \in {"using", "creating", "created", "pushing"},
               client' = [client EXCEPT ![g] = "away"]
        PROVE  Abstract!GiveBack(g)
    BY <2>6 DEF TypeOK, Abstract!GiveBack
  <2>7. ASSUME NEW g \in Clients, client[g] \in {"using", "creating", "created"},
               \E place \in {"creating", "created", "pushing"} : client' = [client EXCEPT ![g] = place]
        PROVE  UNCHANGED state
    BY <2>7 DEF TypeOK
  <2>8. ASSUME NEW g \in Clients, GivesBack(g) PROVE Abstract!Next \/ UNCHANGED state
    <3>1. CASE PushConn(g) /\ waiters # <<>>
      <4>1. PICK h \in Clients : h = Serve
        BY <3>1, ServedWaits
      <4>2. client[h] = "waiting" /\ client[g] = "pushing"
            /\ client' = [client EXCEPT ![g] = "away", ![h] = "using"]
        BY <3>1, <4>1, ServedWaits DEF PushConn
      <4>3. Abstract!HandOver(g, h)
        BY <4>2 DEF TypeOK, Abstract!HandOver
      <4> QED
        BY <4>3 DEF Abstract!Next
    <3>2. CASE PushConn(g) /\ waiters = <<>>
      BY <2>6, <3>2 DEF PushConn, Abstract!Next
    <3>3. CASE ReleaseCloses(g)
      BY <2>6, <3>3 DEF ReleaseCloses, Abstract!Next
    <3>4. CASE ReleaseStarts(g) \/ DestroyCloses(g) \/ DestroyCreates(g)
      BY <2>7, <3>4 DEF ReleaseStarts, DestroyCloses, DestroyCreates
    <3>5. CASE DestroyChecks(g)
      BY <2>6, <2>7, <3>5 DEF DestroyChecks, Abstract!Next
    <3> QED
      BY <2>8, <3>1, <3>2, <3>3, <3>4, <3>5 DEF GivesBack
  <2>9. CASE BuildConn \/ BuildFails \/ UNCHANGED vars
    BY <2>1, <2>9 DEF BuildConn, BuildFails, vars
  <2> QED
    BY <2>2, <2>3, <2>4, <2>5, <2>8, <2>9 DEF Next, Abstract!Next
<1> QED
  BY <1>1, <1>2, PoolInvInit, PoolInvStep, PTL DEF SafeSpec, Abstract!SafeSpec
=============================================================================
