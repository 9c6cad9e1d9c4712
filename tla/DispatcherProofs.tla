--------------------------- MODULE DispatcherProofs ---------------------------
(***************************************************************************)
(* Theorems about Dispatcher for any finite set of workers and any jobs.   *)
(***************************************************************************)
EXTENDS Dispatcher, FiniteSetTheorems, SequenceLemmas

\* The jobs that Submit accepted, and those that a worker executes.
Accepted == {j \in Jobs : submit[j] = "sent"}
Executing == Range(held) \ {NoJob}

\* A running worker, and no other, holds a job, and no two hold the same.
HeldOK ==
  /\ \A w \in Workers : held[w] # NoJob <=> worker[w] = "running"
  /\ \A v, w \in Workers : held[v] = held[w] /\ v # w => held[v] = NoJob

\* The accepted jobs are shared out among the four places a job can be at.
PlacesOK ==
  /\ IsInjective(jobs) /\ IsInjective(output)
  /\ Range(jobs) \cap Executing = {}
  /\ Range(output) \cap (Range(jobs) \cup Executing) = {}
  /\ delivered \cap (Range(jobs) \cup Executing \cup Range(output)) = {}
  /\ Accepted = Range(jobs) \cup Executing \cup Range(output) \cup delivered

\* The output channel is closed after the workers have left.
ClosedLast == outputClosed => \A w \in Workers : worker[w] = "exited"

DispatchInv == TypeOK /\ HeldOK /\ PlacesOK /\ ClosedLast

-----------------------------------------------------------------------------
(* The job a worker holds *)

LEMMA HoldStarts ==
  ASSUME TypeOK, NEW w \in Workers, held[w] = NoJob, NEW j \in Jobs,
         held' = [held EXCEPT ![w] = j]
  PROVE  Executing' = Executing \cup {j}
<1>1. DOMAIN held = Workers /\ DOMAIN held' = Workers /\ held'[w] = j
      /\ \A v \in Workers : v # w => held'[v] = held[v]
  BY DEF TypeOK
<1>2. ASSUME NEW x PROVE x \in Executing' <=> x \in Executing \cup {j}
  BY <1>1, JobsAssumption DEF Executing, Range
<1> QED
  BY <1>2

LEMMA HoldEnds ==
  ASSUME TypeOK, HeldOK, NEW w \in Workers, held[w] # NoJob,
         held' = [held EXCEPT ![w] = NoJob]
  PROVE  held[w] \in Executing /\ Executing' = Executing \ {held[w]}
<1>1. DOMAIN held = Workers /\ DOMAIN held' = Workers /\ held'[w] = NoJob
      /\ \A v \in Workers : v # w => held'[v] = held[v]
  BY DEF TypeOK
<1>2. ASSUME NEW x PROVE x \in Executing' <=> x \in Executing \ {held[w]}
  BY <1>1 DEF Executing, Range, HeldOK
<1> QED
  BY <1>1, <1>2 DEF Executing, Range

-----------------------------------------------------------------------------
(* The two invariants *)

\* Types, and each channel within the capacity of its buffer.
LEMMA TypeStep == TypeOK /\ HeldOK /\ [Next]_vars => TypeOK'
<1> SUFFICES ASSUME TypeOK, HeldOK, [Next]_vars PROVE TypeOK'
  OBVIOUS
<1> USE DEF TypeOK, channels
<1>1. /\ BufferSize \in Nat /\ Len(jobs) \in Nat /\ Len(output) \in Nat
      /\ BufferSize' = BufferSize
  BY WorkersAssumption, FS_CardinalityType, LenProperties DEF BufferSize
<1>2. ASSUME jobs # <<>>
      PROVE  Tail(jobs) \in Seq(Jobs) /\ Len(Tail(jobs)) = Len(jobs) - 1 /\ Head(jobs) \in Jobs
  BY <1>2, HeadTailProperties
<1>3. ASSUME NEW j \in Jobs, Submit(j) PROVE TypeOK'
  <2>1. CASE SubmitSends(j)
    <3>1. CASE \E w \in JobParked : held' = [held EXCEPT ![w] = j] /\ UNCHANGED jobs
               /\ worker' = [worker EXCEPT ![w] = "running"]
      BY <1>1, <2>1, <3>1 DEF SubmitSends, JobParked
    <3>2. CASE jobs' = Append(jobs, j) /\ ~Full(jobs) /\ UNCHANGED <<worker, held>>
      <4>1. jobs' \in Seq(Jobs) /\ Len(jobs') = Len(jobs) + 1
        BY <3>2, AppendProperties
      <4>2. Len(jobs') <= BufferSize'
        BY <1>1, <3>2, <4>1 DEF Full
      <4> QED
        BY <1>1, <2>1, <3>2, <4>1, <4>2 DEF SubmitSends
    <3> QED
      BY <2>1, <3>1, <3>2 DEF SubmitSends
  <2> QED
    BY <1>1, <1>3, <2>1
       DEF Submit, SubmitCancelled, SubmitStopped, SubmitPanics, SubmitParks
<1>4. ASSUME NEW w \in Workers, WorkerStep(w) PROVE TypeOK'
  <2>1. CASE WorkerTakesJob(w)
    <3>1. jobs' \in Seq(Jobs) /\ Len(jobs') <= Len(jobs)
      <4>1. Tail(jobs) \in Seq(Jobs) /\ Len(Tail(jobs)) = Len(jobs) - 1
        BY <1>2, <2>1 DEF WorkerTakesJob
      <4>2. \A j \in Jobs : /\ Append(Tail(jobs), j) \in Seq(Jobs)
                           /\ Len(Append(Tail(jobs), j)) = Len(Tail(jobs)) + 1
        BY <4>1, AppendProperties
      <4>3. jobs' = Tail(jobs) \/ \E j \in Jobs : jobs' = Append(Tail(jobs), j)
        BY <2>1 DEF WorkerTakesJob, ParkedSubmits
      <4> HIDE DEF TypeOK
      <4> QED
        BY <1>1, <4>1, <4>2, <4>3
    <3>2. submit' \in [Jobs -> {"idle", "parked", "sent", "stopped", "cancelled"}]
      BY <2>1 DEF WorkerTakesJob
    <3>3. /\ held' \in [Workers -> Jobs \cup {NoJob}]
          /\ worker' \in [Workers -> {"ready", "tickParked", "ticked", "jobParked",
                                      "running", "exited"}]
      BY <1>2, <2>1 DEF WorkerTakesJob
    <3> QED
      BY <1>1, <2>1, <3>1, <3>2, <3>3 DEF WorkerTakesJob
  <2>2. CASE FinishJob(w)
    <3>1. held[w] \in Jobs
      BY <2>2 DEF FinishJob, HeldOK
    <3>2. output' \in Seq(Jobs) /\ Len(output') = Len(output) + 1
      BY <2>2, <3>1, AppendProperties DEF FinishJob
    <3>3. Len(output') <= BufferSize'
      BY <1>1, <2>2, <3>2 DEF FinishJob, Full
    <3> QED
      BY <1>1, <2>2, <3>2, <3>3 DEF FinishJob
  <2> QED
    BY <1>1, <1>4, <2>1, <2>2
       DEF WorkerStep, WorkerExits, WorkerTakesTick, WorkerCallsNil, WorkerParks
<1>5. CASE Tick
  BY <1>1, <1>5 DEF Tick, TickParked
<1>6. CASE ReadResult
  <2>1. output' \in Seq(Jobs) /\ Len(output') = Len(output) - 1 /\ Head(output) \in Jobs
    BY <1>6, HeadTailProperties DEF ReadResult
  <2> QED
    BY <1>1, <1>6, <2>1 DEF ReadResult
<1>7. CASE CloseDone
  BY <1>1, <1>7 DEF CloseDone
<1>8. CASE CloseJobs \/ CloseOutput
  BY <1>1, <1>8 DEF CloseJobs, CloseOutput
<1>9. CASE UNCHANGED vars
  BY <1>1, <1>9 DEF vars
<1> QED
  BY <1>3, <1>4, <1>5, <1>6, <1>7, <1>8, <1>9 DEF Next

\* Who holds which job, and where the accepted jobs are.
LEMMA PlacesStep ==
  ASSUME TypeOK, HeldOK, PlacesOK, [Next]_vars
  PROVE  HeldOK' /\ PlacesOK'
<1> USE DEF channels
<1>1. ASSUME NEW j \in Jobs, SubmitSends(j) PROVE HeldOK' /\ PlacesOK'
  <2>1. /\ submit \in [Jobs -> {"idle", "parked", "sent", "stopped", "cancelled"}]
        /\ submit[j] = "idle" /\ submit' = [submit EXCEPT ![j] = "sent"]
    BY <1>1 DEF SubmitSends, TypeOK
  <2>2. Accepted' = Accepted \cup {j} /\ j \notin Accepted
    BY <2>1 DEF Accepted
  <2>3. output' = output /\ delivered' = delivered
    BY <1>1 DEF SubmitSends
  <2>4. ASSUME NEW w \in JobParked, worker' = [worker EXCEPT ![w] = "running"],
               held' = [held EXCEPT ![w] = j], UNCHANGED jobs
        PROVE  HeldOK' /\ PlacesOK'
    <3>1. w \in Workers /\ worker[w] = "jobParked" /\ held[w] = NoJob
      BY <2>4 DEF JobParked, HeldOK
    <3>2. Executing' = Executing \cup {j}
      BY <2>4, <3>1, HoldStarts
    <3>3. \A v \in Workers : held[v] # j
      BY <2>2, JobsAssumption DEF PlacesOK, Executing, Range, TypeOK
    <3>4. HeldOK'
      BY <2>4, <3>1, <3>3, JobsAssumption DEF HeldOK, TypeOK
    <3>5. PlacesOK'
      BY <2>2, <2>3, <2>4, <3>2 DEF PlacesOK
    <3> QED
      BY <3>4, <3>5
  <2>5. ASSUME jobs' = Append(jobs, j), UNCHANGED <<worker, held>>
        PROVE  HeldOK' /\ PlacesOK'
    <3>1. Range(jobs') = Range(jobs) \cup {j} /\ IsInjective(jobs')
      BY <2>2, <2>5, AppendElements DEF PlacesOK, TypeOK
    <3>2. Executing' = Executing
      BY <2>5 DEF Executing
    <3> QED
      BY <2>2, <2>3, <2>5, <3>1, <3>2 DEF PlacesOK, HeldOK
  <2> QED
    BY <1>1, <2>4, <2>5 DEF SubmitSends
<1>2. ASSUME NEW j \in Jobs, SubmitCancelled(j) \/ SubmitStopped(j) \/ SubmitParks(j)
      PROVE  HeldOK' /\ PlacesOK'
  <2>1. Accepted' = Accepted
    BY <1>2 DEF SubmitCancelled, SubmitStopped, SubmitParks, Accepted, TypeOK
  <2>2. UNCHANGED <<jobs, output, worker, held, delivered>>
    BY <1>2 DEF SubmitCancelled, SubmitStopped, SubmitParks
  <2> QED
    BY <2>1, <2>2 DEF HeldOK, PlacesOK, Executing
<1>3. ASSUME NEW w \in Workers, WorkerTakesJob(w) PROVE HeldOK' /\ PlacesOK'
  <2> DEFINE h == Head(jobs)
             rest == Tail(jobs)
  <2>1. h \in Range(jobs) /\ Range(rest) = Range(jobs) \ {h} /\ IsInjective(rest)
    BY <1>3, TailElements DEF WorkerTakesJob, TypeOK, PlacesOK
  <2>2. h \in Jobs /\ rest \in Seq(Jobs)
    BY <1>3, HeadTailProperties DEF WorkerTakesJob, TypeOK
  <2>3. /\ held' = [held EXCEPT ![w] = h] /\ worker' = [worker EXCEPT ![w] = "running"]
        /\ output' = output /\ delivered' = delivered /\ worker[w] = "ticked"
    BY <1>3 DEF WorkerTakesJob
  <2> HIDE DEF h, rest
  <2>4. held[w] = NoJob
    BY <2>3 DEF HeldOK
  <2>5. Executing' = Executing \cup {h}
    BY <2>2, <2>3, <2>4, HoldStarts
  <2>6. \A v \in Workers : held[v] # h
    BY <2>1, <2>2, JobsAssumption DEF PlacesOK, Executing, Range, TypeOK
  <2>7. HeldOK'
    BY <2>2, <2>3, <2>6, JobsAssumption DEF HeldOK, TypeOK
  <2>8. ASSUME NEW j \in Jobs, submit[j] = "parked", jobs' = Append(rest, j),
               submit' = [submit EXCEPT ![j] = "sent"]
        PROVE  PlacesOK'
    <3>1. Accepted' = Accepted \cup {j} /\ j \notin Accepted
      BY <2>8 DEF Accepted, TypeOK
    <3>2. Range(jobs') = Range(rest) \cup {j} /\ IsInjective(jobs')
      <4>1. j \notin Range(rest)
        BY <2>1, <3>1 DEF PlacesOK
      <4> QED
        BY <2>1, <2>2, <2>8, <4>1, AppendElements
    <3> QED
      BY <2>1, <2>3, <2>5, <3>1, <3>2 DEF PlacesOK
  <2>9. ASSUME jobs' = rest, submit' = submit PROVE PlacesOK'
    <3>1. Accepted' = Accepted
      BY <2>9 DEF Accepted
    <3> QED
      BY <2>1, <2>3, <2>5, <2>9, <3>1 DEF PlacesOK
  <2> QED
    BY <1>3, <2>7, <2>8, <2>9 DEF WorkerTakesJob, ParkedSubmits, h, rest
<1>4. ASSUME NEW w \in Workers, FinishJob(w) PROVE HeldOK' /\ PlacesOK'
  <2>1. /\ held' = [held EXCEPT ![w] = NoJob] /\ worker' = [worker EXCEPT ![w] = "ready"]
        /\ output' = Append(output, held[w]) /\ worker[w] = "running"
        /\ UNCHANGED <<jobs, delivered, submit>>
    BY <1>4 DEF FinishJob
  <2>2. held[w] # NoJob /\ held[w] \in Jobs
    BY <2>1 DEF HeldOK, TypeOK
  <2>3. held[w] \in Executing /\ Executing' = Executing \ {held[w]}
    BY <2>1, <2>2, HoldEnds
  <2>4. Range(output') = Range(output) \cup {held[w]} /\ IsInjective(output')
    <3>1. held[w] \notin Range(output)
      BY <2>3 DEF PlacesOK
    <3> QED
      BY <2>1, <2>2, <3>1, AppendElements DEF PlacesOK, TypeOK
  <2>5. Accepted' = Accepted
    BY <2>1 DEF Accepted
  <2>6. HeldOK'
    BY <2>1 DEF HeldOK, TypeOK
  <2>7. PlacesOK'
    BY <2>1, <2>3, <2>4, <2>5 DEF PlacesOK
  <2> QED
    BY <2>6, <2>7
<1>5. CASE ReadResult
  <2>1. /\ Head(output) \in Range(output) /\ IsInjective(output')
        /\ Range(output') = Range(output) \ {Head(output)}
    BY <1>5, TailElements DEF ReadResult, TypeOK, PlacesOK
  <2>2. delivered' = delivered \cup {Head(output)} /\ UNCHANGED <<jobs, held, worker, submit>>
    BY <1>5 DEF ReadResult
  <2>3. Executing' = Executing /\ Accepted' = Accepted /\ HeldOK'
    BY <2>2 DEF Executing, Accepted, HeldOK
  <2> QED
    BY <2>1, <2>2, <2>3 DEF PlacesOK
<1>6. CASE CloseDone
  <2>1. Accepted' = Accepted
    BY <1>6 DEF CloseDone, Accepted
  <2>2. UNCHANGED <<jobs, held, output, delivered>>
    BY <1>6 DEF CloseDone
  <2>3. HeldOK'
    BY <1>6 DEF CloseDone, HeldOK
  <2> QED
    BY <2>1, <2>2, <2>3 DEF PlacesOK, Executing
<1>7. ASSUME NEW w \in Workers, WorkerExits(w) \/ WorkerTakesTick(w) \/ WorkerParks(w)
      PROVE  HeldOK' /\ PlacesOK'
  <2>1. UNCHANGED <<jobs, held, output, delivered, submit>>
    BY <1>7 DEF WorkerExits, WorkerTakesTick, WorkerParks
  <2>2. HeldOK'
    BY <1>7, <2>1 DEF WorkerExits, WorkerTakesTick, WorkerParks, HeldOK, TypeOK
  <2> QED
    BY <2>1, <2>2 DEF PlacesOK, Executing, Accepted
<1>8. CASE Tick
  <2>1. UNCHANGED <<jobs, held, output, delivered, submit>>
    BY <1>8 DEF Tick
  <2>2. HeldOK'
    BY <1>8, <2>1 DEF Tick, TickParked, HeldOK, TypeOK
  <2> QED
    BY <2>1, <2>2 DEF PlacesOK, Executing, Accepted
<1>9. ASSUME UNCHANGED <<jobs, output, submit, worker, held, delivered>>
      PROVE  HeldOK' /\ PlacesOK'
  BY <1>9 DEF HeldOK, PlacesOK, Executing, Accepted
<1>10. CASE CloseJobs \/ CloseOutput \/ UNCHANGED vars
            \/ (\E j \in Jobs : SubmitPanics(j)) \/ (\E w \in Workers : WorkerCallsNil(w))
  BY <1>9, <1>10 DEF CloseJobs, CloseOutput, vars, SubmitPanics, WorkerCallsNil
<1> QED
  BY <1>1, <1>2, <1>3, <1>4, <1>5, <1>6, <1>7, <1>8, <1>10
     DEF Next, Submit, WorkerStep

\* No worker comes back.
LEMMA ClosedLastStep == TypeOK /\ ClosedLast /\ [Next]_vars => ClosedLast'
<1> SUFFICES ASSUME TypeOK, ClosedLast, [Next]_vars, outputClosed',
                    NEW w \in Workers
             PROVE  worker'[w] = "exited"
  BY DEF ClosedLast
<1>1. CASE CloseOutput
  BY <1>1 DEF CloseOutput
<1>2. ASSUME outputClosed' = outputClosed PROVE worker'[w] = "exited"
  <2>1. worker[w] = "exited" /\ worker \in [Workers -> {"ready", "tickParked", "ticked",
                                              "jobParked", "running", "exited"}]
    BY <1>2 DEF ClosedLast, TypeOK
  <2>2. ASSUME NEW j \in Jobs, Submit(j) PROVE worker'[w] = "exited"
    BY <2>1, <2>2 DEF Submit, SubmitCancelled, SubmitStopped, SubmitSends, SubmitPanics,
                      SubmitParks, JobParked
  <2>3. ASSUME NEW v \in Workers, WorkerStep(v) PROVE worker'[w] = "exited"
    BY <2>1, <2>3 DEF WorkerStep, WorkerExits, WorkerTakesTick, WorkerTakesJob,
                      WorkerCallsNil, WorkerParks, FinishJob
  <2>4. CASE Tick \/ ReadResult \/ CloseDone \/ CloseJobs \/ CloseOutput \/ UNCHANGED vars
    BY <2>1, <2>4 DEF Tick, TickParked, ReadResult, CloseDone, CloseJobs, CloseOutput, vars
  <2> QED
    BY <2>2, <2>3, <2>4 DEF Next
<1>3. outputClosed' = outputClosed \/ CloseOutput
  BY DEF Next, Submit, SubmitCancelled, SubmitStopped, SubmitSends, SubmitPanics, SubmitParks,
         WorkerStep, WorkerExits, WorkerTakesTick, WorkerTakesJob, WorkerCallsNil,
         WorkerParks, FinishJob, Tick, ReadResult, CloseDone, CloseJobs, channels, vars
<1> QED
  BY <1>1, <1>2, <1>3

\* The invariant of every reachable state.
LEMMA DispatchInvariant == SafeSpec => []DispatchInv
<1>1. Init => DispatchInv
  <2> SUFFICES ASSUME Init PROVE DispatchInv
    OBVIOUS
  <2>1. TypeOK
    <3>1. BufferSize \in Nat
      BY WorkersAssumption, FS_CardinalityType DEF BufferSize
    <3>2. jobs \in Seq(Jobs) /\ Len(jobs) = 0 /\ output \in Seq(Jobs) /\ Len(output) = 0
      BY EmptySeq DEF Init
    <3>3. Len(jobs) <= BufferSize /\ Len(output) <= BufferSize
      BY <3>1, <3>2
    <3> QED
      BY <3>2, <3>3 DEF Init, TypeOK
  <2>2. HeldOK /\ ClosedLast
    BY DEF Init, HeldOK, ClosedLast
  <2>3. Executing = {} /\ Accepted = {}
    BY DEF Init, Executing, Accepted, Range
  <2>4. PlacesOK
    BY <2>3, EmptyElements DEF Init, PlacesOK
  <2> QED
    BY <2>1, <2>2, <2>4 DEF DispatchInv
<1>2. DispatchInv /\ [Next]_vars => DispatchInv'
  BY TypeStep, PlacesStep, ClosedLastStep DEF DispatchInv
<1> QED
  BY <1>1, <1>2, PTL DEF SafeSpec

\* Types, and no channel holds more than its buffer takes: a full jobs channel
\* makes Submit wait, and a full output channel the worker.
THEOREM DispatcherTypes == SafeSpec => []TypeOK
BY DispatchInvariant, PTL DEF DispatchInv

\* A job at one place is at one place only.
LEMMA PlacesCount ==
  ASSUME DispatchInv, NEW j \in Jobs
  PROVE  Cardinality(Places(j)) = (IF submit[j] = "sent" THEN 1 ELSE 0)
<1>1. /\ \A p \in Places(j) : p \in {"jobs", "worker", "output", "delivered"}
      /\ "jobs" \in Places(j) <=> j \in Range(jobs)
      /\ "worker" \in Places(j) <=> j \in Range(held)
      /\ "output" \in Places(j) <=> j \in Range(output)
      /\ "delivered" \in Places(j) <=> j \in delivered
  BY DEF Places
<1>2. j \in Executing <=> j \in Range(held)
  BY JobsAssumption DEF Executing
<1>3. CASE submit[j] = "sent"
  <2>1. j \in Range(jobs) \cup Executing \cup Range(output) \cup delivered
    BY <1>3 DEF DispatchInv, PlacesOK, Accepted
  <2>2. \/ Places(j) = {"jobs"} \/ Places(j) = {"worker"}
        \/ Places(j) = {"output"} \/ Places(j) = {"delivered"}
    <3>1. CASE j \in Range(jobs)
      BY <1>1, <1>2, <3>1 DEF DispatchInv, PlacesOK
    <3>2. CASE j \in Executing
      BY <1>1, <1>2, <3>2 DEF DispatchInv, PlacesOK
    <3>3. CASE j \in Range(output)
      BY <1>1, <1>2, <3>3 DEF DispatchInv, PlacesOK
    <3>4. CASE j \in delivered
      BY <1>1, <1>2, <3>4 DEF DispatchInv, PlacesOK
    <3> QED
      BY <2>1, <3>1, <3>2, <3>3, <3>4
  <2> QED
    BY <1>3, <2>2, FS_Singleton
<1>4. CASE submit[j] # "sent"
  <2>1. j \notin Range(jobs) \cup Executing \cup Range(output) \cup delivered
    BY <1>4 DEF DispatchInv, PlacesOK, Accepted
  <2>2. Places(j) = {}
    BY <1>1, <1>2, <2>1
  <2> QED
    BY <1>4, <2>2, FS_EmptySet
<1> QED
  BY <1>3, <1>4

\* For any number of workers and jobs: a job whose Submit returned nil is at
\* exactly one of the jobs channel, a worker, the output channel and the
\* reader, a refused one is nowhere, and close(d.output) finds no worker that
\* still has a result to send.
THEOREM DispatcherConservesJobs == SafeSpec => []JobConservation
<1>1. DispatchInv => JobConservation
  <2> SUFFICES ASSUME DispatchInv PROVE JobConservation
    OBVIOUS
  <2>1. \A j \in Jobs : Cardinality(Places(j)) = (IF submit[j] = "sent" THEN 1 ELSE 0)
    BY PlacesCount
  <2>2. outputClosed => \A w \in Workers : worker[w] = "exited" /\ held[w] = NoJob
    BY DEF DispatchInv, ClosedLast, HeldOK
  <2>3. \A v, w \in Workers : held[v] = held[w] /\ v # w => held[v] = NoJob
    BY DEF DispatchInv, HeldOK
  <2>4. TypeOK /\ IsInjective(jobs) /\ IsInjective(output)
    BY DEF DispatchInv, PlacesOK
  <2> QED
    BY <2>1, <2>2, <2>3, <2>4 DEF JobConservation
<1> QED
  BY <1>1, DispatchInvariant, PTL

-----------------------------------------------------------------------------
(* The rate limit *)

\* The workers that keep a tick they have not spent, all ticks in store, and
\* the jobs that were started.
Keepers == {w \in Workers : worker[w] \in {"ticked", "jobParked"}}
Ticks == Cardinality(Keepers) + (IF tick THEN 1 ELSE 0)
Started == (Range(held) \ {NoJob}) \cup Range(output) \cup delivered

LEMMA KeepersAreFinite ==
  /\ IsFiniteSet(Keepers)
  /\ Cardinality(Keepers) \in 0 .. Cardinality(Workers)
  /\ Cardinality(Workers) \in Nat
BY WorkersAssumption, FS_Subset, FS_CardinalityType DEF Keepers

LEMMA OneKeeperMore ==
  ASSUME NEW w \in Workers, w \notin Keepers, Keepers' = Keepers \cup {w}
  PROVE  Cardinality(Keepers') = Cardinality(Keepers) + 1
BY KeepersAreFinite, FS_AddElement

LEMMA OneKeeperLess ==
  ASSUME NEW w \in Keepers, Keepers' = Keepers \ {w}
  PROVE  Cardinality(Keepers') = Cardinality(Keepers) - 1
BY KeepersAreFinite, FS_RemoveElement

LEMMA TicksInStore ==
  tick \in BOOLEAN => Ticks \in 0 .. Cardinality(Workers) + 1 /\ Cardinality(Workers) \in Nat
BY KeepersAreFinite DEF Ticks

LEMMA TicksInStoreNext ==
  (tick \in BOOLEAN => Ticks \in 0 .. Cardinality(Workers) + 1)'
<1>1. tick \in BOOLEAN => Ticks \in 0 .. Cardinality(Workers) + 1
  BY TicksInStore
<1> QED
  BY <1>1, PTL

\* The four ways in which the bucket sees a step.
LEMMA BucketStutters ==
  ASSUME beat' = beat, Ticks' = Ticks, Started' = Started
  PROVE  UNCHANGED Bucket!vars
BY DEF Bucket!vars, Ticks, Keepers, Started

LEMMA BucketStarts ==
  ASSUME DispatchInv, DispatchInv', NEW j \in Jobs, j \notin Started,
         Started' = Started \cup {j}, Ticks' = Ticks - 1, beat' = beat
  PROVE  Bucket!Start(j)
<1>1. Ticks \in Nat /\ Ticks' \in Nat
  BY TicksInStore, TicksInStoreNext DEF DispatchInv, TypeOK
<1>2. Ticks > 0
  BY <1>1
<1> QED
  BY <1>2 DEF Bucket!Start, Ticks, Keepers, Started

LEMMA BucketRefills ==
  ASSUME DispatchInv, DispatchInv', beat' = ~beat, Ticks' \in {Ticks, Ticks + 1},
         Started' = Started
  PROVE  Bucket!Refill
<1>1. Ticks' \in {Ticks, Ticks + 1} \cap 0 .. Cardinality(Workers) + 1
  BY TicksInStoreNext DEF DispatchInv, TypeOK
<1> QED
  BY <1>1 DEF Bucket!Refill, Ticks, Keepers, Started

LEMMA BucketLoses ==
  ASSUME DispatchInv, DispatchInv', beat' = beat, Ticks' < Ticks, Started' = Started
  PROVE  Bucket!Lose
<1>1. PICK n \in 0 .. Cardinality(Workers) + 1 : n < Ticks /\ Ticks' = n
  BY TicksInStoreNext DEF DispatchInv, TypeOK
<1> QED
  BY <1>1 DEF Bucket!Lose, Ticks, Keepers, Started

\* Parking, waking and reading are invisible; a job starts when a worker gets
\* it; a worker that leaves with a tick loses it.
LEMMA BucketStep ==
  ASSUME DispatchInv, DispatchInv', [Next]_vars
  PROVE  [Bucket!Next]_(Bucket!vars)
<1> USE DEF channels
<1>1. Ticks \in Nat /\ Ticks' \in Nat /\ Cardinality(Keepers) \in Nat
  BY TicksInStore, TicksInStoreNext, KeepersAreFinite DEF DispatchInv, TypeOK
<1>2. worker \in [Workers -> {"ready", "tickParked", "ticked", "jobParked", "running",
                              "exited"}]
  BY DEF DispatchInv, TypeOK
<1>3. ASSUME NEW j \in Jobs, SubmitSends(j) PROVE [Bucket!Next]_(Bucket!vars)
  <2>1. UNCHANGED <<output, delivered, tick, beat>>
    BY <1>3 DEF SubmitSends
  <2>2. ASSUME NEW w \in JobParked, worker' = [worker EXCEPT ![w] = "running"],
               held' = [held EXCEPT ![w] = j]
        PROVE  Bucket!Start(j)
    <3>1. w \in Workers /\ worker[w] = "jobParked" /\ held[w] = NoJob
      BY <2>2 DEF JobParked, DispatchInv, HeldOK
    <3>2. w \in Keepers /\ Keepers' = Keepers \ {w}
      BY <1>2, <2>2, <3>1 DEF Keepers
    <3>3. Ticks' = Ticks - 1
      <4>1. Cardinality(Keepers') = Cardinality(Keepers) - 1
        BY <3>2, OneKeeperLess
      <4> QED
        BY <1>1, <2>1, <4>1 DEF Ticks
    <3>4. Executing' = Executing \cup {j}
      BY <2>2, <3>1, HoldStarts DEF DispatchInv
    <3>5. j \notin Started /\ Started' = Started \cup {j}
      <4>1. j \notin Accepted
        BY <1>3 DEF SubmitSends, Accepted
      <4> QED
        BY <2>1, <3>4, <4>1 DEF Started, Executing, DispatchInv, PlacesOK
    <3> QED
      BY <2>1, <3>3, <3>5, BucketStarts
  <2>3. ASSUME UNCHANGED <<worker, held>> PROVE UNCHANGED Bucket!vars
    BY <2>1, <2>3, BucketStutters DEF Ticks, Keepers, Started
  <2> QED
    BY <1>3, <2>2, <2>3 DEF SubmitSends, Bucket!Next
<1>4. ASSUME NEW w \in Workers, WorkerExits(w) PROVE [Bucket!Next]_(Bucket!vars)
  <2>1. UNCHANGED <<output, delivered, tick, beat, held>> /\ Started' = Started
    BY <1>4 DEF WorkerExits, Started
  <2>2. CASE worker[w] = "ready"
    <3>1. Keepers' = Keepers
      BY <1>2, <1>4, <2>2 DEF WorkerExits, Keepers
    <3> QED
      BY <2>1, <3>1, BucketStutters DEF Ticks
  <2>3. CASE worker[w] = "ticked"
    <3>1. w \in Keepers /\ Keepers' = Keepers \ {w}
      BY <1>2, <1>4, <2>3 DEF WorkerExits, Keepers
    <3>2. Cardinality(Keepers') = Cardinality(Keepers) - 1
      BY <3>1, OneKeeperLess
    <3>3. Ticks' < Ticks
      BY <1>1, <2>1, <3>2 DEF Ticks
    <3> QED
      BY <2>1, <3>3, BucketLoses DEF Bucket!Next
  <2> QED
    BY <1>4, <2>2, <2>3 DEF WorkerExits
<1>5. ASSUME NEW w \in Workers, WorkerTakesTick(w) PROVE [Bucket!Next]_(Bucket!vars)
  <2>1. UNCHANGED <<output, delivered, beat, held>> /\ Started' = Started
    BY <1>5 DEF WorkerTakesTick, Started
  <2>2. w \notin Keepers /\ Keepers' = Keepers \cup {w} /\ tick /\ ~tick'
    BY <1>2, <1>5 DEF WorkerTakesTick, Keepers
  <2>3. Cardinality(Keepers') = Cardinality(Keepers) + 1
    BY <2>2, OneKeeperMore
  <2>4. Ticks' = Ticks
    BY <1>1, <2>2, <2>3 DEF Ticks
  <2> QED
    BY <2>1, <2>4, BucketStutters
<1>6. ASSUME NEW w \in Workers, WorkerTakesJob(w) PROVE [Bucket!Next]_(Bucket!vars)
  <2>1. PICK h \in Jobs : h = Head(jobs)
    BY <1>6, HeadTailProperties DEF WorkerTakesJob, DispatchInv, TypeOK
  <2>2. UNCHANGED <<output, delivered, tick, beat>> /\ held' = [held EXCEPT ![w] = h]
    BY <1>6, <2>1 DEF WorkerTakesJob
  <2>3. w \in Keepers /\ Keepers' = Keepers \ {w} /\ held[w] = NoJob
    BY <1>2, <1>6 DEF WorkerTakesJob, Keepers, DispatchInv, HeldOK
  <2>4. Ticks' = Ticks - 1
    <3>1. Cardinality(Keepers') = Cardinality(Keepers) - 1
      BY <2>3, OneKeeperLess
    <3> QED
      BY <1>1, <2>2, <3>1 DEF Ticks
  <2>5. Executing' = Executing \cup {h}
    BY <2>2, <2>3, HoldStarts DEF DispatchInv
  <2>6. h \notin Started /\ Started' = Started \cup {h}
    <3>1. h \in Range(jobs)
      BY <1>6, <2>1, TailElements DEF WorkerTakesJob, DispatchInv, TypeOK, PlacesOK
    <3> QED
      BY <2>2, <2>5, <3>1 DEF Started, Executing, DispatchInv, PlacesOK
  <2> QED
    BY <2>2, <2>4, <2>6, BucketStarts DEF Bucket!Next
<1>7. ASSUME NEW w \in Workers, WorkerParks(w) PROVE [Bucket!Next]_(Bucket!vars)
  <2>1. UNCHANGED <<output, delivered, tick, beat, held>>
    BY <1>7 DEF WorkerParks
  <2>2. Keepers' = Keepers
    BY <1>2, <1>7 DEF WorkerParks, Keepers
  <2> QED
    BY <2>1, <2>2, BucketStutters DEF Ticks, Started
<1>8. ASSUME NEW w \in Workers, FinishJob(w) PROVE [Bucket!Next]_(Bucket!vars)
  <2>1. PICK h \in Jobs : h = held[w] /\ h # NoJob
    BY <1>8, JobsAssumption DEF FinishJob, DispatchInv, TypeOK, HeldOK
  <2>2. UNCHANGED <<delivered, tick, beat>> /\ output' = Append(output, h)
    BY <1>8, <2>1 DEF FinishJob
  <2>3. Keepers' = Keepers
    BY <1>2, <1>8 DEF FinishJob, Keepers
  <2>4. h \in Executing /\ Executing' = Executing \ {h}
    BY <1>8, <2>1, HoldEnds DEF FinishJob, DispatchInv
  <2>5. Range(output') = Range(output) \cup {h}
    BY <2>2, AppendElements DEF DispatchInv, TypeOK
  <2>6. Started' = Started
    BY <2>2, <2>4, <2>5 DEF Started, Executing
  <2> QED
    BY <2>2, <2>3, <2>6, BucketStutters DEF Ticks
<1>9. CASE Tick
  <2>1. UNCHANGED <<output, delivered, held>> /\ beat' = ~beat /\ Started' = Started
    BY <1>9 DEF Tick, Started
  <2>2. Ticks' \in {Ticks, Ticks + 1}
    <3>1. ASSUME NEW w \in TickParked, worker' = [worker EXCEPT ![w] = "ticked"], tick' = tick
          PROVE  Ticks' = Ticks + 1
      <4>1. w \in Workers /\ w \notin Keepers /\ Keepers' = Keepers \cup {w}
        BY <1>2, <3>1 DEF TickParked, Keepers
      <4>2. Cardinality(Keepers') = Cardinality(Keepers) + 1
        BY <4>1, OneKeeperMore
      <4> QED
        BY <1>1, <3>1, <4>2 DEF Ticks
    <3>2. ASSUME tick' = TRUE, worker' = worker PROVE Ticks' \in {Ticks, Ticks + 1}
      <4>1. Keepers' = Keepers
        BY <3>2 DEF Keepers
      <4> QED
        BY <1>1, <3>2, <4>1 DEF Ticks
    <3> QED
      BY <1>9, <3>1, <3>2 DEF Tick
  <2> QED
    BY <2>1, <2>2, BucketRefills DEF Bucket!Next
<1>10. CASE ReadResult
  <2>1. /\ Head(output) \in Range(output)
        /\ Range(output') = Range(output) \ {Head(output)}
    BY <1>10, TailElements DEF ReadResult, DispatchInv, TypeOK, PlacesOK
  <2>2. delivered' = delivered \cup {Head(output)} /\ UNCHANGED <<held, worker, tick, beat>>
    BY <1>10 DEF ReadResult
  <2>3. Started' = Started
    BY <2>1, <2>2 DEF Started
  <2> QED
    BY <2>2, <2>3, BucketStutters DEF Ticks, Keepers
<1>11. CASE CloseDone
  <2>1. UNCHANGED <<held, output, delivered, tick, beat>> /\ Started' = Started
    BY <1>11 DEF CloseDone, Started
  <2>2. Keepers' \in SUBSET Keepers
    BY <1>2, <1>11 DEF CloseDone, Keepers
  <2>3. Ticks' = Ticks \/ Ticks' < Ticks
    <3>1. /\ Cardinality(Keepers') <= Cardinality(Keepers)
          /\ IsFiniteSet(Keepers')
      BY <2>2, KeepersAreFinite, FS_Subset
    <3>2. Cardinality(Keepers') \in Nat
      BY <3>1, FS_CardinalityType
    <3> QED
      BY <1>1, <2>1, <3>1, <3>2 DEF Ticks
  <2> QED
    BY <2>1, <2>3, BucketStutters, BucketLoses DEF Bucket!Next
<1>12. ASSUME UNCHANGED <<beat, tick, worker, held, output, delivered>>
       PROVE  UNCHANGED Bucket!vars
  BY <1>12, BucketStutters DEF Ticks, Keepers, Started
<1>13. CASE CloseJobs \/ CloseOutput \/ UNCHANGED vars
            \/ (\E w \in Workers : WorkerCallsNil(w))
            \/ (\E j \in Jobs : SubmitCancelled(j) \/ SubmitStopped(j) \/ SubmitPanics(j)
                                \/ SubmitParks(j))
  BY <1>12, <1>13 DEF CloseJobs, CloseOutput, vars, WorkerCallsNil, SubmitCancelled,
                      SubmitStopped, SubmitPanics, SubmitParks
<1> QED
  BY <1>3, <1>4, <1>5, <1>6, <1>7, <1>8, <1>9, <1>10, <1>11, <1>13
     DEF Next, Submit, WorkerStep

\* The pool-wide rate limit, for any number of workers: as ticks are taken and
\* spent, jobs start as a token bucket that holds one token more than there
\* are workers lets them.
THEOREM DispatcherKeepsRate == SafeSpec => ImplementsTokenBucket
<1>1. Init => Bucket!Init
  <2> SUFFICES ASSUME Init PROVE Bucket!Init
    OBVIOUS
  <2>1. Keepers = {} /\ Started = {}
    BY EmptyElements DEF Init, Keepers, Started, Range
  <2>2. Ticks = 0
    BY <2>1, FS_EmptySet DEF Init, Ticks
  <2> QED
    BY <2>1, <2>2 DEF Init, Bucket!Init, Ticks, Keepers, Started
<1>2. DispatchInv /\ DispatchInv' /\ [Next]_vars => [Bucket!Next]_(Bucket!vars)
  BY BucketStep
<1> QED
  BY <1>1, <1>2, DispatchInvariant, PTL DEF SafeSpec, ImplementsTokenBucket, Bucket!SafeSpec
=============================================================================
