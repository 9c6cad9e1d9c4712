----------------------------- MODULE MCPrograms -----------------------------
(***************************************************************************)
(* The smaller programs for TLC.  They share no state, so the initial      *)
(* state picks one of them, and the others never move.                     *)
(***************************************************************************)
EXTENDS Integers, Sequences, FiniteSets

CONSTANTS Topics, Subscriptions, Publishes, Closes, MaxSubscribersPerTopic
CONSTANTS Workers, N
CONSTANT Numbers
CONSTANTS Methods, Closings
CONSTANTS Inserts, Queries, Ids, Limits, Nothing

\* Limits of the first index: a negative one, none, fewer and more than there
\* are records.
MCLimits == {-1, 0, 1, 3}

\* Finitely many calls are made, and goroutines started.
ASSUME SubscriptionsAssumption == IsFiniteSet(Subscriptions)
ASSUME NumbersAssumption == Numbers \in Nat
ASSUME WorkersAssumption == IsFiniteSet(Workers) /\ N \in Nat \ {0}
\* What module IndexCalls assumes.
ASSUME IdsAssumption ==
  Ids \subseteq Nat \ {0} /\ IsFiniteSet(Ids) /\ Nothing \notin Ids \cup Int
ASSUME LimitsAssumption == Limits \subseteq Int

VARIABLE program
VARIABLES topics, closed, closedChs, doubly, wg, subscribe, publish, close
VARIABLES tokens, work, unfinished, sem
VARIABLES next, inputClosed, val, processor, running, outputClosed, printed, pipe
VARIABLES flag, once, teardowns, method, late, closing
VARIABLES signalled, tick, worker, undone, exit
VARIABLES storage, table, outFile, idToOffsetMap, insert, record, currentOffset,
          query, asked, offsets, currentIndex, inFile, returned

Bus == INSTANCE EventBus
Sem == INSTANCE Semaphore
Pipe == INSTANCE Pipeline
Flag == INSTANCE ClosedFlag
Shutdown == INSTANCE GracefulShutdown
Index == INSTANCE AppendIndex

\* What stands for nothing is neither a text nor a sequence of records.
ASSUME NothingAssumption == Nothing \notin Inserts /\ Nothing \notin Seq(Index!Records)

busVars == <<topics, closed, closedChs, doubly, wg, subscribe, publish, close>>
semVars == <<tokens, work, unfinished, sem>>
pipeVars == <<next, inputClosed, val, processor, running, outputClosed, printed, pipe>>
flagVars == <<flag, once, teardowns, method, late, closing>>
shutdownVars == <<signalled, tick, worker, undone, exit>>
indexVars == <<storage, table, outFile, idToOffsetMap, insert, record, currentOffset,
               query, asked, offsets, currentIndex, inFile, returned>>
vars == <<program, busVars, semVars, pipeVars, flagVars, shutdownVars, indexVars>>

Programs == {"event bus", "semaphore", "pipeline", "closed flag", "shutdown", "index"}

\* Only the index starts in one of several states: it picks one when it runs.
Init ==
  /\ program \in Programs
  /\ Bus!Init
  /\ Sem!Init
  /\ Pipe!Init
  /\ Flag!Init
  /\ Shutdown!Init
  /\ Index!Init
  /\ program = "index" \/ (storage = "sound" /\ table = <<>>)

RunsBus(Step) ==
  /\ program = "event bus"
  /\ Step
  /\ UNCHANGED <<program, semVars, pipeVars, flagVars, shutdownVars, indexVars>>
RunsSemaphore(Step) ==
  /\ program = "semaphore"
  /\ Step
  /\ UNCHANGED <<program, busVars, pipeVars, flagVars, shutdownVars, indexVars>>
RunsPipeline(Step) ==
  /\ program = "pipeline"
  /\ Step
  /\ UNCHANGED <<program, busVars, semVars, flagVars, shutdownVars, indexVars>>
RunsFlag(Step) ==
  /\ program = "closed flag"
  /\ Step
  /\ UNCHANGED <<program, busVars, semVars, pipeVars, shutdownVars, indexVars>>
RunsShutdown(Step) ==
  /\ program = "shutdown"
  /\ Step
  /\ UNCHANGED <<program, busVars, semVars, pipeVars, flagVars, indexVars>>
RunsIndex(Step) ==
  /\ program = "index"
  /\ Step
  /\ UNCHANGED <<program, busVars, semVars, pipeVars, flagVars, shutdownVars>>

Next ==
  \/ RunsBus(Bus!Next)
  \/ RunsSemaphore(Sem!Next)
  \/ RunsPipeline(Pipe!Next)
  \/ RunsFlag(Flag!Next)
  \/ RunsShutdown(Shutdown!Next)
  \/ RunsIndex(Index!Next)

\* The fairness of each program's own specification, for the one that runs.
\* That of the first index has none.
Spec ==
  /\ Init
  /\ [][Next]_vars
  /\ WF_vars(RunsBus(Bus!Owed))
  /\ WF_vars(RunsSemaphore(Sem!Next))
  /\ WF_vars(RunsPipeline(Pipe!Next))
  /\ WF_vars(RunsFlag(Flag!Owed))
  /\ WF_vars(RunsShutdown(Shutdown!Owed))

\* Close of the event bus leaves nobody behind (EventBus).
BusCloseDrains == Bus!CloseDrains

\* The semaphore's channel is a set of permits (Semaphore); a program that does
\* not run asks for none.
SemaphoreImplementsPermits == Sem!ImplementsPermits

\* The merged channel carries each number's result once (Pipeline).
PipelinePrintsEachOnce == Pipe!EachNumberOnce

\* No method of the pool or the limiter is let in after a Close (ClosedFlag).
CloseIsFinal == Flag!CloseIsFinal

\* Until a write fails, offsets of the first index lead to complete records
\* (AppendIndex).
AppendOffsetsAreSound == Index!OffsetsAreSound

\* The iterators of the first index walk the records of one instant
\* (AppendIndex).
AppendImplementsSnapshotIndex == Index!ImplementsSnapshotIndex

\* Each program comes to its end: Close of the event bus without the help of
\* its context, main of the semaphore program after all its workers, main of
\* the pipeline once the merged channel is closed, each Close of the pool and
\* the limiter, and the interrupted program after its cleanup.
ProgramsEnd ==
  /\ Bus!CloseEnds
  /\ program = "semaphore" => Sem!MainEndsLast
  /\ program = "pipeline" => Pipe!MainEnded
  /\ Flag!ClosingsReturn
  /\ Shutdown!CleansUpAndExits
=============================================================================
