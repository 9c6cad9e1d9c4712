# A TLA+ verification of go-prep

go-prep is a collection of small concurrent components and query operators in
C++ and Go, written as interview exercises with their design notes. Each source
file is a component of its own; none calls another. What they share is what is
hard about them: mutexes with condition variables, Go channels and `select`,
wait groups and contexts, shutdown while others are at work, and bounded
resources.

This directory holds TLA+ models of those components, TLC configurations that
check them on small instances, and proofs checked by TLAPS for every instance.
`PROJECT.json` lists the components, the runs, the source lines behind every
definition, the hazards and the theorems.

    tlc -config MCThreadPool.cfg MCThreadPool      # any run
    tlapm ThreadPoolProofs.tla                     # any proof module

## 1. The components

| Component | Source (under `src/`) | State | Operations | What is hard |
|---|---|---|---|---|
| Thread pool (C++) | `thread_pool_on_fixed_size_bounded_queue.cpp` | the bounded task queue, two flags (`isGracefulShutdown`, `isImmediateShutdown`), the workers, one mutex, `cvNotFull`, `cvNotEmpty`, a future per task | `pushTask`, the worker loop, `shutDownGraceful`, `shutDownImmediate`, destructor | lost wakeups, two shutdowns and the destructor racing, what becomes of queued tasks and their futures |
| Bounded queue (Go) | `go-concurrency-practice/fixed-size-bounded-blocking-queue/main.go` | ring buffer, `head`, `tail`, `count`, one mutex, one condition variable | `Enqueue`, `Dequeue` | index wraparound; two kinds of waiters share one condition variable |
| Rate-limited dispatcher (Go) | `go-concurrency-practice/worker-pool-with-rate-limiting/token-bucket-rate-limited-worker-pool.go` | channels `jobs`, `output`, `done`, a ticker, the workers, a wait group | `NewDispatcher`, `Submit`, `Results`, `Stop` | nested `select`s, closed channels, senders parked while `Stop` runs |
| Connection pool (Go) | `go-concurrency-practice/final_connection_pool/connection_pool.go` | buffered channel of idle connections, a context | `NewPool`, `Acquire`, `Release`, `Destroy`, `Close` | slots lost when the factory fails, the check of the context and the send are two steps, waiters when the pool closes |
| File index and iterator (C++, second version) | `iterator_plus_index.cpp` | data file and its write offset, id-to-offset map, in-flight counter, `closed`, iterators | `Insert`, `Query`, `Close`, `HasNext`, `Next`, iterator `Close` | file and map have different locks, short writes, readers without a lock, draining on `Close` |
| File index and iterator (Go) | `go-concurrency-practice/final_iterator_plus_index/library.go` | the same with a context and a wait group | the same | the context is checked before `wg.Add` |
| File index (C++, first version) | `index_and_iterator.cpp` | the table file, one output stream, id-to-offset map, an input stream per iterator | `insert`, `query`, `hasNext`, `next` | two locks one after the other; streams whose state nobody looks at; a table left by an earlier process |
| Event bus (Go) | `go-concurrency-practice/lld-event-bus.go` | subscriptions per topic, `closed`, a wait group | `Subscribe`, `Publish` (stub), `Close` | a `Close` that gives up at a deadline and is called again |
| Pool and rate-limiter interfaces (Go) | `go-concurrency-practice/lld-connection-pool.go`, `lld-rate-limiter.go` | closed flag, a `sync.Once` | `Acquire`, `Release`, `Destroy`, `Allow` (stubs that look at the flag), `Close` | a second `Close` that returns before the first is done |
| LRU cache with TTL (Go) | `go-concurrency-practice/final_LRU-cache-with-ttl/library.go` | - | `Get`, `Put`, `Len`, all unfinished | the file does not compile (section 6) |
| Semaphore (Go) | `go-concurrency-practice/build-a-semaphore/main.go` | a buffered channel of permits | `Acquire`, `Release` | permits are conserved |
| Fan-in/fan-out, graceful shutdown (Go) | `go-concurrency-practice/fan-in-and-out/main.go`, `graceful-shutdown-with-context/main.go` | channels, a context, wait groups | `main` and its goroutines | who closes which channel, and when; an interrupt during the cleanup |
| Join and aggregation operators (C++) | `join-practice/*.cpp`, `hash-aggregation-operator.cpp` | none between calls | nested-loop, block nested-loop, index nested-loop, hash, Grace hash and sort-merge join; hash aggregation | duplicate keys, block and run boundaries |
| LRU cache with TTL (C++) | `LRU_with_ttl.cpp` | - | the file is a problem statement | - |

The `.md` files are design notes; they are quoted where code and note disagree
(section 5) and are otherwise not modelled.

### What makes each component correct

* **Thread pool.** Every accepted task's future settles exactly once; the queue
  stays within its capacity; a graceful shutdown loses no accepted task and an
  immediate one starts no other task; no thread sleeps through a notification
  it was owed; a shutdown that returns has joined every worker, once.
* **Bounded queue.** `head`, `tail` and `count` describe one stretch of the ring;
  elements leave in the order in which they arrived; nobody sleeps while the
  queue has what it waits for.
* **Dispatcher.** An accepted job is at exactly one place until its result is
  read; a refused job never runs; jobs start no faster than a token bucket lets
  them; no send meets a closed channel; `Stop` returns when what is in flight is done.
* **Connection pool.** Idle and lent connections together are `max_size`; a
  connection has one user and is open while it is used; waiting clients are
  served first come first served.
* **File index.** The map points only at complete records of the right id; an
  iterator walks the records of one instant; `Close` returns when, and only when,
  nothing is in flight. The first version has no `Close`, and promises the rest
  only as long as no write fails.
* **The smaller Go programs.** A `Close` that returns nil leaves no
  goroutine behind and every channel closed once; no more than `N` workers
  work at once, and each gets its turn; each number comes out of the merged channel
  once, which is closed after the last; no method of the stubs is let in after any
  `Close` has returned; an interrupted program cleans up first; each program ends.
* **Operators.** Each join emits exactly the pairs the relational definition
  asks for, each as often as it should; aggregation yields one row per key.

## 2. The modules

| Module | Models | Kind |
|---|---|---|
| `TaskPool` | what a bounded FIFO task pool with two kinds of shutdown promises | abstract specification |
| `ThreadPool` | the C++ thread pool, one action per critical section | state machine, implements `TaskPool` |
| `CallOrder` | calls that are interchangeable begin in order of their numbers | restriction used by the models for TLC |
| `MCThreadPool` | | model for TLC |
| `SequenceLemmas` | facts on the elements of a sequence after `Append` and `Tail`, on the walks of `Walks`, and on induction and recursion | lemmas |
| `ThreadPoolProofs` | the pool's theorems | proofs |
| `FifoQueue` | a bounded FIFO queue with blocking calls | abstract specification |
| `BoundedQueue` | the Go ring buffer | state machine, implements `FifoQueue` |
| `BoundedQueueProofs` | the queue's theorems | proofs |
| `TokenBucket` | a rate limit with a bounded burst | abstract specification |
| `Dispatcher`, `MCDispatcher` | the rate-limited dispatcher | state machine, implements `TokenBucket` |
| `DispatcherProofs` | the dispatcher's theorems | proofs |
| `Permits` | a fixed number of permits, fair to those that wait | abstract specification |
| `ConnPool`, `MCConnPool` | the connection pool | state machine, implements `Permits` |
| `MCPoolAndQueue` | `ConnPool` and `BoundedQueue` side by side: the initial state picks the one that runs | model for TLC |
| `ConnPoolProofs` | the pool's theorems | proofs |
| `SnapshotIndex` | inserts that take effect at one instant and iterators over one instant's records | abstract specification |
| `Walks` | the ascending walk through an ordered map, stated as the one sequence it yields | operator |
| `IndexCalls` | the calls and the records that the indexes have in common | constants, assumptions and operators |
| `FileIndex`, `MCFileIndex` | the second C++ index | state machine, implements `SnapshotIndex` |
| `GoIndex`, `MCGoIndex` | the Go index, with `sync.WaitGroup` | state machine, implements `SnapshotIndex` |
| `GoIndexProofs` | the theorems on the Go index | proofs |
| `AppendIndex`, `MCAppendIndex` | the first C++ index, with the states of its streams | state machine, implements `SnapshotIndex` on a sound storage |
| `EventBus`, `Pipeline` | the event bus, the fan-in/fan-out program | state machines |
| `Semaphore` | the counting semaphore and its workers | state machine, implements `Permits` |
| `ClosedFlag` | the closed flag and the once-guarded `Close` of the two stubs | state machine |
| `GracefulShutdown` | the program that an interrupt ends | state machine |
| `MCPrograms` | `AppendIndex` and the five modules above side by side: the initial state picks the one that runs | model for TLC |
| `ProgramProofs` | the theorems on the programs of `MCPrograms`, the first index among them | proofs |
| `JoinOperators` | the join algorithms, and the definition of a join | functions of tables |
| `HashAggregation` | the aggregates and the hash aggregator, and the definition of grouping | functions of tables |
| `QueryOperators`, `MCQueryOperators` | one call of any operator on any two tables | state machine over the functions |
| `MCDatabase` | `MCFileIndex` and `MCQueryOperators` side by side in the same way | model for TLC |
| `DatabaseProofs` | the theorems on the query operators and on the second C++ index | proofs |

### How the models correspond to the code

* **One action per critical section.** Code under a mutex is one step: from the
  lock to the unlock, or to the wait that releases it. `cv.wait(lock, pred)` is a
  step that puts the thread to sleep when the predicate is false, and one that
  goes on when it is true; `notify_one` wakes any one sleeper or none if nobody
  sleeps, `notify_all` wakes all. Where the notification comes after the unlock, or
  a condition variable is notified under no lock, it is a step of its own (the
  shutdowns of the thread pool) unless no other step can tell the difference.
  C++ condition variables may wake spuriously; Go's `sync.Cond` does not.
* **Go channels** (`Dispatcher`, `ConnPool`) follow the Go specification: a
  `select` with several ready cases takes any one; a `select` with none parks,
  and the first event on one of its channels decides its case; a send to a
  channel with a parked receiver hands over the value; a receive from a full
  buffer lets a parked sender in; closing wakes all; a receive from a closed
  and empty channel yields the zero value; a send on a closed channel panics,
  and a panic ends the program.
* **Streams** (`AppendIndex`). A C++ stream that has failed stays failed: `tellp`
  yields -1, nothing is written or read, and `>>` leaves its operand as it was, so
  that `next` returns a record whose id was never set. Opened to append, the
  output stream starts at the end of what the file holds, which is
  where an earlier process, perhaps one that crashed in mid-line, left it.
* **`sync.Once`** (`ClosedFlag`). Whoever comes second waits until the first has
  run the function.
* **`sync.WaitGroup`** (`GoIndex`) has `Add`, `Done`, the release of the waiters, and
  `Wait` as steps, because a late `Add` may fall between them: `Add` panics when
  it comes during the release, and `Wait` panics when it finds the counter
  raised again or being released for another round.
* **Algorithms.** The operators are functions from tables to the sequence
  they emit. A loop is a sequence of what each turn emits (`When` and `Pairs`, put together by `FlattenSeq`)
  or a recursive function of its indices (`Pieces`, `HashTable`; of a pair of indices for the two pointers of `Merge` and
  `MergeJoin` and the part of a table that `MergeSort` sorts), and the walk of a query over the ordered map
  (`FirstOf`, `Collected`, and `Select` in `SnapshotIndex`) the set of the sequences it may yield,
  which has one member; in-place changes of the caller's tables
  (`sortMergeJoin`) are part of the call.
* **Data.** Tasks, jobs, connections, goroutines and threads are model values.
  What a task computes is reduced to "value or exception", a record in the file
  to the id and the insert it came from, an offset to the number of lines
  before it, time to ticks and deadlines that may come at any moment.
* **Environment.** Callers call in any order and at any time, each member of
  `Tasks`, `Jobs`, `Inserts`, `Queries` once. The file may fail or be written short, the
  factory of connections may fail at every call, contexts may be cancelled at any
  time.
* **Faulty definitions.** A definition named `Faulty...` is a plausible mistake
  in the definition after it and no part of any specification. `PROJECT.json` pairs each checked
  property with one of them that it refutes.

## 3. The runs

| Run | Instance | What it shows |
|---|---|---|
| `thread_pool` | 2 workers, 4 submissions, capacity 2, 2 threads that call either shutdown, the owner | the queue stays within its capacity; no task lost, duplicated or stranded, no lost wakeup, one winner of two shutdowns, under spurious wakeups; every future settles, blocked submitters and shutdowns return; implements `TaskPool` |
| `dispatcher` | 2 workers (both buffers hold 2), 3 submissions | jobs conserved, `Stop` finishes what is in flight and returns; implements `TokenBucket` with a burst of 3 |
| `dispatcher_submit_panic` | the same | a finding (section 5) |
| `pool_and_queue` | the pool: 4 clients that call for ever, 2 slots, 3 descriptors; the queue: 2 producers, 3 consumers, 2 values, capacity 2, calling for ever | slots conserved, leases exclusive, waiters served, and the pool implements `Permits`; the ring stays consistent, no waiter misses a broadcast, and the queue implements `FifoQueue`; liveness included in both |
| `conn_pool_close` | 2 clients, 1 slot | a finding (section 5) |
| `database` | the second C++ index: 2 inserts, 1 query, 2 calls of `Close`, ids 1 and 2, limits -1, 0, 1, 3; the operators: all pairs of tables of up to 4 rows with keys -1, 0, 1, blocks, pages and partitions of 1 and 2 | whatever the map or an iterator points at is a whole record of the right id, `Close` drains and never sleeps with nobody left to wake it, and the index implements `SnapshotIndex`; joins and groups are what their definitions say (nested-loop join for equality; the other predicate is a finding), sort-merge leaves both tables stably sorted, block nested-loop reads `M + ceil(M/B) N` pages |
| `go_index` | the index's calls as above, limits 0, 1 and 2 | offsets lead to records, also with an iterator, which keeps to a limit of at least 1; `Close` returns with nothing at work that was added to the group; a sleeping `Close` returns; implements `SnapshotIndex` |
| `go_index_close` | the same | a finding (section 5) |
| `go_index_limit` | 2 inserts, 1 query, 1 call of `Close`, limits 0, 1 and 2 | a finding (section 5) |
| `append_index_publish` | 2 inserts, 1 query, ids 1 and 2, limits -1, 0, 1, 3 | a finding (section 5) |
| `nested_range_join` | all pairs of tables of up to 2 rows with keys -1, 0, 1 | a finding (section 5) |
| `programs` | 3 subscriptions, 2 topics of at most 2 subscribers, 3 calls of `Close`; 4 workers and 2 permits; 5 numbers and 2 processors; 2 methods and 3 calls of `Close` of the stubs; an interrupted program; the first index as in `append_index_publish` | `Close` of the bus drains, whoever races, gives up or retries; the semaphore implements `Permits`; each number is printed once; no method is let in after `Close`; offsets lead to records until a write fails, and the first index implements `SnapshotIndex`; the programs end |

Three runs hold several components that share nothing (`pool_and_queue`, `database`, `programs`). Their
initial state picks one, the others never move, and each property speaks of the
variables of its own component: such a run is the union of the runs of the components.

**Why these bounds.** Every queue and buffer can be empty, partly filled and
full, with at least one more submitter than it has room, so that a caller that
was notified races a newcomer for one free place. Two workers (or consumers)
are the least that can take each other's wakeup, and two closers the least that
can race. In the bounded queue more consumers can sleep than there are slots, so a
`Signal` in place of the `Broadcast` strands one. In the file indexes two inserts
can have the same id or different ones, one can fail between the write and
the publication of the other, and the limits lie below, at and above the number of records. Among the operators' tables, four rows let merge sort split twice and give runs of
equal keys at the beginning, in the middle and at the end of either table; three
rows in blocks and pages of two leave a last block that is not full; and a
negative key has a large hash. Nothing in the models counts
without bound: all calls are finitely many, or return to where they started.

Calls that differ in nothing but their name are numbered, and begin in the
order of their numbers (`InOrder` of `CallOrder`, in `MCThreadPool`, `MCFileIndex` and
`MCGoIndex`): every behaviour is one of these up to a renaming of calls, and unlike TLC's
symmetry sets this is sound for liveness too. `MCGoIndex` also leaves out queries for
more than the largest id, which select nothing. A `size_t` of `AppendIndex` takes `Sizes = 65536`
values, which is as good as 2^64 for limits near 0: -1 becomes a size no map has. The two offsets an iterator of the
first index holds are enough for one read to fail and a later one to
meet the failed stream.

**Fairness.** Only steps the scheduler owes are fair: a thread inside a call
that is not blocked goes on, and a contended lock is granted at last (weak
fairness per thread, since a mutex that many want is granted to each of
them in the end by `sync.Mutex`, and by the C++ pool's workers because there are
finitely many calls). Nobody is obliged to submit, to call a shutdown, to
cancel a context or to wake spuriously. `GoIndex` and `FileIndex` assume the
same of each call that has begun. In `Dispatcher` the ticker keeps ticking
and the client keeps reading `Results()` (without a reader `Stop` does wait for
ever, as its notes say), and fairness ends with a panic. In `ConnPool` a
client gives back what it acquired. In `FileIndex` nobody has to advance an
iterator. In the event bus no context has to end: `Close` must return without
it. The semaphore's workers and the pipeline's goroutines are never stopped. In
`GracefulShutdown` nobody has to interrupt, and the worker's `select` takes the context's
case in the end because it chooses at random among the ready ones. `AppendIndex` is
checked for safety only: its calls take no condition and cannot wait for each other.

**Deadlock** is not an error in these runs: all calls may have been made, or
all remaining goroutines may wait for a partner that never calls. What must
not get stuck is stated by the liveness properties.

## 4. The proofs

TLAPS proves the following for every value of the constants, from the named
assumptions of the modules: the threads, tasks, workers, clients, connections, inserts, queries, ids and subscriptions
are finitely many; `QueueCapacity` and `Numbers` are natural numbers, `Capacity`, `MaxSize` and `N` positive ones;
keys are integers, `WordSize` is positive, and so are the sizes of blocks and pages and the numbers of partitions; ids are positive, limits integers; and what stands for "nothing" is none of the values it is used next to (nor a sequence
of records, in the indexes, where it also stands for a view that is not there yet). The dispatcher's jobs, the calls of
`Close` and the methods of the stubs may be any set, infinite ones included. A refinement to an abstract module
is proved for its safety part (`SafeSpec`), under a mapping that is the one TLC checks.

**`ThreadPoolProofs`**: `TypeCorrect`, `NoTaskLostOrDuplicated`,
`GracefulShutdownLosesNothing`, `ShutdownStopsEveryWorker`,
`ImmediateShutdownTakesNothing`, `QueueIsBounded`, `NoWakeupIsLost`, `SafetyInvariant`
and `PoolImplementsTaskPool` (the safety part of the refinement, for a pool
with at least one worker).

None of the properties is inductive alone. `GracefulLosesNothing`, for example,
needs that a worker leaves its loop only with the pool closed and the queue empty
(`NothingLeftBehind`), and `ShutdownIsComplete` needs that a closed pool has
exactly one call on its way through the shutdown (`OneWinner`). `SafetyInv` is the
conjunction of all of them, with `ThreadsAgree` and `Backpressure`. The runs check its parts; it is proved in
layers, each using the ones before: types; conservation; shutdown;
capacity; wakeups. The layer of wakeups is the delicate one: with `SleepingCallers` not
empty, `Len(queue) + Cardinality(NotifiedCallers) >= QueueCapacity` survives a notified caller that loses its place
to a newcomer because that newcomer filled the place. It needs the
cardinality theorems of the library for adding and removing one member.

**`BoundedQueueProofs`**: `TypeCorrect`, `RingStaysConsistent`, `NoBroadcastIsMissed`
and `QueueImplementsFifo` (safety part). The inductive invariant adds `ElementKept`: the element of
a call in progress is known until it is in its slot. The proof rests on one lemma on modular
arithmetic (`WrapAround`: two offsets less than the capacity apart from `head` meet the same slot
only if they are equal), from which `Enqueue` appends to `Contents` and
`Dequeue` takes its head.

**`DatabaseProofs`** is about two programs, and proves `JoinsAlwaysMatchDefinition`, `TablesAreSorted` and `GroupsAlwaysMatchDefinition`
of the query operators (below), and of the second C++ index `TypeCorrect`, `CloseDrainsCalls`, `PublishedLinesAreWhole` and `FileIndexImplementsSnapshot`. The types need
counting: `writeOffset` is the number of the inserts whose line is written (`OffsetInv`), hence never beyond the
last offset. `CloseDrains` rests on `LifeInv`: `inFlight` is the number of inserts plus the number of queries
between `enter` and `leave`, it is 0 once a `Close` has returned and stays so because `enter` refuses, and it is
not 0 while one sleeps, because whoever takes it to 0 wakes all. `IndexPointsAtRecords` rests on `LinesStay`: a
write, complete or torn, goes to `writeOffset`, and everything that an insert, the map or an iterator
knows lies below (`WrittenInv`, `PublishedInv`, `IteratorInv`), so a reader needs no lock. That the walk of a
query ascends (`WalkProperties`) is what its definition as a set (`FirstOf`) gives without recursion. In the refinement
a record's text is what the file holds at its offset, so that the step of the abstract insert is the update of the map, and an
iterator's view, computed from the file of the present state, has to stay what it was when the query looked: that is `LinesStay` again. The
scan of the map is one step under the map's lock, and `ScanSelects` shows that `FirstOf` yields a member of `Select`.

The theorems on the query operators say for tables of any length over any set of integer keys, any sizes of blocks and pages and any number of
partitions what `database` checks on small ones (of the nested-loop join, for equality). The invariant of the state machine, `OperatorInv`, is simple, because one call is all that
happens: before it the tables are as they were passed, after it the three properties hold. The work is in the functions.

* *Recursion.* The library's induction theorems take an operator as a parameter, which no installed prover can instantiate. `SequenceLemmas`
  states them on sets instead: a set of natural numbers that holds 0 and n + 1 with n is `Nat` (`Induct`, from the well-foundedness of <,
  and `InductBelow`), and it proves the recursion theorem with functions as the parameters (`Recursion`: if what
  `step[d]` makes of f depends on f at arguments of smaller size only, some f satisfies `f[d] = step[d][f]`). A recursive function is the one that
  CHOOSE picks among those that satisfy its equation, so `Recursion` turns `FlattenSeq`, `Pieces`, `Merge`, `MergeSort`, `MergeJoin`, `HashTable` and
  `MapThenSumSet` into equations to compute with (`Flatten`, `Merging`, `Sorting`, `Joining`, `Summing`).
* *Joins.* A sequence `Lists` a set if it holds each member once and nothing else. Concatenations of sequences
  that list disjoint sets list their union (`FlattenLists`), and the turns of a nest of loops list the pairs of different rows (`ByRowLists`). For the block join
  pieces split the rows (`PiecesSplit`, which also counts them: M / B, rounded up), and Grace hash join puts rows with equal keys into one partition.
* *Sorting.* `Sorted` orders rows by key and then by payload, which is their old place; `Merging` two sorted
  sequences, of which the left one comes first in the table, is sorted again, by induction on the rows that remain, and so is each part of a table, by induction on its length
  (`MergeSortSorts`). That the order is strict makes the sort stable and its result unique.
* *Sort-merge join.* The rows that are still to be joined at the pointers i and j are `Unjoined`; skipping a row that
  is smaller than all of the other side loses no pair, and two runs of one key are joined by the cross product and are not needed again (`Moves`, `RunLists`).
* *Grouping.* After n rows the accumulator of a key holds the number and the sum of the payloads of its rows so far (`HashTableHolds`), and `Finalize` makes of them
  what the definition of grouping asks for; `SetToSeqLists` says that the results have no row twice.

**`GoIndexProofs`**: `GoTypeCorrect`, `GoOffsetsAreSound`, `GoCloseDrains` and `GoIndexImplementsSnapshot`, in the same
layers. Here the file is appended to (`FileGrows`), and the counter of the wait group is the number of the calls between `Add` and
`Done` (`GroupInv`). `GoCloseDrains` is a property of steps: a `Close` returns only in a state in which the counter is 0, and no call
can be at work then. The stronger claim, that none is at work afterwards either, is the one `go_index_close` refutes. The
refinement leaves out the queries with a limit below 1 (`Proper`), as the run does.

**`DispatcherProofs`**: `DispatcherTypes`, `DispatcherConservesJobs` and `DispatcherKeepsRate`. `PlacesOK` says that the accepted
jobs are the disjoint union of the `jobs` channel, the workers, the `output` channel and what was delivered, and that neither channel
holds a job twice; with `HeldOK` (a worker holds a job exactly while it runs it, and no two hold the same) each step moves one job from one
place to the next, and `PlacesCount` turns that into the cardinality of `JobConservation`. `ClosedLast` is why no result meets
a closed channel. For the rate, the bucket's tokens are the ticks the workers hold plus the one in the ticker's channel
(`Ticks`), and what the bucket has started is every accepted job that has left `jobs`; each action starts a job with a token, loses one, adds one, or is
invisible (`BucketStep`).

**`ProgramProofs`** is about the programs of `MCPrograms`, whose steps are steps of the one that runs (`OneProgramRuns`).

* `StubsCloseIsFinal`: `OnceOK` says who is inside the function of the `sync.Once`, and that nobody has returned before
  it is over; so a call that began after a `Close` finds the flag set, and the teardown has run once.
* `EventBusCloseDrains`: the counter is the number of the subscribers that range, and all registered channels
  are closed in one step, together with the flag that turns later subscribers away.
* `SemaphoreMainEndsLast` and `SemaphoreHandsOutPermits` (the safety part of the refinement): the channel holds one element per
  worker at work, and is full when somebody is parked, so a release hands its permit over.
* `ShutdownCleansUpFirst`: the wait group counts the worker until its cleanup is over.
* `PipelineIsComplete`: the invariant keeps two witnesses, which processor each number went to and which number stands
  behind each printed line, and says that the second is a bijection onto the numbers that have been sent and are not on their way. In the
  end these are all numbers, and `Rearranged` turns the bijection into the equality of bags that `EachNumberOnce` states.
* `FirstIndexOffsetsAreSound` and `FirstIndexImplementsSnapshot`: as for the second version, with the streams. On any storage
  a published position that leads to a record leads to the right one, and while the output stream is good it does lead to a record
  (`WrittenInv`, `MapInv`, `IteratorInv`); a sound storage keeps both streams good (`SoundInv`, `ReaderInv`). What an iterator
  hands out is the line at its position or garbage, so that the records among it are in order.

**`ConnPoolProofs`**: `SlotsAreConserved`, `LeasesAreExclusive` and `PoolImplementsPermits` (safety part). Slots
are counted: each step moves one client in or out of `Borrowers` or hands a slot over. That needs `WaitersOK`, the
queue of receivers holds each parked client once, or a push could serve a client that has left; and `SlotsOK` says of a pool
that is not published yet that nobody can have acquired from it. `LeaseOK` takes the place of the cardinalities in
`ExclusiveLease`: clients and places of the buffer have different connections, and a client that is away,
waits or is creating has none. `RemoveAtElements` is what taking a receiver out of
the queue does to its members.

**Only model-checked**: all liveness properties, and the liveness part of `ImplementsTaskPool`, `ImplementsFifoQueue`,
`ImplementsPermits` and `SemaphoreImplementsPermits`, since fairness and ENABLED are out of the prover's reach. Every other
property of a passing run has its theorem. `WorkersNeverPanic` and the six findings are false, and the counterexamples are
TLC's.

## 5. Findings

* **`Submit` may panic** (`dispatcher_submit_panic`). The notes under `Stop` say that
  once `done` is closed `Submit` backs off "safely, no panic". A `Submit` that
  reaches its `select` after `close(d.jobs)` finds two ready cases, and may choose the send on the closed
  channel. A `Submit` that was already parked when `done` was closed does back off: `close`
  wakes it with that case.
* **`Close` of the Go index does not wait for every call** (`go_index_close`). "Wait
  for all in-flight operations to complete before returning" holds for the calls that were
  added to the wait group (`CloseDrainsAdded`), but `Insert` and `Query` look at the context
  before they add themselves. Such a late `Add` can also make the wait group panic. The C++
  version does both under one mutex, and there `CloseDrains` holds.
* **`Acquire` may succeed after `Close`** (`conn_pool_close`). `Close` "prevents new Acquire
  calls", but the `select` of `Acquire` may choose an idle connection though the pool's context is
  done. `Close` does not drain the channel either, so idle connections stay there.
* **The first index publishes what was not written** (`append_index_publish`). `insert` flushes
  "to guarantee bytes are on disk before the offset is published", but looks
  at no result: if the write fails, the offset is published and leads nowhere, and
  since the stream stays failed, `tellp` gives -1 for every insert that follows, which is published too. An iterator
  that meets one of these positions fails its own stream, and hands out unset records from then on, for
  sound lines as well. As long as nothing fails all is well (`OffsetsAreSound`). The second version looks at the
  stream and rolls back, and there `IndexPointsAtRecords` holds.
* **A limit of 0 yields a record** (`go_index_limit`). "Results are limited to `limit` records", but the Go
  `Query` compares its count with the limit only after it has taken a record, so
  one record above `minId` is in the iterator of a limit of 0 (`Effective` in `GoIndex`).
  For limits of at least 1 the sentence holds (`OffsetsAreSound`); the refinement leaves the other queries out.
* **The range join is asked the wrong way round** (`nested_range_join`). `nestedLoopJoin` passes the inner row
  first, to the predicate as in the result. The range predicate that `main` offers it is explained as
  "outer.key falls within inner's range", and is asked whether the inner key falls within the outer's range. A
  predicate that is symmetric, like equality, does not notice (`JoinsMatchDefinition`).

More observations have no run of their own. A worker of the dispatcher that holds a tick when both
channels are closed may choose the receive from `jobs`, which yields a nil `Job`, and call
it, where `Stop` promises to tear down "without panicking"; `WorkersNeverPanic` in `Dispatcher` states the
promise, and TLC refutes it as an invariant of the instance of `dispatcher`. The dispatcher's rate limit has a burst: each idle worker holds
a tick while it waits for a job, so after a quiet time one more job than there are workers may start
at once (`ImplementsTokenBucket`). The first index starts with an empty map on top of an old table, whose
records no query finds again. And an
insert of the same id that wrote first may publish last, in all three indexes, so that the
map ends at the older line: each insert still takes effect at one instant.

## 6. What is not modelled, and the plan

Not modelled for good: `LRU_with_ttl.cpp` (a problem statement); the Go LRU cache
(`final_LRU-cache-with-ttl/library.go`), which does not compile and whose meaning is open at the
points that matter: the list behind `c.LRUMap` belongs to no type, `isDone`, `worker` and
`errors.new` do not exist, `Close` is empty and the eviction is a comment
(`connection_pool.go` does not compile as it stands either, but only spellings
(`ctx.done`, `errors.new`, `*Pool`) and missing results are at fault, and each statement of an operation has one meaning; so it is modelled); demonstration `main` functions of the
components above, logging, and the design notes. Excluded by assumption, each with a single
outcome that needs no search: a
bounded queue or a semaphore of capacity 0 (every call waits for ever; the semaphore's `main` goes on with
`N = 0` when its input is no number), a pool of no threads in the runs (the theorems
cover it), a rate of 0 (a division by zero), blocks of 0 pages (the loop does not end) and 0
partitions (undefined), a second `Stop` of the dispatcher (it
panics at `close(d.done)`), deleting an index before its iterators, a value with a tab or a newline in
it, and giving a connection back twice (misuse by the caller, which the sources rule out).

Next: theorems on what is left of the promises that the findings refute (when `Submit` can panic at all, which calls a `Close` of
the Go index may miss, what an `Acquire` after `Close` can still get), and lemmas that the three proofs about `SnapshotIndex` could share.
Liveness stays with TLC.
