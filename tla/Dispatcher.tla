----------------------------- MODULE Dispatcher -----------------------------
(***************************************************************************)
(* src/go-concurrency-practice/worker-pool-with-rate-limiting/             *)
(* token-bucket-rate-limited-worker-pool.go: workers that each need a tick *)
(* of one shared ticker before they take a job, a jobs channel and an      *)
(* output channel, and a done channel that Stop closes first.              *)
(*                                                                         *)
(* Channels follow the Go memory model.  A select looks at all its         *)
(* channels at once: if some cases can proceed it takes any one of them    *)
(* (a case on a closed channel always can), otherwise the goroutine parks. *)
(* The first event on one of its channels completes the parked select with *)
(* the case of that event: close(done) wakes every parked select, a send   *)
(* hands its value to a parked receiver, and a receive from a full buffer  *)
(* lets one parked sender in.  Of several parked goroutines any one may be *)
(* chosen, where the runtime chooses the first.  A panic ends the program. *)
(***************************************************************************)
EXTENDS Naturals, Sequences, FiniteSets, Functions

CONSTANTS
  Workers,  \* the goroutines NewDispatcher starts (workerCount of them)
  Jobs,     \* one member per call of Submit
  NoJob     \* what a worker that has no job holds

ASSUME WorkersAssumption == IsFiniteSet(Workers)
ASSUME JobsAssumption == NoJob \notin Jobs

VARIABLES
  jobs,          \* the buffer of the jobs channel
  output,        \* the buffer of the output channel: jobs whose result it holds
  tick,          \* is a tick waiting in the ticker's channel?
  beat,          \* history: flips with every tick of the ticker
  doneClosed,    \* close(d.done)
  jobsClosed,    \* close(d.jobs)
  outputClosed,  \* close(d.output)
  submit,        \* where each call of Submit is
  worker,        \* where each worker is
  held,          \* the job each worker executes
  delivered,     \* the jobs whose result was read from Results()
  stop,          \* where the call of Stop is
  panicked       \* "no", or which goroutine's panic ended the program

channels == <<jobs, output, tick, beat, doneClosed, jobsClosed, outputClosed>>
vars == <<channels, submit, worker, held, delivered, stop, panicked>>

BufferSize == Cardinality(Workers)
Full(buffer) == Len(buffer) >= BufferSize

\* Types, and the buffers of the channels within their capacity.
TypeOK ==
  /\ jobs \in Seq(Jobs) /\ Len(jobs) <= BufferSize
  /\ output \in Seq(Jobs) /\ Len(output) <= BufferSize
  /\ {tick, beat, doneClosed, jobsClosed, outputClosed} \subseteq BOOLEAN
  /\ submit \in [Jobs -> {"idle", "parked", "sent", "stopped", "cancelled"}]
  /\ worker \in [Workers -> {"ready", "tickParked", "ticked", "jobParked",
                             "running", "exited"}]
  /\ held \in [Workers -> Jobs \cup {NoJob}]
  /\ delivered \subseteq Jobs
  /\ stop \in {"idle", "closing", "joining", "returned"}
  /\ panicked \in {"no", "submit", "worker"}

Init ==
  /\ jobs = <<>>
  /\ output = <<>>
  /\ tick = FALSE
  /\ beat = FALSE
  /\ doneClosed = FALSE
  /\ jobsClosed = FALSE
  /\ outputClosed = FALSE
  /\ submit = [j \in Jobs |-> "idle"]
  /\ worker = [w \in Workers |-> "ready"]
  /\ held = [w \in Workers |-> NoJob]
  /\ delivered = {}
  /\ stop = "idle"
  /\ panicked = "no"

ParkedSubmits == {j \in Jobs : submit[j] = "parked"}
JobParked == {w \in Workers : worker[w] = "jobParked"}
TickParked == {w \in Workers : worker[w] = "tickParked"}

-----------------------------------------------------------------------------
(* Submit: select over ctx.Done(), d.done and the send to d.jobs *)

\* case <-ctx.Done(): the context is done before the call or becomes done.
SubmitCancelled(j) ==
  /\ submit[j] \in {"idle", "parked"}
  /\ submit' = [submit EXCEPT ![j] = "cancelled"]
  /\ UNCHANGED <<channels, worker, held, delivered, stop, panicked>>

\* case <-d.done
SubmitStopped(j) ==
  /\ submit[j] = "idle"
  /\ doneClosed
  /\ submit' = [submit EXCEPT ![j] = "stopped"]
  /\ UNCHANGED <<channels, worker, held, delivered, stop, panicked>>

\* case d.jobs <- job: to a worker parked on the channel or into the buffer.
SubmitSends(j) ==
  /\ submit[j] = "idle"
  /\ ~jobsClosed
  /\ submit' = [submit EXCEPT ![j] = "sent"]
  /\ \/ \E w \in JobParked :
          /\ worker' = [worker EXCEPT ![w] = "running"]
          /\ held' = [held EXCEPT ![w] = j]
          /\ UNCHANGED jobs
     \/ /\ JobParked = {}
        /\ ~Full(jobs)
        /\ jobs' = Append(jobs, j)
        /\ UNCHANGED <<worker, held>>
  /\ UNCHANGED <<output, tick, beat, doneClosed, jobsClosed, outputClosed, delivered,
                 stop, panicked>>

\* The select chose the send although the channel is closed.
SubmitPanics(j) ==
  /\ submit[j] = "idle"
  /\ jobsClosed
  /\ panicked' = "submit"
  /\ UNCHANGED <<channels, submit, worker, held, delivered, stop>>

SubmitParks(j) ==
  /\ submit[j] = "idle"
  /\ ~doneClosed
  /\ JobParked = {}
  /\ Full(jobs)
  /\ submit' = [submit EXCEPT ![j] = "parked"]
  /\ UNCHANGED <<channels, worker, held, delivered, stop, panicked>>

Submit(j) ==
  \/ SubmitCancelled(j)
  \/ SubmitStopped(j)
  \/ SubmitSends(j)
  \/ SubmitPanics(j)
  \/ SubmitParks(j)

-----------------------------------------------------------------------------
(* The ticker: a tick nobody waits for is kept, a second one is dropped *)

Tick ==
  /\ stop # "returned"
  /\ beat' = ~beat
  /\ \/ \E w \in TickParked : worker' = [worker EXCEPT ![w] = "ticked"] /\ UNCHANGED tick
     \/ TickParked = {} /\ tick' = TRUE /\ UNCHANGED worker
  /\ UNCHANGED <<jobs, output, doneClosed, jobsClosed, outputClosed, submit,
                 held, delivered, stop, panicked>>

-----------------------------------------------------------------------------
(* worker: select over d.done and d.ticker.C, then over d.done and d.jobs *)

WorkerExits(w) ==
  /\ worker[w] \in {"ready", "ticked"}
  /\ doneClosed
  /\ worker' = [worker EXCEPT ![w] = "exited"]
  /\ UNCHANGED <<channels, submit, held, delivered, stop, panicked>>

WorkerTakesTick(w) ==
  /\ worker[w] = "ready"
  /\ tick
  /\ tick' = FALSE
  /\ worker' = [worker EXCEPT ![w] = "ticked"]
  /\ UNCHANGED <<jobs, output, beat, doneClosed, jobsClosed, outputClosed, submit,
                 held, delivered, stop, panicked>>

\* Definitions named Faulty... are never part of the specification: each is a
\* plausible mistake in the definition that follows it, kept to show that the
\* properties notice it.

\* The worker looks at the head of the buffer and leaves it there.
FaultyWorkerPeeks(w) ==
  /\ worker[w] = "ticked"
  /\ jobs # <<>>
  /\ held' = [held EXCEPT ![w] = Head(jobs)]
  /\ worker' = [worker EXCEPT ![w] = "running"]
  /\ UNCHANGED <<channels, submit, delivered, stop, panicked>>
\* The receive lets no parked Submit in.
FaultyWorkerTakesJob(w) ==
  /\ worker[w] = "ticked"
  /\ jobs # <<>>
  /\ held' = [held EXCEPT ![w] = Head(jobs)]
  /\ jobs' = Tail(jobs)
  /\ worker' = [worker EXCEPT ![w] = "running"]
  /\ UNCHANGED <<submit, output, tick, beat, doneClosed, jobsClosed, outputClosed,
                 delivered, stop, panicked>>
\* A receive from the full buffer also completes one parked Submit, whose job
\* goes to the tail.
WorkerTakesJob(w) ==
  /\ worker[w] = "ticked"
  /\ jobs # <<>>
  /\ held' = [held EXCEPT ![w] = Head(jobs)]
  /\ worker' = [worker EXCEPT ![w] = "running"]
  /\ \/ \E j \in ParkedSubmits :
          /\ jobs' = Append(Tail(jobs), j)
          /\ submit' = [submit EXCEPT ![j] = "sent"]
     \/ /\ ParkedSubmits = {}
        /\ jobs' = Tail(jobs)
        /\ UNCHANGED submit
  /\ UNCHANGED <<output, tick, beat, doneClosed, jobsClosed, outputClosed, delivered,
                 stop, panicked>>

\* The receive from the closed and drained channel yields a nil Job, and
\* curr_job() calls it.
WorkerCallsNil(w) ==
  /\ worker[w] = "ticked"
  /\ jobs = <<>>
  /\ jobsClosed
  /\ panicked' = "worker"
  /\ UNCHANGED <<channels, submit, worker, held, delivered, stop>>

WorkerParks(w) ==
  /\ ~doneClosed
  /\ \/ /\ worker[w] = "ready"
        /\ ~tick
        /\ worker' = [worker EXCEPT ![w] = "tickParked"]
     \/ /\ worker[w] = "ticked"
        /\ jobs = <<>>
        /\ worker' = [worker EXCEPT ![w] = "jobParked"]
  /\ UNCHANGED <<channels, submit, held, delivered, stop, panicked>>

\* The worker returns after one job instead of looping.
FaultyFinishJob(w) ==
  /\ worker[w] = "running"
  /\ ~Full(output)
  /\ output' = Append(output, held[w])
  /\ held' = [held EXCEPT ![w] = NoJob]
  /\ worker' = [worker EXCEPT ![w] = "exited"]
  /\ UNCHANGED <<jobs, tick, beat, doneClosed, jobsClosed, outputClosed, submit,
                 delivered, stop, panicked>>
\* The loop waits for the next job without a new tick.
FaultyFinishJobKeepsTick(w) ==
  /\ worker[w] = "running"
  /\ ~Full(output)
  /\ output' = Append(output, held[w])
  /\ held' = [held EXCEPT ![w] = NoJob]
  /\ worker' = [worker EXCEPT ![w] = "ticked"]
  /\ UNCHANGED <<jobs, tick, beat, doneClosed, jobsClosed, outputClosed, submit,
                 delivered, stop, panicked>>
\* The job runs, and d.output <- result blocks while the buffer is full,
\* whether or not the dispatcher is stopping.
FinishJob(w) ==
  /\ worker[w] = "running"
  /\ ~Full(output)
  /\ output' = Append(output, held[w])
  /\ held' = [held EXCEPT ![w] = NoJob]
  /\ worker' = [worker EXCEPT ![w] = "ready"]
  /\ UNCHANGED <<jobs, tick, beat, doneClosed, jobsClosed, outputClosed, submit,
                 delivered, stop, panicked>>

WorkerStep(w) ==
  \/ WorkerExits(w)
  \/ WorkerTakesTick(w)
  \/ WorkerTakesJob(w)
  \/ WorkerCallsNil(w)
  \/ WorkerParks(w)
  \/ FinishJob(w)

\* The client that ranges over Results().
ReadResult ==
  /\ output # <<>>
  /\ delivered' = delivered \cup {Head(output)}
  /\ output' = Tail(output)
  /\ UNCHANGED <<jobs, tick, beat, doneClosed, jobsClosed, outputClosed, submit,
                 worker, held, stop, panicked>>

-----------------------------------------------------------------------------
(* Stop, called once *)

\* The selects of the workers have no done case.
FaultyCloseDoneUnheard ==
  /\ stop = "idle"
  /\ stop' = "closing"
  /\ doneClosed' = TRUE
  /\ submit' = [j \in Jobs |-> IF submit[j] = "parked" THEN "stopped" ELSE submit[j]]
  /\ UNCHANGED <<jobs, output, tick, beat, jobsClosed, outputClosed, worker, held,
                 delivered, panicked>>
\* close(d.done) completes every parked select with its done case.
CloseDone ==
  /\ stop = "idle"
  /\ stop' = "closing"
  /\ doneClosed' = TRUE
  /\ submit' = [j \in Jobs |-> IF submit[j] = "parked" THEN "stopped" ELSE submit[j]]
  /\ worker' = [w \in Workers |->
                  IF worker[w] \in {"tickParked", "jobParked"} THEN "exited" ELSE worker[w]]
  /\ UNCHANGED <<jobs, output, tick, beat, jobsClosed, outputClosed, held, delivered,
                 panicked>>

CloseJobs ==
  /\ stop = "closing"
  /\ stop' = "joining"
  /\ jobsClosed' = TRUE
  /\ UNCHANGED <<jobs, output, tick, beat, doneClosed, outputClosed, submit, worker,
                 held, delivered, panicked>>

\* wg.Wait(), ticker.Stop(), close(d.output)
CloseOutput ==
  /\ stop = "joining"
  /\ \A w \in Workers : worker[w] = "exited"
  /\ stop' = "returned"
  /\ outputClosed' = TRUE
  /\ UNCHANGED <<jobs, output, tick, beat, doneClosed, jobsClosed, submit, worker,
                 held, delivered, panicked>>

-----------------------------------------------------------------------------
Running == panicked = "no"

Next ==
  /\ Running
  /\ \/ \E j \in Jobs : Submit(j)
     \/ \E w \in Workers : WorkerStep(w)
     \/ Tick
     \/ ReadResult
     \/ CloseDone
     \/ CloseJobs
     \/ CloseOutput

SafeSpec == Init /\ [][Next]_vars

\* Workers that can run do, the ticker keeps ticking, a Stop that began goes
\* on, and the client keeps reading Results().  Nobody has to submit, and a
\* context need not become done.
Fairness ==
  /\ \A w \in Workers : WF_vars(Running /\ WorkerStep(w))
  /\ WF_vars(Running /\ Tick)
  /\ WF_vars(Running /\ ReadResult)
  /\ WF_vars(Running /\ CloseJobs)
  /\ WF_vars(Running /\ CloseOutput)

Spec == SafeSpec /\ Fairness

-----------------------------------------------------------------------------
(* What holds *)

\* The places of an accepted job on its way from Submit to the reader.
Places(j) ==
  {p \in {"jobs", "worker", "output", "delivered"} :
     CASE p = "jobs" -> j \in Range(jobs)
       [] p = "worker" -> j \in Range(held)
       [] p = "output" -> j \in Range(output)
       [] p = "delivered" -> j \in delivered}

\* A job whose Submit returned nil is at exactly one place, once, and a job
\* whose Submit returned an error is nowhere: no job is lost, run twice, or
\* run although its caller was refused.  close(d.output) comes after the last
\* send: no worker is left that could still send, or that holds a job.
JobConservation ==
  /\ TypeOK
  /\ IsInjective(jobs) /\ IsInjective(output)
  /\ \A v, w \in Workers : held[v] = held[w] /\ v # w => held[v] = NoJob
  /\ \A j \in Jobs : Cardinality(Places(j)) = (IF submit[j] = "sent" THEN 1 ELSE 0)
  /\ outputClosed => \A w \in Workers : worker[w] = "exited" /\ held[w] = NoJob

\* A worker keeps the tick it took while it waits for a job, and the ticker's
\* channel keeps one more.
Bucket == INSTANCE TokenBucket WITH
  Burst <- Cardinality(Workers) + 1,
  tokens <- Cardinality({w \in Workers : worker[w] \in {"ticked", "jobParked"}})
              + (IF tick THEN 1 ELSE 0),
  started <- (Range(held) \ {NoJob}) \cup Range(output) \cup delivered

\* "One global ticker, shared across all workers. That's what enforces the
\* pool-wide rate limit": after a time with no work a tick for each worker and
\* one more are in store, and as many jobs may start at once; beyond that, jobs
\* start no faster than ticks come.
ImplementsTokenBucket == Bucket!SafeSpec

\* Until the dispatcher is stopped, the result of every accepted job reaches
\* the reader.
AcceptedJobsAreDelivered ==
  \A j \in Jobs : submit[j] = "sent" ~> j \in delivered \/ doneClosed

\* Stop returns if the results are read, unless the program dies.
StopReturns == stop = "closing" ~> stop = "returned" \/ ~Running

\* A Submit does not stay blocked: a tick lets it in, or Stop turns it away.
SubmitReturns ==
  \A j \in Jobs : submit[j] = "parked" ~> submit[j] # "parked"

-----------------------------------------------------------------------------
(* What the source claims and the code does not do *)

\* "Once done is closed, Submit() backs off and returns an error, safely, no
\* panic" (the notes under Stop).
SubmitNeverPanics == panicked # "submit"

\* "Tear down workers and close channels cleanly without panicking" (the
\* comment in Stop): no worker calls the nil Job of a closed channel.
WorkersNeverPanic == panicked # "worker"
=============================================================================
