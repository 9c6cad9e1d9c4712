------------------------------ MODULE EventBus ------------------------------
(***************************************************************************)
(* src/go-concurrency-practice/lld-event-bus.go: one channel and one       *)
(* goroutine per subscription, a closed flag under a read-write mutex, and *)
(* a Close that waits for the goroutines as long as its context lets it.   *)
(*                                                                         *)
(* Publish looks up the channels and, as the source has it, sends nothing, *)
(* so the channels are always empty: a goroutine ranges over its channel   *)
(* until that is closed.  What is done under the mutex is one action.      *)
(***************************************************************************)
EXTENDS Naturals, FiniteSets

CONSTANTS
  Topics,
  Subscriptions,  \* one member per call of Subscribe, its channel and its goroutine
  Publishes,      \* one member per call of Publish
  Closes,         \* one member per call of Close; a retry is another call
  MaxSubscribersPerTopic

VARIABLES
  topics,     \* topic -> the channels registered under it
  closed,     \* the shutdown flag
  closedChs,  \* the channels that are closed
  doubly,     \* was a closed channel closed again, which panics?
  wg,         \* the counter of the wait group
  subscribe,  \* where each Subscribe is: its error, or where its goroutine is
  publish,    \* what each Publish returned
  close       \* where each Close is

vars == <<topics, closed, closedChs, doubly, wg, subscribe, publish, close>>

Init ==
  /\ topics = [t \in Topics |-> {}]
  /\ closed = FALSE
  /\ closedChs = {}
  /\ doubly = FALSE
  /\ wg = 0
  /\ subscribe = [s \in Subscriptions |-> "idle"]
  /\ publish = [p \in Publishes |-> "idle"]
  /\ close = [c \in Closes |-> "idle"]

-----------------------------------------------------------------------------
\* Definitions named Faulty... are never part of the specification: each is a
\* plausible mistake in the definition that follows it, kept to show that the
\* properties notice it.

Publish(p, t) ==
  /\ publish[p] = "idle"
  /\ publish' = [publish EXCEPT ![p] =
       IF closed THEN "ErrClosed" ELSE IF topics[t] = {} THEN "ErrTopicNotFound" ELSE "nil"]
  /\ UNCHANGED <<topics, closed, closedChs, doubly, wg, subscribe, close>>

SubscribeRefused(s, t) ==
  /\ subscribe[s] = "idle"
  /\ \/ /\ closed
        /\ subscribe' = [subscribe EXCEPT ![s] = "ErrClosed"]
     \/ /\ ~closed
        /\ Cardinality(topics[t]) >= MaxSubscribersPerTopic
        /\ subscribe' = [subscribe EXCEPT ![s] = "ErrSubscriberLimitReached"]
  /\ UNCHANGED <<topics, closed, closedChs, doubly, wg, publish, close>>

\* The flag is not looked at.
FaultySubscribe(s, t) ==
  /\ subscribe[s] = "idle"
  /\ Cardinality(topics[t]) < MaxSubscribersPerTopic
  /\ topics' = [topics EXCEPT ![t] = @ \cup {s}]
  /\ wg' = wg + 1
  /\ subscribe' = [subscribe EXCEPT ![s] = "ranging"]
  /\ UNCHANGED <<closed, closedChs, doubly, publish, close>>
Subscribe(s, t) ==
  /\ subscribe[s] = "idle"
  /\ ~closed
  /\ Cardinality(topics[t]) < MaxSubscribersPerTopic
  /\ topics' = [topics EXCEPT ![t] = @ \cup {s}]
  /\ wg' = wg + 1
  /\ subscribe' = [subscribe EXCEPT ![s] = "ranging"]
  /\ UNCHANGED <<closed, closedChs, doubly, publish, close>>

\* The range loop ends, and the deferred Done is called.
HandlerEnds(s) ==
  /\ subscribe[s] = "ranging"
  /\ s \in closedChs
  /\ wg' = wg - 1
  /\ subscribe' = [subscribe EXCEPT ![s] = "ended"]
  /\ UNCHANGED <<topics, closed, closedChs, doubly, publish, close>>

\* The first channel of each topic only.
FaultyRegistered == {CHOOSE s \in topics[t] : TRUE : t \in {u \in Topics : topics[u] # {}}}
Registered == UNION {topics[t] : t \in Topics}

\* once.Do: a caller that comes second finds all done when it gets through.
CloseOnce(c) ==
  /\ close[c] = "idle"
  /\ close' = [close EXCEPT ![c] = "selecting"]
  /\ \/ /\ ~closed
        /\ closed' = TRUE
        /\ closedChs' = closedChs \cup Registered
        /\ doubly' = (doubly \/ closedChs \cap Registered # {})
     \/ closed /\ UNCHANGED <<closed, closedChs, doubly>>
  /\ UNCHANGED <<topics, wg, subscribe, publish>>

\* The goroutine that waits for the group closes done, and select sees it.
FaultyCloseReturns(c) ==
  /\ close[c] = "selecting"
  /\ close' = [close EXCEPT ![c] = "nil"]
  /\ UNCHANGED <<topics, closed, closedChs, doubly, wg, subscribe, publish>>
CloseReturns(c) ==
  /\ close[c] = "selecting"
  /\ wg = 0
  /\ close' = [close EXCEPT ![c] = "nil"]
  /\ UNCHANGED <<topics, closed, closedChs, doubly, wg, subscribe, publish>>

\* ctx is done, now or before the call, and whether done is closed or not.
CloseGivesUp(c) ==
  /\ close[c] = "selecting"
  /\ close' = [close EXCEPT ![c] = "ctx.Err"]
  /\ UNCHANGED <<topics, closed, closedChs, doubly, wg, subscribe, publish>>

Next ==
  \/ \E t \in Topics :
       \/ \E p \in Publishes : Publish(p, t)
       \/ \E s \in Subscriptions : SubscribeRefused(s, t) \/ Subscribe(s, t)
  \/ \E s \in Subscriptions : HandlerEnds(s)
  \/ \E c \in Closes : CloseOnce(c) \/ CloseReturns(c) \/ CloseGivesUp(c)

\* What goroutines that are not blocked do next: each goes on, and since each
\* does so once, fairness of all these steps together is enough.  No context
\* has to end.
Owed ==
  \/ \E s \in Subscriptions : HandlerEnds(s)
  \/ \E c \in Closes : CloseReturns(c)

Spec == Init /\ [][Next]_vars /\ WF_vars(Owed)

-----------------------------------------------------------------------------
(* What holds *)

Ranging == {s \in Subscriptions : subscribe[s] = "ranging"}

TypeOK ==
  /\ topics \in [Topics -> SUBSET Subscriptions]
  /\ {closed, doubly} \subseteq BOOLEAN
  /\ closedChs \subseteq Subscriptions
  /\ wg \in 0 .. Cardinality(Subscriptions)
  /\ subscribe \in [Subscriptions -> {"idle", "ErrClosed", "ErrSubscriberLimitReached",
                                      "ranging", "ended"}]
  /\ publish \in [Publishes -> {"idle", "ErrClosed", "ErrTopicNotFound", "nil"}]
  /\ close \in [Closes -> {"idle", "selecting", "nil", "ctx.Err"}]

\* "blocks until all enqueued events finish processing" (Close): once a Close
\* has returned nil no subscriber's goroutine is left, nor does one start
\* later, because Add is called under the mutex that the flag is set under.
\* However many callers race, every channel is closed once, and exactly the
\* registered subscriptions have or had a goroutine.
CloseDrains ==
  /\ ~doubly
  /\ wg = Cardinality(Ranging)
  /\ Registered = Ranging \cup {s \in Subscriptions : subscribe[s] = "ended"}
  /\ (\E c \in Closes : close[c] = "nil") => closed /\ Ranging = {}

\* A Close returns though its context never ends, be it the first call, one
\* that raced it or a retry; so no goroutine outlives the bus.
CloseEnds ==
  \A c \in Closes : close[c] = "selecting" ~> close[c] # "selecting" /\ Ranging = {}
=============================================================================
