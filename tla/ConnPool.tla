------------------------------ MODULE ConnPool ------------------------------
(***************************************************************************)
(* src/go-concurrency-practice/final_connection_pool/connection_pool.go: a *)
(* fixed number of connections in a buffered channel.  Acquire selects     *)
(* over the pool's context, the caller's context and the channel; Release  *)
(* and Destroy look whether the pool is closed and then send a connection  *)
(* to the channel; Close cancels the pool's context.                       *)
(*                                                                         *)
(* A select with several ready cases takes any one of them.  The channel   *)
(* serves parked receivers first come first served, and a send to a        *)
(* channel with a parked receiver hands it the connection directly.        *)
(* A call of Acquire that returns an error changes nothing, so only those  *)
(* errors that end a wait are steps.                                       *)
(***************************************************************************)
EXTENDS Naturals, Sequences, FiniteSets, SequencesExt

CONSTANTS
  Clients,  \* goroutines that acquire, and give back what they acquired once
  Conns,    \* descriptors: one that was closed may be issued again
  MaxSize,  \* max_size
  Nil       \* the nil connection, and no connection

ASSUME SizeAssumption == MaxSize \in Nat \ {0}
ASSUME ConnsAssumption == IsFiniteSet(Conns) /\ Nil \notin Conns
ASSUME ClientsAssumption == IsFiniteSet(Clients)

VARIABLES
  pool,     \* "building" in NewPool, then "open", "closed" or "failed"
  idle,     \* the buffer of idle_connections
  waiters,  \* the clients parked in Acquire, in order of arrival
  client,   \* where each client is
  conn,     \* the connection each client has
  opened    \* the connections whose file descriptor is open

vars == <<pool, idle, waiters, client, conn, opened>>

\* Types, and the channel within its capacity.
TypeOK ==
  /\ pool \in {"building", "open", "closed", "failed"}
  /\ idle \in Seq(Conns \cup {Nil}) /\ Len(idle) <= MaxSize
  /\ waiters \in Seq(Clients)
  /\ client \in [Clients -> {"away", "waiting", "using", "creating", "created", "pushing"}]
  /\ conn \in [Clients -> Conns \cup {Nil}]
  /\ opened \subseteq Conns

Init ==
  /\ pool = "building"
  /\ idle = <<>>
  /\ waiters = <<>>
  /\ client = [g \in Clients |-> "away"]
  /\ conn = [g \in Clients |-> Nil]
  /\ opened = {}

Published == pool \in {"open", "closed"}

\* The clients that take up one of the MaxSize slots.
Borrowers == {g \in Clients : client[g] \in {"using", "creating", "created", "pushing"}}

-----------------------------------------------------------------------------
(* NewPool *)

BuildConn ==
  /\ pool = "building"
  /\ \E c \in Conns \ opened :
       /\ opened' = opened \cup {c}
       /\ idle' = Append(idle, c)
  /\ pool' = IF Len(idle) + 1 = MaxSize THEN "open" ELSE "building"
  /\ UNCHANGED <<waiters, client, conn>>

\* The factory fails: NewPool returns the error and forgets the connections
\* it made before, which stay open.
BuildFails ==
  /\ pool = "building"
  /\ pool' = "failed"
  /\ UNCHANGED <<idle, waiters, client, conn, opened>>

-----------------------------------------------------------------------------
(* Acquire *)

\* case conn := <-p.idle_connections, which may be chosen in a closed pool too.
AcquireTakes(g) ==
  /\ client[g] = "away"
  /\ Published
  /\ idle # <<>>
  /\ client' = [client EXCEPT ![g] = "using"]
  /\ conn' = [conn EXCEPT ![g] = Head(idle)]
  /\ idle' = Tail(idle)
  /\ UNCHANGED <<pool, waiters, opened>>

AcquireWaits(g) ==
  /\ client[g] = "away"
  /\ pool = "open"
  /\ idle = <<>>
  /\ client' = [client EXCEPT ![g] = "waiting"]
  /\ waiters' = Append(waiters, g)
  /\ UNCHANGED <<pool, idle, conn, opened>>

\* The client is taken out of the queue of receivers.
Unpark(g) ==
  \E n \in DOMAIN waiters : waiters[n] = g /\ waiters' = RemoveAt(waiters, n)

\* case <-ctx.Done() ends the wait.
AcquireTimesOut(g) ==
  /\ client[g] = "waiting"
  /\ client' = [client EXCEPT ![g] = "away"]
  /\ Unpark(g)
  /\ UNCHANGED <<pool, idle, conn, opened>>

-----------------------------------------------------------------------------
(* Release and Destroy *)

\* Release in a pool found closed.
ReleaseCloses(g) ==
  /\ client[g] = "using"
  /\ pool = "closed"
  /\ opened' = opened \ {conn[g]}
  /\ client' = [client EXCEPT ![g] = "away"]
  /\ conn' = [conn EXCEPT ![g] = Nil]
  /\ UNCHANGED <<pool, idle, waiters>>

\* The default case of Release's select: the send is still to come, and the
\* pool may be closed before it.
ReleaseStarts(g) ==
  /\ client[g] = "using"
  /\ pool = "open"
  /\ client' = [client EXCEPT ![g] = "pushing"]
  /\ UNCHANGED <<pool, idle, waiters, conn, opened>>

\* Definitions named Faulty... are never part of the specification: each is a
\* plausible mistake in the definition that follows it, kept to show that the
\* properties notice it.

\* The descriptor is not closed.
FaultyDestroyCloses(g) ==
  /\ client[g] = "using"
  /\ client' = [client EXCEPT ![g] = "creating"]
  /\ conn' = [conn EXCEPT ![g] = Nil]
  /\ UNCHANGED <<pool, idle, waiters, opened>>
\* Destroy closes the connection, then calls the factory.
DestroyCloses(g) ==
  /\ client[g] = "using"
  /\ opened' = opened \ {conn[g]}
  /\ client' = [client EXCEPT ![g] = "creating"]
  /\ conn' = [conn EXCEPT ![g] = Nil]
  /\ UNCHANGED <<pool, idle, waiters>>

\* Destroy gives up when the factory fails.
FaultyDestroyCreates(g) ==
  /\ client[g] = "creating"
  /\ \/ \E c \in Conns \ opened :
          /\ opened' = opened \cup {c}
          /\ conn' = [conn EXCEPT ![g] = c]
          /\ client' = [client EXCEPT ![g] = "created"]
     \/ client' = [client EXCEPT ![g] = "away"] /\ UNCHANGED <<opened, conn>>
  /\ UNCHANGED <<pool, idle, waiters>>
\* The factory returns a connection, or nil and an error that is ignored.
DestroyCreates(g) ==
  /\ client[g] = "creating"
  /\ client' = [client EXCEPT ![g] = "created"]
  /\ \/ \E c \in Conns \ opened :
          /\ opened' = opened \cup {c}
          /\ conn' = [conn EXCEPT ![g] = c]
     \/ UNCHANGED <<opened, conn>>
  /\ UNCHANGED <<pool, idle, waiters>>

\* The second select of Destroy.
DestroyChecks(g) ==
  /\ client[g] = "created"
  /\ \/ /\ pool = "closed"
        /\ opened' = opened \ {conn[g]}
        /\ client' = [client EXCEPT ![g] = "away"]
        /\ conn' = [conn EXCEPT ![g] = Nil]
     \/ /\ pool = "open"
        /\ client' = [client EXCEPT ![g] = "pushing"]
        /\ UNCHANGED <<opened, conn>>
  /\ UNCHANGED <<pool, idle, waiters>>

\* The client that came last is served.
FaultyServe == waiters[Len(waiters)]
Serve == Head(waiters)

\* p.idle_connections <- conn: to the first client that waits, or into the
\* buffer.
PushConn(g) ==
  /\ client[g] = "pushing"
  /\ \/ /\ waiters # <<>>
        /\ client' = [client EXCEPT ![g] = "away", ![Serve] = "using"]
        /\ conn' = [conn EXCEPT ![g] = Nil, ![Serve] = conn[g]]
        /\ Unpark(Serve)
        /\ UNCHANGED idle
     \/ /\ waiters = <<>>
        /\ Len(idle) < MaxSize
        /\ idle' = Append(idle, conn[g])
        /\ client' = [client EXCEPT ![g] = "away"]
        /\ conn' = [conn EXCEPT ![g] = Nil]
        /\ UNCHANGED waiters
  /\ UNCHANGED <<pool, opened>>

-----------------------------------------------------------------------------
\* Close: cancel() ends every wait, and is all that Close does; calling it
\* again changes nothing.
FaultyClose ==
  /\ pool = "open"
  /\ pool' = "closed"
  /\ UNCHANGED <<idle, waiters, client, conn, opened>>
Close ==
  /\ pool = "open"
  /\ pool' = "closed"
  /\ client' = [g \in Clients |-> IF client[g] = "waiting" THEN "away" ELSE client[g]]
  /\ waiters' = <<>>
  /\ UNCHANGED <<idle, conn, opened>>

\* What a client with a connection does next.
GivesBack(g) ==
  \/ ReleaseCloses(g)
  \/ ReleaseStarts(g)
  \/ DestroyCloses(g)
  \/ DestroyCreates(g)
  \/ DestroyChecks(g)
  \/ PushConn(g)

Next ==
  \/ BuildConn
  \/ BuildFails
  \/ Close
  \/ \E g \in Clients : \/ AcquireTakes(g)
                        \/ AcquireWaits(g)
                        \/ AcquireTimesOut(g)
                        \/ GivesBack(g)

SafeSpec == Init /\ [][Next]_vars

\* A client gives back what it acquired, and a call that is not blocked goes
\* on.  Nobody has to acquire, time out or close.
Spec == SafeSpec /\ \A g \in Clients : WF_vars(GivesBack(g))

-----------------------------------------------------------------------------
(* What holds *)

\* A slot is never lost nor created: until the pool is closed, the idle
\* connections and the borrowers together are MaxSize, also while Destroy
\* replaces a connection and when its factory fails.  So a client that pushes a
\* connection back finds room: "no need to wait for full channel" (Release).
\* Nor is one withheld: nobody waits for a connection that is idle, or in a
\* pool that is closed.
SlotConservation ==
  /\ TypeOK
  /\ pool = "open" => Len(idle) + Cardinality(Borrowers) = MaxSize
  /\ pool = "closed" => Len(idle) + Cardinality(Borrowers) <= MaxSize
  /\ waiters # <<>> => idle = <<>> /\ pool = "open"

\* A connection has one user: nobody else has it, it is not idle as well, and
\* it is open while it is used.  Every open descriptor is either idle or with
\* a client, so none is out of reach (a failed NewPool apart).
ExclusiveLease ==
  /\ \A c \in Conns :
       /\ Cardinality({g \in Clients : conn[g] = c})
            + Cardinality({i \in DOMAIN idle : idle[i] = c}) <= 1
       /\ c \in opened <=> \/ \E g \in Clients : conn[g] = c
                           \/ c \in ToSet(idle)

\* A blocked Acquire returns: with a connection when one comes back, whoever
\* else keeps acquiring, or with an error.
AcquireReturns ==
  \A g \in Clients : client[g] = "waiting" ~> client[g] # "waiting"

-----------------------------------------------------------------------------
(* Refinement *)

Abstract == INSTANCE Permits WITH
  Limit <- MaxSize,
  state <- [g \in Clients |->
              IF client[g] = "away" THEN "away"
              ELSE IF client[g] = "waiting" THEN "asking" ELSE "holding"]

\* The channel, its contexts and the replacement of broken connections are a
\* pool of MaxSize permits, fair to those that wait.
ImplementsPermits == Abstract!Spec

-----------------------------------------------------------------------------
(* What the source claims and the code does not do *)

\* "Close ... prevents new Acquire calls" (the comment of Pool.Close): in a
\* closed pool no call of Acquire returns a connection.
ClosePreventsAcquire ==
  [][pool = "closed" =>
       \A g \in Clients : client[g] = "away" => client'[g] = "away"]_vars
=============================================================================
