------------------------------ MODULE Permits ------------------------------
(***************************************************************************)
(* What a fixed number of permits promises the clients that share them: a  *)
(* client asks for one, gets it or gives up asking, and hands it back; no  *)
(* more than Limit clients hold one; and a client that keeps asking while  *)
(* permits keep coming back is not passed over for ever.                   *)
(*                                                                         *)
(* ConnPool (final_connection_pool/connection_pool.go) is shown to         *)
(* implement this module: a connection slot is a permit.                   *)
(***************************************************************************)
EXTENDS Naturals, FiniteSets

CONSTANTS Clients, Limit

VARIABLE state  \* "away", "asking" or "holding", for each client

Init == state = [c \in Clients |-> "away"]

Holders == {c \in Clients : state[c] = "holding"}

Ask(c) == state[c] = "away" /\ state' = [state EXCEPT ![c] = "asking"]

\* With a permit free, a client need not be seen asking first.
Grant(c) ==
  /\ state[c] # "holding"
  /\ Cardinality(Holders) < Limit
  /\ state' = [state EXCEPT ![c] = "holding"]

GiveBack(c) == state[c] = "holding" /\ state' = [state EXCEPT ![c] = "away"]

\* One client's permit goes straight to another one that asks.
HandOver(c, d) ==
  /\ state[c] = "holding"
  /\ state[d] = "asking"
  /\ state' = [state EXCEPT ![c] = "away", ![d] = "holding"]

\* Some of the clients that ask stop asking, all at once.
GiveUp ==
  \E quitters \in SUBSET {c \in Clients : state[c] = "asking"} :
    state' = [c \in Clients |-> IF c \in quitters THEN "away" ELSE state[c]]

Next ==
  \/ \E c \in Clients : Ask(c) \/ Grant(c) \/ GiveBack(c)
  \/ \E c, d \in Clients : HandOver(c, d)
  \/ GiveUp

SafeSpec == Init /\ [][Next]_state

\* A client that asks gets a permit, from the pool or from another client.
Serve(c) ==
  state[c] = "asking" /\ (Grant(c) \/ \E d \in Clients : HandOver(d, c))

\* Permits come back, and one that asks long enough is served.
Spec == SafeSpec /\ \A c \in Clients : WF_state(Serve(c))
=============================================================================
