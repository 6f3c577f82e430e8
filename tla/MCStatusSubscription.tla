------------------------ MODULE MCStatusSubscription ------------------------
(***************************************************************************)
(* The subscriptions of StatusSubscription that TLC looks at: a stream     *)
(* without a filter, and a wait for a status.                              *)
(***************************************************************************)
EXTENDS StatusSubscription

AllStatuses == {"Idle", "Working", "Done", "Unknown"}

Subscription(wanted, oneShot, handlers) ==
    [agents |-> Agents, capacity |-> 2, handlers |-> handlers, wanted |-> wanted, oneShot |-> oneShot]

AllSubscriptions == {Subscription(None, FALSE, 3), Subscription("Idle", TRUE, 2)}
=============================================================================
