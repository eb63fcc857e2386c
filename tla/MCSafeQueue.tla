---------------------------- MODULE MCSafeQueue ----------------------------
(* A small instance of SafeQueue: two producers, and three consumers that     *)
(* each call an operation of their own, as often as they like.                *)
EXTENDS SafeQueue, TLC

CONSTANTS p1, p2, c1, c2, c3

MCProducers == {p1, p2}
MCConsumers == {c1, c2, c3}
MCMethod == (c1 :> "pop") @@ (c2 :> "pop_for") @@ (c3 :> "try_pop")
=============================================================================
