------------------------------ MODULE MCGateway ------------------------------
(* A small instance of Gateway: the first of two frames carries no wanted     *)
(* signal; a trigger and a command for the CAN bus.                           *)
EXTENDS Gateway

MCUndecoded == {1}
MCTriggers == {1}
=============================================================================
