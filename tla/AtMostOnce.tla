----------------------------- MODULE AtMostOnce -----------------------------
(***************************************************************************)
(* What gateway/command_handler.hpp promises those who publish commands,   *)
(* without the broker, its deliveries, the queue of the MQTT library and   *)
(* the protocol of stop(): while the handler serves, it accepts commands   *)
(* that have been published, each id once among those it remembers, and    *)
(* brings an accepted command to the vehicle at most once.                 *)
(***************************************************************************)
EXTENDS Naturals, Sequences, FiniteSets

CONSTANTS
    Messages,
    Commands,   \* messages the handler accepts
    Actions,    \* commands that do something to the vehicle
    Assured,    \* actions that cannot fail
    IdOf,
    Capacity,   \* ids that are remembered
    None        \* no command

VARIABLES
    sent,       \* messages that have been published
    serving,
    remembered, \* ids of accepted commands
    owed,       \* the accepted command that is still to be carried out
    effects     \* what has been done to the vehicle, in order

vars == <<sent, serving, remembered, owed, effects>>

Init ==
    /\ sent = {}
    /\ serving = FALSE
    /\ remembered = {}
    /\ owed = None
    /\ effects = <<>>

Publish(m) ==
    /\ sent' = sent \cup {m}
    /\ UNCHANGED <<serving, remembered, owed, effects>>

Open ==
    /\ ~serving
    /\ serving' = TRUE
    /\ remembered' = {}
    /\ UNCHANGED <<sent, owed, effects>>

\* Only Capacity ids are remembered: the next one drops them all.
Accept(m) ==
    /\ serving
    /\ owed = None
    /\ m \in sent \cap Commands
    /\ IdOf[m] \notin remembered
    /\ remembered' = IF Cardinality(remembered) < Capacity
                     THEN remembered \cup {IdOf[m]} ELSE {IdOf[m]}
    /\ owed' = m
    /\ UNCHANGED <<sent, serving, effects>>

Perform ==
    /\ serving
    /\ owed \in Actions
    /\ effects' = Append(effects, owed)
    /\ owed' = None
    /\ UNCHANGED <<sent, serving, remembered>>

\* Nothing to do, or it could not be done: the command is not tried again.
Abandon ==
    /\ serving
    /\ owed \notin Assured \cup {None}
    /\ owed' = None
    /\ UNCHANGED <<sent, serving, remembered, effects>>

\* In an orderly way when nothing is owed, or by the death of the process.
Close ==
    /\ serving
    /\ serving' = FALSE
    /\ owed' = None
    /\ UNCHANGED <<sent, remembered, effects>>

Next ==
    \/ \E m \in Messages : Publish(m) \/ Accept(m)
    \/ Open \/ Perform \/ Abandon \/ Close

Spec == Init /\ [][Next]_vars
=============================================================================
