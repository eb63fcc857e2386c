-------------------------------- MODULE Uplink --------------------------------
(***************************************************************************)
(* What gateway/telemetry_publisher.hpp promises the cloud, without the    *)
(* accumulators, the timer and the loop: a message shows of every signal   *)
(* what was taken in since the message before, its newest reading and no   *)
(* other, and stays as it is until it is settled, whether it arrives once, *)
(* twice or never.  What one message has shown no later one shows again.   *)
(***************************************************************************)
EXTENDS Naturals

CONSTANTS
    Signals,
    Positions   \* of readings: the n-th reading of its signal, a larger one is newer

VARIABLES
    taken,      \* newest reading taken in of each signal, 0 for none
    latest,     \* newest reading given to the network of each signal
    sending,    \* a message is with the network
    msg         \* the message: a reading of each signal, 0 for none

vars == <<taken, latest, sending, msg>>

Init ==
    /\ taken = [s \in Signals |-> 0]
    /\ latest = [s \in Signals |-> 0]
    /\ sending = FALSE
    /\ msg = [s \in Signals |-> 0]

Take(s) ==
    /\ ~sending
    /\ \E n \in Positions : n > taken[s] /\ taken' = [taken EXCEPT ![s] = n]
    /\ UNCHANGED <<latest, sending, msg>>

News == [s \in Signals |-> IF taken[s] > latest[s] THEN taken[s] ELSE 0]

\* Never a message with nothing in it.
Send ==
    /\ ~sending
    /\ \E s \in Signals : News[s] # 0
    /\ sending' = TRUE
    /\ msg' = News
    /\ latest' = taken
    /\ UNCHANGED taken

\* Acknowledged or given up.
Settle ==
    /\ sending
    /\ sending' = FALSE
    /\ UNCHANGED <<taken, latest, msg>>

Next == (\E s \in Signals : Take(s)) \/ Send \/ Settle

Spec == Init /\ [][Next]_vars
=============================================================================
