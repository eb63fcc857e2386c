----------------------------- MODULE ReplayStore -----------------------------
(***************************************************************************)
(* What gateway/offline_buffer.hpp promises the one who stores and replays *)
(* messages, without its table, its statements and its file: a message     *)
(* that was taken in stays pending until the caller acknowledges that very *)
(* message after the broker received it, until it is the oldest and the    *)
(* store is full, or until a power loss puts the store back to a state it  *)
(* was in before.  No more than its capacity is pending, but for what      *)
(* could not be dropped because of an error.                               *)
(***************************************************************************)
EXTENDS Naturals, FiniteSets

CONSTANTS
    Numbers,    \* what an entry is known by: larger is later
    Messages,
    Capacity    \* pending entries at which the oldest may be dropped

VARIABLES
    pending,    \* entries to be replayed
    saved,      \* what a power loss would leave pending
    out,        \* entries the caller has been given to replay
    delivered,  \* messages the broker has received
    failures    \* drops that failed

vars == <<pending, saved, out, delivered, failures>>

Entry == [id : Numbers, msg : Messages]

Init ==
    /\ pending = {}
    /\ saved = {}
    /\ out = {}
    /\ delivered = {}
    /\ failures = 0

\* There is room, and the newest of all that is in sight cannot be mistaken for another
\* entry.
Add(e) ==
    /\ Cardinality(pending) < Capacity + failures
    /\ \A f \in pending \cup out : f.id < e.id
    /\ pending' = pending \cup {e}
    /\ UNCHANGED <<saved, out, delivered, failures>>

DropOldest(e) ==
    /\ Cardinality(pending) >= Capacity
    /\ \A f \in pending : e.id <= f.id
    /\ pending' = pending \ {e}
    /\ UNCHANGED <<saved, out, delivered, failures>>

DropFails ==
    /\ Cardinality(pending) >= Capacity
    /\ failures' = failures + 1
    /\ UNCHANGED <<pending, saved, out, delivered>>

HandOut ==
    /\ out' \in SUBSET pending
    /\ UNCHANGED <<pending, saved, delivered, failures>>

Deliver(e) ==
    /\ delivered' = delivered \cup {e.msg}
    /\ UNCHANGED <<pending, saved, out, failures>>

\* The acknowledgement may be forgotten; then the message is replayed once more.
Acknowledge(e) ==
    /\ e.msg \in delivered
    /\ pending' \in {pending, pending \ {e}}
    /\ out' = out \ {e}
    /\ UNCHANGED <<saved, delivered, failures>>

Save ==
    /\ saved' = pending
    /\ UNCHANGED <<pending, out, delivered, failures>>

Restart ==
    /\ pending' \in {pending, saved}
    /\ out' = {}
    /\ UNCHANGED <<saved, delivered, failures>>

Next ==
    \/ \E e \in Entry : Add(e)
    \/ \E e \in pending : DropOldest(e)
    \/ \E e \in out : Deliver(e) \/ Acknowledge(e)
    \/ DropFails \/ HandOut \/ Save \/ Restart

Spec == Init /\ [][Next]_vars
=============================================================================
