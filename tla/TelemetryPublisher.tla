-------------------------- MODULE TelemetryPublisher --------------------------
(***************************************************************************)
(* The telemetry uplink: gateway/telemetry_publisher.cpp, fed by the       *)
(* decode loop of main.cpp through telemetry_q.                            *)
(*                                                                         *)
(* A reading is a signal with its position among the readings of that      *)
(* signal, counted from 1; position 0 stands for a reading that is not     *)
(* there, which the cloud sees as 0.0 (or gear "unknown").  Time passes in *)
(* ticks, TicksPerSecond of them to a second, while the thread waits in    *)
(* pop_for(); its other steps take no time, and publish_now() restarts the *)
(* clock when its publish()->wait() is over, however long that took.       *)
(***************************************************************************)
EXTENDS Naturals, Sequences, FiniteSets

CONSTANTS
    Numeric,             \* signals kept in numeric_; the code counts on 4
    Gear,                \* GEAR_SHIFT
    PUBLISH_INTERVAL_S,  \* seconds
    QUEUE_TIMEOUT,       \* seconds
    TicksPerSecond,      \* resolution of the clock
    MaxReadings,         \* bound on the readings of one signal
    MaxCopies            \* bound on the deliveries of one message

ASSUME ConstantsAssumption ==
    /\ Gear \notin Numeric
    /\ IsFiniteSet(Numeric)
    /\ PUBLISH_INTERVAL_S \in Nat \ {0}
    /\ QUEUE_TIMEOUT \in Nat
    /\ TicksPerSecond \in Nat \ {0}
    /\ MaxReadings \in Nat
    /\ MaxCopies \in Nat

VARIABLES
    pc,             \* where run() stands
    running,        \* running_
    telemetry_q,    \* readings decoded and not yet popped
    numeric,        \* numeric_: position of the reading held, 0 if the key is absent
    gear,           \* gear_, 0 if empty
    gear_received,  \* gear_received_
    elapsed,        \* ticks since last_publish_, at most the interval
    waited,         \* ticks spent in this pop_for()
    msg,            \* the message given to publish()
    copies,         \* how often the broker received it
    decoded,        \* history: readings decoded of each signal
    taken,          \* history: newest reading popped of each signal
    latest,         \* history: newest reading published of each signal
    age             \* history: ticks since the oldest reading held was popped

accumulators == <<numeric, gear, gear_received>>
clock == <<elapsed, waited, age>>
vars == <<pc, running, telemetry_q, accumulators, clock, msg, copies,
          decoded, taken, latest>>

Signals == Numeric \cup {Gear}
Reading == [signal : Signals, n : 1..MaxReadings]
Interval == PUBLISH_INTERVAL_S * TicksPerSecond

\* No reading is held for as long as this.
HoldingTime == (PUBLISH_INTERVAL_S + QUEUE_TIMEOUT) * TicksPerSecond

Empty == [s \in Signals |-> 0]

\* Types, and the gear and its flag go together.
TypeOK ==
    /\ pc \in {"loop", "pop", "decide", "wait", "exited"}
    /\ running \in BOOLEAN
    /\ telemetry_q \in Seq(Reading)
    /\ numeric \in [Numeric -> 0..MaxReadings]
    /\ gear \in 0..MaxReadings
    /\ gear_received \in BOOLEAN
    /\ gear_received <=> gear # 0
    /\ elapsed \in 0..Interval
    /\ waited \in Nat
    /\ msg \in [Signals -> 0..MaxReadings]
    /\ copies \in 0..MaxCopies
    /\ decoded \in [Signals -> 0..MaxReadings]
    /\ taken \in [Signals -> 0..MaxReadings]
    /\ latest \in [Signals -> 0..MaxReadings]
    /\ age \in Nat

\* start(); last_publish_ is older than the thread, by as much as the other
\* modules took to start.
Init ==
    /\ pc = "loop"
    /\ running = TRUE
    /\ telemetry_q = <<>>
    /\ numeric = [s \in Numeric |-> 0]
    /\ gear = 0
    /\ gear_received = FALSE
    /\ elapsed \in 0..Interval
    /\ waited = 0
    /\ msg = Empty
    /\ copies = 0
    /\ decoded = Empty
    /\ taken = Empty
    /\ latest = Empty
    /\ age = 0

-----------------------------------------------------------------------------
(* The publisher thread *)

Goto(from, to) == pc = from /\ pc' = to

Held(s) == IF s = Gear THEN (IF gear_received THEN gear ELSE 0) ELSE numeric[s]
SomethingHeld == \E s \in Signals : Held(s) # 0
Collected == {s \in Numeric : numeric[s] # 0}

CheckRunning ==
    /\ Goto("loop", IF running THEN "pop" ELSE "exited")
    /\ waited' = 0
    /\ UNCHANGED <<running, telemetry_q, accumulators, elapsed, age, msg, copies,
                   decoded, taken, latest>>

AccumulateFirst(r) ==      \* mutation
    IF r.signal = Gear
      THEN gear' = r.n /\ gear_received' = TRUE /\ UNCHANGED numeric
      ELSE /\ numeric' = [numeric EXCEPT ![r.signal] = IF @ = 0 THEN r.n ELSE @]
           /\ UNCHANGED <<gear, gear_received>>

\* A newer reading of a signal replaces the one that is held.
Accumulate(r) ==
    IF r.signal = Gear
      THEN gear' = r.n /\ gear_received' = TRUE /\ UNCHANGED numeric
      ELSE numeric' = [numeric EXCEPT ![r.signal] = r.n] /\ UNCHANGED <<gear, gear_received>>

PopReading ==
    /\ Goto("pop", "decide")
    /\ telemetry_q # <<>>
    /\ Accumulate(Head(telemetry_q))
    /\ taken' = [taken EXCEPT ![Head(telemetry_q).signal] = Head(telemetry_q).n]
    /\ telemetry_q' = Tail(telemetry_q)
    /\ UNCHANGED <<running, clock, msg, copies, decoded, latest>>

PopExpired == telemetry_q = <<>> /\ waited >= QUEUE_TIMEOUT * TicksPerSecond

PopTimeoutAndContinue ==      \* mutation
    /\ Goto("pop", "loop")
    /\ PopExpired
    /\ UNCHANGED <<running, telemetry_q, accumulators, clock, msg, copies, decoded, taken, latest>>

\* The publish conditions are looked at after a timeout as well.
PopTimeout ==
    /\ Goto("pop", "decide")
    /\ PopExpired
    /\ UNCHANGED <<running, telemetry_q, accumulators, clock, msg, copies, decoded, taken, latest>>

AllSignals == Collected = Numeric /\ gear_received
TimerFired == elapsed >= Interval
Due == AllSignals \/ (TimerFired /\ (Collected # {} \/ gear_received))

NotDue ==
    /\ Goto("decide", "loop")
    /\ ~Due
    /\ UNCHANGED <<running, telemetry_q, accumulators, clock, msg, copies, decoded, taken, latest>>

\* publish_now() up to publish()->wait().
Publish ==
    /\ Goto("decide", "wait")
    /\ Due
    /\ msg' = [s \in Signals |-> Held(s)]
    /\ copies' = 0
    /\ latest' = [s \in Signals |-> IF Held(s) # 0 THEN Held(s) ELSE latest[s]]
    /\ UNCHANGED <<running, telemetry_q, accumulators, clock, decoded, taken>>

ResetNumericKept ==      \* mutation
    /\ gear' = 0
    /\ gear_received' = FALSE
    /\ elapsed' = 0
    /\ age' = 0
    /\ UNCHANGED numeric

ResetFlagKept ==      \* mutation
    /\ numeric' = [s \in Numeric |-> 0]
    /\ gear' = 0
    /\ elapsed' = 0
    /\ age' = 0
    /\ UNCHANGED gear_received

\* The end of publish_now(): empty accumulators, a new interval.
Reset ==
    /\ numeric' = [s \in Numeric |-> 0]
    /\ gear' = 0
    /\ gear_received' = FALSE
    /\ elapsed' = 0
    /\ age' = 0

\* wait() returns: the broker has acknowledged one of the deliveries.
Acknowledged ==
    /\ Goto("wait", "loop")
    /\ copies > 0
    /\ Reset
    /\ UNCHANGED <<running, telemetry_q, waited, msg, copies, decoded, taken, latest>>

\* publish() or wait() throws, whether the broker has the message or not; the
\* exception is logged and what was accumulated is given up.
PublishFails ==
    /\ Goto("wait", "loop")
    /\ Reset
    /\ UNCHANGED <<running, telemetry_q, waited, msg, copies, decoded, taken, latest>>

Thread ==
    \/ CheckRunning \/ PopReading \/ PopTimeout
    \/ NotDue \/ Publish \/ Acknowledged \/ PublishFails

-----------------------------------------------------------------------------
(* The decode loop, the MQTT library and the clock *)

\* main.cpp: every signal of a decoded frame goes to telemetry_q.
Decode(s) ==
    /\ decoded[s] < MaxReadings
    /\ decoded' = [decoded EXCEPT ![s] = @ + 1]
    /\ telemetry_q' = Append(telemetry_q, [signal |-> s, n |-> decoded[s] + 1])
    /\ UNCHANGED <<pc, running, accumulators, clock, msg, copies, taken, latest>>

\* QoS 1: the library sends the message until the broker acknowledges it.
Transmit ==
    /\ pc = "wait"
    /\ copies < MaxCopies
    /\ copies' = copies + 1
    /\ UNCHANGED <<pc, running, telemetry_q, accumulators, clock, msg, decoded, taken, latest>>

\* A tick of the clock, the thread waiting on an empty queue.
Tick ==
    /\ pc = "pop"
    /\ telemetry_q = <<>>
    /\ ~PopExpired
    /\ waited' = waited + 1
    /\ elapsed' = IF elapsed < Interval THEN elapsed + 1 ELSE elapsed
    /\ age' = IF SomethingHeld /\ age < HoldingTime THEN age + 1 ELSE age
    /\ UNCHANGED <<pc, running, telemetry_q, accumulators, msg, copies, decoded, taken, latest>>

Stop ==
    /\ running
    /\ running' = FALSE
    /\ UNCHANGED <<pc, telemetry_q, accumulators, clock, msg, copies, decoded, taken, latest>>

Next == Thread \/ (\E s \in Signals : Decode(s)) \/ Transmit \/ Tick \/ Stop

Spec == Init /\ [][Next]_vars

-----------------------------------------------------------------------------
(* Safety *)

\* What a message shows of a signal is newer than what any message before it
\* showed, also when that one was lost: publish_now() empties every accumulator
\* in every case, and nothing is taken from the queue twice.
NoReadingTwice ==
    [][pc' = "wait" /\ pc # "wait" =>
          \A s \in Signals : msg'[s] # 0 => msg'[s] > latest[s]]_vars

\* A message carries of each signal the newest reading taken from the queue.
NewestReadingPublished ==
    pc = "wait" => \A s \in Signals : msg[s] \in {0, taken[s]}

\* PUBLISH_INTERVAL_S is the "max wait before forced publish", give or take one
\* wait of the loop: no reading is held longer, whether signals keep coming,
\* stop, or some never come.
NoReadingHeldTooLong == pc # "wait" => age < HoldingTime

-----------------------------------------------------------------------------
(* Refinement *)

Abstract == INSTANCE Uplink WITH Positions <- 1..MaxReadings, sending <- pc = "wait"

\* With its accumulators that are emptied in one place and filled in another, its flag for
\* the gear, two reasons to publish and publishes that fail, the thread shows the cloud all
\* that is new and nothing that is not.
Implements == Abstract!Spec
=============================================================================
