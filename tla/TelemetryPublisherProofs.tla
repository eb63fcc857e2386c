---------------------- MODULE TelemetryPublisherProofs ----------------------
(***************************************************************************)
(* Theorems about TelemetryPublisher, for any signals, any number of       *)
(* readings, and any interval, wait and resolution of the clock.           *)
(*                                                                         *)
(* OrderInv: of each signal, the readings decoded, in the queue, taken and *)
(* published are in this order, and what is held is the reading taken last *)
(* and is newer than all that was published; what is not held has been     *)
(* published.  ClockInv: a reading that is held grows older no faster than *)
(* the interval runs, and past the end of the interval only within one     *)
(* wait on the queue.                                                      *)
(***************************************************************************)
EXTENDS TelemetryPublisher, TLAPS

Timeout == QUEUE_TIMEOUT * TicksPerSecond

OrderInv ==
    /\ \A s \in Signals : latest[s] <= taken[s] /\ taken[s] <= decoded[s]
    /\ \A i \in 1..Len(telemetry_q) :
          /\ taken[telemetry_q[i].signal] < telemetry_q[i].n
          /\ telemetry_q[i].n <= decoded[telemetry_q[i].signal]
    /\ \A i, j \in 1..Len(telemetry_q) :
          i < j /\ telemetry_q[i].signal = telemetry_q[j].signal
             => telemetry_q[i].n < telemetry_q[j].n
    /\ \A s \in Signals : Held(s) # 0 =>
          /\ Held(s) = taken[s]
          /\ pc # "wait" => latest[s] < Held(s)
    /\ \A s \in Signals : latest[s] = taken[s] \/ (pc # "wait" /\ Held(s) # 0)
    /\ pc = "wait" => \A s \in Signals : msg[s] \in {0, taken[s]}

ClockInv ==
    /\ ~SomethingHeld => age = 0
    /\ elapsed < Interval => age <= elapsed
    /\ pc \in {"loop", "exited"} /\ SomethingHeld => elapsed < Interval
    /\ pc \in {"pop", "decide"} => waited <= Timeout /\ age < Interval + waited

IInv == TypeOK /\ OrderInv /\ ClockInv

-----------------------------------------------------------------------------
(* Constants and sequences *)

LEMMA Ticks ==
    /\ Interval \in Nat \ {0}
    /\ Timeout \in Nat
    /\ HoldingTime \in Nat
    /\ HoldingTime = Interval + Timeout
<1>. USE ConstantsAssumption DEF ConstantsAssumption, Interval, Timeout, HoldingTime
<1>1. /\ PUBLISH_INTERVAL_S \in Nat \ {0}
      /\ QUEUE_TIMEOUT \in Nat
      /\ TicksPerSecond \in Nat \ {0}
  OBVIOUS
<1>2. \A a, b \in Nat \ {0} : a * b \in Nat \ {0}
  OBVIOUS
<1>3. \A a, b, c \in Nat : (a + b) * c = a * c + b * c /\ a * c \in Nat
  OBVIOUS
<1>. QED
  BY <1>1, <1>2, <1>3

LEMMA SeqFacts ==
    /\ <<>> \in Seq(Reading)
    /\ \A q \in Seq(Reading), r \in Reading :
          /\ Append(q, r) \in Seq(Reading)
          /\ Len(q) \in Nat /\ Len(Append(q, r)) = Len(q) + 1
          /\ \A i \in 1..Len(q) : Append(q, r)[i] = q[i] /\ q[i] \in Reading
          /\ Append(q, r)[Len(q) + 1] = r
    /\ \A q \in Seq(Reading) : q # <<>> =>
          /\ Head(q) \in Reading /\ Head(q) = q[1]
          /\ Tail(q) \in Seq(Reading)
          /\ Len(q) \in Nat \ {0} /\ Len(Tail(q)) = Len(q) - 1
          /\ \A i \in 1..Len(Tail(q)) : Tail(q)[i] = q[i + 1]
OBVIOUS

-----------------------------------------------------------------------------
(* Type correctness *)

LEMMA InitType ==
    ASSUME Init
    PROVE  TypeOK
<1>1. 0 \in 0..MaxReadings /\ 0 \in 0..MaxCopies /\ 0 \in Nat
  BY ConstantsAssumption DEF ConstantsAssumption
<1>2. Empty \in [Signals -> 0..MaxReadings] /\ numeric \in [Numeric -> 0..MaxReadings]
  BY <1>1 DEF Init, Empty
<1>3. gear_received <=> gear # 0
  BY DEF Init
<1>. QED
  BY <1>1, <1>2, <1>3, SeqFacts DEF Init, TypeOK

LEMMA AccumulateType ==
    ASSUME TypeOK, NEW r \in Reading, Accumulate(r)
    PROVE  /\ numeric' \in [Numeric -> 0..MaxReadings]
           /\ gear' \in 0..MaxReadings
           /\ gear_received' \in BOOLEAN
           /\ gear_received' <=> gear' # 0
<1>1. r.signal \in Numeric \cup {Gear} /\ r.n \in 1..MaxReadings
  BY DEF Reading, Signals
<1>2. r.n # 0 /\ r.n \in 0..MaxReadings
  BY <1>1, ConstantsAssumption DEF ConstantsAssumption
<1>3. CASE r.signal = Gear
  <2>1. gear' = r.n /\ gear_received' = TRUE /\ numeric' = numeric
    BY <1>3 DEF Accumulate
  <2>. QED
    BY <1>2, <2>1 DEF TypeOK
<1>4. CASE r.signal # Gear
  <2>1. numeric' = [numeric EXCEPT ![r.signal] = r.n]
        /\ gear' = gear /\ gear_received' = gear_received
    BY <1>4 DEF Accumulate
  <2>2. numeric' \in [Numeric -> 0..MaxReadings]
    BY <1>2, <2>1 DEF TypeOK
  <2>. QED
    BY <2>1, <2>2 DEF TypeOK
<1>. QED
  BY <1>3, <1>4

LEMMA ResetType ==
    ASSUME Reset
    PROVE  /\ numeric' \in [Numeric -> 0..MaxReadings]
           /\ gear' \in 0..MaxReadings
           /\ gear_received' \in BOOLEAN
           /\ gear_received' <=> gear' # 0
           /\ elapsed' = 0 /\ age' = 0
<1>1. 0 \in 0..MaxReadings
  BY ConstantsAssumption DEF ConstantsAssumption
<1>2. gear_received' = FALSE /\ gear' = 0
  BY DEF Reset
<1>3. gear_received' <=> gear' # 0
  BY <1>2
<1>. QED
  BY <1>1, <1>2, <1>3 DEF Reset

LEMMA StepType ==
    ASSUME TypeOK, [Next]_vars
    PROVE  TypeOK'
<1>. USE DEF accumulators, clock
<1>1. CASE CheckRunning
  BY <1>1 DEF CheckRunning, Goto, TypeOK
<1>2. CASE PopReading
  <2>1. Head(telemetry_q) \in Reading /\ telemetry_q' \in Seq(Reading)
    BY <1>2, SeqFacts DEF PopReading, TypeOK
  <2>2. taken' \in [Signals -> 0..MaxReadings]
    <3>1. Head(telemetry_q).n \in 1..MaxReadings
      BY <2>1 DEF Reading
    <3>2. Head(telemetry_q).n \in 0..MaxReadings
      BY <3>1, ConstantsAssumption DEF ConstantsAssumption
    <3>. QED
      BY <1>2, <3>2 DEF PopReading, TypeOK
  <2>. QED
    BY <1>2, <2>1, <2>2, AccumulateType DEF PopReading, Goto, TypeOK
<1>3. CASE PopTimeout \/ NotDue
  BY <1>3 DEF PopTimeout, NotDue, Goto, TypeOK
<1>4. CASE Publish
  <2>1. \A s \in Signals : Held(s) \in 0..MaxReadings
    BY ConstantsAssumption DEF ConstantsAssumption, Held, Signals, TypeOK
  <2>2. msg' \in [Signals -> 0..MaxReadings] /\ latest' \in [Signals -> 0..MaxReadings]
    BY <1>4, <2>1 DEF Publish, TypeOK
  <2>. QED
    BY <1>4, <2>2, ConstantsAssumption DEF ConstantsAssumption, Publish, Goto, TypeOK
<1>5. CASE Acknowledged \/ PublishFails
  BY <1>5, ResetType, Ticks DEF Acknowledged, PublishFails, Goto, TypeOK
<1>6. ASSUME NEW s \in Signals, Decode(s)
      PROVE  TypeOK'
  <2>1. [signal |-> s, n |-> decoded[s] + 1] \in Reading
    BY <1>6, ConstantsAssumption DEF ConstantsAssumption, Decode, Reading, TypeOK
  <2>2. telemetry_q' \in Seq(Reading)
    BY <1>6, <2>1, SeqFacts DEF Decode, TypeOK
  <2>3. decoded' \in [Signals -> 0..MaxReadings]
    BY <1>6, ConstantsAssumption DEF ConstantsAssumption, Decode, TypeOK
  <2>. QED
    BY <1>6, <2>2, <2>3 DEF Decode, TypeOK
<1>7. CASE Transmit
  BY <1>7, ConstantsAssumption DEF ConstantsAssumption, Transmit, TypeOK
<1>8. CASE Tick
  BY <1>8, Ticks DEF Tick, TypeOK
<1>9. CASE Stop
  BY <1>9 DEF Stop, TypeOK
<1>10. CASE UNCHANGED vars
  BY <1>10 DEF vars, TypeOK
<1>. QED
  BY <1>1, <1>2, <1>3, <1>4, <1>5, <1>6, <1>7, <1>8, <1>9, <1>10 DEF Next, Thread

\* Every variable keeps its type, and the gear is held exactly when its flag is set.
THEOREM TypeCorrect == Spec => []TypeOK
BY InitType, StepType, PTL DEF Spec

-----------------------------------------------------------------------------
(* The order of readings *)

LEMMA HeldTypes ==
    ASSUME TypeOK
    PROVE  /\ \A s \in Signals : Held(s) \in Nat
           /\ Held(Gear) = gear
           /\ \A s \in Numeric : Held(s) = numeric[s]
<1>1. Held(Gear) = gear
  BY DEF Held, TypeOK
<1>2. \A s \in Numeric : Held(s) = numeric[s]
  BY ConstantsAssumption DEF ConstantsAssumption, Held
<1>3. gear \in Nat /\ \A s \in Numeric : numeric[s] \in Nat
  BY ConstantsAssumption DEF ConstantsAssumption, TypeOK
<1>. QED
  BY <1>1, <1>2, <1>3 DEF Signals

LEMMA HeldAfterAccumulate ==
    ASSUME TypeOK, TypeOK', NEW r \in Reading, Accumulate(r)
    PROVE  \A s \in Signals : Held(s)' = IF s = r.signal THEN r.n ELSE Held(s)
<1>1. /\ Held(Gear) = gear /\ Held(Gear)' = gear'
      /\ \A s \in Numeric : Held(s) = numeric[s] /\ Held(s)' = numeric'[s]
  BY HeldTypes, ConstantsAssumption DEF ConstantsAssumption, Held, TypeOK
<1>2. r.signal \in Signals
  BY DEF Reading
<1>3. CASE r.signal = Gear
  BY <1>1, <1>3, ConstantsAssumption DEF ConstantsAssumption, Accumulate, Signals
<1>4. CASE r.signal # Gear
  <2>1. gear' = gear /\ numeric' = [numeric EXCEPT ![r.signal] = r.n]
    BY <1>4 DEF Accumulate
  <2>2. numeric \in [Numeric -> 0..MaxReadings] /\ r.signal \in Numeric
    BY <1>2, <1>4 DEF Signals, TypeOK
  <2>. QED
    BY <1>1, <1>4, <2>1, <2>2 DEF Signals
<1>. QED
  BY <1>3, <1>4

LEMMA HeldAfterReset ==
    ASSUME Reset
    PROVE  \A s \in Signals : Held(s)' = 0
<1>1. gear_received' = FALSE /\ numeric' = [s \in Numeric |-> 0]
  BY DEF Reset
<1>2. Held(Gear)' = 0
  BY <1>1 DEF Held
<1>3. \A s \in Numeric : Held(s)' = 0
  BY <1>1, ConstantsAssumption DEF ConstantsAssumption, Held
<1>. QED
  BY <1>2, <1>3 DEF Signals

\* Steps that leave the readings alone, whatever the clock does.
LEMMA QuietStep ==
    ASSUME OrderInv,
           UNCHANGED <<telemetry_q, accumulators, decoded, taken, latest, msg>>,
           pc = "wait" <=> pc' = "wait"
    PROVE  OrderInv'
BY DEF OrderInv, Held, accumulators

LEMMA PopReadingKeepsOrder ==
    ASSUME TypeOK, TypeOK', OrderInv, PopReading
    PROVE  OrderInv'
<1>. DEFINE r == Head(telemetry_q)
<1>1. /\ r \in Reading /\ r = telemetry_q[1] /\ Len(telemetry_q) \in Nat \ {0}
      /\ telemetry_q' = Tail(telemetry_q) /\ Len(telemetry_q') = Len(telemetry_q) - 1
      /\ \A i \in 1..Len(telemetry_q') : telemetry_q'[i] = telemetry_q[i + 1]
  BY SeqFacts DEF PopReading, TypeOK
<1>2. r.signal \in Signals /\ r.n \in Nat
  BY <1>1, ConstantsAssumption DEF ConstantsAssumption, Reading
<1>3. /\ \A s \in Signals : taken'[s] = IF s = r.signal THEN r.n ELSE taken[s]
      /\ UNCHANGED <<decoded, latest, msg>> /\ pc = "pop" /\ pc' = "decide"
  BY <1>2 DEF PopReading, Goto, TypeOK
<1>4. \A s \in Signals : latest[s] \in Nat /\ taken[s] \in Nat /\ decoded[s] \in Nat
  BY ConstantsAssumption DEF ConstantsAssumption, TypeOK
<1>5. \A i \in 1..Len(telemetry_q) :
         telemetry_q[i].signal \in Signals /\ telemetry_q[i].n \in Nat
  <2>1. \A i \in 1..Len(telemetry_q) : telemetry_q[i] \in Reading
    BY <1>1, SeqFacts DEF TypeOK
  <2>. QED
    BY <2>1, ConstantsAssumption DEF ConstantsAssumption, Reading
<1>6. taken[r.signal] < r.n /\ r.n <= decoded[r.signal]
  BY <1>1 DEF OrderInv
<1>7. \A s \in Signals : latest'[s] <= taken'[s] /\ taken'[s] <= decoded'[s]
  BY <1>2, <1>3, <1>4, <1>6 DEF OrderInv
<1>8. \A i \in 1..Len(telemetry_q') :
         /\ taken'[telemetry_q'[i].signal] < telemetry_q'[i].n
         /\ telemetry_q'[i].n <= decoded'[telemetry_q'[i].signal]
  <2>. SUFFICES ASSUME NEW i \in 1..Len(telemetry_q')
                PROVE  /\ taken'[telemetry_q'[i].signal] < telemetry_q'[i].n
                       /\ telemetry_q'[i].n <= decoded'[telemetry_q'[i].signal]
    OBVIOUS
  <2>1. i + 1 \in 1..Len(telemetry_q) /\ 1 \in 1..Len(telemetry_q) /\ 1 < i + 1
        /\ telemetry_q'[i] = telemetry_q[i + 1]
    BY <1>1
  <2>2. r.signal = telemetry_q[i + 1].signal => r.n < telemetry_q[i + 1].n
    BY <1>1, <2>1 DEF OrderInv
  <2>. QED
    BY <1>3, <1>5, <2>1, <2>2 DEF OrderInv
<1>9. \A i, j \in 1..Len(telemetry_q') :
         i < j /\ telemetry_q'[i].signal = telemetry_q'[j].signal
            => telemetry_q'[i].n < telemetry_q'[j].n
  <2>. SUFFICES ASSUME NEW i \in 1..Len(telemetry_q'), NEW j \in 1..Len(telemetry_q'), i < j,
                       telemetry_q'[i].signal = telemetry_q'[j].signal
                PROVE  telemetry_q'[i].n < telemetry_q'[j].n
    OBVIOUS
  <2>1. i + 1 \in 1..Len(telemetry_q) /\ j + 1 \in 1..Len(telemetry_q) /\ i + 1 < j + 1
    BY <1>1
  <2>. QED
    BY <1>1, <2>1 DEF OrderInv
<1>10. \A s \in Signals :
          /\ Held(s)' # 0 => Held(s)' = taken'[s] /\ (pc' # "wait" => latest'[s] < Held(s)')
          /\ latest'[s] = taken'[s] \/ (pc' # "wait" /\ Held(s)' # 0)
  <2>1. \A s \in Signals : Held(s)' = IF s = r.signal THEN r.n ELSE Held(s)
    BY <1>1, HeldAfterAccumulate DEF PopReading
  <2>. QED
    BY <1>2, <1>3, <1>4, <1>6, <2>1 DEF OrderInv
<1>. QED
  BY <1>3, <1>7, <1>8, <1>9, <1>10 DEF OrderInv

LEMMA PublishKeepsOrder ==
    ASSUME TypeOK, OrderInv, Publish
    PROVE  OrderInv'
<1>1. /\ UNCHANGED <<telemetry_q, decoded, taken>> /\ pc = "decide" /\ pc' = "wait"
      /\ \A s \in Signals : Held(s)' = Held(s)
      /\ \A s \in Signals : msg'[s] = Held(s)
      /\ \A s \in Signals : latest'[s] = IF Held(s) # 0 THEN Held(s) ELSE latest[s]
  BY DEF Publish, Goto, accumulators, Held
<1>2. \A s \in Signals : taken[s] \in Nat
  BY ConstantsAssumption DEF ConstantsAssumption, TypeOK
<1>3. \A s \in Signals : latest'[s] <= taken[s] /\ taken[s] <= decoded[s]
  BY <1>1, <1>2 DEF OrderInv
<1>4. \A s \in Signals : latest'[s] = taken'[s]
  BY <1>1 DEF OrderInv
<1>. QED
  BY <1>1, <1>3, <1>4 DEF OrderInv

LEMMA DecodeKeepsOrder ==
    ASSUME TypeOK, OrderInv, NEW s \in Signals, Decode(s)
    PROVE  OrderInv'
<1>. DEFINE r == [signal |-> s, n |-> decoded[s] + 1]
<1>1. \A t \in Signals : latest[t] \in Nat /\ taken[t] \in Nat /\ decoded[t] \in Nat
  BY ConstantsAssumption DEF ConstantsAssumption, TypeOK
<1>2. r \in Reading
  BY ConstantsAssumption DEF ConstantsAssumption, Decode, Reading, TypeOK
<1>3. /\ Len(telemetry_q) \in Nat /\ Len(telemetry_q') = Len(telemetry_q) + 1
      /\ \A i \in 1..Len(telemetry_q) : telemetry_q'[i] = telemetry_q[i] /\ telemetry_q[i] \in Reading
      /\ telemetry_q'[Len(telemetry_q) + 1] = r
  BY <1>2, SeqFacts DEF Decode, TypeOK
<1>4. \A i \in 1..Len(telemetry_q) :
         telemetry_q[i].signal \in Signals /\ telemetry_q[i].n \in Nat
  BY <1>3, ConstantsAssumption DEF ConstantsAssumption, Reading
<1>5. /\ \A t \in Signals : decoded'[t] = IF t = s THEN decoded[s] + 1 ELSE decoded[t]
      /\ UNCHANGED <<pc, taken, latest, msg, accumulators>>
  BY DEF Decode, TypeOK
<1>6. \A t \in Signals : latest'[t] <= taken'[t] /\ taken'[t] <= decoded'[t]
  BY <1>1, <1>5 DEF OrderInv
<1>7. \A i \in 1..Len(telemetry_q') :
         /\ taken'[telemetry_q'[i].signal] < telemetry_q'[i].n
         /\ telemetry_q'[i].n <= decoded'[telemetry_q'[i].signal]
  <2>. SUFFICES ASSUME NEW i \in 1..Len(telemetry_q')
                PROVE  /\ taken'[telemetry_q'[i].signal] < telemetry_q'[i].n
                       /\ telemetry_q'[i].n <= decoded'[telemetry_q'[i].signal]
    OBVIOUS
  <2>1. CASE i \in 1..Len(telemetry_q)
    BY <1>1, <1>3, <1>4, <1>5, <2>1 DEF OrderInv
  <2>2. CASE i = Len(telemetry_q) + 1
    BY <1>1, <1>3, <1>5, <2>2 DEF OrderInv
  <2>. QED
    BY <1>3, <2>1, <2>2
<1>8. \A i, j \in 1..Len(telemetry_q') :
         i < j /\ telemetry_q'[i].signal = telemetry_q'[j].signal
            => telemetry_q'[i].n < telemetry_q'[j].n
  <2>. SUFFICES ASSUME NEW i \in 1..Len(telemetry_q'), NEW j \in 1..Len(telemetry_q'), i < j,
                       telemetry_q'[i].signal = telemetry_q'[j].signal
                PROVE  telemetry_q'[i].n < telemetry_q'[j].n
    OBVIOUS
  <2>1. i \in 1..Len(telemetry_q)
    BY <1>3
  <2>2. CASE j \in 1..Len(telemetry_q)
    BY <1>3, <2>1, <2>2 DEF OrderInv
  <2>3. CASE j = Len(telemetry_q) + 1
    <3>1. telemetry_q[i].signal = s /\ telemetry_q'[j].n = decoded[s] + 1
      BY <1>3, <2>1, <2>3
    <3>2. telemetry_q[i].n <= decoded[s]
      BY <2>1, <3>1 DEF OrderInv
    <3>. QED
      BY <1>1, <1>3, <1>4, <2>1, <3>1, <3>2
  <2>. QED
    BY <1>3, <2>2, <2>3
<1>9. \A t \in Signals : Held(t)' = Held(t)
  BY <1>5 DEF Held, accumulators
<1>. QED
  BY <1>5, <1>6, <1>7, <1>8, <1>9 DEF OrderInv

LEMMA OrderStep ==
    ASSUME TypeOK, TypeOK', OrderInv, [Next]_vars
    PROVE  OrderInv'
<1>1. CASE CheckRunning \/ PopTimeout \/ NotDue
  BY <1>1, QuietStep DEF CheckRunning, PopTimeout, NotDue, Goto
<1>2. CASE Acknowledged \/ PublishFails
  <2>1. \A s \in Signals : Held(s)' = 0
    BY <1>2, HeldAfterReset DEF Acknowledged, PublishFails
  <2>2. pc = "wait" /\ pc' = "loop" /\ UNCHANGED <<telemetry_q, decoded, taken, latest>>
    BY <1>2 DEF Acknowledged, PublishFails, Goto
  <2>. QED
    BY <2>1, <2>2 DEF OrderInv
<1>3. CASE Transmit \/ Tick \/ Stop
  BY <1>3, QuietStep DEF Transmit, Tick, Stop
<1>4. CASE UNCHANGED vars
  BY <1>4, QuietStep DEF vars
<1>. QED
  BY <1>1, <1>2, <1>3, <1>4, PopReadingKeepsOrder, PublishKeepsOrder, DecodeKeepsOrder
     DEF Next, Thread

-----------------------------------------------------------------------------
(* The age of what is held *)

LEMMA HoldingMeans ==
    ASSUME TypeOK
    PROVE  SomethingHeld <=> Collected # {} \/ gear_received
<1>1. SomethingHeld <=> (\E s \in Numeric : numeric[s] # 0) \/ gear # 0
  BY HeldTypes DEF SomethingHeld, Signals
<1>2. Collected # {} <=> \E s \in Numeric : numeric[s] # 0
  BY DEF Collected
<1>3. gear_received <=> gear # 0
  BY DEF TypeOK
<1>. QED
  BY <1>1, <1>2, <1>3

LEMMA SameHeld ==
    ASSUME UNCHANGED accumulators
    PROVE  SomethingHeld' <=> SomethingHeld
BY DEF accumulators, SomethingHeld, Held

\* Steps that leave the clock and the accumulators alone.
LEMMA ClockQuietStep ==
    ASSUME ClockInv, UNCHANGED <<accumulators, clock>>,
           pc' \in {pc, "decide", "wait"}, pc' = "decide" => pc \in {"pop", "decide"}
    PROVE  ClockInv'
BY SameHeld DEF ClockInv, clock

LEMMA ClockStep ==
    ASSUME TypeOK, TypeOK', ClockInv, [Next]_vars
    PROVE  ClockInv'
<1>1. CASE CheckRunning
  <2>1. /\ pc = "loop" /\ pc' \in {"pop", "exited"} /\ waited' = 0
        /\ UNCHANGED <<accumulators, elapsed, age>>
    BY <1>1 DEF CheckRunning, Goto
  <2>2. age < Interval
    BY <2>1, Ticks DEF ClockInv, TypeOK
  <2>. QED
    BY <2>1, <2>2, SameHeld, Ticks DEF ClockInv, TypeOK
<1>2. CASE PopReading
  <2>1. PICK r \in Reading : Accumulate(r)
    BY <1>2, SeqFacts DEF PopReading, TypeOK
  <2>2. r.signal \in Signals /\ r.n # 0
    BY <2>1, ConstantsAssumption DEF ConstantsAssumption, Reading
  <2>3. \A s \in Signals : Held(s)' = IF s = r.signal THEN r.n ELSE Held(s)
    BY <2>1, HeldAfterAccumulate
  <2>4. \E s \in Signals : Held(s)' # 0
    BY <2>2, <2>3
  <2>5. SomethingHeld'
    BY <2>4 DEF SomethingHeld
  <2>6. pc = "pop" /\ pc' = "decide" /\ UNCHANGED clock
    BY <1>2 DEF PopReading, Goto
  <2>. QED
    BY <2>5, <2>6 DEF ClockInv, clock
<1>3. CASE PopTimeout \/ Publish
  BY <1>3, ClockQuietStep DEF PopTimeout, Publish, Goto
<1>4. CASE NotDue
  <2>1. /\ pc' = "loop" /\ UNCHANGED <<accumulators, clock>>
        /\ SomethingHeld => ~TimerFired
    BY <1>4, HoldingMeans DEF NotDue, Due, Goto
  <2>2. ~TimerFired => elapsed < Interval
    BY Ticks DEF TimerFired, TypeOK
  <2>. QED
    BY <2>1, <2>2, SameHeld DEF ClockInv, clock
<1>5. CASE Acknowledged \/ PublishFails
  <2>1. pc' = "loop" /\ Reset
    BY <1>5 DEF Acknowledged, PublishFails, Goto
  <2>2. ~SomethingHeld'
    BY <2>1, HeldAfterReset DEF SomethingHeld
  <2>3. elapsed' = 0 /\ age' = 0
    BY <2>1 DEF Reset
  <2>. QED
    BY <2>1, <2>2, <2>3, Ticks DEF ClockInv
<1>6. ASSUME NEW s \in Signals, Decode(s)
      PROVE  ClockInv'
  BY <1>6, ClockQuietStep DEF Decode
<1>7. CASE Tick
  <2>1. /\ pc = "pop" /\ pc' = "pop" /\ UNCHANGED accumulators
        /\ waited' = waited + 1 /\ waited < Timeout
        /\ elapsed' = IF elapsed < Interval THEN elapsed + 1 ELSE elapsed
        /\ age' = age \/ (SomethingHeld /\ age' = age + 1)
    <3>1. ~(waited >= Timeout)
      BY <1>7 DEF Tick, PopExpired, Timeout
    <3>. QED
      BY <1>7, <3>1, Ticks DEF Tick, TypeOK
  <2>2. ~SomethingHeld' => age' = 0
    BY <2>1, SameHeld DEF ClockInv
  <2>3. elapsed' < Interval => age' <= elapsed'
    BY <2>1, Ticks DEF ClockInv, TypeOK
  <2>4. waited' <= Timeout /\ age' < Interval + waited'
    BY <2>1, Ticks DEF ClockInv, TypeOK
  <2>. QED
    BY <2>1, <2>2, <2>3, <2>4 DEF ClockInv
<1>8. CASE Transmit \/ Stop
  BY <1>8, ClockQuietStep DEF Transmit, Stop
<1>9. CASE UNCHANGED vars
  BY <1>9, ClockQuietStep DEF vars
<1>. QED
  BY <1>1, <1>2, <1>3, <1>4, <1>5, <1>6, <1>7, <1>8, <1>9 DEF Next, Thread

-----------------------------------------------------------------------------
(* Theorems *)

LEMMA InitIInv ==
    ASSUME Init
    PROVE  IInv
<1>1. gear_received = FALSE /\ numeric = [s \in Numeric |-> 0]
  BY DEF Init
<1>2. Held(Gear) = 0
  BY <1>1 DEF Held
<1>3. \A s \in Signals : Held(s) = 0
  BY <1>1, <1>2, ConstantsAssumption DEF ConstantsAssumption, Held, Signals
<1>4. OrderInv
  BY <1>3 DEF Init, Empty, OrderInv
<1>5. ClockInv
  BY <1>3, Ticks DEF Init, ClockInv, SomethingHeld
<1>. QED
  BY <1>4, <1>5, InitType DEF IInv

\* The inductive invariant: readings are in order, and what is held is young.
THEOREM IInvHolds == Spec => []IInv
<1>1. Init => IInv
  BY InitIInv
<1>2. IInv /\ [Next]_vars => IInv'
  BY StepType, OrderStep, ClockStep DEF IInv
<1>. QED
  BY <1>1, <1>2, PTL DEF Spec

\* While a message is on its way it shows of each signal the newest reading that
\* was taken from the queue: nothing overtakes the accumulators.
THEOREM NewestPublished == Spec => []NewestReadingPublished
<1>1. IInv => NewestReadingPublished
  BY DEF IInv, OrderInv, NewestReadingPublished
<1>. QED
  BY <1>1, IInvHolds, PTL

\* No reading waits in the accumulators for the interval and one wait on the queue.
THEOREM HeldBriefly == Spec => []NoReadingHeldTooLong
<1>1. ASSUME IInv
      PROVE  NoReadingHeldTooLong
  <2>1. CASE pc \in {"loop", "exited"}
    BY <1>1, <2>1, Ticks DEF IInv, ClockInv, TypeOK, NoReadingHeldTooLong
  <2>2. CASE pc \in {"pop", "decide"}
    BY <1>1, <2>2, Ticks DEF IInv, ClockInv, TypeOK, NoReadingHeldTooLong
  <2>. QED
    BY <1>1, <2>1, <2>2 DEF IInv, TypeOK, NoReadingHeldTooLong
<1>. QED
  BY <1>1, IInvHolds, PTL

\* Only publish_now() starts a publish.
LEMMA OnlyPublishWaits ==
    ASSUME [Next]_vars, pc' = "wait", pc # "wait"
    PROVE  Publish
BY DEF Next, Thread, vars, CheckRunning, PopReading, PopTimeout, NotDue, Acknowledged,
       PublishFails, Decode, Transmit, Tick, Stop, Goto

\* No reading is published twice, and none after a newer one of its signal,
\* whether publishes succeed or not.
THEOREM NeverTwice == Spec => NoReadingTwice
<1>1. ASSUME IInv, [Next]_vars
      PROVE  pc' = "wait" /\ pc # "wait" =>
                \A s \in Signals : msg'[s] # 0 => msg'[s] > latest[s]
  <2>. SUFFICES ASSUME pc' = "wait", pc # "wait", NEW s \in Signals, msg'[s] # 0
                PROVE  msg'[s] > latest[s]
    OBVIOUS
  <2>1. msg'[s] = Held(s)
    BY <1>1, OnlyPublishWaits DEF Publish
  <2>2. Held(s) \in Nat /\ latest[s] \in Nat
    BY <1>1, HeldTypes, ConstantsAssumption DEF ConstantsAssumption, IInv, TypeOK
  <2>3. latest[s] < Held(s)
    BY <1>1, <2>1 DEF IInv, OrderInv
  <2>. QED
    BY <2>1, <2>2, <2>3
<1>. QED
  BY <1>1, IInvHolds, PTL DEF Spec, NoReadingTwice

-----------------------------------------------------------------------------
(* Refinement *)

LEMMA AbstractInit == Init => Abstract!Init
BY DEF Init, Empty, Abstract!Init

\* All that is new of a signal is what is held of it.
LEMMA HeldIsNews ==
    ASSUME IInv, pc # "wait"
    PROVE  Abstract!News = [s \in Signals |-> Held(s)]
<1>1. \A s \in Signals : /\ latest[s] \in Nat /\ taken[s] \in Nat /\ latest[s] <= taken[s]
                         /\ Held(s) \in Nat
  BY HeldTypes, ConstantsAssumption DEF ConstantsAssumption, IInv, TypeOK, OrderInv
<1>2. \A s \in Signals : Held(s) # 0 => Held(s) = taken[s] /\ latest[s] < taken[s]
  BY DEF IInv, OrderInv
<1>3. \A s \in Signals : latest[s] = taken[s] \/ Held(s) # 0
  BY DEF IInv, OrderInv
<1>4. \A s \in Signals : Held(s) = IF taken[s] > latest[s] THEN taken[s] ELSE 0
  BY <1>1, <1>2, <1>3
<1>. QED
  BY <1>4 DEF Abstract!News

LEMMA PopReadingIsTake ==
    ASSUME IInv, PopReading
    PROVE  Abstract!Next
<1>. DEFINE r == Head(telemetry_q)
<1>1. r \in Reading /\ r = telemetry_q[1] /\ 1 \in 1..Len(telemetry_q)
  BY SeqFacts DEF IInv, TypeOK, PopReading
<1>2. r.signal \in Signals /\ r.n \in 1..MaxReadings
  BY <1>1 DEF Reading
<1>3. taken[r.signal] < r.n
  BY <1>1 DEF IInv, OrderInv
<1>4. /\ pc # "wait" /\ pc' # "wait" /\ UNCHANGED <<latest, msg>>
      /\ taken' = [taken EXCEPT ![r.signal] = r.n]
  BY DEF PopReading, Goto
<1>5. taken[r.signal] \in Nat
  BY <1>2, ConstantsAssumption DEF ConstantsAssumption, IInv, TypeOK
<1>6. r.n > taken[r.signal]
  BY <1>2, <1>3, <1>5, ConstantsAssumption DEF ConstantsAssumption
<1>7. Abstract!Take(r.signal)
  BY <1>2, <1>4, <1>6 DEF Abstract!Take
<1>. QED
  BY <1>2, <1>7 DEF Abstract!Next

LEMMA PublishIsSend ==
    ASSUME IInv, Publish
    PROVE  Abstract!Next
<1>1. /\ pc # "wait" /\ pc' = "wait" /\ Due /\ UNCHANGED taken
      /\ msg' = [s \in Signals |-> Held(s)]
      /\ latest' = [s \in Signals |-> IF Held(s) # 0 THEN Held(s) ELSE latest[s]]
  BY DEF Publish, Goto
<1>2. msg' = Abstract!News
  BY <1>1, HeldIsNews
<1>3. SomethingHeld
  BY <1>1, HoldingMeans DEF Due, AllSignals, IInv
<1>4. \E s \in Signals : Abstract!News[s] # 0
  BY <1>1, <1>3, HeldIsNews DEF SomethingHeld
<1>5. latest' = taken'
  <2>1. \A s \in Signals : latest'[s] = taken[s]
    BY <1>1 DEF IInv, OrderInv
  <2>2. taken = [s \in Signals |-> taken[s]] /\ latest' = [s \in Signals |-> latest'[s]]
    BY <1>1 DEF IInv, TypeOK
  <2>. QED
    BY <1>1, <2>1, <2>2
<1>6. Abstract!Send
  BY <1>1, <1>2, <1>4, <1>5 DEF Abstract!Send
<1>. QED
  BY <1>6 DEF Abstract!Next

LEMMA AbstractStep ==
    ASSUME IInv, [Next]_vars
    PROVE  [Abstract!Next]_(Abstract!vars)
<1>1. CASE CheckRunning \/ PopTimeout \/ NotDue \/ Transmit \/ Tick \/ Stop \/ UNCHANGED vars
  <2>1. UNCHANGED <<taken, latest, msg>> /\ (pc' = "wait" <=> pc = "wait")
    BY <1>1 DEF CheckRunning, PopTimeout, NotDue, Transmit, Tick, Stop, vars, Goto
  <2>. QED
    BY <2>1 DEF Abstract!vars
<1>2. CASE PopReading
  BY <1>2, PopReadingIsTake
<1>3. CASE Publish
  BY <1>3, PublishIsSend
<1>4. CASE Acknowledged \/ PublishFails
  BY <1>4 DEF Acknowledged, PublishFails, Goto, Abstract!Next, Abstract!Settle
<1>5. ASSUME NEW s \in Signals, Decode(s)
      PROVE  UNCHANGED Abstract!vars
  BY <1>5 DEF Decode, Abstract!vars
<1>. QED
  BY <1>1, <1>2, <1>3, <1>4, <1>5 DEF Next, Thread

\* Every message shows all that is new to the cloud and nothing that is not, for any
\* interval, any order of readings and any publishes that fail or repeat.
THEOREM Refinement == Spec => Implements
<1>. QED
  BY AbstractInit, AbstractStep, IInvHolds, PTL DEF Spec, Implements, Abstract!Spec
=============================================================================
