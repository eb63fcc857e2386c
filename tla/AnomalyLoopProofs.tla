-------------------------- MODULE AnomalyLoopProofs --------------------------
(***************************************************************************)
(* Theorems about AnomalyLoop, for any signals, scores, threshold, and any *)
(* number of invocations of either shape.                                  *)
(*                                                                         *)
(* What the driver is shown depends on a score taken at the other end of   *)
(* the loop.  The invariant follows it: a signal is scored once, its alert *)
(* keeps the severity of that score, an invocation stands where that       *)
(* severity and its diagnosis have sent it, and a diagnosis the broker has *)
(* is of an invocation sent to the vehicle.  With it every step is one of  *)
(* Escalation's or cannot be seen from outside.                            *)
(***************************************************************************)
EXTENDS AnomalyLoop, TLAPS

InQueue(s) == \E k \in 1..Len(anomaly_q) : anomaly_q[k] = s

\* A signal is in the queue or held once, and only before it is scored.
ScoredOnce ==
    /\ \A s \in Signals : InQueue(s) \/ s \notin pushed => scored[s] = None
    /\ \A k, l \in 1..Len(anomaly_q) : anomaly_q[k] = anomaly_q[l] => k = l
    /\ signal # None => ~InQueue(signal)
    /\ detector = "infer" => scored[signal] = None
    /\ detector = "publish" => scored[signal] # None /\ Anomalous(scored[signal])
    /\ \A s \in Signals : alerts[s] # None => scored[s] # None

\* Where an invocation stands, and what it has done.
Standing(i) ==
    /\ at[i] # "none" => alerts[AlertOf(i)] # None
    /\ at[i] = "vehicle" => alerts[AlertOf(i)] = "WARNING" /\ escalate_human[i] = FALSE
    /\ i \in operator \cup published => at[i] = "done"
    /\ i \in failed => at[i] \in {"done", "killed"} /\ status[i] # 200
    /\ i \in published => alerts[AlertOf(i)] = "WARNING" /\ escalate_human[i] = FALSE
    /\ at[i] \in {"none", "llm"} => escalate_human[i] = None
    /\ at[i] = "operator" =>
          escalate_human[i] # None /\ (alerts[AlertOf(i)] = "CRITICAL" \/ escalate_human[i] = TRUE)

Told == \A i \in Invocations : Standing(i)

Inv == TypeOK /\ ScoredOnce /\ AlertsTruthful /\ Told /\ StatusTruthful

\* None is like nothing else.
LEMMA NoneFacts ==
    /\ None \notin Severities /\ None \notin BOOLEAN /\ None \notin {200, 500}
    /\ None \notin Scores \cup {NaN} /\ NaN \notin Scores /\ Scores \subseteq Nat
    /\ None \notin Signals
<1>1. None \notin Nat /\ None # NaN /\ None \notin Signals /\ NaN \notin Nat /\ Scores \subseteq Nat
  BY ConstantsAssumption, Zenon DEF ConstantsAssumption
<1>2. None \notin BOOLEAN /\ None # "WARNING" /\ None # "CRITICAL"
  BY ConstantsAssumption, Zenon DEF ConstantsAssumption
<1>3. 200 \in Nat /\ 500 \in Nat
  OBVIOUS
<1>4. None \notin Scores \cup {NaN} /\ NaN \notin Scores
  BY <1>1, Zenon
<1>5. None \notin {200, 500}
  <2>1. \A n \in Nat : None # n
    BY <1>1, Zenon
  <2>2. None # 200 /\ None # 500
    BY <1>3, <2>1, Zenon
  <2>. QED
    BY <2>2, Zenon
<1>6. None \notin Severities
  BY <1>2, Zenon DEF Severities
<1>. QED
  BY <1>1, <1>2, <1>4, <1>5, <1>6, Zenon

LEMMA InvocationFacts == \A i \in Invocations : AlertOf(i) \in Signals
  BY DEF Invocations, AlertOf

LEMMA SeverityFacts ==
    ASSUME NEW score \in Nat
    PROVE  /\ Severity(score) \in Severities
           /\ Severity(score) = "CRITICAL" <=> score > 95
  BY DEF Severity, Severities

LEMMA InitInv ==
    ASSUME Init
    PROVE  Inv
<1>1. TypeOK
  BY NoneFacts DEF Init, TypeOK
<1>2. ScoredOnce
  BY DEF Init, ScoredOnce, InQueue
<1>3. AlertsTruthful /\ Told /\ StatusTruthful
  BY NoneFacts, InvocationFacts DEF Init, AlertsTruthful, Told, Standing, StatusTruthful
<1>. QED
  BY <1>1, <1>2, <1>3 DEF Inv

-----------------------------------------------------------------------------
(* The vehicle's side: the agent's variables stay. *)

LEMMA CloudUnchanged ==
    ASSUME Inv, UNCHANGED agent,
           \A s \in Signals : alerts[s] # None => alerts'[s] = alerts[s]
    PROVE  Told' /\ StatusTruthful'
<1>1. UNCHANGED <<at, event, escalate_human, status, failed, operator, published>>
  BY DEF agent
<1>2. ASSUME NEW i \in Invocations
      PROVE  Standing(i)'
  <2>1. Standing(i) /\ AlertOf(i) \in Signals
    BY InvocationFacts DEF Inv, Told
  <2>2. alerts[AlertOf(i)] # None => alerts'[AlertOf(i)] = alerts[AlertOf(i)]
    BY <2>1
  <2>3. AlertOf(i)' = AlertOf(i)
    BY DEF AlertOf
  <2>. QED
    BY <1>1, <2>1, <2>2, <2>3, NoneFacts DEF Standing, Severities
<1>3. StatusTruthful'
  BY <1>1 DEF Inv, StatusTruthful
<1>. QED
  BY <1>2, <1>3 DEF Told

LEMMA PushAnomalyInv ==
    ASSUME Inv, NEW s \in Signals, PushAnomaly(s)
    PROVE  Inv'
<1>1. /\ s \notin pushed /\ pushed' = pushed \cup {s} /\ anomaly_q' = Append(anomaly_q, s)
      /\ UNCHANGED <<running, detector, signal, scored, alerts, unsent>>
      /\ UNCHANGED agent /\ UNCHANGED vehicle
  BY DEF PushAnomaly
<1>2. anomaly_q \in Seq(pushed) /\ Len(anomaly_q) \in Nat
  BY DEF Inv, TypeOK
<1>3. /\ anomaly_q' \in Seq(pushed')
      /\ Len(anomaly_q') = Len(anomaly_q) + 1
      /\ anomaly_q'[Len(anomaly_q) + 1] = s
      /\ \A k \in 1..Len(anomaly_q) : anomaly_q'[k] = anomaly_q[k] /\ anomaly_q[k] \in pushed
  <2>1. anomaly_q \in Seq(pushed')
    BY <1>1, <1>2
  <2>. QED
    BY <1>1, <1>2, <2>1
<1>4. TypeOK'
  BY <1>1, <1>3 DEF Inv, TypeOK, agent, vehicle
<1>5. \A k \in 1..Len(anomaly_q') : k = Len(anomaly_q) + 1 \/ k \in 1..Len(anomaly_q)
  BY <1>2, <1>3
<1>6. \A x : InQueue(x)' => InQueue(x) \/ x = s
  BY <1>3, <1>5 DEF InQueue
<1>7. signal # s
  BY <1>1, NoneFacts DEF Inv, TypeOK
<1>8. ScoredOnce'
  <2>1. \A k, l \in 1..Len(anomaly_q') : anomaly_q'[k] = anomaly_q'[l] => k = l
    BY <1>1, <1>3, <1>5 DEF Inv, ScoredOnce
  <2>2. \A x \in Signals : InQueue(x)' \/ x \notin pushed' => scored[x] = None
    BY <1>1, <1>6 DEF Inv, ScoredOnce
  <2>. QED
    BY <1>1, <1>6, <1>7, <2>1, <2>2 DEF Inv, ScoredOnce
<1>9. AlertsTruthful'
  BY <1>1 DEF Inv, AlertsTruthful
<1>. QED
  BY <1>1, <1>4, <1>8, <1>9, CloudUnchanged DEF Inv

\* A step of the detector, or Stop, that leaves the queue and the scores.
LEMMA DetectorGoesOn ==
    ASSUME Inv, TypeOK',
           UNCHANGED <<pushed, anomaly_q, scored, alerts, unsent, agent, vehicle>>,
           signal' = signal \/ signal' = None,
           detector' = "infer" => detector = "infer",
           detector' = "publish" => detector = "publish" /\ signal' = signal,
           detector = "publish" => detector' = "publish" \/ alerts[signal] # None,
           detector' = "infer" => signal' = signal
    PROVE  Inv'
<1>1. ScoredOnce'
  BY NoneFacts DEF Inv, ScoredOnce, InQueue, TypeOK
<1>2. AlertsTruthful'
  BY DEF Inv, AlertsTruthful
<1>. QED
  BY <1>1, <1>2, CloudUnchanged DEF Inv

LEMMA PopSignalInv ==
    ASSUME Inv, PopSignal
    PROVE  Inv'
<1>1. /\ detector = "pop" /\ detector' = "infer" /\ anomaly_q # <<>>
      /\ signal' = Head(anomaly_q) /\ anomaly_q' = Tail(anomaly_q)
      /\ UNCHANGED <<pushed, running, scored, alerts, unsent>>
      /\ UNCHANGED agent /\ UNCHANGED vehicle
  BY DEF PopSignal
<1>2. anomaly_q \in Seq(pushed) /\ Len(anomaly_q) \in Nat
  BY DEF Inv, TypeOK
<1>3. /\ 1 \in 1..Len(anomaly_q) /\ anomaly_q[1] = signal' /\ signal' \in pushed
      /\ anomaly_q' \in Seq(pushed)
      /\ Len(anomaly_q') = Len(anomaly_q) - 1
      /\ \A k \in 1..Len(anomaly_q') :
            k + 1 \in 1..Len(anomaly_q) /\ anomaly_q'[k] = anomaly_q[k + 1]
  BY <1>1, <1>2
<1>4. signal' \in Signals /\ signal' # None
  BY <1>3, NoneFacts DEF Inv, TypeOK
<1>5. TypeOK'
  BY <1>1, <1>3, <1>4 DEF Inv, TypeOK, agent, vehicle
<1>6. InQueue(signal') /\ \A s : InQueue(s)' => InQueue(s)
  BY <1>3 DEF InQueue
<1>7. \A k \in 1..Len(anomaly_q') : anomaly_q'[k] # signal'
  <2>1. ASSUME NEW k \in 1..Len(anomaly_q')
        PROVE  k + 1 # 1
    BY <1>2, <1>3
  <2>. QED
    BY <1>3, <2>1 DEF Inv, ScoredOnce
<1>8. \A k, l \in 1..Len(anomaly_q') : anomaly_q'[k] = anomaly_q'[l] => k = l
  <2>1. ASSUME NEW k \in 1..Len(anomaly_q'), NEW l \in 1..Len(anomaly_q'),
               anomaly_q'[k] = anomaly_q'[l]
        PROVE  k + 1 = l + 1
    BY <1>3, <2>1 DEF Inv, ScoredOnce
  <2>. QED
    BY <1>2, <1>3, <2>1
<1>9. ScoredOnce'
  BY <1>1, <1>4, <1>6, <1>7, <1>8 DEF Inv, ScoredOnce, InQueue
<1>10. AlertsTruthful'
  BY <1>1 DEF Inv, AlertsTruthful
<1>. QED
  BY <1>1, <1>5, <1>9, <1>10, CloudUnchanged DEF Inv

LEMMA RunInferenceInv ==
    ASSUME Inv, RunInference
    PROVE  Inv'
<1>1. PICK score \in Scores \cup {NaN} :
         /\ scored' = [scored EXCEPT ![signal] = score]
         /\ IF Anomalous(score) THEN detector' = "publish" /\ UNCHANGED signal ELSE LoopAgain
  BY DEF RunInference
<1>2. /\ detector = "infer"
      /\ UNCHANGED <<pushed, anomaly_q, running, alerts, unsent>>
      /\ UNCHANGED agent /\ UNCHANGED vehicle
  BY DEF RunInference
<1>3. signal \in Signals /\ signal \in pushed /\ signal # None /\ scored[signal] = None
      /\ alerts[signal] = None /\ ~InQueue(signal)
  BY <1>2 DEF Inv, TypeOK, ScoredOnce
<1>4. /\ scored'[signal] = score /\ score # None
      /\ \A s \in Signals : s # signal => scored'[s] = scored[s]
  BY <1>1, <1>3, NoneFacts DEF Inv, TypeOK
<1>5. \/ Anomalous(score) /\ detector' = "publish" /\ signal' = signal
      \/ ~Anomalous(score) /\ detector' = "loop" /\ signal' = None
  BY <1>1 DEF LoopAgain
<1>. HIDE DEF Anomalous
<1>6. TypeOK'
  BY <1>1, <1>2, <1>3, <1>5, NoneFacts DEF Inv, TypeOK, agent, vehicle
<1>7. ScoredOnce'
  BY <1>2, <1>3, <1>4, <1>5 DEF Inv, ScoredOnce, InQueue
<1>8. AlertsTruthful'
  BY <1>2, <1>3, <1>4, <1>5 DEF Inv, AlertsTruthful
<1>. QED
  BY <1>2, <1>6, <1>7, <1>8, CloudUnchanged DEF Inv

LEMMA BrokerTakesAlertInv ==
    ASSUME Inv, BrokerTakesAlert
    PROVE  Inv'
<1>1. /\ detector = "publish" /\ alerts[signal] = None
      /\ alerts' = [alerts EXCEPT ![signal] = Severity(scored[signal])]
      /\ UNCHANGED <<pushed, anomaly_q, running, detector, signal, scored, unsent>>
      /\ UNCHANGED agent /\ UNCHANGED vehicle
  BY DEF BrokerTakesAlert
<1>2. signal \in Signals /\ scored[signal] \in Nat /\ Anomalous(scored[signal])
  <2>1. signal \in Signals /\ scored[signal] \in Scores \cup {NaN, None}
    BY <1>1 DEF Inv, TypeOK
  <2>2. scored[signal] # None /\ Anomalous(scored[signal])
    BY <1>1 DEF Inv, ScoredOnce
  <2>3. scored[signal] # NaN
    BY <2>2, Zenon DEF Anomalous
  <2>. QED
    BY <2>1, <2>2, <2>3, NoneFacts
<1>3. /\ Severity(scored[signal]) \in Severities
      /\ Severity(scored[signal]) = "CRITICAL" <=> scored[signal] > 95
  BY <1>2, SeverityFacts
<1>4. /\ alerts'[signal] = Severity(scored[signal])
      /\ \A s \in Signals : s # signal => alerts'[s] = alerts[s]
  BY <1>1, <1>2 DEF Inv, TypeOK
<1>5. TypeOK'
  BY <1>1, <1>2, <1>3 DEF Inv, TypeOK, agent, vehicle
<1>6. ScoredOnce'
  BY <1>1, <1>4 DEF Inv, ScoredOnce, InQueue
<1>7. AlertsTruthful'
  BY <1>1, <1>2, <1>3, <1>4, NoneFacts DEF Inv, AlertsTruthful
<1>. QED
  BY <1>1, <1>4, <1>5, <1>6, <1>7, CloudUnchanged DEF Inv

LEMMA PublishThrowsInv ==
    ASSUME Inv, PublishThrows
    PROVE  Inv'
<1>1. /\ detector = "publish" /\ detector' = "loop" /\ signal' = None
      /\ unsent' = IF alerts[signal] = None THEN unsent \cup {signal} ELSE unsent
      /\ UNCHANGED <<pushed, anomaly_q, running, scored, alerts>>
      /\ UNCHANGED agent /\ UNCHANGED vehicle
  BY DEF PublishThrows, LoopAgain
<1>2. signal \in Signals
  BY <1>1 DEF Inv, TypeOK
<1>3. TypeOK'
  BY <1>1, <1>2 DEF Inv, TypeOK, agent, vehicle
<1>4. ScoredOnce'
  BY <1>1 DEF Inv, ScoredOnce, InQueue
<1>5. AlertsTruthful'
  <2>1. unsent \subseteq unsent' /\ (alerts[signal] # None \/ signal \in unsent')
    BY <1>1
  <2>. QED
    BY <1>1, <2>1 DEF Inv, AlertsTruthful
<1>. QED
  BY <1>1, <1>3, <1>4, <1>5, CloudUnchanged DEF Inv

LEMMA EdgeInv ==
    ASSUME Inv, Detector \/ InferenceThrows \/ Stop
    PROVE  Inv'
<1>1. CASE CheckRunning
  <2>1. TypeOK'
    BY <1>1 DEF CheckRunning, Inv, TypeOK, agent, vehicle
  <2>. QED
    BY <1>1, <2>1, DetectorGoesOn DEF CheckRunning
<1>2. CASE PopTimeout
  <2>1. TypeOK'
    BY <1>2 DEF PopTimeout, Inv, TypeOK, agent, vehicle
  <2>. QED
    BY <1>2, <2>1, DetectorGoesOn DEF PopTimeout
<1>3. CASE PublishAcknowledged
  <2>1. TypeOK'
    BY <1>3 DEF PublishAcknowledged, LoopAgain, Inv, TypeOK, agent, vehicle
  <2>. QED
    BY <1>3, <2>1, DetectorGoesOn DEF PublishAcknowledged, LoopAgain
<1>4. CASE InferenceThrows
  <2>1. TypeOK'
    BY <1>4 DEF InferenceThrows, Inv, TypeOK, agent, vehicle
  <2>. QED
    BY <1>4, <2>1, DetectorGoesOn DEF InferenceThrows
<1>5. CASE Stop
  <2>1. TypeOK'
    BY <1>5 DEF Stop, Inv, TypeOK, agent, vehicle
  <2>. QED
    BY <1>5, <2>1, DetectorGoesOn DEF Stop
<1>. QED
  BY <1>1, <1>2, <1>3, <1>4, <1>5, PopSignalInv, RunInferenceInv, BrokerTakesAlertInv,
     PublishThrowsInv DEF Detector

-----------------------------------------------------------------------------
(* The cloud's side: a step of invocation i leaves the gateway's variables. *)

\* What an invocation's step must see to.
LEMMA InvocationStep ==
    ASSUME Inv, NEW i \in Invocations, UNCHANGED edge, TypeOK', Standing(i)',
           \A j \in Invocations : j # i =>
               /\ at'[j] = at[j] /\ escalate_human'[j] = escalate_human[j]
               /\ status'[j] = status[j] /\ event'[j] = event[j]
               /\ j \in operator' <=> j \in operator
               /\ j \in published' <=> j \in published
               /\ j \in failed' <=> j \in failed,
           status'[i] = 200 => i \in (operator' \cup published') \ failed',
           i \notin operator' \cap published',
           status'[i] = 500 => i \in failed' \/ event'[i] = "flat"
    PROVE  Inv'
<1>1. UNCHANGED <<pushed, anomaly_q, running, detector, signal, scored, alerts, unsent>>
  BY DEF edge
<1>2. ScoredOnce'
  BY <1>1 DEF Inv, ScoredOnce, InQueue
<1>3. AlertsTruthful'
  BY <1>1 DEF Inv, AlertsTruthful
<1>4. ASSUME NEW j \in Invocations
      PROVE  Standing(j)'
  <2>1. CASE j = i
    BY <2>1
  <2>2. CASE j # i
    <3>1. Standing(j)
      BY DEF Inv, Told
    <3>. QED
      BY <1>1, <2>2, <3>1 DEF Standing, AlertOf
  <2>. QED
    BY <2>1, <2>2
<1>5. \A j \in Invocations : status'[j] = 200 => j \in (operator' \cup published') \ failed'
  BY DEF Inv, StatusTruthful
<1>6. operator' \cap published' = {}
  BY DEF Inv, StatusTruthful, TypeOK
<1>7. \A j \in Invocations : status'[j] = 500 => j \in failed' \/ event'[j] = "flat"
  BY DEF Inv, StatusTruthful
<1>8. StatusTruthful'
  BY <1>5, <1>6, <1>7 DEF StatusTruthful
<1>. QED
  BY <1>2, <1>3, <1>4, <1>8 DEF Inv, Told

\* Of an invocation on its way.
LEMMA OnItsWay ==
    ASSUME Inv, NEW i \in Invocations, at[i] \in {"none", "llm", "operator", "vehicle"}
    PROVE  /\ i \notin operator \cup published \cup failed
           /\ status[i] = None
           /\ Standing(i)
  BY DEF Inv, TypeOK, Told, Standing

LEMMA InvokeInv ==
    ASSUME Inv, NEW i \in Invocations, Invoke(i)
    PROVE  Inv'
<1>1. PICK shape \in EventShapes : event' = [event EXCEPT ![i] = shape]
  BY DEF Invoke
<1>2. /\ alerts[AlertOf(i)] # None /\ at[i] = "none" /\ at' = [at EXCEPT ![i] = "llm"]
      /\ UNCHANGED <<escalate_human, status, failed, operator, published, handled, shown>>
      /\ UNCHANGED edge
  BY DEF Invoke, vehicle
<1>3. i \notin operator \cup published \cup failed /\ status[i] = None /\ Standing(i)
  BY <1>2, OnItsWay
<1>4. TypeOK'
  BY <1>1, <1>2, <1>3 DEF Inv, TypeOK, edge
<1>5. at'[i] = "llm" /\ \A j \in Invocations : j # i => at'[j] = at[j] /\ event'[j] = event[j]
  BY <1>1, <1>2 DEF Inv, TypeOK
<1>6. Standing(i)'
  BY <1>2, <1>3, <1>5 DEF Standing, edge, AlertOf
<1>. QED
  BY <1>2, <1>3, <1>4, <1>5, <1>6, NoneFacts, InvocationStep

\* A step that ends in Answer.
LEMMA AnswerInv ==
    ASSUME Inv, NEW i \in Invocations, NEW code \in {200, 500}, Answer(i, code),
           at[i] \in {"llm", "operator", "vehicle"},
           UNCHANGED <<edge, event, escalate_human, vehicle>>,
           operator' \in {operator, operator \cup {i}},
           published' \in {published, published \cup {i}},
           i \in operator' => at[i] = "operator",
           i \in published' => at[i] = "vehicle",
           IF code = 200 THEN failed' = failed /\ i \in operator' \cup published'
           ELSE failed' = failed \cup {i} \/ (failed' = failed /\ event[i] = "flat")
    PROVE  Inv'
<1>1. i \notin operator \cup published \cup failed /\ status[i] = None /\ Standing(i)
  BY OnItsWay
<1>2. /\ at' = [at EXCEPT ![i] = "done"]
      /\ status' = [status EXCEPT ![i] = code]
      /\ UNCHANGED <<handled, shown>>
      /\ code # None
  BY NoneFacts DEF Answer, vehicle
<1>3. /\ at'[i] = "done" /\ status'[i] = code
      /\ \A j \in Invocations : j # i => at'[j] = at[j] /\ status'[j] = status[j]
  BY <1>2 DEF Inv, TypeOK
<1>4. TypeOK'
  <2>1. at' \in [Invocations -> {"none", "llm", "operator", "vehicle", "done", "killed"}]
    BY <1>2 DEF Inv, TypeOK
  <2>2. status' \in [Invocations -> {200, 500, None}]
    BY <1>2 DEF Inv, TypeOK
  <2>3. \A j \in Invocations : at'[j] = "done" <=> status'[j] # None
    BY <1>2, <1>3 DEF Inv, TypeOK
  <2>4. operator' \subseteq Invocations /\ published' \subseteq Invocations /\ failed' \subseteq Invocations
        /\ handled \subseteq published'
    BY DEF Inv, TypeOK
  <2>. QED
    BY <1>2, <2>1, <2>2, <2>3, <2>4 DEF Inv, TypeOK, edge
<1>5. Standing(i)'
  <2>1. alerts'[AlertOf(i)'] = alerts[AlertOf(i)]
    BY DEF edge, AlertOf
  <2>. QED
    BY <1>1, <1>3, <2>1 DEF Standing
<1>. QED
  BY <1>1, <1>3, <1>4, <1>5, InvocationStep

LEMMA DiagnoseInv ==
    ASSUME Inv, NEW i \in Invocations, Diagnose(i)
    PROVE  Inv'
<1>1. PICK escalate \in BOOLEAN :
         /\ escalate_human' = [escalate_human EXCEPT ![i] = escalate]
         /\ at' = [at EXCEPT ![i] = IF ToHuman(i, escalate) THEN "operator" ELSE "vehicle"]
  BY DEF Diagnose
<1>2. /\ at[i] = "llm"
      /\ UNCHANGED <<event, status, failed, operator, published, handled, shown>>
      /\ UNCHANGED edge
  BY DEF Diagnose, vehicle
<1>3. i \notin operator \cup published \cup failed /\ status[i] = None /\ Standing(i)
  BY <1>2, OnItsWay
<1>4. /\ at'[i] = IF ToHuman(i, escalate) THEN "operator" ELSE "vehicle"
      /\ escalate_human'[i] = escalate
      /\ \A j \in Invocations : j # i => at'[j] = at[j] /\ escalate_human'[j] = escalate_human[j]
  BY <1>1 DEF Inv, TypeOK
<1>5. TypeOK'
  <2>1. at' \in [Invocations -> {"none", "llm", "operator", "vehicle", "done", "killed"}]
    BY <1>1 DEF Inv, TypeOK
  <2>2. escalate_human' \in [Invocations -> BOOLEAN \cup {None}]
    BY <1>1 DEF Inv, TypeOK
  <2>3. \A j \in Invocations : at'[j] = "done" <=> status'[j] # None
    BY <1>2, <1>3, <1>4 DEF Inv, TypeOK
  <2>. QED
    BY <1>2, <2>1, <2>2, <2>3 DEF Inv, TypeOK, edge
<1>6. Standing(i)'
  <2>1. alerts'[AlertOf(i)'] = alerts[AlertOf(i)]
    BY <1>2 DEF edge, AlertOf
  <2>2. alerts[AlertOf(i)] \in Severities
    BY <1>2, <1>3, InvocationFacts DEF Inv, TypeOK, Standing
  <2>3. at'[i] = "vehicle" => alerts[AlertOf(i)] = "WARNING" /\ escalate = FALSE
    BY <1>4, <2>2 DEF ToHuman, Severities
  <2>4. /\ at'[i] \in {"operator", "vehicle"} /\ escalate # None
        /\ at'[i] = "operator" => alerts[AlertOf(i)] = "CRITICAL" \/ escalate = TRUE
    BY <1>4, NoneFacts DEF ToHuman
  <2>. QED
    BY <1>2, <1>3, <1>4, <2>1, <2>3, <2>4 DEF Standing
<1>. QED
  BY <1>2, <1>3, <1>4, <1>5, <1>6, NoneFacts, InvocationStep

LEMMA KilledInv ==
    ASSUME Inv, NEW i \in Invocations, Killed(i)
    PROVE  Inv'
<1>1. /\ at[i] \in {"llm", "operator", "vehicle"}
      /\ failed' = failed \cup {i} /\ at' = [at EXCEPT ![i] = "killed"]
      /\ UNCHANGED <<event, escalate_human, status, operator, published, handled, shown>>
      /\ UNCHANGED edge
  BY DEF Killed, vehicle, Inv, TypeOK
<1>2. i \notin operator \cup published \cup failed /\ status[i] = None /\ Standing(i)
  BY <1>1, OnItsWay
<1>3. at'[i] = "killed" /\ \A j \in Invocations : j # i => at'[j] = at[j]
  BY <1>1 DEF Inv, TypeOK
<1>4. TypeOK'
  <2>1. \A j \in Invocations : at'[j] = "done" <=> status'[j] # None
    BY <1>1, <1>2, <1>3 DEF Inv, TypeOK
  <2>. QED
    BY <1>1, <2>1 DEF Inv, TypeOK, edge
<1>5. Standing(i)'
  BY <1>1, <1>2, <1>3, NoneFacts DEF Standing, edge, AlertOf
<1>. QED
  BY <1>1, <1>2, <1>3, <1>4, <1>5, NoneFacts, InvocationStep

LEMMA HandleDiagnosisInv ==
    ASSUME Inv, NEW i \in Invocations, HandleDiagnosis(i)
    PROVE  Inv'
<1>1. /\ i \in published /\ handled' = handled \cup {i}
      /\ shown' \in {shown, shown \cup {i}}
      /\ UNCHANGED agent /\ UNCHANGED <<pushed, anomaly_q, running, detector, signal, scored, alerts, unsent>>
  BY DEF HandleDiagnosis, edge
<1>2. TypeOK'
  BY <1>1 DEF Inv, TypeOK, agent
<1>3. ScoredOnce' /\ AlertsTruthful'
  BY <1>1 DEF Inv, ScoredOnce, InQueue, AlertsTruthful
<1>. QED
  BY <1>1, <1>2, <1>3, CloudUnchanged DEF Inv

LEMMA LambdaHandlerInv ==
    ASSUME Inv, NEW i \in Invocations, LambdaHandler(i)
    PROVE  Inv'
<1>1. CASE PromptFails(i)
  <2>1. at[i] = "llm" /\ i \notin operator \cup published
    BY <1>1, OnItsWay DEF PromptFails
  <2>. QED
    BY <1>1, <2>1, AnswerInv DEF PromptFails
<1>2. CASE BedrockFails(i)
  <2>1. at[i] = "llm" /\ i \notin operator \cup published
    BY <1>2, OnItsWay DEF BedrockFails
  <2>. QED
    BY <1>2, <2>1, AnswerInv DEF BedrockFails
<1>3. CASE AlertOperator(i)
  <2>1. at[i] = "operator" /\ i \notin operator \cup published
    BY <1>3, OnItsWay DEF AlertOperator
  <2>. QED
    BY <1>3, <2>1, AnswerInv DEF AlertOperator
<1>4. CASE AlertOperatorFails(i)
  <2>1. at[i] = "operator" /\ i \notin operator \cup published
    BY <1>4, OnItsWay DEF AlertOperatorFails
  <2>. QED
    BY <1>4, <2>1, AnswerInv DEF AlertOperatorFails
<1>5. CASE PublishDiagnosis(i)
  <2>1. at[i] = "vehicle" /\ i \notin operator \cup published
    BY <1>5, OnItsWay DEF PublishDiagnosis
  <2>. QED
    BY <1>5, <2>1, AnswerInv DEF PublishDiagnosis
<1>6. CASE PublishDiagnosisFails(i)
  <2>1. at[i] = "vehicle" /\ i \notin operator \cup published
    BY <1>6, OnItsWay DEF PublishDiagnosisFails
  <2>. QED
    BY <1>6, <2>1, AnswerInv DEF PublishDiagnosisFails
<1>. QED
  BY <1>1, <1>2, <1>3, <1>4, <1>5, <1>6, DiagnoseInv DEF LambdaHandler

LEMMA NextInv ==
    ASSUME Inv, [Next]_vars
    PROVE  Inv'
<1>1. CASE Next
  BY <1>1, PushAnomalyInv, EdgeInv, InvokeInv, LambdaHandlerInv, KilledInv, HandleDiagnosisInv DEF Next
<1>2. CASE UNCHANGED vars
  <2>1. /\ UNCHANGED <<pushed, anomaly_q, running, detector, signal, scored, alerts, unsent>>
        /\ UNCHANGED agent /\ UNCHANGED <<handled, shown>>
    BY <1>2 DEF vars, edge, vehicle
  <2>2. TypeOK'
    BY <2>1 DEF Inv, TypeOK, agent
  <2>3. ScoredOnce' /\ AlertsTruthful'
    BY <2>1 DEF Inv, ScoredOnce, InQueue, AlertsTruthful
  <2>. QED
    BY <2>1, <2>2, <2>3, CloudUnchanged DEF Inv
<1>. QED
  BY <1>1, <1>2

LEMMA Invariance == Spec => []Inv
<1>1. Init => Inv
  BY InitInv
<1>2. Inv /\ [Next]_vars => Inv'
  BY NextInv
<1>. QED
  BY <1>1, <1>2, PTL DEF Spec

-----------------------------------------------------------------------------
(* The theorems *)

\* Every variable of the detector, of the invocations and of the display has its type.
THEOREM TypeCorrect == Spec => []TypeOK
<1>1. Inv => TypeOK
  BY DEF Inv
<1>. QED
  BY <1>1, Invariance, PTL

\* For any threshold, also one above 0.95 or a NaN score: an alert is about a score above
\* the threshold and has its severity, and only a failed publish() loses one.
THEOREM AlertsCorrect == Spec => []AlertsTruthful
<1>1. Inv => AlertsTruthful
  BY DEF Inv
<1>. QED
  BY <1>1, Invariance, PTL

\* However many invocations run at once and wherever they fail, the driver is shown no
\* diagnosis of a critical score and none that asks for a human.
THEOREM HumanGate == Spec => []HumanFirst
<1>1. ASSUME Inv
      PROVE  HumanFirst
  <2>1. ASSUME NEW i \in shown
        PROVE  scored[AlertOf(i)] <= 95 /\ ~escalate_human[i]
    <3>1. i \in published /\ i \in Invocations
      BY <1>1 DEF Inv, TypeOK
    <3>2. AlertOf(i) \in Signals /\ alerts[AlertOf(i)] = "WARNING" /\ escalate_human[i] = FALSE
      BY <1>1, <3>1, InvocationFacts DEF Inv, Told, Standing
    <3>3. alerts[AlertOf(i)] # None /\ alerts[AlertOf(i)] # "CRITICAL"
      BY <3>2, NoneFacts DEF Severities
    <3>. DEFINE score == scored[AlertOf(i)]
    <3>4. Anomalous(score) /\ (alerts[AlertOf(i)] = "CRITICAL" <=> score > 95)
      <4>1. AlertsTruthful
        BY <1>1 DEF Inv
      <4>2. \A s \in Signals : alerts[s] # None => Anomalous(scored[s])
        BY <4>1 DEF AlertsTruthful
      <4>3. \A s \in Signals : alerts[s] # None => (alerts[s] = "CRITICAL" <=> scored[s] > 95)
        BY <4>1 DEF AlertsTruthful
      <4>. QED
        BY <3>2, <3>3, <4>2, <4>3, Zenon
    <3>5. score # NaN
      BY <3>4, Zenon DEF Anomalous
    <3>6. score \in Nat
      <4>1. score \in Scores \cup {NaN, None} /\ score # None
        BY <1>1, <3>2, <3>3 DEF Inv, TypeOK, ScoredOnce
      <4>. QED
        BY <3>5, <4>1, NoneFacts
    <3>. QED
      BY <3>2, <3>3, <3>4, <3>6
  <2>. QED
    BY <2>1 DEF HumanFirst
<1>. QED
  BY <1>1, Invariance, PTL

\* The answer of an invocation says what it did: 200 after the one telling, without any
\* failure, and 500 only for a service's failure or an event without "payload".
THEOREM StatusCorrect == Spec => []StatusTruthful
<1>1. Inv => StatusTruthful
  BY DEF Inv
<1>. QED
  BY <1>1, Invariance, PTL

-----------------------------------------------------------------------------
(* Refinement *)

LEMMA AbstractInit == Init => Abstract!Init
BY DEF Init, Due, Abstract!Init

\* What the abstract specification sees but the alert that is due.
Visible == <<scored, alerts, unsent, escalate_human, operator, published, shown>>

LEMMA QuietStep ==
    ASSUME UNCHANGED Visible, UNCHANGED Due
    PROVE  UNCHANGED Abstract!vars
BY DEF Visible, Abstract!vars

\* Of a signal in the detector's hands.
LEMMA InHandFacts ==
    ASSUME Inv, detector \in {"infer", "publish"}
    PROVE  /\ signal \in Signals /\ signal # None
           /\ detector = "infer" => scored[signal] = None /\ alerts[signal] = None
BY DEF Inv, TypeOK, ScoredOnce

LEMMA RunInferenceIsJudge ==
    ASSUME Inv, RunInference
    PROVE  \E s \in Signals : Abstract!Judge(s)
<1>1. PICK score \in Scores \cup {NaN} :
         /\ scored' = [scored EXCEPT ![signal] = score]
         /\ IF Anomalous(score) THEN detector' = "publish" /\ UNCHANGED signal ELSE LoopAgain
  BY DEF RunInference
<1>2. /\ detector = "infer"
      /\ UNCHANGED <<alerts, unsent, escalate_human, operator, published, shown>>
  BY DEF RunInference, agent, vehicle
<1>3. signal \in Signals /\ signal # None /\ scored[signal] = None /\ alerts[signal] = None
  BY <1>2, InHandFacts
<1>4. Due = None /\ Due' = IF Anomalous(score) THEN signal ELSE None
  BY <1>1, <1>2, <1>3 DEF Due, LoopAgain
<1>5. Due' = IF score # NaN /\ score > Threshold THEN signal ELSE None
  BY <1>4, Zenon DEF Anomalous
<1>6. Abstract!Judge(signal)
  BY <1>1, <1>2, <1>3, <1>4, <1>5, Zenon DEF Abstract!Judge
<1>. QED
  BY <1>3, <1>6

LEMMA BrokerTakesAlertIsReport ==
    ASSUME Inv, BrokerTakesAlert
    PROVE  Abstract!Report
<1>1. /\ detector = "publish" /\ alerts[signal] = None
      /\ alerts' = [alerts EXCEPT ![signal] = Severity(scored[signal])]
      /\ UNCHANGED <<detector, signal, scored, unsent, escalate_human, operator, published, shown>>
  BY DEF BrokerTakesAlert, agent, vehicle
<1>2. signal \in Signals /\ signal # None
  BY <1>1, InHandFacts
<1>3. Severity(scored[signal]) # None
  BY NoneFacts DEF Severity, Severities
<1>4. alerts'[signal] # None
  BY <1>1, <1>2, <1>3 DEF Inv, TypeOK
<1>5. Due = signal /\ Due' = None
  BY <1>1, <1>4 DEF Due
<1>. QED
  BY <1>1, <1>2, <1>5 DEF Abstract!Report, Severity

LEMMA PublishThrowsIsWithhold ==
    ASSUME Inv, PublishThrows
    PROVE  [Abstract!Next]_(Abstract!vars)
<1>1. /\ detector = "publish" /\ detector' = "loop"
      /\ unsent' = IF alerts[signal] = None THEN unsent \cup {signal} ELSE unsent
      /\ UNCHANGED <<scored, alerts, escalate_human, operator, published, shown>>
  BY DEF PublishThrows, LoopAgain, agent, vehicle
<1>2. signal # None /\ Due' = None
  BY <1>1, InHandFacts DEF Due
<1>3. CASE alerts[signal] = None
  <2>1. Abstract!Withhold
    BY <1>1, <1>2, <1>3 DEF Due, Abstract!Withhold
  <2>. QED
    BY <2>1 DEF Abstract!Next
<1>4. CASE alerts[signal] # None
  BY <1>1, <1>2, <1>4, QuietStep DEF Due, Visible
<1>. QED
  BY <1>3, <1>4

LEMMA EdgeStep ==
    ASSUME Inv, Detector \/ InferenceThrows \/ Stop \/ \E s \in Signals : PushAnomaly(s)
    PROVE  [Abstract!Next]_(Abstract!vars)
<1>. USE DEF agent, vehicle
<1>1. CASE CheckRunning \/ PopSignal \/ PopTimeout \/ InferenceThrows
  <2>1. UNCHANGED Visible /\ detector # "publish" /\ detector' # "publish"
    BY <1>1 DEF CheckRunning, PopSignal, PopTimeout, InferenceThrows, Visible
  <2>. QED
    BY <2>1, QuietStep DEF Due
<1>2. CASE PublishAcknowledged
  <2>1. UNCHANGED Visible /\ alerts[signal] # None /\ detector' = "loop"
    BY <1>2 DEF PublishAcknowledged, LoopAgain, Visible
  <2>. QED
    BY <2>1, QuietStep DEF Due
<1>3. CASE Stop \/ \E s \in Signals : PushAnomaly(s)
  <2>1. UNCHANGED <<Visible, detector, signal, alerts>>
    BY <1>3 DEF Stop, PushAnomaly, Visible
  <2>. QED
    BY <2>1, QuietStep DEF Due
<1>4. CASE RunInference
  BY <1>4, RunInferenceIsJudge DEF Abstract!Next
<1>5. CASE BrokerTakesAlert
  BY <1>5, BrokerTakesAlertIsReport DEF Abstract!Next
<1>. QED
  BY <1>1, <1>2, <1>3, <1>4, <1>5, PublishThrowsIsWithhold DEF Detector

\* Alert and verdict of an invocation that has left the language model.
LEMMA DecidedFacts ==
    ASSUME Inv, NEW i \in Invocations, at[i] \in {"operator", "vehicle"}
    PROVE  /\ i \notin operator \cup published
           /\ escalate_human[i] # None
           /\ at[i] = "operator" => Abstract!ForHuman(i)
           /\ at[i] = "vehicle" => ~Abstract!ForHuman(i)
<1>1. i \notin operator \cup published /\ Standing(i)
  BY OnItsWay
<1>2. CASE at[i] = "operator"
  BY <1>1, <1>2 DEF Standing, Abstract!ForHuman, AlertOf
<1>3. CASE at[i] = "vehicle"
  BY <1>1, <1>3, NoneFacts DEF Standing, Abstract!ForHuman, AlertOf
<1>. QED
  BY <1>1, <1>2, <1>3

LEMMA AgentStep ==
    ASSUME Inv, NEW i \in Invocations, Invoke(i) \/ LambdaHandler(i) \/ Killed(i)
    PROVE  [Abstract!Next]_(Abstract!vars)
<1>1. UNCHANGED <<scored, alerts, unsent, shown>> /\ UNCHANGED Due
  BY DEF edge, vehicle, Due, Invoke, Killed, LambdaHandler, PromptFails, BedrockFails, Diagnose,
         AlertOperator, AlertOperatorFails, PublishDiagnosis, PublishDiagnosisFails
<1>2. CASE Invoke(i) \/ PromptFails(i) \/ BedrockFails(i) \/ Killed(i)
  <2>1. UNCHANGED <<escalate_human, operator, published>>
    BY <1>2 DEF Invoke, PromptFails, BedrockFails, Killed
  <2>. QED
    BY <1>1, <2>1, QuietStep DEF Visible
<1>3. CASE Diagnose(i)
  <2>1. /\ at[i] = "llm"
        /\ \E escalate \in BOOLEAN : escalate_human' = [escalate_human EXCEPT ![i] = escalate]
        /\ UNCHANGED <<operator, published>>
    BY <1>3 DEF Diagnose
  <2>2. alerts[i[1]] # None /\ escalate_human[i] = None
    BY <2>1, OnItsWay DEF Standing, AlertOf
  <2>3. Abstract!Decide(i)
    BY <1>1, <2>1, <2>2 DEF Abstract!Decide
  <2>. QED
    BY <2>3 DEF Abstract!Next
<1>4. CASE AlertOperator(i) \/ AlertOperatorFails(i)
  <2>1. /\ at[i] = "operator"
        /\ operator' = operator \/ operator' = operator \cup {i}
        /\ UNCHANGED <<escalate_human, published>>
    BY <1>4 DEF AlertOperator, AlertOperatorFails
  <2>2. CASE operator' = operator
    BY <1>1, <2>1, <2>2, QuietStep DEF Visible
  <2>3. CASE operator' = operator \cup {i}
    <3>1. Abstract!TellHuman(i)
      BY <1>1, <2>1, <2>3, DecidedFacts DEF Abstract!TellHuman
    <3>. QED
      BY <3>1 DEF Abstract!Next
  <2>. QED
    BY <2>1, <2>2, <2>3
<1>5. CASE PublishDiagnosis(i) \/ PublishDiagnosisFails(i)
  <2>1. /\ at[i] = "vehicle"
        /\ published' = published \/ published' = published \cup {i}
        /\ UNCHANGED <<escalate_human, operator>>
    BY <1>5 DEF PublishDiagnosis, PublishDiagnosisFails
  <2>2. CASE published' = published
    BY <1>1, <2>1, <2>2, QuietStep DEF Visible
  <2>3. CASE published' = published \cup {i}
    <3>1. Abstract!Advise(i)
      BY <1>1, <2>1, <2>3, DecidedFacts DEF Abstract!Advise
    <3>. QED
      BY <3>1 DEF Abstract!Next
  <2>. QED
    BY <2>1, <2>2, <2>3
<1>. QED
  BY <1>2, <1>3, <1>4, <1>5 DEF LambdaHandler

LEMMA HandleDiagnosisStep ==
    ASSUME Inv, NEW i \in Invocations, HandleDiagnosis(i)
    PROVE  [Abstract!Next]_(Abstract!vars)
<1>1. /\ i \in published \ handled
      /\ shown' = shown \/ shown' = shown \cup {i}
      /\ UNCHANGED <<scored, alerts, unsent, escalate_human, operator, published>>
      /\ UNCHANGED Due
  BY DEF HandleDiagnosis, edge, agent, Due
<1>2. i \notin shown
  BY <1>1 DEF Inv, TypeOK
<1>3. CASE shown' = shown
  BY <1>1, <1>3, QuietStep DEF Visible
<1>4. CASE shown' = shown \cup {i}
  <2>1. Abstract!Show(i)
    BY <1>1, <1>2, <1>4 DEF Abstract!Show
  <2>. QED
    BY <2>1 DEF Abstract!Next
<1>. QED
  BY <1>1, <1>3, <1>4

\* The detector's thread, the rule and the agent's invocations, with every failure on the
\* way, judge, report and escalate as the abstract loop does.
THEOREM Refinement == Spec => Implements
<1>1. Inv /\ [Next]_vars => [Abstract!Next]_(Abstract!vars)
  <2>. SUFFICES ASSUME Inv, [Next]_vars
                PROVE  [Abstract!Next]_(Abstract!vars)
    OBVIOUS
  <2>1. CASE UNCHANGED vars
    <3>1. UNCHANGED Visible /\ UNCHANGED Due
      BY <2>1 DEF vars, edge, agent, vehicle, Visible, Due
    <3>. QED
      BY <3>1, QuietStep
  <2>2. CASE Next
    BY <2>2, EdgeStep, AgentStep, HandleDiagnosisStep DEF Next
  <2>. QED
    BY <2>1, <2>2
<1>. QED
  BY <1>1, AbstractInit, Invariance, PTL DEF Spec, Implements, Abstract!Spec
=============================================================================
