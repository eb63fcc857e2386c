----------------------------- MODULE AnomalyLoop -----------------------------
(***************************************************************************)
(* From an anomalous signal to the driver and back through the cloud:      *)
(* gateway/anomaly_detector.cpp scores signals and publishes alerts, an    *)
(* IoT rule invokes cloud/lambda/diagnostic_agent.py for each, which asks  *)
(* a language model and tells a human operator or the vehicle, where       *)
(* CommandHandler::handle_diagnosis() shows it.                            *)
(*                                                                         *)
(* A score is a percentage or NaN; which one the network gives a signal is *)
(* open.  An invocation is an alert's signal and a number: an alert may be *)
(* handed over more than once.                                             *)
(***************************************************************************)
EXTENDS Naturals, Sequences

CONSTANTS
    Signals,          \* the signals main pushes, each once
    Scores,           \* what run_inference() may answer, without NaN
    NaN,
    Threshold,        \* anomaly_threshold_
    EventShapes,      \* how an invocation is handed an alert
    MaxInvocations,   \* bound on the invocations for an alert, by signal
    None              \* "nothing yet"

\* The rule create_infrastructure.py makes hands over the alert itself ("flat"); a rule
\* of that name that is already there is kept, whatever its SQL.  The agent looks for
\* the alert under the key "payload" ("wrapped").
ASSUME ConstantsAssumption ==
    /\ Scores \subseteq Nat
    /\ NaN \notin Nat
    /\ Threshold \in Nat
    /\ EventShapes \subseteq {"flat", "wrapped"}
    /\ MaxInvocations \in [Signals -> Nat]
    /\ None \notin Nat \cup {NaN} \cup BOOLEAN \cup Signals \cup {"flat", "wrapped", "WARNING", "CRITICAL"}

VARIABLES
    pushed,          \* history: signals main has pushed
    anomaly_q, running,
    detector,        \* where AnomalyDetector::run() stands
    signal,          \* the signal it holds
    scored,          \* the score of each signal
    alerts,          \* severity of the alert the broker has about each signal
    unsent,          \* history: signals whose alert the broker never had
    at,              \* where each invocation stands
    event,           \* what it was handed
    escalate_human,  \* what the language model's diagnosis says about that
    status,          \* its statusCode
    failed,          \* history: invocations that a service failed
    operator,        \* invocations that have alerted the operator
    published,       \* invocations whose diagnosis the broker has
    handled, shown   \* those whose diagnosis reached the vehicle, and the driver

edge == <<pushed, anomaly_q, running, detector, signal, scored, alerts, unsent>>
agent == <<at, event, escalate_human, status, failed, operator, published>>
vehicle == <<handled, shown>>
vars == <<edge, agent, vehicle>>

Invocations == UNION {{s} \X (1..MaxInvocations[s]) : s \in Signals}
Severities == {"WARNING", "CRITICAL"}

TypeOK ==
    /\ pushed \subseteq Signals
    /\ anomaly_q \in Seq(pushed)
    /\ running \in BOOLEAN
    /\ detector \in {"loop", "pop", "infer", "publish", "exited", "terminated"}
    /\ signal \in pushed \cup {None}
    /\ detector \in {"infer", "publish"} => signal # None
    /\ detector \in {"loop", "pop", "exited"} => signal = None
    /\ scored \in [Signals -> Scores \cup {NaN, None}]
    /\ alerts \in [Signals -> Severities \cup {None}]
    /\ unsent \subseteq Signals
    /\ at \in [Invocations -> {"none", "llm", "operator", "vehicle", "done", "killed"}]
    /\ event \in [Invocations -> EventShapes \cup {None}]
    /\ escalate_human \in [Invocations -> BOOLEAN \cup {None}]
    /\ status \in [Invocations -> {200, 500, None}]
    /\ \A i \in Invocations : at[i] = "done" <=> status[i] # None
    /\ failed \subseteq Invocations
    /\ operator \subseteq Invocations
    /\ published \subseteq Invocations
    /\ handled \subseteq published
    /\ shown \subseteq handled

Init ==
    /\ pushed = {} /\ anomaly_q = <<>>
    /\ running = TRUE
    /\ detector = "loop"
    /\ signal = None
    /\ scored = [s \in Signals |-> None]
    /\ alerts = [s \in Signals |-> None]
    /\ unsent = {}
    /\ at = [i \in Invocations |-> "none"]
    /\ event = [i \in Invocations |-> None]
    /\ escalate_human = [i \in Invocations |-> None]
    /\ status = [i \in Invocations |-> None]
    /\ failed = {} /\ operator = {} /\ published = {}
    /\ handled = {} /\ shown = {}

-----------------------------------------------------------------------------
(* The gateway: main, and the detector's thread *)

PushAnomaly(s) ==
    /\ running
    /\ detector # "terminated"
    /\ s \notin pushed
    /\ pushed' = pushed \cup {s}
    /\ anomaly_q' = Append(anomaly_q, s)
    /\ UNCHANGED <<running, detector, signal, scored, alerts, unsent, agent, vehicle>>

Stop ==
    /\ running
    /\ running' = FALSE
    /\ UNCHANGED <<pushed, anomaly_q, detector, signal, scored, alerts, unsent, agent, vehicle>>

CheckRunning ==
    /\ detector = "loop"
    /\ detector' = IF running THEN "pop" ELSE "exited"
    /\ UNCHANGED <<pushed, anomaly_q, running, signal, scored, alerts, unsent, agent, vehicle>>

PopSignal ==
    /\ detector = "pop"
    /\ anomaly_q # <<>>
    /\ signal' = Head(anomaly_q)
    /\ anomaly_q' = Tail(anomaly_q)
    /\ detector' = "infer"
    /\ UNCHANGED <<pushed, running, scored, alerts, unsent, agent, vehicle>>

PopTimeoutUnchecked ==      \* mutation
    /\ detector = "pop"
    /\ anomaly_q = <<>>
    /\ detector' = "infer"
    /\ UNCHANGED <<pushed, anomaly_q, running, signal, scored, alerts, unsent, agent, vehicle>>

PopTimeout ==
    /\ detector = "pop"
    /\ anomaly_q = <<>>
    /\ detector' = "loop"
    /\ UNCHANGED <<pushed, anomaly_q, running, signal, scored, alerts, unsent, agent, vehicle>>

\* result goes out of scope.
LoopAgain == detector' = "loop" /\ signal' = None

\* score > anomaly_threshold_, which no NaN is.
Anomalous(score) == score # NaN /\ score > Threshold

RunInference ==
    /\ detector = "infer"
    /\ \E score \in Scores \cup {NaN} :
          /\ scored' = [scored EXCEPT ![signal] = score]
          /\ IF Anomalous(score) THEN detector' = "publish" /\ UNCHANGED signal ELSE LoopAgain
    /\ UNCHANGED <<pushed, anomaly_q, running, alerts, unsent, agent, vehicle>>

\* session_->Run() throws, and nobody catches it: the process ends.
InferenceThrows ==
    /\ detector = "infer"
    /\ detector' = "terminated"
    /\ UNCHANGED <<pushed, anomaly_q, running, signal, scored, alerts, unsent, agent, vehicle>>

SeverityFromThreshold(score) == IF score > Threshold THEN "CRITICAL" ELSE "WARNING"      \* mutation

Severity(score) == IF score > 95 THEN "CRITICAL" ELSE "WARNING"

\* publish_alert(), as far as the broker.
BrokerTakesAlert ==
    /\ detector = "publish"
    /\ alerts[signal] = None
    /\ alerts' = [alerts EXCEPT ![signal] = Severity(scored[signal])]
    /\ UNCHANGED <<pushed, anomaly_q, running, detector, signal, scored, unsent, agent, vehicle>>

PublishAcknowledged ==
    /\ detector = "publish"
    /\ alerts[signal] # None
    /\ LoopAgain
    /\ UNCHANGED <<pushed, anomaly_q, running, scored, alerts, unsent, agent, vehicle>>

PublishThrowsAndLeaves ==      \* mutation
    /\ detector = "publish"
    /\ unsent' = IF alerts[signal] = None THEN unsent \cup {signal} ELSE unsent
    /\ detector' = "exited"
    /\ signal' = None
    /\ UNCHANGED <<pushed, anomaly_q, running, scored, alerts, agent, vehicle>>

\* Before or after the broker has taken the alert.
PublishThrows ==
    /\ detector = "publish"
    /\ unsent' = IF alerts[signal] = None THEN unsent \cup {signal} ELSE unsent
    /\ LoopAgain
    /\ UNCHANGED <<pushed, anomaly_q, running, scored, alerts, agent, vehicle>>

Detector ==
    \/ CheckRunning \/ PopSignal \/ PopTimeout \/ RunInference
    \/ BrokerTakesAlert \/ PublishAcknowledged \/ PublishThrows

-----------------------------------------------------------------------------
(* The cloud: the rule, and invocation i of lambda_handler() *)

AlertOf(i) == i[1]

\* Once at least for an alert, and again when it is delivered twice or an invocation
\* was killed.
Invoke(i) ==
    /\ alerts[AlertOf(i)] # None
    /\ at[i] = "none"
    /\ \E shape \in EventShapes : event' = [event EXCEPT ![i] = shape]
    /\ at' = [at EXCEPT ![i] = "llm"]
    /\ UNCHANGED <<edge, escalate_human, status, failed, operator, published, vehicle>>

\* The invocation returns.
Answer(i, code) ==
    /\ at' = [at EXCEPT ![i] = "done"]
    /\ status' = [status EXCEPT ![i] = code]

\* event.get("payload", "{}") is an empty object, and call_llm() finds no signal_name in it.
PromptFails(i) ==
    /\ at[i] = "llm"
    /\ event[i] = "flat"
    /\ Answer(i, 500)
    /\ UNCHANGED <<edge, event, escalate_human, failed, operator, published, vehicle>>

\* The call fails, or what it answers is no JSON object.
BedrockFails(i) ==
    /\ at[i] = "llm"
    /\ event[i] = "wrapped"
    /\ failed' = failed \cup {i}
    /\ Answer(i, 500)
    /\ UNCHANGED <<edge, event, escalate_human, operator, published, vehicle>>

ToHumanIfCritical(i, escalate) == alerts[AlertOf(i)] = "CRITICAL"      \* mutation

ToHuman(i, escalate) == alerts[AlertOf(i)] = "CRITICAL" \/ escalate

\* The diagnosis comes, and the gate decides who is told.
Diagnose(i) ==
    /\ at[i] = "llm"
    /\ event[i] = "wrapped"
    /\ \E escalate \in BOOLEAN :
          /\ escalate_human' = [escalate_human EXCEPT ![i] = escalate]
          /\ at' = [at EXCEPT ![i] = IF ToHuman(i, escalate) THEN "operator" ELSE "vehicle"]
    /\ UNCHANGED <<edge, event, status, failed, operator, published, vehicle>>

AlertOperatorAndGoOn(i) ==      \* mutation
    /\ at[i] = "operator"
    /\ operator' = operator \cup {i}
    /\ at' = [at EXCEPT ![i] = "vehicle"]
    /\ UNCHANGED <<edge, event, escalate_human, status, failed, published, vehicle>>

\* alert_human_operator() and return.
AlertOperator(i) ==
    /\ at[i] = "operator"
    /\ operator' = operator \cup {i}
    /\ Answer(i, 200)
    /\ UNCHANGED <<edge, event, escalate_human, failed, published, vehicle>>

\* The error comes before or after the message is out.
AlertOperatorFails(i) ==
    /\ at[i] = "operator"
    /\ operator' \in {operator, operator \cup {i}}
    /\ failed' = failed \cup {i}
    /\ Answer(i, 500)
    /\ UNCHANGED <<edge, event, escalate_human, published, vehicle>>

PublishDiagnosis(i) ==
    /\ at[i] = "vehicle"
    /\ published' = published \cup {i}
    /\ Answer(i, 200)
    /\ UNCHANGED <<edge, event, escalate_human, failed, operator, vehicle>>

PublishDiagnosisFails(i) ==
    /\ at[i] = "vehicle"
    /\ published' \in {published, published \cup {i}}
    /\ failed' = failed \cup {i}
    /\ Answer(i, 500)
    /\ UNCHANGED <<edge, event, escalate_human, operator, vehicle>>

\* It has run for longer than it may.
Killed(i) ==
    /\ at[i] \notin {"none", "done", "killed"}
    /\ failed' = failed \cup {i}
    /\ at' = [at EXCEPT ![i] = "killed"]
    /\ UNCHANGED <<edge, event, escalate_human, status, operator, published, vehicle>>

LambdaHandler(i) ==
    \/ PromptFails(i) \/ BedrockFails(i) \/ Diagnose(i)
    \/ AlertOperator(i) \/ AlertOperatorFails(i) \/ PublishDiagnosis(i) \/ PublishDiagnosisFails(i)

-----------------------------------------------------------------------------
(* The vehicle again *)

\* handle_diagnosis(); a diagnosis whose texts are no strings is dropped.
HandleDiagnosis(i) ==
    /\ detector # "terminated"
    /\ i \in published \ handled
    /\ handled' = handled \cup {i}
    /\ shown' \in {shown, shown \cup {i}}
    /\ UNCHANGED <<edge, agent>>

Next ==
    \/ \E s \in Signals : PushAnomaly(s)
    \/ Stop
    \/ Detector \/ InferenceThrows
    \/ \E i \in Invocations : Invoke(i) \/ LambdaHandler(i) \/ Killed(i) \/ HandleDiagnosis(i)

Spec == Init /\ [][Next]_vars

\* publish_alert() waits for the broker without a timeout.
AwaitsBroker == detector = "publish"

\* The thread runs on where it does not wait for the broker, the rule has the agent for its
\* action and hands it every alert, an invocation that is not killed goes on, and the running
\* CommandHandler consumes what the broker has.
FairSpec ==
    /\ Spec
    /\ WF_vars(~AwaitsBroker /\ Detector)
    /\ \A i \in Invocations : /\ WF_vars(i[2] = 1 /\ Invoke(i))
                              /\ WF_vars(LambdaHandler(i))
                              /\ WF_vars(running /\ HandleDiagnosis(i))

-----------------------------------------------------------------------------
(* Safety *)

\* The cloud hears of a signal exactly if its score is above the threshold, as far as
\* publish() worked, with the severity that score has: never of a NaN, and never twice.
AlertsTruthful ==
    \A s \in Signals :
        /\ alerts[s] # None =>
              /\ Anomalous(scored[s])
              /\ alerts[s] = "CRITICAL" <=> scored[s] > 95
        /\ scored[s] # None /\ Anomalous(scored[s]) =>
              \/ alerts[s] # None
              \/ s \in unsent
              \/ signal = s /\ detector = "publish"

\* What the driver is shown was not for a human to decide first: the score the vehicle
\* itself gave the signal was no critical one, and this diagnosis did not ask to escalate,
\* however often the alert was handed over and whatever failed on the way.
HumanFirst ==
    \A i \in shown : scored[AlertOf(i)] <= 95 /\ ~escalate_human[i]

\* An invocation that answers 200 has told somebody and no service has failed it; none tells
\* both, and one that was handed the alert and met no failure does not answer 500.
StatusTruthful ==
    /\ \A i \in Invocations : status[i] = 200 => i \in (operator \cup published) \ failed
    /\ operator \cap published = {}
    /\ \A i \in Invocations : status[i] = 500 => i \in failed \/ event[i] = "flat"

\* A human hears of every CRITICAL alert whose invocation met no failure.  Refuted:
\* the agent does not find the alert in the event the rule hands it.
CriticalReachesOperator ==
    \A i \in Invocations :
        at[i] = "done" /\ i \notin failed /\ alerts[AlertOf(i)] = "CRITICAL" => i \in operator

-----------------------------------------------------------------------------
(* Refinement *)

\* The signal whose alert the broker is still to get.
Due == IF detector = "publish" /\ alerts[signal] = None THEN signal ELSE None

Abstract == INSTANCE Escalation WITH
    Cases <- Invocations, due <- Due, verdict <- escalate_human

\* However often an alert is handed over, and whichever service fails before or after its
\* effect: each signal has one score and at most one alert, each invocation tells the human or
\* the vehicle at most once, and which of them is decided by the score and the diagnosis.
Implements == Abstract!Spec

-----------------------------------------------------------------------------
(* Liveness *)

\* What an invocation came to.
Ended(i) ==
    \/ i \in operator
    \/ i \in handled
    \/ status[i] = 500
    \/ at[i] = "killed"

\* Unless the gateway stops, or a publish is never answered, every signal pushed is found
\* normal, or its alert is not sent, or an invocation for it tells the operator, reaches the
\* vehicle, or fails.
EverySignalJudged ==
    \/ <>[]AwaitsBroker
    \/ \A s \in Signals :
        s \in pushed ~>
            \/ scored[s] # None /\ ~Anomalous(scored[s])
            \/ s \in unsent
            \/ \E i \in Invocations : AlertOf(i) = s /\ Ended(i)
            \/ ~running
            \/ detector = "terminated"
=============================================================================
