------------------------------ MODULE Escalation ------------------------------
(***************************************************************************)
(* What the loop from the vehicle through the cloud and back promises,     *)
(* without the detector's thread, the invocations' steps and the failures  *)
(* of the services they call: each signal is judged once; an anomalous one *)
(* is reported with its severity, or not at all, before the next is        *)
(* judged; each case opened for a report gets one verdict, and the driver  *)
(* is advised only where neither severity nor verdict asks for a human.    *)
(***************************************************************************)
EXTENDS Naturals

CONSTANTS
    Signals,
    Scores,
    NaN,
    Threshold,
    Cases,      \* a pair of a signal and a number
    None

VARIABLES
    scored,     \* the score of each signal
    due,        \* the anomalous signal that is still to be reported
    alerts,     \* severity of what was reported of each signal
    unsent,     \* anomalous signals that were not reported
    verdict,    \* of each case: whether it asks for a human
    operator,   \* cases a human was told of
    published,  \* cases whose advice was sent to the vehicle
    shown       \* cases whose advice the driver has seen

vars == <<scored, due, alerts, unsent, verdict, operator, published, shown>>

Init ==
    /\ scored = [s \in Signals |-> None]
    /\ due = None
    /\ alerts = [s \in Signals |-> None]
    /\ unsent = {}
    /\ verdict = [i \in Cases |-> None]
    /\ operator = {} /\ published = {} /\ shown = {}

Judge(s) ==
    /\ due = None
    /\ scored[s] = None
    /\ \E score \in Scores \cup {NaN} :
          /\ scored' = [scored EXCEPT ![s] = score]
          /\ due' = IF score # NaN /\ score > Threshold THEN s ELSE None
    /\ UNCHANGED <<alerts, unsent, verdict, operator, published, shown>>

Report ==
    /\ due # None
    /\ alerts' = [alerts EXCEPT ![due] = IF scored[due] > 95 THEN "CRITICAL" ELSE "WARNING"]
    /\ due' = None
    /\ UNCHANGED <<scored, unsent, verdict, operator, published, shown>>

\* The broker does not get it, and it is not tried again.
Withhold ==
    /\ due # None
    /\ unsent' = unsent \cup {due}
    /\ due' = None
    /\ UNCHANGED <<scored, alerts, verdict, operator, published, shown>>

Decide(i) ==
    /\ alerts[i[1]] # None
    /\ verdict[i] = None
    /\ verdict' \in {[verdict EXCEPT ![i] = escalate] : escalate \in BOOLEAN}
    /\ UNCHANGED <<scored, due, alerts, unsent, operator, published, shown>>

ForHuman(i) == alerts[i[1]] = "CRITICAL" \/ verdict[i] = TRUE

TellHuman(i) ==
    /\ verdict[i] # None
    /\ ForHuman(i)
    /\ i \notin operator
    /\ operator' = operator \cup {i}
    /\ UNCHANGED <<scored, due, alerts, unsent, verdict, published, shown>>

Advise(i) ==
    /\ verdict[i] # None
    /\ ~ForHuman(i)
    /\ i \notin published
    /\ published' = published \cup {i}
    /\ UNCHANGED <<scored, due, alerts, unsent, verdict, operator, shown>>

Show(i) ==
    /\ i \in published \ shown
    /\ shown' = shown \cup {i}
    /\ UNCHANGED <<scored, due, alerts, unsent, verdict, operator, published>>

Next ==
    \/ \E s \in Signals : Judge(s)
    \/ Report \/ Withhold
    \/ \E i \in Cases : Decide(i) \/ TellHuman(i) \/ Advise(i) \/ Show(i)

Spec == Init /\ [][Next]_vars
===============================================================================
