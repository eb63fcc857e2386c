--------------------------- MODULE CommandHandler ---------------------------
(***************************************************************************)
(* The command downlink of the gateway: gateway/command_handler.cpp with   *)
(* the CAN writer it calls (can_layer/can_writer.cpp), and the MQTT        *)
(* library and broker it hangs on, as far as they matter to it.            *)
(*                                                                         *)
(* The broker keeps a QoS 1 message for a subscribed session until it is   *)
(* acknowledged, and delivers it again after a reconnect when the          *)
(* acknowledgement was lost.  The library puts arriving messages in a      *)
(* consumer queue between start_consuming() and stop_consuming().  The     *)
(* handler thread takes one message at a time; its duplicate guard is a    *)
(* set of at most MaxSeen correlation ids in memory, emptied when full.    *)
(*                                                                         *)
(* The set of effects the vehicle sees is the history variable effects:    *)
(* one entry per CAN frame written and per trigger pushed to ota_queue.    *)
(***************************************************************************)
EXTENDS Naturals, Sequences, FiniteSets

CONSTANTS
    Messages,       \* messages the cloud publishes to the vehicle's two topics
    KindOf,         \* what a message is
    IdOf,           \* its correlation_id (the same empty one if it has none)
    None,           \* "no message"
    MaxSeen,        \* MAX_SEEN_IDS
    MaxSent,        \* bound on messages published
    MaxDeliveries,  \* bound on deliveries of one message
    MaxStarts       \* bound on process starts

Kinds == {"ACTUATE", "OTA", "UNKNOWN", "MALFORMED", "DIAGNOSIS"}

ASSUME ConstantsAssumption ==
    /\ KindOf \in [Messages -> Kinds]
    /\ DOMAIN IdOf = Messages
    /\ None \notin Messages
    /\ MaxSeen \in Nat \ {0}
    /\ MaxSent \in Nat
    /\ MaxDeliveries \in Nat
    /\ MaxStarts \in Nat

VARIABLES
    sent,        \* messages the cloud has published
    pending,     \* messages the broker holds for this session
    deliveries,  \* how often each message was delivered
    subscribed,  \* topics the broker has subscriptions for
    consuming,   \* is the library's consumer queue switched on?
    inbox,       \* that queue
    pc,          \* where run() stands; "down" when there is no process
    running,     \* running_
    stopper,     \* where stop() stands
    msg,         \* the message run() works on
    seen,        \* seen_ids_
    effects,     \* history: messages that had an effect on the vehicle, in order
    epoch,       \* history: Len(effects) when seen was last empty
    starts       \* process starts so far

broker == <<sent, pending, deliveries, subscribed>>
library == <<consuming, inbox>>
handler == <<pc, running, msg, seen>>
history == <<effects, epoch, starts>>
vars == <<broker, library, handler, stopper, history>>

Topics == {"commands", "diagnosis"}
Topic(m) == IF KindOf[m] = "DIAGNOSIS" THEN "diagnosis" ELSE "commands"
Ids == {IdOf[m] : m \in Messages}

TypeOK ==
    /\ sent \in SUBSET Messages
    /\ pending \in SUBSET Messages
    /\ deliveries \in [Messages -> 0..MaxDeliveries]
    /\ subscribed \in SUBSET Topics
    /\ consuming \in BOOLEAN
    /\ inbox \in Seq(Messages)
    /\ pc \in {"down", "started", "loop", "wait", "parse", "route", "stop_consuming", "exited"}
    /\ running \in BOOLEAN
    /\ stopper \in {"none", "join", "unsub_commands", "unsub_diagnosis", "returned"}
    /\ msg \in Messages \cup {None}
    /\ seen \in SUBSET Ids
    /\ IsFiniteSet(seen) /\ Cardinality(seen) <= MaxSeen
    /\ effects \in Seq(Messages)
    /\ epoch \in 0..Len(effects)
    /\ starts \in 0..MaxStarts

Init ==
    /\ sent = {}
    /\ pending = {}
    /\ deliveries = [m \in Messages |-> 0]
    /\ subscribed = {}
    /\ consuming = FALSE
    /\ inbox = <<>>
    /\ pc = "down"
    /\ running = FALSE
    /\ stopper = "none"
    /\ msg = None
    /\ seen = {}
    /\ effects = <<>>
    /\ epoch = 0
    /\ starts = 0

-----------------------------------------------------------------------------
(* The cloud, the broker and the MQTT library *)

\* A message for a topic without a subscription is not kept for anybody.
Publish(m) ==
    /\ m \notin sent
    /\ Cardinality(sent) < MaxSent
    /\ sent' = sent \cup {m}
    /\ pending' = IF Topic(m) \in subscribed THEN pending \cup {m} ELSE pending
    /\ UNCHANGED <<deliveries, subscribed, library, handler, stopper, history>>

\* A delivery whose acknowledgement may be lost: the broker then keeps the
\* message and delivers it again.  Without a consumer the library drops it.
Deliver(m, acked) ==
    /\ pc # "down"
    /\ m \in pending
    /\ deliveries[m] < MaxDeliveries
    /\ deliveries' = [deliveries EXCEPT ![m] = @ + 1]
    /\ pending' = IF acked THEN pending \ {m} ELSE pending
    /\ inbox' = IF consuming THEN Append(inbox, m) ELSE inbox
    /\ UNCHANGED <<sent, subscribed, consuming, handler, stopper, history>>

-----------------------------------------------------------------------------
(* start() and stop(), called by main *)

\* Both subscriptions are there and the thread is spawned.  The duplicate
\* guard of a new process is empty.
Start ==
    /\ pc = "down"
    /\ starts < MaxStarts
    /\ starts' = starts + 1
    /\ subscribed' = Topics
    /\ pc' = "started"
    /\ running' = TRUE
    /\ seen' = {}
    /\ epoch' = Len(effects)
    /\ UNCHANGED <<sent, pending, deliveries, library, stopper, msg, effects>>

\* Not connected, or the second subscribe threw, or a module that starts before failed:
\* main gives up, and the destructor calls stop(), which has no thread to join.
StartFails ==
    /\ pc = "down"
    /\ starts < MaxStarts
    /\ starts' = starts + 1
    /\ subscribed' \in {subscribed, subscribed \cup {"commands"}}
    /\ pc' = "exited"
    /\ stopper' = "join"
    /\ UNCHANGED <<sent, pending, deliveries, library, running, msg, seen, effects, epoch>>

Stop ==
    /\ pc # "down"
    /\ stopper = "none"
    /\ running' = FALSE
    /\ stopper' = "join"
    /\ UNCHANGED <<broker, library, pc, msg, seen, history>>

StopWithoutJoin ==      \* mutation
    /\ stopper = "join"
    /\ stopper' = "unsub_commands"
    /\ UNCHANGED <<broker, library, handler, history>>

Join ==
    /\ stopper = "join"
    /\ pc = "exited"
    /\ stopper' = "unsub_commands"
    /\ UNCHANGED <<broker, library, handler, history>>

UnsubscribeWaitsForever(topic, from, to) ==      \* mutation
    /\ stopper = from
    /\ topic \notin subscribed
    /\ stopper' = to
    /\ UNCHANGED <<broker, library, handler, history>>

\* unsubscribe()->wait_for(1s): answered, or timed out with the broker having
\* removed the subscription or not; or it threw, which skips what is left.
Unsubscribe(topic, from, to) ==
    /\ stopper = from
    /\ stopper' \in {to, "returned"}
    /\ subscribed' \in {subscribed, subscribed \ {topic}}
    /\ UNCHANGED <<sent, pending, deliveries, library, handler, history>>

ProcessGone ==
    /\ pc' = "down"
    /\ running' = FALSE
    /\ msg' = None
    /\ stopper' = "none"
    /\ consuming' = FALSE
    /\ inbox' = <<>>
    /\ UNCHANGED <<broker, seen, history>>

\* main returns; the MQTT session, being persistent, outlives it.  After a shutdown the
\* destructor calls stop() again, on a connection that main has closed: the library refuses
\* to unsubscribe, which stop() catches.
Exit == stopper = "returned" /\ ProcessGone

\* Power loss or kill, at any point.
Crash == pc # "down" /\ ProcessGone

-----------------------------------------------------------------------------
(* The handler thread *)

Goto(from, to) == pc = from /\ pc' = to

StartConsuming ==
    /\ Goto("started", "loop")
    /\ consuming' = TRUE
    /\ inbox' = <<>>
    /\ UNCHANGED <<broker, running, msg, seen, stopper, history>>

CheckRunning ==
    /\ Goto("loop", IF running THEN "wait" ELSE "stop_consuming")
    /\ UNCHANGED <<broker, library, running, msg, seen, stopper, history>>

\* try_consume_message_for(1s)
ConsumeTimeout ==
    /\ Goto("wait", "loop")
    /\ inbox = <<>>
    /\ UNCHANGED <<broker, library, running, msg, seen, stopper, history>>

Consume ==
    /\ Goto("wait", "parse")
    /\ inbox # <<>>
    /\ msg' = Head(inbox)
    /\ inbox' = Tail(inbox)
    /\ UNCHANGED <<broker, consuming, running, seen, stopper, history>>

\* The handler is done with msg and goes on with the next.
Done(from) ==
    /\ Goto(from, "loop")
    /\ msg' = None
    /\ UNCHANGED <<broker, library, running, stopper>>

HandleDiagnosis ==
    /\ Done("parse")
    /\ KindOf[msg] = "DIAGNOSIS"
    /\ UNCHANGED <<seen, history>>

DropMalformedAndReturn ==      \* mutation
    /\ Goto("parse", "exited")
    /\ KindOf[msg] = "MALFORMED"
    /\ UNCHANGED <<broker, library, running, msg, seen, stopper, history>>

\* parse_command(): no JSON, or no "type".
DropMalformed ==
    /\ Done("parse")
    /\ KindOf[msg] = "MALFORMED"
    /\ UNCHANGED <<seen, history>>

IsCommand(m) == KindOf[m] \in {"ACTUATE", "OTA", "UNKNOWN"}

\* already_seen() on an id in the set.
DropDuplicate ==
    /\ Done("parse")
    /\ IsCommand(msg)
    /\ IdOf[msg] \in seen
    /\ UNCHANGED <<seen, history>>

RememberUncapped(id) ==      \* mutation
    /\ seen' = seen \cup {id}
    /\ UNCHANGED epoch

RememberClearingLast(id) ==      \* mutation
    IF Cardinality(seen) >= MaxSeen
      THEN seen' = {} /\ epoch' = Len(effects)
      ELSE seen' = seen \cup {id} /\ UNCHANGED epoch

\* already_seen() on a new id: a full set is emptied, then the id goes in.
Remember(id) ==
    IF Cardinality(seen) >= MaxSeen
      THEN seen' = {id} /\ epoch' = Len(effects)
      ELSE seen' = seen \cup {id} /\ UNCHANGED epoch

Accept ==
    /\ Goto("parse", "route")
    /\ IsCommand(msg)
    /\ IdOf[msg] \notin seen
    /\ Remember(IdOf[msg])
    /\ UNCHANGED <<broker, library, running, msg, stopper, effects, starts>>

\* route(): a trigger is pushed to ota_queue; an actuation is one CAN frame.
RouteOta ==
    /\ Done("route")
    /\ KindOf[msg] = "OTA"
    /\ effects' = Append(effects, msg)
    /\ UNCHANGED <<seen, epoch, starts>>

\* CanWriter::write() on an open socket may be refused or cut short by the
\* interface; the handler logs that and goes on.
RouteActuation ==
    /\ Done("route")
    /\ KindOf[msg] = "ACTUATE"
    /\ effects' \in {effects, Append(effects, msg)}
    /\ UNCHANGED <<seen, epoch, starts>>

RouteUnknown ==
    /\ Done("route")
    /\ KindOf[msg] = "UNKNOWN"
    /\ UNCHANGED <<seen, history>>

StopConsuming ==
    /\ Goto("stop_consuming", "exited")
    /\ consuming' = FALSE
    /\ inbox' = <<>>
    /\ UNCHANGED <<broker, running, msg, seen, stopper, history>>

Thread ==
    \/ StartConsuming \/ CheckRunning \/ ConsumeTimeout \/ Consume
    \/ HandleDiagnosis \/ DropMalformed \/ DropDuplicate \/ Accept
    \/ RouteOta \/ RouteActuation \/ RouteUnknown
    \/ StopConsuming

Stopper ==
    \/ Join
    \/ Unsubscribe("commands", "unsub_commands", "unsub_diagnosis")
    \/ Unsubscribe("diagnosis", "unsub_diagnosis", "returned")

Next ==
    \/ \E m \in Messages : Publish(m)
    \/ \E m \in Messages, acked \in BOOLEAN : Deliver(m, acked)
    \/ Start \/ StartFails \/ Stop \/ Stopper \/ Exit \/ Crash
    \/ Thread

Spec == Init /\ [][Next]_vars

\* The two threads of the process are scheduled.  Nothing is assumed of the
\* broker: unsubscribe waits end by their timeout.
FairSpec == Spec /\ WF_vars(Thread) /\ WF_vars(Stopper)

-----------------------------------------------------------------------------
(* Safety *)

\* The effects on the vehicle since position n of the history are all of
\* different correlation ids.
NoneTwiceSince(n) ==
    \A i, j \in (n + 1)..Len(effects) : IdOf[effects[i]] = IdOf[effects[j]] => i = j

\* "Dedup guard prevents double-execution on redelivery": as long as the set of
\* seen ids has not been emptied, no id reaches the vehicle twice, however
\* deliveries are repeated and interleaved with commands that fail.
NoDoubleExecution == NoneTwiceSince(epoch)

\* Once stop() has joined the thread nothing reaches the vehicle any more: main
\* closes the CAN socket after stop() returned.
QuietAfterJoin == [][effects' # effects => stopper \in {"none", "join"}]_vars

-----------------------------------------------------------------------------
(* Refinement *)

\* The thread runs, and stop() has not yet gone on without it.
Serving == pc \notin {"down", "exited"} /\ stopper \in {"none", "join"}

\* The command that has passed the duplicate guard.
Owed == IF pc = "route" THEN msg ELSE None

Abstract == INSTANCE AtMostOnce WITH
    Commands <- {m \in Messages : IsCommand(m)},
    Actions <- {m \in Messages : KindOf[m] \in {"OTA", "ACTUATE"}},
    Assured <- {m \in Messages : KindOf[m] = "OTA"},
    Capacity <- MaxSeen,
    serving <- Serving, remembered <- seen, owed <- Owed

\* However the broker repeats and reorders deliveries and stop() runs beside the
\* handler: only what was published is accepted, once per id the guard remembers, and
\* nothing is done to the vehicle but what was accepted last, at most once, while serving.
Implements == Abstract!Spec

-----------------------------------------------------------------------------
(* What the documents say and the code does not do *)

\* "persistent session — broker queues for us offline": what is published while
\* the gateway is off, after it has once served a command, is kept for its next start.
OfflineCommandsKept ==
    [][\A m \in sent' \ sent : pc = "down" /\ effects # <<>> => m \in pending']_vars

-----------------------------------------------------------------------------
(* Liveness *)

InInbox(m) == \E i \in DOMAIN inbox : inbox[i] = m

\* What the library has queued is taken by the handler, whatever came before it,
\* unless the handler is being stopped or the process dies.
EveryMessageConsumed == \A m \in Messages : InInbox(m) ~> (msg = m \/ ~running)

\* stop() "must never depend on the broker being alive/responsive": it returns
\* even if the broker never answers another request.
StopReturns == stopper = "join" ~> stopper \in {"returned", "none"}
=============================================================================
