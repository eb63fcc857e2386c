------------------------------- MODULE Gateway -------------------------------
(***************************************************************************)
(* The gateway process, main.cpp: it starts six modules in order, runs the *)
(* decode loop on the main thread, and stops the modules in another order. *)
(* When a module cannot be started main returns, and the destructors stop  *)
(* what has been started.                                                  *)
(*                                                                         *)
(* Five modules have a thread with a loop of the same shape: look at       *)
(* running_, take something in (a read or a pop with a timeout), work on   *)
(* it.  What the work of OtaAgent, CommandHandler and TelemetryPublisher   *)
(* consists of is in the modules of these names; here it is what it does   *)
(* to the queues, sockets and connection that the modules share.           *)
(***************************************************************************)
EXTENDS Naturals, Sequences, Functions

CONSTANTS
    MaxFrames,     \* bound on CAN frames; frame n is the n-th one on the bus
    MaxCommands,   \* bound on commands of the cloud
    Undecoded,     \* frames of which no signal is wanted
    Triggers       \* the commands that are OTA triggers; the others go to the CAN bus

ASSUME ConstantsAssumption ==
    /\ MaxFrames \in Nat
    /\ MaxCommands \in Nat
    /\ Triggers \subseteq 1..MaxCommands

VARIABLES
    main,          \* where main() stands
    step,          \* the module it starts or stops
    failed,        \* a module that main cannot do without did not start
    g_running,
    running,       \* running_ of each thread's module
    thread,        \* where each thread stands
    holds,         \* what each thread, and main's decode loop, has taken in
    open,          \* the sockets rx and tx, and the MQTT connection
    can_frame_q, telemetry_q, anomaly_q, ota_q,
    frames,        \* frames read so far
    commands,      \* commands consumed so far
    reached        \* history: what each thread has taken from its queue

queues == <<can_frame_q, telemetry_q, anomaly_q, ota_q>>
arrived == <<frames, commands>>
threads == <<running, thread>>
control == <<main, step, failed, g_running>>
vars == <<control, threads, holds, open, queues, arrived, reached>>

Threads == {"can_reader", "telemetry_pub", "cmd_handler", "ota_agent", "anomaly_det"}
Modules == Threads \cup {"can_writer"}
Resources == {"rx", "tx", "mqtt"}

Gone == {"returned", "killed"}
Up == main \notin Gone

StartOrder ==
    <<"can_writer", "can_reader", "telemetry_pub", "cmd_handler", "ota_agent", "anomaly_det">>

StopOrderWriterFirst ==      \* mutation
    <<"can_writer", "anomaly_det", "ota_agent", "cmd_handler", "telemetry_pub", "can_reader">>

StopOrder ==
    <<"anomaly_det", "ota_agent", "cmd_handler", "telemetry_pub", "can_reader", "can_writer">>

\* The reverse of the order in which main() declares the modules.
DestructionOrder ==
    <<"anomaly_det", "ota_agent", "cmd_handler", "telemetry_pub", "can_writer", "can_reader">>

Items(n) == 1..n
Input(t) == IF t \in {"cmd_handler", "ota_agent"} THEN Items(MaxCommands) ELSE Items(MaxFrames)

\* Types, and a thread at work has something to work on.
TypeOK ==
    /\ main \in {"start", "check", "pop", "push_telemetry", "push_anomaly", "stop", "join",
                 "disconnect", "destroy", "return"} \cup Gone
    /\ step \in 1..6
    /\ failed \in BOOLEAN
    /\ g_running \in BOOLEAN
    /\ running \in [Threads -> BOOLEAN]
    /\ thread \in [Threads -> {"none", "check", "take", "work", "exited"}]
    /\ holds \in [Threads \cup {"main"} -> Nat]
    /\ \A t \in Threads : holds[t] \in Input(t) \cup {0}
    /\ \A t \in Threads : holds[t] # 0 <=> thread[t] = "work"
    /\ holds["main"] \in Items(MaxFrames) \cup {0}
    /\ Up => (holds["main"] # 0 <=> main \in {"push_telemetry", "push_anomaly"})
    /\ open \in [Resources -> BOOLEAN]
    /\ can_frame_q \in Seq(Items(MaxFrames))
    /\ telemetry_q \in Seq(Items(MaxFrames))
    /\ anomaly_q \in Seq(Items(MaxFrames))
    /\ ota_q \in Seq(Triggers)
    /\ frames \in 0..MaxFrames
    /\ commands \in 0..MaxCommands
    /\ reached \in [Threads -> SUBSET Nat]
    /\ \A t \in Threads : reached[t] \subseteq Input(t)

\* main() has connected, loaded the DBC file and constructed the modules.
Init ==
    /\ main = "start"
    /\ step = 1
    /\ failed = FALSE
    /\ g_running = TRUE
    /\ running = [t \in Threads |-> FALSE]
    /\ thread = [t \in Threads |-> "none"]
    /\ holds = [t \in Threads \cup {"main"} |-> 0]
    /\ open = [r \in Resources |-> r = "mqtt"]
    /\ can_frame_q = <<>> /\ telemetry_q = <<>> /\ anomaly_q = <<>> /\ ota_q = <<>>
    /\ frames = 0
    /\ commands = 0
    /\ reached = [t \in Threads |-> {}]

-----------------------------------------------------------------------------
(* main(): starting the modules *)

MainFrom(from) == Up /\ main = from

Socket(m) ==
    CASE m = "can_writer" -> {"tx"}
      [] m = "can_reader" -> {"rx"}
      [] OTHER -> {}

\* After the last module main() installs the signal handlers and runs the loop.
NextStart ==
    IF step < Len(StartOrder)
    THEN step' = step + 1 /\ UNCHANGED main
    ELSE main' = "check" /\ UNCHANGED step

\* CanWriter has no thread; the others set running_ before they spawn theirs.
StartModule ==
    LET m == StartOrder[step] IN
    /\ MainFrom("start")
    /\ NextStart
    /\ open' = [r \in Resources |-> open[r] \/ r \in Socket(m)]
    /\ running' = [t \in Threads |-> running[t] \/ t = m]
    /\ thread' = [t \in Threads |-> IF t = m THEN "check" ELSE thread[t]]
    /\ UNCHANGED <<failed, g_running, holds, queues, arrived, reached>>

\* A socket, a subscription or a model file that is not to be had.  Nothing in
\* OtaAgent::start() fails.
StartFails ==
    LET m == StartOrder[step] IN
    /\ MainFrom("start")
    /\ m # "ota_agent"
    /\ \/ m = "anomaly_det" /\ NextStart /\ UNCHANGED failed
       \/ m # "anomaly_det" /\ main' = "stop" /\ step' = 1 /\ failed' = TRUE
    /\ UNCHANGED <<g_running, threads, holds, open, queues, arrived, reached>>

-----------------------------------------------------------------------------
(* main(): the decode loop *)

CheckGRunning ==
    /\ MainFrom("check")
    /\ main' = IF g_running THEN "pop" ELSE "stop"
    /\ step' = 1
    /\ UNCHANGED <<failed, g_running, threads, holds, open, queues, arrived, reached>>

PopFrame ==
    /\ MainFrom("pop")
    /\ can_frame_q # <<>>
    /\ can_frame_q' = Tail(can_frame_q)
    /\ LET frame == Head(can_frame_q) IN
          \/ frame \in Undecoded /\ main' = "check" /\ UNCHANGED holds
          \/ /\ frame \notin Undecoded
             /\ main' = "push_telemetry"
             /\ holds' = [holds EXCEPT !["main"] = frame]
    /\ UNCHANGED <<step, failed, g_running, threads, open, telemetry_q, anomaly_q, ota_q,
                   arrived, reached>>

PopTimeout ==
    /\ MainFrom("pop")
    /\ can_frame_q = <<>>
    /\ main' = "check"
    /\ UNCHANGED <<step, failed, g_running, threads, holds, open, queues, arrived, reached>>

PushTelemetryOnly ==      \* mutation
    /\ MainFrom("push_telemetry")
    /\ telemetry_q' = Append(telemetry_q, holds["main"])
    /\ holds' = [holds EXCEPT !["main"] = 0]
    /\ main' = "check"
    /\ UNCHANGED <<step, failed, g_running, threads, open, can_frame_q, anomaly_q, ota_q,
                   arrived, reached>>

PushTelemetry ==
    /\ MainFrom("push_telemetry")
    /\ telemetry_q' = Append(telemetry_q, holds["main"])
    /\ main' = "push_anomaly"
    /\ UNCHANGED <<step, failed, g_running, threads, holds, open, can_frame_q, anomaly_q, ota_q,
                   arrived, reached>>

\* Also when AnomalyDetector has not started and nobody takes from its queue.
PushAnomaly ==
    /\ MainFrom("push_anomaly")
    /\ anomaly_q' = Append(anomaly_q, holds["main"])
    /\ holds' = [holds EXCEPT !["main"] = 0]
    /\ main' = "check"
    /\ UNCHANGED <<step, failed, g_running, threads, open, can_frame_q, telemetry_q, ota_q,
                   arrived, reached>>

-----------------------------------------------------------------------------
(* main(): stopping the modules *)

Teardown == IF failed THEN DestructionOrder ELSE StopOrder

StopModuleFlagKept ==      \* mutation
    /\ MainFrom("stop")
    /\ main' = "join"
    /\ UNCHANGED <<step, failed, g_running, threads, holds, open, queues, arrived, reached>>

\* stop() of every module begins with running_ = false.
StopModule ==
    /\ MainFrom("stop")
    /\ running' = [t \in Threads |-> running[t] /\ t # Teardown[step]]
    /\ main' = "join"
    /\ UNCHANGED <<step, failed, g_running, thread, holds, open, queues, arrived, reached>>

Joined(m) == m \in Threads => thread[m] \in {"none", "exited"}

\* stop() waits for the thread, if there is one, and closes the socket.  CommandHandler's
\* then unsubscribes, started or not: that ends within two timeouts and changes nothing here.
Join ==
    LET m == Teardown[step] IN
    /\ MainFrom("join")
    /\ Joined(m)
    /\ open' = [r \in Resources |-> open[r] /\ r \notin Socket(m)]
    /\ IF step < Len(Teardown)
       THEN main' = "stop" /\ step' = step + 1
       ELSE main' = (IF failed THEN "return" ELSE "disconnect") /\ UNCHANGED step
    /\ UNCHANGED <<failed, g_running, threads, holds, queues, arrived, reached>>

\* disconnect(), whether the broker answers or the call fails.
Disconnect ==
    /\ MainFrom("disconnect")
    /\ open' = [open EXCEPT !["mqtt"] = FALSE]
    /\ main' = "destroy"
    /\ UNCHANGED <<step, failed, g_running, threads, holds, queues, arrived, reached>>

\* The destructors call stop() once more.  Threads and sockets are gone, but ~CommandHandler
\* unsubscribes, on a connection that is closed: the client refuses, stop() catches it.
Destroy ==
    /\ MainFrom("destroy")
    /\ main' = "return"
    /\ UNCHANGED <<step, failed, g_running, threads, holds, open, queues, arrived, reached>>

\* The queues and the MQTT client go last.
Return ==
    /\ MainFrom("return")
    /\ open' = [open EXCEPT !["mqtt"] = FALSE]
    /\ main' = "returned"
    /\ UNCHANGED <<step, failed, g_running, threads, holds, queues, arrived, reached>>

Main ==
    \/ StartModule \/ StartFails
    \/ CheckGRunning \/ PopFrame \/ PopTimeout \/ PushTelemetry \/ PushAnomaly
    \/ StopModule \/ Join \/ Disconnect \/ Destroy \/ Return

-----------------------------------------------------------------------------
(* The threads *)

Goto(t, from, to) ==
    /\ Up
    /\ thread[t] = from
    /\ thread' = [thread EXCEPT ![t] = to]

Hold(t, item) == holds' = [holds EXCEPT ![t] = item]

CheckRunning(t) ==
    /\ Goto(t, "check", IF running[t] THEN "take" ELSE "exited")
    /\ UNCHANGED <<control, running, holds, open, queues, arrived, reached>>

TakeNothingAndGoOn(t) ==      \* mutation
    /\ Goto(t, "take", "work")
    /\ UNCHANGED <<control, running, holds, open, queues, arrived, reached>>

TakeNothingAndReturn(t) ==      \* mutation
    /\ Goto(t, "take", "exited")
    /\ UNCHANGED <<control, running, holds, open, queues, arrived, reached>>

\* A timeout; for CanReader also an error or a short frame.
TakeNothing(t) ==
    /\ Goto(t, "take", "check")
    /\ UNCHANGED <<control, running, holds, open, queues, arrived, reached>>

ReadFrame ==
    /\ Goto("can_reader", "take", "work")
    /\ frames < MaxFrames
    /\ frames' = frames + 1
    /\ Hold("can_reader", frames + 1)
    /\ UNCHANGED <<control, running, open, queues, commands, reached>>

PushFrame ==
    /\ Goto("can_reader", "work", "check")
    /\ can_frame_q' = Append(can_frame_q, holds["can_reader"])
    /\ Hold("can_reader", 0)
    /\ UNCHANGED <<control, running, open, telemetry_q, anomaly_q, ota_q, arrived, reached>>

ConsumeCommand ==
    /\ Goto("cmd_handler", "take", "work")
    /\ commands < MaxCommands
    /\ commands' = commands + 1
    /\ Hold("cmd_handler", commands + 1)
    /\ UNCHANGED <<control, running, open, queues, frames, reached>>

\* A trigger goes to OtaAgent, another command to the CAN bus.
RouteCommand ==
    /\ Goto("cmd_handler", "work", "check")
    /\ ota_q' = IF holds["cmd_handler"] \in Triggers
                THEN Append(ota_q, holds["cmd_handler"]) ELSE ota_q
    /\ Hold("cmd_handler", 0)
    /\ UNCHANGED <<control, running, open, can_frame_q, telemetry_q, anomaly_q, arrived, reached>>

Take(t, q) ==
    /\ Goto(t, "take", "work")
    /\ q # <<>>
    /\ Hold(t, Head(q))
    /\ reached' = [reached EXCEPT ![t] = @ \cup {Head(q)}]
    /\ UNCHANGED <<control, running, open, arrived>>

TakeSignal ==
    /\ Take("telemetry_pub", telemetry_q)
    /\ telemetry_q' = Tail(telemetry_q)
    /\ UNCHANGED <<can_frame_q, anomaly_q, ota_q>>

TakeForAnomaly ==
    /\ Take("anomaly_det", anomaly_q)
    /\ anomaly_q' = Tail(anomaly_q)
    /\ UNCHANGED <<can_frame_q, telemetry_q, ota_q>>

TakeTrigger ==
    /\ Take("ota_agent", ota_q)
    /\ ota_q' = Tail(ota_q)
    /\ UNCHANGED <<can_frame_q, telemetry_q, anomaly_q>>

\* A publish, an inference, an update.
Finish(t) ==
    /\ t \in {"telemetry_pub", "anomaly_det", "ota_agent"}
    /\ Goto(t, "work", "check")
    /\ Hold(t, 0)
    /\ UNCHANGED <<control, running, open, queues, arrived, reached>>

\* What is in a queue is found before a timeout.
QueueOf(t) ==
    CASE t = "telemetry_pub" -> telemetry_q
      [] t = "anomaly_det" -> anomaly_q
      [] t = "ota_agent" -> ota_q
      [] OTHER -> <<>>

Thread(t) ==
    \/ CheckRunning(t)
    \/ QueueOf(t) = <<>> /\ TakeNothing(t)
    \/ Finish(t)
    \/ t = "can_reader" /\ (ReadFrame \/ PushFrame)
    \/ t = "cmd_handler" /\ (ConsumeCommand \/ RouteCommand)
    \/ t = "telemetry_pub" /\ TakeSignal
    \/ t = "anomaly_det" /\ TakeForAnomaly
    \/ t = "ota_agent" /\ TakeTrigger

-----------------------------------------------------------------------------
(* Signals and exceptions *)

Killed ==
    /\ main' = "killed"
    /\ UNCHANGED <<step, failed, g_running, threads, holds, open, queues, arrived, reached>>

\* SIGINT or SIGTERM: until the handlers are installed it ends the process.
Signal ==
    \/ /\ Up
       /\ main # "start" /\ ~failed
       /\ g_running' = FALSE
       /\ UNCHANGED <<main, step, failed, threads, holds, open, queues, arrived, reached>>
    \/ /\ Up
       /\ main = "start" \/ failed
       /\ Killed

\* An exception that run() does not catch, of ONNX Runtime or of std::filesystem.
Uncaught ==
    /\ Up
    /\ \E t \in {"anomaly_det", "ota_agent"} : thread[t] = "work"
    /\ Killed

Next == Main \/ (\E t \in Threads : Thread(t)) \/ Signal \/ Uncaught

Spec == Init /\ [][Next]_vars

\* Where a thread, or main(), may wait on the broker without a timeout: publish()->wait() in
\* the work of three threads, and main()'s subscribe()->wait() and disconnect()->wait().
Waiters == {"main", "telemetry_pub", "anomaly_det", "ota_agent"}

AwaitsBroker(w) ==
    /\ Up
    /\ w \in Waiters
    /\ IF w = "main"
       THEN main = "disconnect" \/ (main = "start" /\ StartOrder[step] = "cmd_handler")
       ELSE thread[w] = "work"

\* The operating system runs every thread.  Nobody says that the broker answers.
FairSpec ==
    /\ Spec
    /\ WF_vars(~AwaitsBroker("main") /\ Main)
    /\ \A t \in Threads : WF_vars(~AwaitsBroker(t) /\ Thread(t))

-----------------------------------------------------------------------------
(* Safety *)

Working(t) == thread[t] \in {"check", "take", "work"}

\* Where main() calls the connection: it subscribes when CommandHandler starts, unsubscribes
\* when it stops, and once more in its destructor, and it disconnects.
MainCallsMqtt ==
    \/ main = "start" /\ StartOrder[step] = "cmd_handler"
    \/ main = "join" /\ Teardown[step] = "cmd_handler"
    \/ main \in {"disconnect", "destroy"}

\* "CanWriter before CommandHandler (handler calls writer)", "stop producer after
\* all consumers are done": whichever module failed to start and whenever the
\* signal came, no thread uses a socket or the connection after it was closed; main() calls
\* a closed connection in ~CommandHandler and nowhere else; and no thread is left when the
\* modules, and after them the queues and the MQTT client, are destroyed.
OnlyDestructorUsesClosed ==
    /\ Working("can_reader") => open["rx"]
    /\ Working("cmd_handler") => open["tx"]
    /\ \A t \in Threads \ {"can_reader"} : Working(t) => open["mqtt"]
    /\ MainCallsMqtt => open["mqtt"] \/ main = "destroy"
    /\ main \in {"destroy", "return", "returned"} => \A t \in Threads : ~Working(t)

InHand(t) == {holds[t]} \ {0}

\* Where an item may be on its way to the thread t, from there back to where it comes in.
Path(t) ==
    CASE t = "telemetry_pub" ->
            <<reached[t], Range(telemetry_q), IF main = "push_telemetry" THEN InHand("main") ELSE {},
              Range(can_frame_q), InHand("can_reader")>>
      [] t = "anomaly_det" ->
            <<reached[t], Range(anomaly_q), InHand("main"), Range(can_frame_q),
              InHand("can_reader")>>
      [] t = "ota_agent" ->
            <<reached[t], Range(ota_q), InHand("cmd_handler") \cap Triggers>>

Wanted(t) ==
    IF t = "ota_agent" THEN Items(commands) \cap Triggers ELSE Items(frames) \ Undecoded

\* Whatever has come in is somewhere on its way to each thread that wants it, during the
\* shutdown as well, through queues and hands and across the two pushes of the decode loop.
NothingLost ==
    main # "killed" =>
       \A t \in {"telemetry_pub", "anomaly_det", "ota_agent"} : Wanted(t) \subseteq UNION Range(Path(t))

\* Each of the two consumers of a frame takes all of them, without a gap and in the order in
\* which they came from the bus, and OtaAgent its triggers in the order of the broker.
TakenInOrder ==
    \A t \in {"telemetry_pub", "anomaly_det", "ota_agent"} :
       \A n \in reached[t] : \A m \in Wanted(t) : m < n => m \in reached[t]

\* How far main() still has to go, and a thread that is not to run.
Left ==
    CASE main = "stop" -> 2 * (6 - step) + 5
      [] main = "join" -> 2 * (6 - step) + 4
      [] main = "disconnect" -> 3
      [] main = "destroy" -> 2
      [] main = "return" -> 1
      [] OTHER -> 0

Remaining(t) ==
    CASE thread[t] = "take" -> 3
      [] thread[t] = "work" -> 2
      [] thread[t] = "check" -> 1
      [] OTHER -> 0

Leaving == main \in {"stop", "join", "disconnect", "destroy", "return"}

\* Once main() has begun to stop modules it only goes on, no thread that was told to stop is
\* told otherwise, and such a thread goes through its loop at most to the next look at running_;
\* and main() joins only a thread that it has told.  So the shutdown cannot go round in
\* circles or wait for a thread that does not know, whatever the queues hold.
ShutdownForward ==
    [][Leaving =>
          /\ main' # main \/ step' # step => Left' < Left
          /\ \A t \in Threads : ~running[t] =>
                ~running'[t] /\ (thread'[t] # thread[t] => Remaining(t)' < Remaining(t))
          /\ main = "join" /\ Teardown[step] \in Threads => ~running[Teardown[step]]]_vars

-----------------------------------------------------------------------------
(* Liveness *)

ShuttingDown == failed \/ ~g_running \/ ~Up

\* "process exits": after a signal, and after a module failed to start, unless a wait without
\* a timeout never ends because the broker is silent.  There is no other way to hang, and this
\* one is real: main() joins the thread that waits, or waits for the disconnect itself.
OnlyBrokerHoldsUpShutdown ==
    (\E w \in Waiters : <>[]AwaitsBroker(w)) \/ (failed \/ ~g_running ~> ~Up)

\* While the gateway runs, what is read from the bus reaches both of its consumers and a
\* trigger reaches OtaAgent, also without AnomalyDetector.  A silent broker holds up the
\* consumer that waits for it, and no other, once main() has left its start.
EveryItemTaken ==
    /\ \A t \in {"telemetry_pub", "anomaly_det"}, n \in Items(MaxFrames) \ Undecoded :
          \/ <>[]AwaitsBroker(t) \/ <>[]AwaitsBroker("main")
          \/ n <= frames ~> (n \in reached[t] \/ thread[t] = "none" \/ ShuttingDown)
    /\ \A n \in Triggers :
          \/ <>[]AwaitsBroker("ota_agent")
          \/ n <= commands ~> (n \in reached["ota_agent"] \/ ShuttingDown)
=============================================================================
