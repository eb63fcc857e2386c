---------------------------- MODULE GatewayProofs ----------------------------
(***************************************************************************)
(* Theorems about Gateway, for any number of frames and commands.          *)
(*                                                                         *)
(* No thread uses what was closed, and main() only in ~CommandHandler.     *)
(* This rests on the two orders in which modules are stopped: CanWriter    *)
(* closes its socket when CommandHandler's thread has been joined, the     *)
(* connection ends when all have.                                          *)
(*                                                                         *)
(* The shutdown goes forward: a measure of what is left falls.             *)
(*                                                                         *)
(* Nothing is lost, and everything comes in order.  The way of an item to  *)
(* a thread is cut into stages, each behind the one before; an action adds *)
(* the latest item to the last stage, or moves the first item of a stage.  *)
(***************************************************************************)
EXTENDS Gateway, TLAPS, SequenceTheorems

\* Modules that stop() is done with.
Down(m) ==
    \/ main \in {"disconnect", "destroy", "return", "returned"}
    \/ /\ main \in {"stop", "join"}
       /\ \E i \in 1..6 : i < step /\ Teardown[i] = m

\* Threads of modules not yet started do not exist.
StartInv ==
    main = "start" =>
       /\ \A i \in step..6 : StartOrder[i] \in Threads => thread[StartOrder[i]] = "none"
       /\ step > 1 => open["tx"]

ThreadsUseOpen ==
    /\ Working("can_reader") => open["rx"]
    /\ Working("cmd_handler") => open["tx"]
    /\ \A t \in Threads \ {"can_reader"} : Working(t) => open["mqtt"]

OrderInv ==
    /\ \A t \in Threads : Down(t) => ~Working(t)
    /\ main \in {"start", "check", "pop", "push_telemetry", "push_anomaly", "stop", "join",
                 "disconnect"} => open["mqtt"]
    /\ failed => main \in {"stop", "join", "return"} \cup Gone
    /\ ThreadsUseOpen

IInv == TypeOK /\ StartInv /\ OrderInv

-----------------------------------------------------------------------------
(* Types *)

LEMMA InitType == Init => TypeOK
<1>. SUFFICES ASSUME Init
              PROVE  TypeOK
  OBVIOUS
<1>1. main = "start" /\ step \in 1..6 /\ failed \in BOOLEAN /\ g_running \in BOOLEAN
  <2>1. main = "start" /\ step = 1 /\ failed = FALSE /\ g_running = TRUE
    BY Zenon DEF Init
  <2>2. step \in 1..6
    BY <2>1
  <2>. QED
    BY <2>1, <2>2, Zenon
<1>2. thread \in [Threads -> {"none", "check", "take", "work", "exited"}]
  BY Zenon DEF Init
<1>3. running \in [Threads -> BOOLEAN]
  BY Zenon DEF Init
<1>4. open \in [Resources -> BOOLEAN]
  BY Zenon DEF Init
<1>5. /\ holds \in [Threads \cup {"main"} -> Nat] /\ holds["main"] = 0
      /\ \A t \in Threads : holds[t] = 0 /\ thread[t] = "none"
  <2>1. \A u \in Threads \cup {"main"} : holds[u] = 0
    BY DEF Init
  <2>2. holds \in [Threads \cup {"main"} -> Nat]
    BY DEF Init
  <2>3. \A t \in Threads : thread[t] = "none"
    BY DEF Init
  <2>. QED
    BY <2>1, <2>2, <2>3
<1>6. reached \in [Threads -> SUBSET Nat] /\ \A t \in Threads : reached[t] = {}
  <2>1. {} \in SUBSET Nat
    OBVIOUS
  <2>. QED
    BY <2>1, Zenon DEF Init
<1>7. /\ can_frame_q = <<>> /\ telemetry_q = <<>> /\ anomaly_q = <<>> /\ ota_q = <<>>
      /\ frames = 0 /\ commands = 0
  BY DEF Init
<1>. QED
  BY <1>1, <1>2, <1>3, <1>4, <1>5, <1>6, <1>7, ConstantsAssumption
  DEF ConstantsAssumption, TypeOK

\* A step of main() that takes no frame in or out changes its place, flags and sockets.
LEMMA MainQuietType ==
    ASSUME TypeOK, UNCHANGED <<g_running, holds, queues, arrived, reached>>,
           main' \in {"start", "check", "pop", "stop", "join", "disconnect", "destroy", "return",
                     "returned"},
           main \in {"start", "check", "pop", "stop", "join", "disconnect", "destroy", "return"},
           step' \in 1..6, failed' \in BOOLEAN, open' \in [Resources -> BOOLEAN],
           running' \in [Threads -> BOOLEAN],
           thread' \in [Threads -> {"none", "check", "take", "work", "exited"}],
           \A t \in Threads : thread'[t] = "work" <=> thread[t] = "work"
    PROVE  TypeOK'
BY DEF TypeOK, queues, arrived, Up, Gone

LEMMA MainType ==
    ASSUME TypeOK, StartInv, Main
    PROVE  TypeOK'
<1>. USE DEF MainFrom
<1>1. CASE StartModule
  <2>1. NextStart /\ main = "start"
    BY <1>1 DEF StartModule
  <2>2. main' \in {"start", "check"} /\ step' \in 1..6
    BY <2>1 DEF NextStart, StartOrder, TypeOK
  <2>3. /\ open' \in [Resources -> BOOLEAN] /\ running' \in [Threads -> BOOLEAN]
        /\ thread' \in [Threads -> {"none", "check", "take", "work", "exited"}]
    BY <1>1 DEF StartModule, TypeOK
  <2>4. \A t \in Threads : thread'[t] = "work" <=> thread[t] = "work"
    <3>1. StartOrder[step] \in Threads => thread[StartOrder[step]] = "none"
      BY <2>1 DEF StartInv, TypeOK
    <3>. QED
      BY <1>1, <3>1 DEF StartModule
  <2>. QED
    BY <1>1, <2>1, <2>2, <2>3, <2>4, MainQuietType DEF StartModule, TypeOK
<1>2. CASE StartFails
  <2>1. main' \in {"start", "check", "stop"} /\ step' \in 1..6
    <3>1. NextStart => main' \in {"start", "check"} /\ step' \in 1..6
      BY <1>2 DEF NextStart, StartFails, StartOrder, TypeOK
    <3>. QED
      BY <1>2, <3>1 DEF StartFails
  <2>2. failed' \in BOOLEAN /\ main = "start"
    BY <1>2 DEF StartFails, TypeOK
  <2>. QED
    BY <1>2, <2>1, <2>2, MainQuietType DEF StartFails, threads, TypeOK
<1>3. CASE CheckGRunning \/ PopTimeout
  <2>1. main' \in {"check", "pop", "stop"} /\ main \in {"check", "pop"} /\ step' \in 1..6
    BY <1>3 DEF CheckGRunning, PopTimeout, TypeOK
  <2>2. UNCHANGED <<failed, g_running, threads, holds, open, queues, arrived, reached>>
    BY <1>3 DEF CheckGRunning, PopTimeout
  <2>3. /\ failed' \in BOOLEAN /\ open' \in [Resources -> BOOLEAN]
        /\ running' \in [Threads -> BOOLEAN]
        /\ thread' \in [Threads -> {"none", "check", "take", "work", "exited"}]
    BY <2>2 DEF threads, TypeOK
  <2>4. \A t \in Threads : thread'[t] = "work" <=> thread[t] = "work"
    BY <2>2 DEF threads
  <2>. QED
    BY <2>1, <2>2, <2>3, <2>4, MainQuietType
<1>4. CASE PopFrame
  <2>1. Head(can_frame_q) \in Items(MaxFrames) /\ can_frame_q' \in Seq(Items(MaxFrames))
    BY <1>4 DEF PopFrame, TypeOK
  <2>2. CASE main' = "check" /\ UNCHANGED holds
    BY <1>4, <2>1, <2>2 DEF PopFrame, TypeOK, threads, arrived, Up, Gone
  <2>3. CASE main' = "push_telemetry" /\ holds' = [holds EXCEPT !["main"] = Head(can_frame_q)]
    <3>1. /\ holds' \in [Threads \cup {"main"} -> Nat] /\ holds'["main"] = Head(can_frame_q)
          /\ \A t \in Threads : holds'[t] = holds[t]
      <4>1. Head(can_frame_q) \in Nat
        BY <2>1, ConstantsAssumption DEF ConstantsAssumption, Items
      <4>2. holds \in [Threads \cup {"main"} -> Nat] /\ "main" \notin Threads
        BY DEF TypeOK, Threads
      <4>. QED
        BY <2>3, <4>1, <4>2, Zenon
    <3>2. UNCHANGED <<step, failed, g_running, running, thread, open, telemetry_q, anomaly_q,
                      ota_q, frames, commands, reached>>
      BY <1>4 DEF PopFrame, threads, arrived
    <3>3. main' = "push_telemetry" /\ holds'["main"] # 0
      BY <2>1, <2>3, <3>1, ConstantsAssumption DEF ConstantsAssumption, Items
    <3>. QED
      BY <2>1, <3>1, <3>2, <3>3 DEF TypeOK, Up, Gone
  <2>. QED
    BY <1>4, <2>2, <2>3 DEF PopFrame
<1>5. CASE PushTelemetry
  <2>1. telemetry_q' \in Seq(Items(MaxFrames))
    BY <1>5, ConstantsAssumption DEF ConstantsAssumption, PushTelemetry, TypeOK, Up, Gone, Items
  <2>. QED
    BY <1>5, <2>1 DEF PushTelemetry, TypeOK, threads, arrived, Up, Gone
<1>6. CASE PushAnomaly
  <2>1. anomaly_q' \in Seq(Items(MaxFrames))
    BY <1>6, ConstantsAssumption DEF ConstantsAssumption, PushAnomaly, TypeOK, Up, Gone, Items
  <2>2. /\ holds' \in [Threads \cup {"main"} -> Nat] /\ holds'["main"] = 0
        /\ \A t \in Threads : holds'[t] = holds[t]
    BY <1>6 DEF PushAnomaly, TypeOK, Threads
  <2>. QED
    BY <1>6, <2>1, <2>2 DEF PushAnomaly, TypeOK, threads, arrived, Up, Gone
<1>7. CASE StopModule
  BY <1>7, MainQuietType DEF StopModule, TypeOK
<1>8. CASE Join
  <2>1. step' \in 1..6 /\ main' \in {"stop", "disconnect", "return"}
    BY <1>8 DEF Join, TypeOK, Teardown, StopOrder, DestructionOrder
  <2>2. open' \in [Resources -> BOOLEAN]
    BY <1>8 DEF Join, TypeOK
  <2>. QED
    BY <1>8, <2>1, <2>2, MainQuietType DEF Join, threads, TypeOK
<1>9. CASE Disconnect \/ Destroy \/ Return
  <2>1. open' \in [Resources -> BOOLEAN]
    BY <1>9 DEF Disconnect, Destroy, Return, TypeOK
  <2>. QED
    BY <1>9, <2>1, MainQuietType DEF Disconnect, Destroy, Return, threads, TypeOK
<1>. QED
  BY <1>1, <1>2, <1>3, <1>4, <1>5, <1>6, <1>7, <1>8, <1>9 DEF Main

-----------------------------------------------------------------------------
(* The order of closing *)

LEMMA InitOrder == Init => StartInv /\ OrderInv
<1>. SUFFICES ASSUME Init
              PROVE  StartInv /\ OrderInv
  OBVIOUS
<1>1. /\ main = "start" /\ step = 1 /\ failed = FALSE /\ open["mqtt"] = TRUE
      /\ \A t \in Threads : thread[t] = "none"
  BY DEF Init, Resources
<1>2. \A t \in Threads : ~Working(t)
  BY <1>1 DEF Working
<1>3. StartInv
  BY <1>1 DEF StartInv
<1>4. ThreadsUseOpen
  BY <1>1, <1>2 DEF ThreadsUseOpen, Threads
<1>. QED
  BY <1>1, <1>2, <1>3, <1>4 DEF OrderInv, Down

\* Everything that follows needs of the types.
LEMMA Places ==
    ASSUME IInv
    PROVE  /\ step \in 1..6 /\ failed \in BOOLEAN
           /\ thread \in [Threads -> {"none", "check", "take", "work", "exited"}]
           /\ running \in [Threads -> BOOLEAN]
           /\ open \in [Resources -> BOOLEAN]
BY DEF IInv, TypeOK

\* A step that closes nothing, tears nothing down and starts no thread.
LEMMA NothingClosed ==
    ASSUME IInv, UNCHANGED <<open, failed>>,
           \A t \in Threads : Working(t)' => Working(t),
           \/ main' = main /\ step' = step
           \/ main \in {"check", "pop", "push_telemetry", "push_anomaly"}
              /\ main' \in {"check", "pop", "push_telemetry", "push_anomaly"}
           \/ main \in {"check", "pop", "push_telemetry", "push_anomaly"}
              /\ main' = "stop" /\ step' = 1
           \/ main = "stop" /\ main' = "join" /\ step' = step
           \/ main' = "killed",
           main' = "start" => \A t \in Threads : thread[t] = "none" => thread'[t] = "none"
    PROVE  StartInv' /\ OrderInv'
<1>1. Teardown' = Teardown
  BY DEF Teardown
<1>2. \A m : Down(m)' => Down(m)
  BY <1>1, Places DEF Down
<1>3. \A t \in Threads : Down(t)' => ~Working(t)'
  BY <1>2 DEF IInv, OrderInv
<1>4. ThreadsUseOpen'
  BY DEF IInv, OrderInv, ThreadsUseOpen, Threads
<1>5. StartInv'
  BY DEF IInv, StartInv
<1>6. failed' => main' \in {"stop", "join", "return"} \cup Gone
  BY DEF IInv, OrderInv, Gone
<1>7. main' \in {"start", "check", "pop", "push_telemetry", "push_anomaly", "stop", "join",
                 "disconnect"} => open'["mqtt"]
  BY DEF IInv, OrderInv
<1>. QED
  BY <1>3, <1>4, <1>5, <1>6, <1>7 DEF OrderInv

LEMMA StartModuleOrder ==
    ASSUME IInv, StartModule
    PROVE  StartInv' /\ OrderInv'
<1>. DEFINE m == StartOrder[step]
<1>1. /\ main = "start" /\ NextStart /\ UNCHANGED failed
      /\ open' = [r \in Resources |-> open[r] \/ r \in Socket(m)]
      /\ thread' = [t \in Threads |-> IF t = m THEN "check" ELSE thread[t]]
  BY DEF StartModule, MainFrom
<1>2. step \in 1..6 /\ failed = FALSE
  BY <1>1, Places DEF IInv, OrderInv, Gone
<1>3. \/ step < 6 /\ step' = step + 1 /\ main' = "start"
      \/ step = 6 /\ step' = step /\ main' = "check"
  BY <1>1, <1>2 DEF NextStart, StartOrder
<1>4. open'["mqtt"] /\ (open["tx"] => open'["tx"]) /\ (open["rx"] => open'["rx"])
  BY <1>1 DEF Resources, IInv, OrderInv
<1>5. step = 1 => open'["tx"]
  <2>1. step = 1 => m = "can_writer"
    BY DEF StartOrder
  <2>2. m = "can_writer" => open'["tx"]
    BY <1>1 DEF Resources, Socket
  <2>. QED
    BY <2>1, <2>2
<1>6. m = "can_reader" => open'["rx"]
  BY <1>1 DEF Resources, Socket
<1>7. m = "cmd_handler" => open'["tx"]
  <2>1. m = "cmd_handler" => step > 1
    BY <1>2 DEF StartOrder
  <2>. QED
    BY <1>1, <1>4, <2>1 DEF IInv, StartInv
<1>8. \A t \in Threads : t # m => (Working(t)' <=> Working(t))
  BY <1>1 DEF Working
<1>9. ThreadsUseOpen'
  <2>1. Working("can_reader")' => open'["rx"]
    BY <1>4, <1>6, <1>8 DEF IInv, OrderInv, ThreadsUseOpen, Threads
  <2>2. Working("cmd_handler")' => open'["tx"]
    BY <1>4, <1>7, <1>8 DEF IInv, OrderInv, ThreadsUseOpen, Threads
  <2>. QED
    BY <1>3, <1>4, <2>1, <2>2 DEF ThreadsUseOpen
<1>10. StartInv'
  <2>1. SUFFICES ASSUME main' = "start"
                 PROVE  /\ \A i \in step'..6 : StartOrder[i] \in Threads =>
                              thread'[StartOrder[i]] = "none"
                        /\ open'["tx"]
    BY DEF StartInv
  <2>2. step' = step + 1 /\ step < 6
    BY <1>3, <2>1
  <2>3. \A i \in step'..6 : StartOrder[i] # m /\ i \in step..6
    BY <1>2, <2>2 DEF StartOrder
  <2>4. \A i \in step'..6 : StartOrder[i] \in Threads => thread'[StartOrder[i]] = "none"
    BY <1>1, <2>3 DEF IInv, StartInv
  <2>5. open'["tx"]
    BY <1>1, <1>2, <1>4, <1>5 DEF IInv, StartInv
  <2>. QED
    BY <2>4, <2>5
<1>11. \A t \in Threads : ~Down(t)'
  BY <1>3 DEF Down
<1>. QED
  BY <1>1, <1>2, <1>3, <1>4, <1>9, <1>10, <1>11 DEF OrderInv

LEMMA StartFailsOrder ==
    ASSUME IInv, StartFails
    PROVE  StartInv' /\ OrderInv'
<1>1. /\ main = "start" /\ UNCHANGED <<thread, open>>
      /\ \/ StartOrder[step] = "anomaly_det" /\ NextStart /\ UNCHANGED failed
         \/ main' = "stop" /\ step' = 1 /\ failed' = TRUE
  BY DEF StartFails, MainFrom, threads
<1>2. step \in 1..6 /\ failed = FALSE
  BY <1>1, Places DEF IInv, OrderInv, Gone
<1>3. StartOrder[step] = "anomaly_det" => step = 6
  BY <1>2 DEF StartOrder
<1>4. \/ main' = "check" /\ failed' = FALSE
      \/ main' = "stop" /\ step' = 1 /\ failed' = TRUE
  BY <1>1, <1>2, <1>3 DEF NextStart, StartOrder
<1>5. \A t \in Threads : ~Down(t)'
  BY <1>4 DEF Down
<1>6. ThreadsUseOpen'
  BY <1>1, <1>4 DEF IInv, OrderInv, ThreadsUseOpen, Working
<1>. QED
  BY <1>1, <1>4, <1>5, <1>6 DEF IInv, StartInv, OrderInv

LEMMA JoinOrder ==
    ASSUME IInv, Join
    PROVE  StartInv' /\ OrderInv'
<1>. DEFINE m == Teardown[step]
<1>1. /\ main = "join" /\ Joined(m) /\ UNCHANGED <<failed, thread>>
      /\ open' = [r \in Resources |-> open[r] /\ r \notin Socket(m)]
  BY DEF Join, MainFrom, threads
<1>2. step \in 1..6 /\ failed \in BOOLEAN
  BY Places
<1>3. \/ step < 6 /\ step' = step + 1 /\ main' = "stop"
      \/ step = 6 /\ main' = (IF failed THEN "return" ELSE "disconnect")
  BY <1>2 DEF Join, Teardown, StopOrder, DestructionOrder
<1>4. Teardown' = Teardown
  BY <1>1 DEF Teardown
<1>5. \A t \in Threads : Working(t)' <=> Working(t)
  BY <1>1 DEF Working
<1>6. \A t \in Threads : t = m => ~Working(t)
  BY <1>1 DEF Joined, Working
<1>7. \A t \in Threads : (\E i \in 1..6 : i < step /\ Teardown[i] = t) => ~Working(t)
  BY <1>1 DEF IInv, OrderInv, Down
<1>8. \A t \in Threads : \E i \in 1..6 : Teardown[i] = t
  BY <1>2 DEF Teardown, StopOrder, DestructionOrder, Threads
<1>9. \A t \in Threads : Down(t)' => ~Working(t)'
  <2>1. SUFFICES ASSUME NEW t \in Threads, Down(t)'
                 PROVE  ~Working(t)
    BY <1>5
  <2>2. CASE step < 6 /\ step' = step + 1 /\ main' = "stop"
    <3>1. PICK i \in 1..6 : i < step + 1 /\ Teardown[i] = t
      BY <1>4, <2>1, <2>2 DEF Down
    <3>2. CASE i = step
      BY <1>6, <3>1, <3>2
    <3>3. CASE i # step
      BY <1>2, <1>7, <3>1, <3>3
    <3>. QED
      BY <3>2, <3>3
  <2>3. CASE step = 6
    <3>1. PICK i \in 1..6 : Teardown[i] = t
      BY <1>8
    <3>2. CASE i = 6
      BY <1>6, <2>3, <3>1, <3>2
    <3>3. CASE i # 6
      BY <1>7, <2>3, <3>1, <3>3
    <3>. QED
      BY <3>2, <3>3
  <2>. QED
    BY <1>3, <2>2, <2>3
<1>10. m = "can_writer" => ~Working("cmd_handler")
  <2>1. m = "can_writer" => step > 3 /\ Teardown[3] = "cmd_handler"
    BY <1>2 DEF Teardown, StopOrder, DestructionOrder
  <2>. QED
    BY <1>2, <1>7, <2>1 DEF Threads
<1>11. ThreadsUseOpen'
  <2>1. open'["mqtt"] = open["mqtt"]
    BY <1>1, Places DEF Resources, Socket
  <2>2. Working("can_reader")' => open'["rx"]
    BY <1>1, <1>5, <1>6 DEF Resources, Socket, IInv, OrderInv, ThreadsUseOpen, Threads
  <2>3. Working("cmd_handler")' => open'["tx"]
    BY <1>1, <1>5, <1>10 DEF Resources, Socket, IInv, OrderInv, ThreadsUseOpen, Threads
  <2>. QED
    BY <1>3, <1>5, <2>1, <2>2, <2>3 DEF IInv, OrderInv, ThreadsUseOpen
<1>12. open'["mqtt"]
  BY <1>1 DEF Resources, Socket, IInv, OrderInv
<1>13. failed' => main' \in {"stop", "join", "return"}
  BY <1>1, <1>3
<1>. QED
  BY <1>3, <1>9, <1>11, <1>12, <1>13 DEF OrderInv, StartInv

LEMMA LeaveOrder ==
    ASSUME IInv, Disconnect \/ Destroy \/ Return
    PROVE  StartInv' /\ OrderInv'
<1>1. /\ \/ main \in {"disconnect", "destroy"} /\ main' \in {"destroy", "return"}
         \/ main = "return" /\ main' = "returned"
      /\ UNCHANGED <<failed, thread>>
  BY DEF Disconnect, Destroy, Return, MainFrom, threads
<1>2. \A t \in Threads : ~Working(t)'
  BY <1>1 DEF IInv, OrderInv, Down, Working
<1>3. ThreadsUseOpen'
  BY <1>2 DEF ThreadsUseOpen, Threads
<1>. QED
  BY <1>1, <1>2, <1>3 DEF IInv, OrderInv, StartInv, Gone

-----------------------------------------------------------------------------
(* The threads *)

\* What a step of a thread keeps of the types of thread and holds.
HoldsKept ==
    /\ thread' \in [Threads -> {"none", "check", "take", "work", "exited"}]
    /\ holds' \in [Threads \cup {"main"} -> Nat]
    /\ \A u \in Threads : /\ holds'[u] \in Input(u) \cup {0}
                          /\ holds'[u] # 0 <=> thread'[u] = "work"
    /\ holds'["main"] = holds["main"]

LEMMA ThreadType ==
    ASSUME TypeOK, NEW t \in Threads, Thread(t)
    PROVE  TypeOK'
<1>. USE DEF Threads
<1>1. CASE CheckRunning(t)
  <2>1. thread' \in [Threads -> {"none", "check", "take", "work", "exited"}]
    BY <1>1 DEF CheckRunning, Goto, TypeOK
  <2>2. \A u \in Threads : thread'[u] = "work" <=> thread[u] = "work"
    BY <1>1 DEF CheckRunning, Goto, TypeOK
  <2>. QED
    BY <1>1, <2>1, <2>2 DEF CheckRunning, TypeOK, control, queues, arrived, Up
<1>2. CASE TakeNothing(t)
  <2>1. thread' \in [Threads -> {"none", "check", "take", "work", "exited"}]
    BY <1>2 DEF TakeNothing, Goto, TypeOK
  <2>2. \A u \in Threads : thread'[u] = "work" <=> thread[u] = "work"
    BY <1>2 DEF TakeNothing, Goto, TypeOK
  <2>. QED
    BY <1>2, <2>1, <2>2 DEF TakeNothing, TypeOK, control, queues, arrived, Up
<1>3. ASSUME Goto(t, "work", "check"), Hold(t, 0)
      PROVE  HoldsKept
  BY <1>3 DEF Goto, Hold, HoldsKept, TypeOK
<1>4. ASSUME NEW item \in Input(t), Goto(t, "take", "work"), Hold(t, item)
      PROVE  HoldsKept
  <2>1. item \in Nat /\ item # 0
    BY ConstantsAssumption DEF ConstantsAssumption, Input, Items
  <2>. QED
    BY <1>4, <2>1 DEF Goto, Hold, HoldsKept, TypeOK
<1>5. CASE Finish(t)
  <2>1. HoldsKept
    BY <1>3, <1>5 DEF Finish
  <2>. QED
    BY <1>5, <2>1 DEF Finish, HoldsKept, TypeOK, control, queues, arrived, Up
<1>6. CASE t = "can_reader" /\ ReadFrame
  <2>1. frames + 1 \in Input("can_reader") /\ frames' \in 0..MaxFrames
    BY <1>6, ConstantsAssumption DEF ConstantsAssumption, ReadFrame, TypeOK, Input, Items
  <2>2. HoldsKept
    BY <1>4, <1>6, <2>1 DEF ReadFrame
  <2>. QED
    BY <1>6, <2>1, <2>2 DEF ReadFrame, HoldsKept, TypeOK, control, queues, Up
<1>7. CASE t = "can_reader" /\ PushFrame
  <2>1. HoldsKept
    BY <1>3, <1>7 DEF PushFrame
  <2>2. holds["can_reader"] \in Items(MaxFrames)
    BY <1>7 DEF PushFrame, Goto, TypeOK, Input
  <2>3. can_frame_q' \in Seq(Items(MaxFrames))
    BY <1>7, <2>2 DEF PushFrame, TypeOK
  <2>. QED
    BY <1>7, <2>1, <2>3 DEF PushFrame, HoldsKept, TypeOK, control, arrived, Up
<1>8. CASE t = "cmd_handler" /\ ConsumeCommand
  <2>1. commands + 1 \in Input("cmd_handler") /\ commands' \in 0..MaxCommands
    BY <1>8, ConstantsAssumption DEF ConstantsAssumption, ConsumeCommand, TypeOK, Input, Items
  <2>2. HoldsKept
    BY <1>4, <1>8, <2>1 DEF ConsumeCommand
  <2>. QED
    BY <1>8, <2>1, <2>2 DEF ConsumeCommand, HoldsKept, TypeOK, control, queues, Up
<1>9. CASE t = "cmd_handler" /\ RouteCommand
  <2>1. HoldsKept
    BY <1>3, <1>9 DEF RouteCommand
  <2>2. ota_q' \in Seq(Triggers)
    BY <1>9 DEF RouteCommand, TypeOK
  <2>. QED
    BY <1>9, <2>1, <2>2 DEF RouteCommand, HoldsKept, TypeOK, control, arrived, Up
<1>10. ASSUME NEW q, Head(q) \in Input(t), Take(t, q)
       PROVE  /\ HoldsKept /\ UNCHANGED <<control, running, open, arrived>>
              /\ reached' \in [Threads -> SUBSET Nat]
              /\ \A u \in Threads : reached'[u] \subseteq Input(u)
  <2>1. Head(q) \in Nat
    BY <1>10, ConstantsAssumption DEF ConstantsAssumption, Take, Input, Items
  <2>2. HoldsKept
    BY <1>4, <1>10, <2>1 DEF Take
  <2>3. reached' = [reached EXCEPT ![t] = reached[t] \cup {Head(q)}]
    BY <1>10 DEF Take
  <2>4. reached \in [Threads -> SUBSET Nat] /\ \A u \in Threads : reached[u] \subseteq Input(u)
    BY DEF TypeOK
  <2>. QED
    BY <1>10, <2>1, <2>2, <2>3, <2>4 DEF Take
<1>11. CASE t = "telemetry_pub" /\ TakeSignal
  <2>1. Head(telemetry_q) \in Input(t) /\ telemetry_q # <<>> /\ Take(t, telemetry_q)
    BY <1>11 DEF TakeSignal, Take, TypeOK, Input
  <2>2. telemetry_q' \in Seq(Items(MaxFrames))
    BY <1>11, <2>1 DEF TakeSignal, TypeOK
  <2>. QED
    BY <1>10, <1>11, <2>1, <2>2 DEF TakeSignal, HoldsKept, TypeOK, control, arrived, Up
<1>12. CASE t = "anomaly_det" /\ TakeForAnomaly
  <2>1. Head(anomaly_q) \in Input(t) /\ anomaly_q # <<>> /\ Take(t, anomaly_q)
    BY <1>12 DEF TakeForAnomaly, Take, TypeOK, Input
  <2>2. anomaly_q' \in Seq(Items(MaxFrames))
    BY <1>12, <2>1 DEF TakeForAnomaly, TypeOK
  <2>. QED
    BY <1>10, <1>12, <2>1, <2>2 DEF TakeForAnomaly, HoldsKept, TypeOK, control, arrived, Up
<1>13. CASE t = "ota_agent" /\ TakeTrigger
  <2>1. ota_q \in Seq(Triggers) /\ ota_q # <<>> /\ Take(t, ota_q)
    BY <1>13 DEF TakeTrigger, Take, TypeOK
  <2>2. Head(ota_q) \in Input(t)
    <3>1. Head(ota_q) \in Triggers
      BY <2>1
    <3>. QED
      BY <1>13, <3>1, ConstantsAssumption DEF ConstantsAssumption, Input, Items
  <2>3. ota_q' \in Seq(Triggers)
    BY <1>13, <2>1 DEF TakeTrigger
  <2>. QED
    BY <1>10, <1>13, <2>1, <2>2, <2>3 DEF TakeTrigger, HoldsKept, TypeOK, control, arrived, Up
<1>. QED
  BY <1>1, <1>2, <1>5, <1>6, <1>7, <1>8, <1>9, <1>11, <1>12, <1>13 DEF Thread

\* A thread at work was in its loop before, and one that is not there does not appear.
LEMMA ThreadOrder ==
    ASSUME IInv, NEW t \in Threads, Thread(t)
    PROVE  StartInv' /\ OrderInv'
<1>1. /\ UNCHANGED <<control, open>>
      /\ thread[t] \in {"check", "take", "work"}
      /\ \E to \in {"check", "take", "work", "exited"} : thread' = [thread EXCEPT ![t] = to]
  BY DEF Thread, CheckRunning, TakeNothing, Finish, ReadFrame, PushFrame, ConsumeCommand,
         RouteCommand, TakeSignal, TakeForAnomaly, TakeTrigger, Take, Goto
<1>2. \A u \in Threads : Working(u)' => Working(u)
  BY <1>1, Places DEF Working
<1>3. \A u \in Threads : thread[u] = "none" => thread'[u] = "none"
  BY <1>1, Places
<1>. QED
  BY <1>1, <1>2, <1>3, NothingClosed DEF control

-----------------------------------------------------------------------------
(* The theorems *)

\* The inductive invariant.
THEOREM IInvHolds == Spec => []IInv
<1>1. IInv /\ [Next]_vars => IInv'
  <2>. SUFFICES ASSUME IInv, [Next]_vars
                PROVE  TypeOK' /\ StartInv' /\ OrderInv'
    BY DEF IInv
  <2>1. CASE Main
    <3>1. TypeOK'
      BY <2>1, MainType DEF IInv
    <3>2. CASE StartModule \/ StartFails
      BY <3>1, <3>2, StartModuleOrder, StartFailsOrder
    <3>3. CASE CheckGRunning \/ PopFrame \/ PopTimeout \/ PushTelemetry \/ PushAnomaly
      <4>1. /\ UNCHANGED <<failed, threads, open>>
            /\ main \in {"check", "pop", "push_telemetry", "push_anomaly"}
            /\ \/ main' \in {"check", "pop", "push_telemetry", "push_anomaly"}
               \/ main' = "stop" /\ step' = 1
        BY <3>3 DEF CheckGRunning, PopFrame, PopTimeout, PushTelemetry, PushAnomaly, MainFrom
      <4>2. \A t \in Threads : Working(t)' => Working(t)
        BY <4>1 DEF Working, threads
      <4>. QED
        BY <3>1, <4>1, <4>2, NothingClosed DEF threads
    <3>4. CASE StopModule
      <4>1. \A t \in Threads : Working(t)' => Working(t)
        BY <3>4 DEF StopModule, Working
      <4>. QED
        BY <3>1, <3>4, <4>1, NothingClosed DEF StopModule, MainFrom
    <3>5. CASE Join
      BY <3>1, <3>5, JoinOrder
    <3>6. CASE Disconnect \/ Destroy \/ Return
      BY <3>1, <3>6, LeaveOrder
    <3>. QED
      BY <2>1, <3>2, <3>3, <3>4, <3>5, <3>6 DEF Main
  <2>2. ASSUME NEW t \in Threads, Thread(t)
        PROVE  TypeOK' /\ StartInv' /\ OrderInv'
    BY <2>2, ThreadType, ThreadOrder DEF IInv
  <2>3. ASSUME Killed
        PROVE  TypeOK' /\ StartInv' /\ OrderInv'
    <3>1. TypeOK'
      BY <2>3 DEF IInv, TypeOK, Killed, threads, queues, arrived, Up, Gone
    <3>2. \A t \in Threads : Working(t)' => Working(t)
      BY <2>3 DEF Killed, Working, threads
    <3>. QED
      BY <2>3, <3>1, <3>2, NothingClosed DEF Killed, threads
  <2>4. CASE Signal \/ Uncaught
    <3>1. CASE Killed
      BY <2>3, <3>1
    <3>2. CASE /\ g_running' = FALSE
               /\ UNCHANGED <<main, step, failed, threads, holds, open, queues, arrived, reached>>
      <4>1. TypeOK'
        BY <3>2 DEF IInv, TypeOK, threads, queues, arrived, Up
      <4>2. \A t \in Threads : Working(t)' => Working(t)
        BY <3>2 DEF Working, threads
      <4>. QED
        BY <3>2, <4>1, <4>2, NothingClosed DEF threads
    <3>. QED
      BY <2>4, <3>1, <3>2 DEF Signal, Uncaught
  <2>5. CASE UNCHANGED vars
    <3>1. TypeOK'
      BY <2>5 DEF vars, IInv, TypeOK, control, threads, queues, arrived, Up
    <3>2. \A t \in Threads : Working(t)' => Working(t)
      BY <2>5 DEF vars, threads, Working
    <3>. QED
      BY <2>5, <3>1, <3>2, NothingClosed DEF vars, control, threads
  <2>. QED
    BY <2>1, <2>2, <2>4, <2>5 DEF Next
<1>2. Init => IInv
  BY InitType, InitOrder DEF IInv
<1>. QED
  BY <1>1, <1>2, PTL DEF Spec

\* Types: no queue holds what its consumer cannot take, and a thread at work holds
\* what it works on.
THEOREM TypeCorrect == Spec => []TypeOK
<1>1. IInv => TypeOK
  BY DEF IInv
<1>. QED
  BY <1>1, IInvHolds, PTL

\* Whichever module fails to start, and whenever a signal comes, no thread uses a socket or
\* the connection after it was closed, none is left when the modules are destroyed, and the
\* one call of main() on a closed connection is that of ~CommandHandler.
THEOREM ClosedIsUnused == Spec => []OnlyDestructorUsesClosed
<1>1. ASSUME IInv
      PROVE  OnlyDestructorUsesClosed
  <2>1. ThreadsUseOpen
    BY <1>1 DEF IInv, OrderInv
  <2>2. MainCallsMqtt => open["mqtt"] \/ main = "destroy"
    BY <1>1 DEF IInv, OrderInv, MainCallsMqtt
  <2>3. main \in {"destroy", "return", "returned"} => \A t \in Threads : ~Working(t)
    BY <1>1 DEF IInv, OrderInv, Down
  <2>. QED
    BY <2>1, <2>2, <2>3 DEF OnlyDestructorUsesClosed, ThreadsUseOpen
<1>. QED
  BY <1>1, IInvHolds, PTL

-----------------------------------------------------------------------------
(* The shutdown goes forward *)

\* main() waits only for a thread that it has told to stop.
ToldInv == main = "join" /\ Teardown[step] \in Threads => ~running[Teardown[step]]

LEMMA ToldStep ==
    ASSUME IInv, ToldInv, [Next]_vars
    PROVE  ToldInv'
<1>1. CASE StopModule
  BY <1>1 DEF StopModule, MainFrom, ToldInv, Teardown
<1>2. CASE Main /\ ~StopModule
  <2>1. main' # "join"
    BY <1>2 DEF Main, StartModule, StartFails, NextStart, CheckGRunning, PopFrame, PopTimeout,
         PushTelemetry, PushAnomaly, Join, Disconnect, Destroy, Return, MainFrom
  <2>. QED
    BY <2>1 DEF ToldInv
<1>3. ASSUME UNCHANGED <<failed, step, running>>, main' \in {main, "killed"}
      PROVE  ToldInv'
  BY <1>3 DEF ToldInv, Teardown
<1>4. ASSUME NEW t \in Threads, Thread(t)
      PROVE  UNCHANGED <<control, running>>
  BY <1>4 DEF Thread, CheckRunning, TakeNothing, Finish, ReadFrame, PushFrame, ConsumeCommand,
       RouteCommand, TakeSignal, TakeForAnomaly, TakeTrigger, Take
<1>5. CASE Signal \/ Uncaught \/ UNCHANGED vars
  BY <1>3, <1>5 DEF Signal, Uncaught, Killed, vars, control, threads
<1>. QED
  BY <1>1, <1>2, <1>3, <1>4, <1>5 DEF Next, control

LEMMA ToldHolds == Spec => []ToldInv
<1>1. Init => ToldInv
  BY DEF Init, ToldInv
<1>. QED
  BY <1>1, ToldStep, IInvHolds, PTL DEF Spec

LEMMA MainForward ==
    ASSUME IInv, Leaving, [Next]_vars, main' # main \/ step' # step
    PROVE  Left' < Left
<1>1. step \in 1..6
  BY Places
<1>2. CASE StopModule
  BY <1>1, <1>2 DEF StopModule, MainFrom, Left
<1>3. CASE Join
  <2>1. main = "join" /\ failed \in BOOLEAN
    BY <1>3, Places DEF Join, MainFrom
  <2>2. \/ step < 6 /\ step' = step + 1 /\ main' = "stop"
        \/ step = 6 /\ main' \in {"return", "disconnect"}
    BY <1>1, <1>3 DEF Join, Teardown, StopOrder, DestructionOrder
  <2>. QED
    BY <1>1, <2>1, <2>2 DEF Left
<1>4. CASE Disconnect \/ Destroy \/ Return
  BY <1>4 DEF Disconnect, Destroy, Return, MainFrom, Left
<1>5. CASE main' = "killed"
  BY <1>1, <1>5 DEF Leaving, Left
<1>6. ASSUME NEW t \in Threads, Thread(t)
      PROVE  UNCHANGED control
  BY <1>6 DEF Thread, CheckRunning, TakeNothing, Finish, ReadFrame, PushFrame, ConsumeCommand,
       RouteCommand, TakeSignal, TakeForAnomaly, TakeTrigger, Take
<1>7. CASE Signal \/ Uncaught \/ UNCHANGED vars
  BY <1>5, <1>7 DEF Signal, Uncaught, Killed, vars, control
<1>8. Main => StopModule \/ Join \/ Disconnect \/ Destroy \/ Return
  BY DEF Leaving, Main, StartModule, StartFails, CheckGRunning, PopFrame, PopTimeout,
     PushTelemetry, PushAnomaly, MainFrom
<1>. QED
  BY <1>2, <1>3, <1>4, <1>6, <1>7, <1>8 DEF Next, control

\* Nothing starts a thread again, and a thread told to stop comes nearer to its end.
LEMMA ThreadsForward ==
    ASSUME IInv, Leaving, [Next]_vars, NEW t \in Threads, ~running[t]
    PROVE  ~running'[t] /\ (thread'[t] # thread[t] => Remaining(t)' < Remaining(t))
<1>1. thread \in [Threads -> {"none", "check", "take", "work", "exited"}]
      /\ running \in [Threads -> BOOLEAN]
  BY Places
<1>2. CASE Main
  <2>1. StopModule \/ Join \/ Disconnect \/ Destroy \/ Return
    BY <1>2 DEF Leaving, Main, StartModule, StartFails, CheckGRunning, PopFrame, PopTimeout,
       PushTelemetry, PushAnomaly, MainFrom
  <2>. QED
    BY <1>1, <2>1 DEF StopModule, Join, Disconnect, Destroy, Return, threads
<1>3. ASSUME NEW u \in Threads, Thread(u)
      PROVE  ~running'[t] /\ (thread'[t] # thread[t] => Remaining(t)' < Remaining(t))
  <2>1. UNCHANGED running
    BY <1>3 DEF Thread, CheckRunning, TakeNothing, Finish, ReadFrame, PushFrame,
       ConsumeCommand, RouteCommand, TakeSignal, TakeForAnomaly, TakeTrigger, Take
  <2>2. CASE u # t
    <3>1. \E to : thread' = [thread EXCEPT ![u] = to]
      BY <1>3 DEF Thread, CheckRunning, TakeNothing, Finish, ReadFrame, PushFrame,
         ConsumeCommand, RouteCommand, TakeSignal, TakeForAnomaly, TakeTrigger, Take, Goto
    <3>. QED
      BY <1>1, <2>1, <2>2, <3>1
  <2>3. CASE u = t
    <3>1. \/ thread[t] = "check" /\ thread'[t] = "exited"
          \/ thread[t] = "take" /\ thread'[t] \in {"check", "work"}
          \/ thread[t] = "work" /\ thread'[t] = "check"
      BY <1>1, <1>3, <2>3 DEF Thread, CheckRunning, TakeNothing, Finish, ReadFrame, PushFrame,
         ConsumeCommand, RouteCommand, TakeSignal, TakeForAnomaly, TakeTrigger, Take, Goto
    <3>. QED
      BY <2>1, <3>1 DEF Remaining
  <2>. QED
    BY <2>2, <2>3
<1>4. CASE Signal \/ Uncaught \/ UNCHANGED vars
  BY <1>4 DEF Signal, Uncaught, Killed, vars, threads
<1>. QED
  BY <1>2, <1>3, <1>4 DEF Next

\* The shutdown neither goes round in circles nor waits for a thread that was not told,
\* for any frames, commands, start failures and signals.
THEOREM ForwardOnly == Spec => ShutdownForward
<1>1. ASSUME IInv, ToldInv, [Next]_vars
      PROVE  Leaving =>
                /\ main' # main \/ step' # step => Left' < Left
                /\ \A t \in Threads : ~running[t] =>
                      ~running'[t] /\ (thread'[t] # thread[t] => Remaining(t)' < Remaining(t))
                /\ main = "join" /\ Teardown[step] \in Threads => ~running[Teardown[step]]
  BY <1>1, MainForward, ThreadsForward DEF ToldInv
<1>. QED
  BY <1>1, IInvHolds, ToldHolds, PTL DEF Spec, ShutdownForward

-----------------------------------------------------------------------------
(* Queues and ordered stages *)

Ascending(q) == \A i, j \in 1..Len(q) : i < j => q[i] < q[j]

Below(A, B) == \A a \in A, b \in B : a < b

LEMMA AppendAscends ==
    ASSUME NEW q \in Seq(Nat), NEW n \in Nat, Ascending(q), Below(Range(q), {n})
    PROVE  Ascending(Append(q, n)) /\ Range(Append(q, n)) = Range(q) \cup {n}
<1>. DEFINE r == Append(q, n)
<1>1. /\ Len(q) \in Nat /\ Len(r) = Len(q) + 1 /\ DOMAIN q = 1..Len(q) /\ DOMAIN r = 1..Len(r)
      /\ \A i \in 1..Len(q) : r[i] = q[i] /\ q[i] \in Nat
      /\ r[Len(q) + 1] = n
  OBVIOUS
<1>. HIDE DEF r
<1>2. \A i \in 1..Len(q) : q[i] < n
  BY <1>1 DEF Below, Range
<1>3. Ascending(r)
  BY <1>1, <1>2 DEF Ascending
<1>4. Range(r) = Range(q) \cup {n}
  <2>1. \A i \in 1..Len(r) : i \in 1..Len(q) \/ i = Len(q) + 1
    BY <1>1
  <2>2. \A i \in 1..Len(q) : i \in 1..Len(r)
    BY <1>1
  <2>3. Len(q) + 1 \in 1..Len(r)
    BY <1>1
  <2>. QED
    BY <1>1, <2>1, <2>2, <2>3 DEF Range
<1>. QED
  BY <1>3, <1>4 DEF r

\* The head of an ascending queue is its least item and is there once.
LEMMA TailAscends ==
    ASSUME NEW q \in Seq(Nat), q # <<>>, Ascending(q)
    PROVE  /\ Head(q) \in Range(q) /\ Ascending(Tail(q))
           /\ Range(Tail(q)) = Range(q) \ {Head(q)}
           /\ Below({Head(q)}, Range(Tail(q)))
<1>. DEFINE r == Tail(q)
<1>1. /\ Len(q) \in Nat \ {0} /\ Len(r) = Len(q) - 1 /\ DOMAIN q = 1..Len(q)
      /\ DOMAIN r = 1..Len(r) /\ Head(q) = q[1]
      /\ \A i \in 1..Len(r) : r[i] = q[i + 1]
      /\ \A i \in 1..Len(q) : q[i] \in Nat
  OBVIOUS
<1>. HIDE DEF r
<1>2. 1 \in 1..Len(q) /\ \A i \in 1..Len(r) : i + 1 \in 1..Len(q) /\ 1 < i + 1
  BY <1>1
<1>3. \A i \in 1..Len(r) : q[1] < r[i]
  BY <1>1, <1>2 DEF Ascending
<1>4. Ascending(r)
  <2>. SUFFICES ASSUME NEW i \in 1..Len(r), NEW j \in 1..Len(r), i < j
                PROVE  r[i] < r[j]
    BY DEF Ascending
  <2>1. i + 1 \in 1..Len(q) /\ j + 1 \in 1..Len(q) /\ i + 1 < j + 1
    BY <1>1
  <2>. QED
    BY <1>1, <2>1 DEF Ascending
<1>5. \A i \in 2..Len(q) : i - 1 \in 1..Len(r) /\ r[i - 1] = q[i]
  BY <1>1
<1>6. Range(r) = Range(q) \ {q[1]}
  <2>1. ASSUME NEW x \in Range(r)
        PROVE  x \in Range(q) /\ x # q[1]
    <3>1. PICK i \in 1..Len(r) : x = r[i]
      BY <1>1 DEF Range
    <3>2. i + 1 \in 1..Len(q) /\ x = q[i + 1] /\ q[1] < x /\ x \in Nat /\ q[1] \in Nat
      BY <1>1, <1>2, <1>3, <3>1
    <3>3. x \in Range(q)
      <4>1. i + 1 \in DOMAIN q /\ x = q[i + 1]
        BY <1>1, <3>2
      <4>. QED
        BY ONLY <4>1 DEF Range
    <3>4. x # q[1]
      BY ONLY <3>2
    <3>. QED
      BY <3>3, <3>4
  <2>2. ASSUME NEW x \in Range(q), x # q[1]
        PROVE  x \in Range(r)
    <3>1. PICK i \in 1..Len(q) : x = q[i]
      BY <1>1 DEF Range
    <3>2. i \in 2..Len(q)
      BY <1>1, <2>2, <3>1
    <3>. QED
      BY <1>1, <1>5, <3>1, <3>2 DEF Range
  <2>. QED
    BY <2>1, <2>2
<1>7. q[1] \in Range(q) /\ Below({q[1]}, Range(r))
  BY <1>1, <1>2, <1>3 DEF Range, Below
<1>. QED
  BY <1>1, <1>4, <1>6, <1>7 DEF r

\* Five places an item goes through, from E to A: the later it came in, the further back it
\* is, nothing is in two places, what is wanted is in one, and none is larger than n.
Stages(A, B, C, D, E, W, n) ==
    /\ A \cup B \cup C \cup D \cup E \subseteq 1..n
    /\ Below(A, B) /\ Below(A, C) /\ Below(A, D) /\ Below(A, E)
    /\ Below(B, C) /\ Below(B, D) /\ Below(B, E)
    /\ Below(C, D) /\ Below(C, E) /\ Below(D, E)
    /\ W \subseteq A \cup B \cup C \cup D \cup E

LEMMA Arrives ==
    ASSUME NEW n \in Nat, NEW A, NEW B, NEW C, NEW D, NEW W, Stages(A, B, C, D, {}, W, n),
           NEW E \in SUBSET {n + 1}, NEW V \in SUBSET (W \cup E)
    PROVE  Stages(A, B, C, D, E, V, n + 1)
<1>1. A \cup B \cup C \cup D \cup E \subseteq 1..(n + 1)
  <2>1. 1..n \subseteq 1..(n + 1) /\ n + 1 \in 1..(n + 1)
    OBVIOUS
  <2>. QED
    BY <2>1 DEF Stages
<1>2. \A x \in A \cup B \cup C \cup D : x \in Nat /\ x < n + 1
  BY DEF Stages
<1>3. Below(A, E) /\ Below(B, E) /\ Below(C, E) /\ Below(D, E)
  BY <1>2 DEF Below
<1>. QED
  BY <1>1, <1>3 DEF Stages

\* The least of a place goes to the next one.
LEMMA MovesFromE ==
    ASSUME NEW n \in Nat, NEW A, NEW B, NEW C, NEW D, NEW E, NEW W, Stages(A, B, C, D, E, W, n)
    PROVE  Stages(A, B, C, D \cup E, {}, W, n)
BY DEF Stages, Below

LEMMA MovesFromD ==
    ASSUME NEW n \in Nat, NEW A, NEW B, NEW D, NEW E, NEW W, Stages(A, B, {}, D, E, W, n),
           NEW x \in D, Below({x}, D \ {x})
    PROVE  Stages(A, B, {x}, D \ {x}, E, W, n)
BY DEF Stages, Below

LEMMA LeavesD ==
    ASSUME NEW n \in Nat, NEW A, NEW B, NEW C, NEW D, NEW E, NEW W, Stages(A, B, C, D, E, W, n),
           NEW x, x \notin W
    PROVE  Stages(A, B, C, D \ {x}, E, W, n)
BY DEF Stages, Below

LEMMA MovesFromC ==
    ASSUME NEW n \in Nat, NEW A, NEW B, NEW C, NEW D, NEW E, NEW W, Stages(A, B, C, D, E, W, n)
    PROVE  Stages(A, B \cup C, {}, D, E, W, n)
BY DEF Stages, Below

LEMMA MovesFromB ==
    ASSUME NEW n \in Nat, NEW A, NEW B, NEW C, NEW D, NEW E, NEW W, Stages(A, B, C, D, E, W, n),
           NEW x \in B, Below({x}, B \ {x})
    PROVE  Stages(A \cup {x}, B \ {x}, C, D, E, W, n)
BY DEF Stages, Below

-----------------------------------------------------------------------------
(* Nothing is lost, and everything comes in order *)

TelemetryHand == IF main = "push_telemetry" THEN InHand("main") ELSE {}

TelemetryFlow ==
    Stages(reached["telemetry_pub"], Range(telemetry_q), TelemetryHand, Range(can_frame_q),
           InHand("can_reader"), Items(frames) \ Undecoded, frames)

AnomalyFlow ==
    Stages(reached["anomaly_det"], Range(anomaly_q), InHand("main"), Range(can_frame_q),
           InHand("can_reader"), Items(frames) \ Undecoded, frames)

TriggerFlow ==
    Stages(reached["ota_agent"], Range(ota_q), {}, {}, InHand("cmd_handler") \cap Triggers,
           Items(commands) \cap Triggers, commands)

Flows == TelemetryFlow /\ AnomalyFlow /\ TriggerFlow

QueuesAscend ==
    Ascending(can_frame_q) /\ Ascending(telemetry_q) /\ Ascending(anomaly_q) /\ Ascending(ota_q)

FlowInv == QueuesAscend /\ (main # "killed" => Flows)

LEMMA FlowTypes ==
    ASSUME TypeOK
    PROVE  /\ can_frame_q \in Seq(Nat) /\ telemetry_q \in Seq(Nat) /\ anomaly_q \in Seq(Nat)
           /\ ota_q \in Seq(Nat)
           /\ frames \in Nat /\ commands \in Nat
           /\ holds \in [Threads \cup {"main"} -> Nat]
           /\ reached \in [Threads -> SUBSET Nat]
           /\ \A t \in Threads : thread[t] # "work" => InHand(t) = {}
           /\ \A t \in Threads : thread[t] = "work" => InHand(t) = {holds[t]}
           /\ Up /\ main \notin {"push_telemetry", "push_anomaly"} => InHand("main") = {}
           /\ main \in {"push_telemetry", "push_anomaly"} => InHand("main") = {holds["main"]}
<1>1. /\ Items(MaxFrames) \subseteq Nat /\ Triggers \subseteq Nat
      /\ MaxFrames \in Nat /\ MaxCommands \in Nat
  BY ConstantsAssumption DEF ConstantsAssumption, Items
<1>2. /\ can_frame_q \in Seq(Nat) /\ telemetry_q \in Seq(Nat) /\ anomaly_q \in Seq(Nat)
      /\ ota_q \in Seq(Nat)
  <2>1. /\ can_frame_q \in Seq(Items(MaxFrames)) /\ telemetry_q \in Seq(Items(MaxFrames))
        /\ anomaly_q \in Seq(Items(MaxFrames)) /\ ota_q \in Seq(Triggers)
    BY DEF TypeOK
  <2>. QED
    BY <1>1, <2>1, SeqMonotonic
<1>3. frames \in Nat /\ commands \in Nat
  BY <1>1 DEF TypeOK
<1>4. /\ \A t \in Threads : thread[t] # "work" => InHand(t) = {}
      /\ \A t \in Threads : thread[t] = "work" => InHand(t) = {holds[t]}
  BY DEF TypeOK, InHand
<1>5. /\ Up /\ main \notin {"push_telemetry", "push_anomaly"} => InHand("main") = {}
      /\ main \in {"push_telemetry", "push_anomaly"} => InHand("main") = {holds["main"]}
  BY DEF TypeOK, InHand, Up, Gone
<1>. QED
  BY <1>2, <1>3, <1>4, <1>5 DEF TypeOK

LEMMA InitFlow == Init => FlowInv
<1>. SUFFICES ASSUME Init
              PROVE  FlowInv
  OBVIOUS
<1>1. /\ main = "start" /\ frames = 0 /\ commands = 0
      /\ can_frame_q = <<>> /\ telemetry_q = <<>> /\ anomaly_q = <<>> /\ ota_q = <<>>
  BY DEF Init
<1>2. /\ \A t \in Threads \cup {"main"} : InHand(t) = {}
      /\ \A t \in Threads : reached[t] = {}
  BY DEF Init, InHand
<1>3. Range(<<>>) = {} /\ Ascending(<<>>) /\ Items(0) = {}
  BY DEF Range, Ascending, Items
<1>4. /\ InHand("can_reader") = {} /\ InHand("cmd_handler") = {} /\ InHand("main") = {}
      /\ reached["telemetry_pub"] = {} /\ reached["anomaly_det"] = {} /\ reached["ota_agent"] = {}
  BY <1>2 DEF Threads
<1>5. Stages({}, {}, {}, {}, {}, {}, 0)
  BY DEF Stages, Below
<1>6. Flows
  <2>1. TelemetryHand = {}
    BY <1>1 DEF TelemetryHand
  <2>2. {} \ Undecoded = {} /\ {} \cap Triggers = {}
    OBVIOUS
  <2>. QED
    BY <1>1, <1>3, <1>4, <1>5, <2>1, <2>2 DEF Flows, TelemetryFlow, AnomalyFlow, TriggerFlow
<1>. QED
  BY <1>1, <1>3, <1>6 DEF FlowInv, QueuesAscend

\* Steps that move nothing, and the end of the process.
LEMMA FlowKept ==
    ASSUME FlowInv, UNCHANGED <<holds, queues, arrived, reached>>,
           \/ main' = "killed"
           \/ main # "killed" /\ main # "push_telemetry" /\ main' # "push_telemetry"
           \/ main' = main
    PROVE  FlowInv'
<1>1. QueuesAscend'
  BY DEF FlowInv, QueuesAscend, queues
<1>2. ASSUME main' # "killed"
      PROVE  Flows'
  <2>1. main # "killed" /\ TelemetryHand' = TelemetryHand
    BY <1>2 DEF TelemetryHand, InHand
  <2>2. Flows
    BY <2>1 DEF FlowInv
  <2>. QED
    BY <2>1, <2>2 DEF Flows, TelemetryFlow, AnomalyFlow, TriggerFlow, queues, arrived, InHand
<1>. QED
  BY <1>1, <1>2 DEF FlowInv

LEMMA PopFrameFlow ==
    ASSUME IInv, FlowInv, PopFrame
    PROVE  FlowInv'
<1>. DEFINE frame == Head(can_frame_q)
<1>1. TypeOK /\ main = "pop" /\ main' # "killed" /\ Up
  BY DEF IInv, PopFrame, MainFrom
<1>2. /\ can_frame_q' = Tail(can_frame_q)
      /\ UNCHANGED <<thread, telemetry_q, anomaly_q, ota_q, frames, commands, reached>>
  BY DEF PopFrame, threads, arrived
<1>3. Flows /\ QueuesAscend
  BY <1>1 DEF FlowInv
<1>4. /\ frame \in Range(can_frame_q) /\ Ascending(can_frame_q')
      /\ Range(can_frame_q') = Range(can_frame_q) \ {frame}
      /\ Below({frame}, Range(can_frame_q) \ {frame})
  <2>1. can_frame_q # <<>> /\ can_frame_q \in Seq(Nat)
    BY <1>1, FlowTypes DEF PopFrame
  <2>. QED
    BY <1>2, <1>3, <2>1, TailAscends DEF QueuesAscend
<1>5. InHand("main") = {} /\ TelemetryHand = {} /\ frames \in Nat /\ commands \in Nat
  BY <1>1, FlowTypes DEF TelemetryHand
<1>6. QueuesAscend'
  BY <1>2, <1>3, <1>4 DEF QueuesAscend
<1>7. CASE frame \in Undecoded /\ main' = "check" /\ UNCHANGED holds
  <2>1. \A t : InHand(t)' = InHand(t)
    BY <1>7 DEF InHand
  <2>2. TelemetryHand' = {} /\ InHand("main")' = {}
    BY <1>5, <1>7, <2>1 DEF TelemetryHand
  <2>3. frame \notin Items(frames) \ Undecoded
    BY <1>7
  <2>4. TelemetryFlow'
    <3>1. Stages(reached["telemetry_pub"], Range(telemetry_q), {}, Range(can_frame_q) \ {frame},
                 InHand("can_reader"), Items(frames) \ Undecoded, frames)
      BY <1>3, <1>5, <2>3, LeavesD DEF Flows, TelemetryFlow
    <3>. QED
      BY <1>2, <1>4, <2>1, <2>2, <3>1 DEF TelemetryFlow
  <2>5. AnomalyFlow'
    <3>1. Stages(reached["anomaly_det"], Range(anomaly_q), {}, Range(can_frame_q) \ {frame},
                 InHand("can_reader"), Items(frames) \ Undecoded, frames)
      BY <1>3, <1>5, <2>3, LeavesD DEF Flows, AnomalyFlow
    <3>. QED
      BY <1>2, <1>4, <2>1, <2>2, <3>1 DEF AnomalyFlow
  <2>6. TriggerFlow'
    BY <1>2, <1>3, <2>1 DEF Flows, TriggerFlow
  <2>. QED
    BY <1>6, <2>4, <2>5, <2>6 DEF FlowInv, Flows
<1>8. CASE main' = "push_telemetry" /\ holds' = [holds EXCEPT !["main"] = frame]
  <2>1. frame # 0
    <3>1. Range(can_frame_q) \subseteq 1..frames
      BY <1>3 DEF Flows, AnomalyFlow, Stages
    <3>. QED
      BY <1>4, <1>5, <3>1
  <2>2. \A t \in Threads : InHand(t)' = InHand(t)
    BY <1>1, <1>8, FlowTypes DEF InHand, Threads
  <2>3. InHand("main")' = {frame} /\ TelemetryHand' = {frame}
    BY <1>1, <1>8, <2>1, FlowTypes DEF InHand, TelemetryHand
  <2>4. InHand("can_reader")' = InHand("can_reader") /\ InHand("cmd_handler")' = InHand("cmd_handler")
    BY <2>2 DEF Threads
  <2>5. TelemetryFlow'
    <3>1. Stages(reached["telemetry_pub"], Range(telemetry_q), {frame},
                 Range(can_frame_q) \ {frame}, InHand("can_reader"), Items(frames) \ Undecoded, frames)
      BY <1>3, <1>4, <1>5, MovesFromD DEF Flows, TelemetryFlow
    <3>. QED
      BY <1>2, <1>4, <2>3, <2>4, <3>1 DEF TelemetryFlow
  <2>6. AnomalyFlow'
    <3>1. Stages(reached["anomaly_det"], Range(anomaly_q), {frame},
                 Range(can_frame_q) \ {frame}, InHand("can_reader"), Items(frames) \ Undecoded, frames)
      BY <1>3, <1>4, <1>5, MovesFromD DEF Flows, AnomalyFlow
    <3>. QED
      BY <1>2, <1>4, <2>3, <2>4, <3>1 DEF AnomalyFlow
  <2>7. TriggerFlow'
    BY <1>2, <1>3, <2>4 DEF Flows, TriggerFlow
  <2>. QED
    BY <1>6, <1>8, <2>5, <2>6, <2>7 DEF FlowInv, Flows
<1>. QED
  BY <1>7, <1>8 DEF PopFrame

LEMMA PushTelemetryFlow ==
    ASSUME IInv, FlowInv, PushTelemetry
    PROVE  FlowInv'
<1>1. TypeOK /\ main = "push_telemetry" /\ main' = "push_anomaly"
  BY DEF IInv, PushTelemetry, MainFrom
<1>2. /\ telemetry_q' = Append(telemetry_q, holds["main"])
      /\ UNCHANGED <<holds, can_frame_q, anomaly_q, ota_q, frames, commands, reached>>
  BY DEF PushTelemetry, arrived
<1>3. Flows /\ QueuesAscend
  BY <1>1 DEF FlowInv
<1>4. TelemetryHand = {holds["main"]} /\ frames \in Nat /\ holds["main"] \in Nat
      /\ telemetry_q \in Seq(Nat)
  BY <1>1, FlowTypes DEF TelemetryHand
<1>5. /\ Ascending(telemetry_q')
      /\ Range(telemetry_q') = Range(telemetry_q) \cup TelemetryHand
  <2>1. Below(Range(telemetry_q), {holds["main"]})
    BY <1>3, <1>4 DEF Flows, TelemetryFlow, Stages
  <2>. QED
    BY <1>2, <1>3, <1>4, <2>1, AppendAscends DEF QueuesAscend
<1>6. TelemetryHand' = {} /\ \A t : InHand(t)' = InHand(t)
  BY <1>1, <1>2 DEF TelemetryHand, InHand
<1>7. TelemetryFlow'
  BY <1>2, <1>3, <1>4, <1>5, <1>6, MovesFromC DEF Flows, TelemetryFlow
<1>8. AnomalyFlow' /\ TriggerFlow'
  BY <1>2, <1>3, <1>6 DEF Flows, AnomalyFlow, TriggerFlow
<1>. QED
  BY <1>2, <1>3, <1>5, <1>7, <1>8 DEF FlowInv, Flows, QueuesAscend

LEMMA PushAnomalyFlow ==
    ASSUME IInv, FlowInv, PushAnomaly
    PROVE  FlowInv'
<1>1. TypeOK /\ main = "push_anomaly" /\ main' = "check"
  BY DEF IInv, PushAnomaly, MainFrom
<1>2. /\ anomaly_q' = Append(anomaly_q, holds["main"]) /\ holds' = [holds EXCEPT !["main"] = 0]
      /\ UNCHANGED <<can_frame_q, telemetry_q, ota_q, frames, commands, reached>>
  BY DEF PushAnomaly, arrived
<1>3. Flows /\ QueuesAscend
  BY <1>1 DEF FlowInv
<1>4. InHand("main") = {holds["main"]} /\ frames \in Nat /\ holds["main"] \in Nat
      /\ anomaly_q \in Seq(Nat)
  BY <1>1, FlowTypes
<1>5. /\ Ascending(anomaly_q')
      /\ Range(anomaly_q') = Range(anomaly_q) \cup InHand("main")
  <2>1. Below(Range(anomaly_q), {holds["main"]})
    BY <1>3, <1>4 DEF Flows, AnomalyFlow, Stages
  <2>. QED
    BY <1>2, <1>3, <1>4, <2>1, AppendAscends DEF QueuesAscend
<1>6. InHand("main")' = {} /\ TelemetryHand' = {} /\ TelemetryHand = {}
  BY <1>1, <1>2, FlowTypes DEF TelemetryHand, InHand
<1>7. InHand("can_reader")' = InHand("can_reader") /\ InHand("cmd_handler")' = InHand("cmd_handler")
  BY <1>1, <1>2, FlowTypes DEF InHand, Threads
<1>8. AnomalyFlow'
  <2>1. Stages(reached["anomaly_det"], Range(anomaly_q) \cup InHand("main"), {}, Range(can_frame_q),
               InHand("can_reader"), Items(frames) \ Undecoded, frames)
    BY <1>3, <1>4, MovesFromC DEF Flows, AnomalyFlow
  <2>. QED
    BY <1>2, <1>5, <1>6, <1>7, <2>1 DEF AnomalyFlow
<1>9. TelemetryFlow' /\ TriggerFlow'
  BY <1>2, <1>3, <1>6, <1>7 DEF Flows, TelemetryFlow, TriggerFlow
<1>. QED
  BY <1>2, <1>3, <1>5, <1>8, <1>9 DEF FlowInv, Flows, QueuesAscend

LEMMA ReadFrameFlow ==
    ASSUME IInv, FlowInv, ReadFrame
    PROVE  FlowInv'
<1>1. TypeOK /\ main # "killed" /\ thread["can_reader"] = "take"
  BY DEF IInv, ReadFrame, Goto, Up, Gone
<1>2. /\ frames' = frames + 1 /\ holds' = [holds EXCEPT !["can_reader"] = frames + 1]
      /\ UNCHANGED <<main, can_frame_q, telemetry_q, anomaly_q, ota_q, commands, reached>>
  BY DEF ReadFrame, Hold, control, queues
<1>3. Flows /\ QueuesAscend
  BY <1>1 DEF FlowInv
<1>4. frames \in Nat /\ InHand("can_reader") = {}
  BY <1>1, FlowTypes DEF Threads
<1>5. /\ InHand("can_reader")' = {frames + 1} /\ InHand("main")' = InHand("main")
      /\ InHand("cmd_handler")' = InHand("cmd_handler")
  BY <1>1, <1>2, <1>4, FlowTypes DEF InHand, Threads
<1>6. TelemetryHand' = TelemetryHand
  BY <1>2, <1>5 DEF TelemetryHand
<1>7. Items(frames + 1) \ Undecoded \in SUBSET ((Items(frames) \ Undecoded) \cup {frames + 1})
  BY <1>4 DEF Items
<1>8. TelemetryFlow'
  <2>1. Stages(reached["telemetry_pub"], Range(telemetry_q), TelemetryHand, Range(can_frame_q),
               {frames + 1}, Items(frames + 1) \ Undecoded, frames + 1)
    BY <1>3, <1>4, <1>7, Arrives DEF Flows, TelemetryFlow
  <2>. QED
    BY <1>2, <1>5, <1>6, <2>1 DEF TelemetryFlow
<1>9. AnomalyFlow'
  <2>1. Stages(reached["anomaly_det"], Range(anomaly_q), InHand("main"), Range(can_frame_q),
               {frames + 1}, Items(frames + 1) \ Undecoded, frames + 1)
    BY <1>3, <1>4, <1>7, Arrives DEF Flows, AnomalyFlow
  <2>. QED
    BY <1>2, <1>5, <2>1 DEF AnomalyFlow
<1>10. TriggerFlow'
  BY <1>2, <1>3, <1>5 DEF Flows, TriggerFlow
<1>. QED
  BY <1>2, <1>3, <1>8, <1>9, <1>10 DEF FlowInv, Flows, QueuesAscend

LEMMA PushFrameFlow ==
    ASSUME IInv, FlowInv, PushFrame
    PROVE  FlowInv'
<1>1. TypeOK /\ main # "killed" /\ thread["can_reader"] = "work"
  BY DEF IInv, PushFrame, Goto, Up, Gone
<1>2. /\ can_frame_q' = Append(can_frame_q, holds["can_reader"])
      /\ holds' = [holds EXCEPT !["can_reader"] = 0]
      /\ UNCHANGED <<main, telemetry_q, anomaly_q, ota_q, frames, commands, reached>>
  BY DEF PushFrame, Hold, control, arrived
<1>3. Flows /\ QueuesAscend
  BY <1>1 DEF FlowInv
<1>4. /\ InHand("can_reader") = {holds["can_reader"]} /\ holds["can_reader"] \in Nat
      /\ frames \in Nat /\ can_frame_q \in Seq(Nat)
  BY <1>1, FlowTypes DEF Threads
<1>5. /\ Ascending(can_frame_q')
      /\ Range(can_frame_q') = Range(can_frame_q) \cup InHand("can_reader")
  <2>1. Below(Range(can_frame_q), {holds["can_reader"]})
    BY <1>3, <1>4 DEF Flows, AnomalyFlow, Stages
  <2>. QED
    BY <1>2, <1>3, <1>4, <2>1, AppendAscends DEF QueuesAscend
<1>6. /\ InHand("can_reader")' = {} /\ InHand("main")' = InHand("main")
      /\ InHand("cmd_handler")' = InHand("cmd_handler")
  BY <1>1, <1>2, FlowTypes DEF InHand, Threads
<1>7. TelemetryHand' = TelemetryHand
  BY <1>2, <1>6 DEF TelemetryHand
<1>8. TelemetryFlow'
  <2>1. Stages(reached["telemetry_pub"], Range(telemetry_q), TelemetryHand,
               Range(can_frame_q) \cup InHand("can_reader"), {}, Items(frames) \ Undecoded, frames)
    BY <1>3, <1>4, MovesFromE DEF Flows, TelemetryFlow
  <2>. QED
    BY <1>2, <1>5, <1>6, <1>7, <2>1 DEF TelemetryFlow
<1>9. AnomalyFlow'
  <2>1. Stages(reached["anomaly_det"], Range(anomaly_q), InHand("main"),
               Range(can_frame_q) \cup InHand("can_reader"), {}, Items(frames) \ Undecoded, frames)
    BY <1>3, <1>4, MovesFromE DEF Flows, AnomalyFlow
  <2>. QED
    BY <1>2, <1>5, <1>6, <2>1 DEF AnomalyFlow
<1>10. TriggerFlow'
  BY <1>2, <1>3, <1>6 DEF Flows, TriggerFlow
<1>. QED
  BY <1>2, <1>3, <1>5, <1>8, <1>9, <1>10 DEF FlowInv, Flows, QueuesAscend

LEMMA ConsumeCommandFlow ==
    ASSUME IInv, FlowInv, ConsumeCommand
    PROVE  FlowInv'
<1>1. TypeOK /\ main # "killed" /\ thread["cmd_handler"] = "take"
  BY DEF IInv, ConsumeCommand, Goto, Up, Gone
<1>2. /\ commands' = commands + 1 /\ holds' = [holds EXCEPT !["cmd_handler"] = commands + 1]
      /\ UNCHANGED <<main, can_frame_q, telemetry_q, anomaly_q, ota_q, frames, reached>>
  BY DEF ConsumeCommand, Hold, control, queues
<1>3. Flows /\ QueuesAscend
  BY <1>1 DEF FlowInv
<1>4. commands \in Nat /\ InHand("cmd_handler") = {}
  BY <1>1, FlowTypes DEF Threads
<1>5. /\ InHand("cmd_handler")' = {commands + 1} /\ InHand("main")' = InHand("main")
      /\ InHand("can_reader")' = InHand("can_reader")
  BY <1>1, <1>2, <1>4, FlowTypes DEF InHand, Threads
<1>6. TelemetryHand' = TelemetryHand
  BY <1>2, <1>5 DEF TelemetryHand
<1>7. TelemetryFlow' /\ AnomalyFlow'
  BY <1>2, <1>3, <1>5, <1>6 DEF Flows, TelemetryFlow, AnomalyFlow
<1>8. TriggerFlow'
  <2>. DEFINE E == {commands + 1} \cap Triggers
  <2>1. Stages(reached["ota_agent"], Range(ota_q), {}, {}, {}, Items(commands) \cap Triggers, commands)
    <3>1. {} \cap Triggers = {}
      OBVIOUS
    <3>. QED
      BY <1>3, <1>4, <3>1 DEF Flows, TriggerFlow
  <2>2. /\ E \in SUBSET {commands + 1}
        /\ Items(commands + 1) \cap Triggers \in SUBSET ((Items(commands) \cap Triggers) \cup E)
    BY <1>4 DEF Items
  <2>3. Stages(reached["ota_agent"], Range(ota_q), {}, {}, E, Items(commands + 1) \cap Triggers,
               commands + 1)
    BY <1>4, <2>1, <2>2, Arrives
  <2>. QED
    BY <1>2, <1>5, <2>3 DEF TriggerFlow
<1>. QED
  BY <1>2, <1>3, <1>7, <1>8 DEF FlowInv, Flows, QueuesAscend

LEMMA RouteCommandFlow ==
    ASSUME IInv, FlowInv, RouteCommand
    PROVE  FlowInv'
<1>. DEFINE c == holds["cmd_handler"]
            W == Items(commands) \cap Triggers
<1>1. TypeOK /\ main # "killed" /\ thread["cmd_handler"] = "work"
  BY DEF IInv, RouteCommand, Goto, Up, Gone
<1>2. /\ holds' = [holds EXCEPT !["cmd_handler"] = 0]
      /\ UNCHANGED <<main, can_frame_q, telemetry_q, anomaly_q, frames, commands, reached>>
  BY DEF RouteCommand, Hold, control, arrived
<1>3. Flows /\ QueuesAscend
  BY <1>1 DEF FlowInv
<1>4. InHand("cmd_handler") = {c} /\ c \in Nat /\ commands \in Nat /\ ota_q \in Seq(Nat)
  BY <1>1, FlowTypes DEF Threads
<1>5. /\ InHand("cmd_handler")' = {} /\ InHand("main")' = InHand("main")
      /\ InHand("can_reader")' = InHand("can_reader")
  BY <1>1, <1>2, FlowTypes DEF InHand, Threads
<1>6. TelemetryHand' = TelemetryHand
  BY <1>2, <1>5 DEF TelemetryHand
<1>7. TelemetryFlow' /\ AnomalyFlow'
  BY <1>2, <1>3, <1>5, <1>6 DEF Flows, TelemetryFlow, AnomalyFlow
<1>8. Stages(reached["ota_agent"], Range(ota_q), {}, {}, {c} \cap Triggers, W, commands)
  BY <1>3, <1>4 DEF Flows, TriggerFlow
<1>9. {} \cap Triggers = {}
  OBVIOUS
<1>10. CASE c \notin Triggers
  <2>1. ota_q' = ota_q
    BY <1>10 DEF RouteCommand
  <2>2. {c} \cap Triggers = {}
    BY <1>10
  <2>3. TriggerFlow'
    BY <1>2, <1>5, <1>8, <1>9, <2>1, <2>2 DEF TriggerFlow
  <2>. QED
    BY <1>2, <1>3, <1>7, <2>1, <2>3 DEF FlowInv, Flows, QueuesAscend
<1>11. CASE c \in Triggers
  <2>1. ota_q' = Append(ota_q, c)
    BY <1>11 DEF RouteCommand
  <2>2. {c} \cap Triggers = {c} /\ {} \cup {c} = {c} /\ {c} \ {c} = {}
    BY <1>11
  <2>3. Stages(reached["ota_agent"], Range(ota_q), {}, {c}, {}, W, commands)
    BY <1>4, <1>8, <2>2, MovesFromE
  <2>4. Stages(reached["ota_agent"], Range(ota_q), {c}, {}, {}, W, commands)
    <3>1. c \in {c} /\ Below({c}, {c} \ {c})
      BY DEF Below
    <3>2. Stages(reached["ota_agent"], Range(ota_q), {c}, {c} \ {c}, {}, W, commands)
      <4>. HIDE DEF c, W
      <4>. QED
        BY <1>4, <2>3, <3>1, MovesFromD
    <3>. QED
      BY <2>2, <3>2
  <2>5. Stages(reached["ota_agent"], Range(ota_q) \cup {c}, {}, {}, {}, W, commands)
    BY <1>4, <2>4, MovesFromC
  <2>6. Ascending(ota_q') /\ Range(ota_q') = Range(ota_q) \cup {c}
    <3>1. Below(Range(ota_q), {c})
      BY <2>4 DEF Stages
    <3>. QED
      BY <1>3, <1>4, <2>1, <3>1, AppendAscends DEF QueuesAscend
  <2>7. TriggerFlow'
    BY <1>2, <1>5, <1>9, <2>5, <2>6 DEF TriggerFlow
  <2>. QED
    BY <1>2, <1>3, <1>7, <2>6, <2>7 DEF FlowInv, Flows, QueuesAscend
<1>. QED
  BY <1>10, <1>11

\* What the three threads that pop a queue have in common.
LEMMA TakeFacts ==
    ASSUME IInv, NEW t \in {"telemetry_pub", "anomaly_det", "ota_agent"}, NEW q \in Seq(Nat),
           Ascending(q), Take(t, q)
    PROVE  /\ main # "killed" /\ main' = main /\ UNCHANGED arrived
           /\ Head(q) \in Range(q) /\ Ascending(Tail(q))
           /\ Range(Tail(q)) = Range(q) \ {Head(q)}
           /\ Below({Head(q)}, Range(q) \ {Head(q)})
           /\ reached'[t] = reached[t] \cup {Head(q)}
           /\ \A u \in Threads : u # t => reached'[u] = reached[u]
           /\ \A u \in {"can_reader", "cmd_handler", "main"} : InHand(u)' = InHand(u)
           /\ TelemetryHand' = TelemetryHand
<1>1. main # "killed" /\ main' = main /\ UNCHANGED arrived /\ q # <<>>
  BY DEF Take, Goto, Up, Gone, control
<1>2. /\ reached' = [reached EXCEPT ![t] = reached[t] \cup {Head(q)}]
      /\ holds' = [holds EXCEPT ![t] = Head(q)]
  BY DEF Take, Hold
<1>3. /\ reached \in [Threads -> SUBSET Nat] /\ holds \in [Threads \cup {"main"} -> Nat]
      /\ t \in Threads /\ t \notin {"can_reader", "cmd_handler", "main"}
  BY FlowTypes DEF IInv, Threads
<1>4. \A u \in {"can_reader", "cmd_handler", "main"} : InHand(u)' = InHand(u)
  BY <1>2, <1>3 DEF InHand, Threads
<1>5. TelemetryHand' = TelemetryHand
  BY <1>1, <1>4 DEF TelemetryHand
<1>6. /\ reached'[t] = reached[t] \cup {Head(q)}
      /\ \A u \in Threads : u # t => reached'[u] = reached[u]
  BY <1>2, <1>3
<1>7. /\ Head(q) \in Range(q) /\ Ascending(Tail(q))
      /\ Range(Tail(q)) = Range(q) \ {Head(q)}
      /\ Below({Head(q)}, Range(q) \ {Head(q)})
  BY <1>1, TailAscends
<1>. QED
  BY <1>1, <1>4, <1>5, <1>6, <1>7

LEMMA TakeSignalFlow ==
    ASSUME IInv, FlowInv, TakeSignal
    PROVE  FlowInv'
<1>. DEFINE t == "telemetry_pub"
            x == Head(telemetry_q)
<1>1. /\ telemetry_q \in Seq(Nat) /\ frames \in Nat /\ Take(t, telemetry_q)
      /\ telemetry_q' = Tail(telemetry_q) /\ UNCHANGED <<can_frame_q, anomaly_q, ota_q>>
  BY FlowTypes DEF IInv, TakeSignal
<1>2. QueuesAscend
  BY DEF FlowInv
<1>3. /\ main # "killed" /\ main' = main /\ UNCHANGED arrived
      /\ x \in Range(telemetry_q) /\ Ascending(telemetry_q')
      /\ Range(telemetry_q') = Range(telemetry_q) \ {x}
      /\ Below({x}, Range(telemetry_q) \ {x})
      /\ reached'[t] = reached[t] \cup {x}
      /\ \A u \in Threads : u # t => reached'[u] = reached[u]
      /\ \A u \in {"can_reader", "cmd_handler", "main"} : InHand(u)' = InHand(u)
      /\ TelemetryHand' = TelemetryHand
  BY <1>1, <1>2, TakeFacts DEF QueuesAscend
<1>4. Flows
  BY <1>3 DEF FlowInv
<1>5. TelemetryFlow'
  <2>1. Stages(reached[t] \cup {x}, Range(telemetry_q) \ {x}, TelemetryHand, Range(can_frame_q),
               InHand("can_reader"), Items(frames) \ Undecoded, frames)
    BY <1>1, <1>3, <1>4, MovesFromB DEF Flows, TelemetryFlow
  <2>. QED
    BY <1>1, <1>3, <2>1 DEF TelemetryFlow, arrived
<1>6. AnomalyFlow' /\ TriggerFlow'
  BY <1>1, <1>3, <1>4 DEF Flows, AnomalyFlow, TriggerFlow, arrived, Threads
<1>. QED
  BY <1>1, <1>2, <1>3, <1>5, <1>6 DEF FlowInv, Flows, QueuesAscend

LEMMA TakeForAnomalyFlow ==
    ASSUME IInv, FlowInv, TakeForAnomaly
    PROVE  FlowInv'
<1>. DEFINE t == "anomaly_det"
            x == Head(anomaly_q)
<1>1. /\ anomaly_q \in Seq(Nat) /\ frames \in Nat /\ Take(t, anomaly_q)
      /\ anomaly_q' = Tail(anomaly_q) /\ UNCHANGED <<can_frame_q, telemetry_q, ota_q>>
  BY FlowTypes DEF IInv, TakeForAnomaly
<1>2. QueuesAscend
  BY DEF FlowInv
<1>3. /\ main # "killed" /\ main' = main /\ UNCHANGED arrived
      /\ x \in Range(anomaly_q) /\ Ascending(anomaly_q')
      /\ Range(anomaly_q') = Range(anomaly_q) \ {x}
      /\ Below({x}, Range(anomaly_q) \ {x})
      /\ reached'[t] = reached[t] \cup {x}
      /\ \A u \in Threads : u # t => reached'[u] = reached[u]
      /\ \A u \in {"can_reader", "cmd_handler", "main"} : InHand(u)' = InHand(u)
      /\ TelemetryHand' = TelemetryHand
  BY <1>1, <1>2, TakeFacts DEF QueuesAscend
<1>4. Flows
  BY <1>3 DEF FlowInv
<1>5. AnomalyFlow'
  <2>1. Stages(reached[t] \cup {x}, Range(anomaly_q) \ {x}, InHand("main"), Range(can_frame_q),
               InHand("can_reader"), Items(frames) \ Undecoded, frames)
    BY <1>1, <1>3, <1>4, MovesFromB DEF Flows, AnomalyFlow
  <2>. QED
    BY <1>1, <1>3, <2>1 DEF AnomalyFlow, arrived
<1>6. TelemetryFlow' /\ TriggerFlow'
  BY <1>1, <1>3, <1>4 DEF Flows, TelemetryFlow, TriggerFlow, arrived, Threads
<1>. QED
  BY <1>1, <1>2, <1>3, <1>5, <1>6 DEF FlowInv, Flows, QueuesAscend

LEMMA TakeTriggerFlow ==
    ASSUME IInv, FlowInv, TakeTrigger
    PROVE  FlowInv'
<1>. DEFINE t == "ota_agent"
            x == Head(ota_q)
<1>1. /\ ota_q \in Seq(Nat) /\ commands \in Nat /\ Take(t, ota_q)
      /\ ota_q' = Tail(ota_q) /\ UNCHANGED <<can_frame_q, telemetry_q, anomaly_q>>
  BY FlowTypes DEF IInv, TakeTrigger
<1>2. QueuesAscend
  BY DEF FlowInv
<1>3. /\ main # "killed" /\ main' = main /\ UNCHANGED arrived
      /\ x \in Range(ota_q) /\ Ascending(ota_q')
      /\ Range(ota_q') = Range(ota_q) \ {x}
      /\ Below({x}, Range(ota_q) \ {x})
      /\ reached'[t] = reached[t] \cup {x}
      /\ \A u \in Threads : u # t => reached'[u] = reached[u]
      /\ \A u \in {"can_reader", "cmd_handler", "main"} : InHand(u)' = InHand(u)
      /\ TelemetryHand' = TelemetryHand
  BY <1>1, <1>2, TakeFacts DEF QueuesAscend
<1>4. Flows
  BY <1>3 DEF FlowInv
<1>5. TriggerFlow'
  <2>1. Stages(reached[t] \cup {x}, Range(ota_q) \ {x}, {}, {}, InHand("cmd_handler") \cap Triggers,
               Items(commands) \cap Triggers, commands)
    BY <1>1, <1>3, <1>4, MovesFromB DEF Flows, TriggerFlow
  <2>. QED
    BY <1>1, <1>3, <2>1 DEF TriggerFlow, arrived
<1>6. TelemetryFlow' /\ AnomalyFlow'
  BY <1>1, <1>3, <1>4 DEF Flows, TelemetryFlow, AnomalyFlow, arrived, Threads
<1>. QED
  BY <1>1, <1>2, <1>3, <1>5, <1>6 DEF FlowInv, Flows, QueuesAscend

LEMMA FlowStep ==
    ASSUME IInv, FlowInv, [Next]_vars
    PROVE  FlowInv'
<1>1. CASE StartModule \/ StartFails \/ CheckGRunning \/ PopTimeout
  <2>1. /\ UNCHANGED <<holds, queues, arrived, reached>>
        /\ main \in {"start", "check", "pop"} /\ main' # "push_telemetry"
    BY <1>1 DEF StartModule, StartFails, NextStart, CheckGRunning, PopTimeout, MainFrom
  <2>. QED
    BY <2>1, FlowKept
<1>2. CASE StopModule \/ Join \/ Disconnect \/ Destroy \/ Return
  <2>1. /\ UNCHANGED <<holds, queues, arrived, reached>>
        /\ main \in {"stop", "join", "disconnect", "destroy", "return"} /\ main' # "push_telemetry"
    BY <1>2 DEF StopModule, Join, Disconnect, Destroy, Return, MainFrom
  <2>. QED
    BY <2>1, FlowKept
<1>3. Main => FlowInv'
  BY <1>1, <1>2, PopFrameFlow, PushTelemetryFlow, PushAnomalyFlow DEF Main
<1>4. ASSUME NEW t \in Threads, Thread(t)
      PROVE  FlowInv'
  <2>1. CASE CheckRunning(t) \/ TakeNothing(t)
    BY <2>1, FlowKept DEF CheckRunning, TakeNothing, control
  <2>2. CASE Finish(t)
    <3>1. /\ main # "killed" /\ main' = main /\ UNCHANGED <<queues, arrived, reached>>
          /\ \A u \in {"can_reader", "cmd_handler", "main"} : InHand(u)' = InHand(u)
      <4>1. /\ t \in {"telemetry_pub", "anomaly_det", "ota_agent"}
            /\ holds' = [holds EXCEPT ![t] = 0] /\ holds \in [Threads \cup {"main"} -> Nat]
        BY <2>2, FlowTypes DEF Finish, Hold, IInv
      <4>2. \A u \in {"can_reader", "cmd_handler", "main"} : InHand(u)' = InHand(u)
        BY <4>1 DEF InHand, Threads
      <4>. QED
        BY <2>2, <4>2 DEF Finish, Goto, Up, Gone, control
    <3>2. TelemetryHand' = TelemetryHand
      BY <3>1 DEF TelemetryHand
    <3>3. Flows'
      BY <3>1, <3>2 DEF FlowInv, Flows, TelemetryFlow, AnomalyFlow, TriggerFlow, queues, arrived
    <3>. QED
      BY <3>1, <3>3 DEF FlowInv, QueuesAscend, queues
  <2>. QED
    BY <1>4, <2>1, <2>2, ReadFrameFlow, PushFrameFlow, ConsumeCommandFlow, RouteCommandFlow,
       TakeSignalFlow, TakeForAnomalyFlow, TakeTriggerFlow DEF Thread
<1>5. CASE Signal \/ Uncaught \/ UNCHANGED vars
  BY <1>5, FlowKept DEF Signal, Uncaught, Killed, vars, control
<1>. QED
  BY <1>3, <1>4, <1>5 DEF Next

\* Where everything that came in is, and that it is there in order.
LEMMA FlowHolds == Spec => []FlowInv
BY InitFlow, FlowStep, IInvHolds, PTL DEF Spec

LEMMA UnionOfFive ==
    ASSUME NEW A, NEW B, NEW C, NEW D, NEW E
    PROVE  A \cup B \cup C \cup D \cup E \subseteq UNION Range(<<A, B, C, D, E>>)
<1>. DEFINE p == <<A, B, C, D, E>>
<1>1. DOMAIN p = 1..5 /\ p[1] = A /\ p[2] = B /\ p[3] = C /\ p[4] = D /\ p[5] = E
  OBVIOUS
<1>. HIDE DEF p
<1>2. A \in Range(p) /\ B \in Range(p) /\ C \in Range(p) /\ D \in Range(p) /\ E \in Range(p)
  BY <1>1 DEF Range
<1>3. A \cup B \cup C \cup D \cup E \subseteq UNION Range(p)
  BY <1>2
<1>. QED
  BY <1>3 DEF p

LEMMA UnionOfThree ==
    ASSUME NEW A, NEW B, NEW C
    PROVE  A \cup B \cup C \subseteq UNION Range(<<A, B, C>>)
<1>. DEFINE p == <<A, B, C>>
<1>1. DOMAIN p = 1..3 /\ p[1] = A /\ p[2] = B /\ p[3] = C
  OBVIOUS
<1>. HIDE DEF p
<1>2. A \in Range(p) /\ B \in Range(p) /\ C \in Range(p)
  BY <1>1 DEF Range
<1>3. A \cup B \cup C \subseteq UNION Range(p)
  BY <1>2
<1>. QED
  BY <1>3 DEF p

\* Every frame with a wanted signal is on its way to both of its consumers or with them, and
\* every trigger to OtaAgent, whatever the threads, main() and the shutdown do in between.
THEOREM AllOnTheirWay == Spec => []NothingLost
<1>1. ASSUME FlowInv
      PROVE  NothingLost
  <2>. SUFFICES ASSUME main # "killed"
                PROVE  \A t \in {"telemetry_pub", "anomaly_det", "ota_agent"} :
                          Wanted(t) \subseteq UNION Range(Path(t))
    BY DEF NothingLost
  <2>1. Flows
    BY <1>1 DEF FlowInv
  <2>2. Wanted("telemetry_pub") \subseteq UNION Range(Path("telemetry_pub"))
    <3>1. Path("telemetry_pub") = <<reached["telemetry_pub"], Range(telemetry_q), TelemetryHand,
                                    Range(can_frame_q), InHand("can_reader")>>
      BY DEF Path, TelemetryHand
    <3>2. Wanted("telemetry_pub") \subseteq
             reached["telemetry_pub"] \cup Range(telemetry_q) \cup TelemetryHand
                \cup Range(can_frame_q) \cup InHand("can_reader")
      BY <2>1 DEF Wanted, Flows, TelemetryFlow, Stages
    <3>. QED
      BY <3>1, <3>2, UnionOfFive
  <2>3. Wanted("anomaly_det") \subseteq UNION Range(Path("anomaly_det"))
    <3>1. Path("anomaly_det") = <<reached["anomaly_det"], Range(anomaly_q), InHand("main"),
                                  Range(can_frame_q), InHand("can_reader")>>
      BY DEF Path
    <3>2. Wanted("anomaly_det") \subseteq
             reached["anomaly_det"] \cup Range(anomaly_q) \cup InHand("main")
                \cup Range(can_frame_q) \cup InHand("can_reader")
      BY <2>1 DEF Wanted, Flows, AnomalyFlow, Stages
    <3>. QED
      BY <3>1, <3>2, UnionOfFive
  <2>4. Wanted("ota_agent") \subseteq UNION Range(Path("ota_agent"))
    <3>1. Path("ota_agent") = <<reached["ota_agent"], Range(ota_q),
                                InHand("cmd_handler") \cap Triggers>>
      BY DEF Path
    <3>2. Wanted("ota_agent") \subseteq
             reached["ota_agent"] \cup Range(ota_q) \cup (InHand("cmd_handler") \cap Triggers)
      BY <2>1 DEF Wanted, Flows, TriggerFlow, Stages
    <3>. QED
      BY <3>1, <3>2, UnionOfThree
  <2>. QED
    BY <2>2, <2>3, <2>4
<1>. QED
  BY <1>1, FlowHolds, PTL

\* What a place further on than the first holds is larger than all that is there.
LEMMA FirstComesFirst ==
    ASSUME NEW A, NEW B, NEW C, NEW D, NEW E, NEW W, NEW n \in Nat, Stages(A, B, C, D, E, W, n)
    PROVE  \A x \in A, y \in W : y < x => y \in A
<1>. SUFFICES ASSUME NEW x \in A, NEW y \in W, y < x, y \notin A
              PROVE  FALSE
  OBVIOUS
<1>1. y \in B \cup C \cup D \cup E
  BY DEF Stages
<1>2. x < y
  BY <1>1 DEF Stages, Below
<1>3. x \in Nat /\ y \in Nat
  BY <1>1 DEF Stages
<1>. QED
  BY <1>2, <1>3

\* Both consumers of a frame take the frames of the bus in order and without a gap, and
\* OtaAgent its triggers.
THEOREM ConsumedInOrder == Spec => []TakenInOrder
<1>1. ASSUME IInv, FlowInv, main # "killed"
      PROVE  TakenInOrder
  <2>1. Flows /\ frames \in Nat /\ commands \in Nat
    BY <1>1, FlowTypes DEF FlowInv, IInv
  <2>2. \A n \in reached["telemetry_pub"], m \in Wanted("telemetry_pub") :
           m < n => m \in reached["telemetry_pub"]
    BY <2>1, FirstComesFirst DEF Flows, TelemetryFlow, Wanted
  <2>3. \A n \in reached["anomaly_det"], m \in Wanted("anomaly_det") :
           m < n => m \in reached["anomaly_det"]
    BY <2>1, FirstComesFirst DEF Flows, AnomalyFlow, Wanted
  <2>4. \A n \in reached["ota_agent"], m \in Wanted("ota_agent") :
           m < n => m \in reached["ota_agent"]
    BY <2>1, FirstComesFirst DEF Flows, TriggerFlow, Wanted
  <2>. QED
    BY <2>2, <2>3, <2>4 DEF TakenInOrder
<1>2. Init => TakenInOrder
  BY <1>1, InitFlow, InitType, InitOrder DEF IInv, Init
<1>3. ASSUME IInv, FlowInv, TakenInOrder, [Next]_vars, IInv', FlowInv'
      PROVE  TakenInOrder'
  <2>1. CASE main' # "killed"
    <3>1. ASSUME NEW t \in {"telemetry_pub", "anomaly_det", "ota_agent"},
                 NEW n \in reached'[t], NEW m \in Wanted(t)', m < n
          PROVE  m \in reached'[t]
      <4>1. Flows' /\ frames' \in Nat /\ commands' \in Nat
        BY <1>3, <2>1, FlowTypes DEF FlowInv, IInv, TypeOK
      <4>. QED
        BY <3>1, <4>1, FirstComesFirst DEF Flows, TelemetryFlow, AnomalyFlow, TriggerFlow, Wanted
    <3>. QED
      BY <3>1 DEF TakenInOrder
  <2>2. CASE main' = "killed"
    <3>1. UNCHANGED <<arrived, reached>>
      BY <1>3, <2>2 DEF Next, Main, StartModule, StartFails, NextStart, CheckGRunning, PopFrame,
         PopTimeout, PushTelemetry, PushAnomaly, StopModule, Join, Disconnect, Destroy, Return, MainFrom,
         Signal, Uncaught, Killed, vars, Thread, CheckRunning, TakeNothing, Finish, ReadFrame,
         PushFrame, ConsumeCommand, RouteCommand, TakeSignal, TakeForAnomaly, TakeTrigger, Take,
         Goto, Up, Gone, control
    <3>. QED
      BY <1>3, <3>1 DEF TakenInOrder, Wanted, arrived
  <2>. QED
    BY <2>1, <2>2
<1>. QED
  BY <1>2, <1>3, IInvHolds, FlowHolds, PTL DEF Spec
=============================================================================
