# Formal model of the SDV edge gateway

TLA+ specifications of the vehicle gateway in this repository, TLC
configurations that check them on small instances, and proofs that TLAPS checks
for every value of the constants. Line numbers are those of `PROJECT.json`,
which maps every definition to the code it stands for.

1. The system
2. Modules, and how they correspond to the code
3. The runs: what each checks, its bounds, the fairness it assumes
4. Where code and documents disagree
5. What is proved, and how
6. What is only model-checked, and what is not modelled
7. Plan

## 1. The system

The gateway is one process of seven threads on a Raspberry Pi. They talk through
four unbounded `SafeQueue`s that `main` owns, one MQTT connection with a
persistent session, and two CAN sockets:

    CAN --> CanReader --can_frame_q--> main (SignalDecoder) --telemetry_q--> TelemetryPublisher --MQTT--> cloud
                                                  \----------anomaly_q----> AnomalyDetector ----MQTT--> cloud
    CAN <-- CanWriter <-- CommandHandler <--MQTT-- cloud (commands, diagnosis)
                                \-----ota_q-----> OtaAgent --MQTT (status)--> cloud

| component | state | operations | what makes it hard | what makes it correct |
|---|---|---|---|---|
| **OtaAgent** `gateway/ota_agent.cpp` | the files download, backup and installed, the command at hand, `running_` | one worker: parse, preconditions, download, SHA-256, backup, flash, rollback, status reports; `start`, `stop` | every step may fail, a copy is neither atomic nor durable, the process may die and the power fail anywhere, eight exits from one loop body, a publish without timeout | only what was asked for is flashed; there is something to roll back to; what the cloud is told is so; no exit leaves the worker stuck |
| **CommandHandler** `gateway/command_handler.cpp` | duplicate guard `seen_ids_` (200 ids), subscriptions, the library's consumer queue | `start`, `run` (consume, parse, guard, route), `stop` | QoS 1 redelivers, acknowledgements get lost, the guard is bounded and in memory, `stop()` runs beside the loop, the broker may be silent | an id takes effect once while the guard remembers it; nothing after the join; bad messages hold up nobody; `stop()` returns |
| **CanWriter** `can_layer/can_writer.cpp` | its socket | `start`, `write`, `stop` | called by another thread, a write may be refused or cut short | one frame per command or none |
| **SafeQueue** `common/safe_queue.hpp` | `std::queue`, mutex, condition variable, `shutdown_` | `push`, `pop`, `pop_for`, `try_pop`, `shutdown` | wakeups, timeouts that race with pushes, several consumers | FIFO, each item to one consumer; "nothing" is answered truthfully; no lost wakeup; shutdown frees all |
| **TelemetryPublisher** `gateway/telemetry_publisher.cpp` | newest reading of each signal, gear, time of the last publish | `run` (pop, accumulate, decide, publish), `start`, `stop` | two reasons to publish, a loop that waits in between, publishes that fail or repeat | newest readings, each once, none held too long |
| **OfflineBuffer** `gateway/offline_buffer.cpp` | a SQLite table with a ceiling | `store`, `drain`, `mark_sent`, `pending_count` | crash between steps, eviction, rows that do not parse, errors half-way | the newest rows survive, oldest first, nothing marked sent that was not |
| **AnomalyDetector** `gateway/anomaly_detector.cpp` | the ONNX session | `run` (infer, threshold, publish) | exceptions of the runtime, a publish without timeout | an alert for exactly the scores above the threshold |
| **CanReader** `can_layer/can_reader.cpp` | socket, `running_` | `run` (read, translate, push) | short frames, flag bits, a socket that only returns errors | frames pushed as received, in order |
| **SignalDecoder** `can_layer/signal_decoder.cpp` | the DBC table | `load`, `decode` | bit extraction, sign extension, 8-bit positions, short frames | the value the DBC defines |
| **main** `main.cpp` | the queues, `g_running` | start in order, decode loop, stop in order | a module that fails to start, signals during startup, the stop order | every thread joined, no thread uses what was closed, only the broker can hold up the end |
| **diagnostic agent** `cloud/lambda/diagnostic_agent.py` | none; the operator's and the vehicle's topics | diagnose an anomaly, publish or escalate | invoked by a rule, more than once for an alert; three services that fail; the loop back to the vehicle, a human in it | a CRITICAL diagnosis passes a human first; what it answers is so |

The remaining parts (dashboard, provisioning scripts, tools, logging helpers,
vendored JSON libraries, deployment data) are listed in `PROJECT.json` with the
reason they are left out. `hazards` there lists what is hard to test in this code,
at the line where it bites, with the properties that would notice.

## 2. Modules

| module | what it is |
|---|---|
| `Updater` | what the update worker promises the cloud and the vehicle: an abstract specification |
| `OtaAgent` | the update worker, its files, process death and restart; implements `Updater` |
| `AtMostOnce` | what the downlink promises who publishes a command: an abstract specification |
| `CommandHandler` | the command downlink, with `CanWriter::write()`, broker and MQTT library; implements `AtMostOnce` |
| `Fifo` | what a `SafeQueue` promises: the abstract specification |
| `SafeQueue` | mutex, condition variable and all operations; implements `Fifo` |
| `Uplink` | what the publisher promises the cloud: an abstract specification |
| `TelemetryPublisher` | the telemetry uplink, in real time; implements `Uplink` |
| `ReplayStore` | what the buffer promises: the abstract specification |
| `OfflineBuffer` | the SQLite table of unsent telemetry, errors, crashes and power losses; implements `ReplayStore` |
| `SignalDecoder` | from the kernel's frame to signals: CanReader's translation, `load()` and `decode()` |
| `Escalation` | who is told what of a score: an abstract specification |
| `AnomalyLoop` | from a signal to an alert, to the cloud's diagnosis, to an operator or back to the vehicle; implements `Escalation` |
| `Gateway` | the process: six modules started and stopped in order, the decode loop, five threads, what they share |
| `MC...` | constants of the small instances |
| `OtaAgentProofs`, `CommandHandlerProofs`, `SafeQueueProofs`, `TelemetryPublisherProofs`, `OfflineBufferProofs`, `SignalDecoderProofs`, `AnomalyLoopProofs`, `GatewayProofs` | the theorems |

Definitions with the comment *mutation* are not part of a specification. Each is a
plausible bug, and shows that a property can fail; `PROJECT.json` pairs them.

### OtaAgent and Updater

`pc` follows `run()` statement by statement as far as a statement touches a file,
the queue or the cloud. A file is the image it holds, `Torn` or `None`.
`copy_file` opens its target with truncation and writes in place, so it is a step
that makes the target `Torn` and a step that completes it; it may throw before or
between (that includes a full disk, a missing source, and a target that is a
running executable, which is what the default path is). `Transfer` lets the server
send any image or part of one, with or without an error. `Report` is
`report_status()`: the broker has the status or not, and the worker goes on in
both cases. `Crash` is the death of the process, which loses the queue and no file; an exception that
leaves `run()` is a crash too. `PowerLoss` is another matter: `copy_file` syncs nothing, so the image is on
disk (`durable`) only after a `Sync` at a moment the kernel chooses, and a slot that was not synced is found
new, old, or torn (`FoundAfter`); download and backup, in `/tmp`, are found whole, torn or not at all. The cloud may
have been told COMPLETE by then.

Not in the model: battery and speed preconditions (the code has none, so
`CheckPreconditions` is a free choice), the URL and the size of a file, the log.
`Enqueue` is CommandHandler's push; a command that passes the duplicate guard
twice is two triggers.

`Updater` has the queue, the active slot and what the cloud was told, and neither the statements
of `run()` nor the download and backup files. Its `phase` (`idle`, `preparing`, `writing`, `written`,
`off`) is `Phase`, read off `pc`. An update goes through the progress reports in order, each heard or not;
it may be refused while the slot is what it was, it may write the image that was asked for, it may go
back, and each end is reported only where it is so. In `ROLLED_BACK` the slot may be torn: that is what
the code does (`ota_rollback`). The death of the process (`Die`) may come at any step and changes no file: where
the slot is torn, `BeginWriting` has torn it before. What has settled (`settled`, `Settle`) a power loss cannot
take (`LosePower`); a slot that has not is afterwards what it was, what had settled, or torn.

### CommandHandler and AtMostOnce

The handler thread, the thread that calls `start()` and `stop()`, and the
environment: `Publish` by the cloud, `Deliver` by the broker, `Crash`. The broker keeps
a QoS 1 message while it is not acknowledged (`acked` is a choice, so a
delivery can be repeated) and only for topics the session subscribes to; the
session is persistent, so subscriptions survive the process unless `Unsubscribe`
removes them. The library drops what comes while its consumer queue is off. A
message is its kind, its topic and its correlation id. `effects` lists what reached
the vehicle: a CAN frame or a trigger in `ota_queue`. `epoch` is its length when the
duplicate guard was last empty, since a full guard is emptied by design
(`command_handler.hpp:90-94`). A start that fails (`StartFails`) makes `main()` return, and the
destructor's `stop()` unsubscribes as any other does.

`AtMostOnce` knows no broker, deliveries, inbox or `stop()`. It opens with an empty memory, accepts what
was published under an id it does not remember, owes the vehicle the command it accepted last, and performs
or abandons it once; an OTA trigger cannot be abandoned, since a push does not fail. It closes when
`stop()` has joined the thread, or by death (`Serving`). Nothing takes effect while it is closed.

### SafeQueue and Fifo

A thread is at most in one of: outside, waiting for the mutex (`lock`), inside a
critical section (`push`, `check`, `take`), about to notify, blocked (`waiting`).
Each change of shared state between two mutex operations is one step; releasing
the mutex and blocking is one, as the condition variable guarantees. `push()` notifies
after it has unlocked, and the waiter it wakes is any. `Fifo` has neither mutex nor
condition variable: its callers see `Put`, `Call`, `Take`, `GiveUp`, `Return` and
`Close`. `Implements` is `Fifo`'s specification with `queue`, `shut` and `result` for
its variables. `NoLostWakeup` counts: while a consumer is blocked, there are at least as many
producers that have still to notify and consumers that have still to look as there are items.

### TelemetryPublisher and Uplink

A reading is a signal with a position, 1 for the first of its signal. The
accumulators hold positions, 0 for "absent"; so does a message, whose absent signals
the cloud sees as `0.0`. Time is counted in ticks and passes while the thread waits
in `pop_for()` on an empty queue; the clock is restarted at the end of
`publish_now()` as in the code, so the length of a publish does not matter.
`elapsed` stops at the interval and `age` at `HoldingTime`, which is as far as any
guard or property looks. `PublishFails` gives up what was accumulated, `Transmit` is the
retransmission of QoS 1. `Decode` is main's push into `telemetry_q`.

`Uplink` has no accumulators, timer or queue. A message shows of each signal what was taken in since
the last one (`News`), never nothing at all, and does not change while it is with the network; whether
that settles it or gives it up is the same to the next. `NewestReadingPublished` and `NoReadingTwice`
follow from it and are kept for the theorems that state them.

### OfflineBuffer and ReplayStore

`rows` is the table and `seq` SQLite's AUTOINCREMENT counter. `store()` is three
autocommitted statements, so three steps: count (`Store`), delete (`Evict`), insert
(`InsertRow`, `InsertFails`). A count that fails answers 0 and a delete that fails is not
looked at; both are `SkipEviction`, which `failures` counts. The database runs in WAL
mode with `synchronous=NORMAL`: `Crash` loses the process and no commit, `PowerLoss`
goes back to `disk`, the last commit known to be on disk, which `Sync` moves up at any
moment. Going back gives out ids a second time, and that is why the caller's `batch`
matters: it holds ids across later stores and evictions.

No component calls the buffer yet. Its caller is modelled by what the schema says of
`sent` ("ACK'd by broker"): one thread that stores, drains, publishes and marks what was
acknowledged. `drain()` returns rows in order; `batch` is a set, since the caller may stop
anywhere in it. A drained row's payload is the message, or nothing when `from_json()`
refuses it (`Unreadable`: a NaN is written as nothing, and the text does not parse).
An `open()` that fails changes nothing, but when only the schema fails `db_` stays set;
the statements then fail one by one, as the error branches of the actions allow.

`ReplayStore` has neither table nor statements: entries are pending, handed out, delivered. An entry is
added only while there is room: no more than `Capacity` are pending, and one more for each drop that failed
(`failures`, the skipped evictions), so the ceiling is part of what is implemented.
An entry leaves the pending ones in three ways only: acknowledged after the broker had that
very message, dropped as the oldest of a full store, or by a return to what was saved. `Implements`
is its specification, with the unsent rows for `pending`, those on disk for `saved` and `batch` for
`out`.

### SignalDecoder

A byte is the set of its bits that are 1, and so is a 64-bit integer; a `uint8_t` position is a
number modulo 256. A DBC file is the sequence of its lines, each a message, a signal, or something
neither pattern matches. `load()` takes a line per step; `Receive` is `CanReader::run()` between
`read()` and `push()`: it masks the flags off and copies `can_dlc` bytes over what the `CanFrame`
on the stack holds (`Leftovers`). `decode()` goes through its unordered map in any order and
takes a bit per step. Scale, offset and unit are applied to the integer the model ends with.
`ConstantsAssumption` says what a DBC file for frames of 8 bytes holds: start bits below 64, lengths
from 1 to 64. A length of 0 would shift by -1, and narrowing these numbers to `uint8_t` takes nothing away. A
line whose numbers `std::stoul` or `std::stod` refuses (`converts`) terminates the gateway: `ConversionThrows`,
since nobody catches.

### AnomalyLoop and Escalation

AnomalyDetector's thread, the rule of `create_infrastructure.py`, `lambda_handler()` for any number
of invocations at a time, and `handle_diagnosis()`. The network gives a signal any score or NaN, or
throws, which nobody catches. The rule engine may invoke the agent more than once for an alert, and a killed
invocation is repeated; each invocation gets its own answer from the language model. Each
service may fail before or after its effect. `event` is the shape in which an invocation finds the
alert: `flat` is what this repository's rule hands over, `wrapped` what the agent's code looks
for. A rule of the same name that exists already is kept, whatever its SQL, so both occur. The rule is
taken to have its Lambda action, which `create_infrastructure.py:177` adds only when it is given an ARN.

`Escalation` has no threads, events or status codes. A signal is judged once; while it is `due` no other is
judged, and it is reported with its severity or withheld. A case (an invocation) gets one verdict, and then the
human or the vehicle is told, at most once; which of them, score and verdict decide. `AlertsTruthful` follows from it.

### Gateway

`main` is where `main()` stands and `step` the module it starts or stops. A module that
cannot be started (`StartFails`: no socket, no subscription, no connection) makes `main()` return, and
then the destructors stop what runs, in the reverse of the order of *declaration*
(`Teardown`); only AnomalyDetector may be missing. After the shutdown the destructors call `stop()` once more
(`Destroy`): threads and sockets are gone by then, but `~CommandHandler` unsubscribes, on the connection that `main()` has
closed; the client refuses and `stop()` catches it. The five threads have one shape,
`while (running_) { take; work }`, and so one set of actions: `CheckRunning`, `TakeNothing` for a
timeout, a read error or a short frame, an action for what each takes in, and `Finish`. The
work of OtaAgent, CommandHandler and TelemetryPublisher is detailed in the modules
of these names; here it is what it does to the queues. It may wait for the broker without end (`AwaitsBroker`), and so may `main()`, for the
SUBSCRIBE of CommandHandler and for the disconnect. A queue is the
`Fifo` of above, so a timeout happens on an empty queue only. A frame stands for the wanted signals in it,
which the decode loop pushes to two queues in two steps; `Undecoded` frames have none. `Signal`
sets `g_running`, or ends the process before the handlers are installed and
during destruction after a failed start (the handlers are not installed then);
`Uncaught` is an exception of ONNX Runtime or `std::filesystem`, which no `run()` catches.
The history `reached` records what a thread has taken. `Path` lists the places where an item
may be on its way to a thread, queues and hands, and `NothingLost` says that whatever came in is in one of
them; it fails when any thread or `main()` drops something between two queues.

Not in the model: reading the configuration, connecting, loading the DBC file (`main()` returns
with nothing started when one of them fails), the contents of frames and signals, and
reconnections, which the MQTT library does by itself.

## 3. The runs

| run | instance | shows |
|---|---|---|
| `ota` | two images, three triggers (an update, one back to the factory image, a broken manifest), any two of them in either order, two crashes or power losses | `OnlyRequestedInstalled`, `BackupHoldsPrevious`, `CompleteMeansInstalled`, `FailedMeansUntouched`, `Implements`, and with fairness `EveryTriggerTaken`, `OnlyBrokerHoldsUpStop` |
| `commands` | any two of five messages, one of each kind; guard of one, two deliveries, two process lives | `NoDoubleExecution`, `Implements`, and with fairness `EveryMessageConsumed`, `StopReturns` |
| `queue` | two producers of one item, one consumer of each kind | `Implements`, `NoLostWakeup`, and with fairness `NoItemStranded`, `ShutdownReleases` |
| `telemetry` | two numeric signals and the gear, two readings of each, interval 2 s, wait 1 s, half-second ticks | `Implements`, `NoReadingHeldTooLong` |
| `buffer` | ceiling of three rows, six messages (two in a row do not parse), `drain(2)`, one skipped eviction | `NewestKept`, `SentWereDelivered`, `ReadableNotBlocked`, `Implements` |
| `gateway` | two frames, the first without a wanted signal; a trigger and a CAN command; every start failure, a signal or an exception at every moment; a broker that may stop answering | `OnlyDestructorUsesClosed`, `NothingLost`, and with fairness `OnlyBrokerHoldsUpShutdown`, `EveryItemTaken` |
| `decoder` | a signal in 60 layouts across byte boundaries, and every file of up to four of seven lines (two messages, one with 29-bit ids, a name defined in either, one whose numbers do not convert), and a load that each kind of line ends; frames of 0 to 3 bytes with five payloads, remote and extended ones, over zeros and ones | `TableMatchesFile`, `BitsAsDefined`, `AllSignalsOnce`; that `SignalBits`, the reference, is the number the DBC format means (`SignalBitsAreTheNumber`, an assumption of the instance that TLC evaluates) |
| `anomaly` | two signals, scores on the threshold, on 0.95, above it and NaN; one alert handed over twice, both shapes | `Implements`, `HumanFirst`, `StatusTruthful`, and with fairness `EverySignalJudged` |
| `ota_rollback`, `ota_power_fail`, `commands_offline`, `anomaly_flat` | as above, some smaller | the divergences of section 4 |

**Why the bounds are enough.** Two updates are the least in which the second finds
what the first left (a new image, a torn slot, an old backup, an old download); the
broken manifest takes the remaining exit; any two of the three are issued. The first death or power loss meets every step, the
second one what the first left behind, and the life after it runs to its end. A guard of one is full with the first id and emptied by the second, so that every case of
`Remember` occurs with two commands, and each pair of kinds has one message wait behind the
other; a second delivery is the first redelivery; two lives cover a restart with a message still
at the broker. Two producers make order visible, three
consumers have every kind race with every other, and more consumers than items leave
one to be released by `shutdown()`. Two
readings of each signal let one replace another; a third signal shows the difference
between "all" and "some". Four ticks per interval and two per wait let the timer
and the wait end at different moments. Six messages fill a table of three, evict, and
fill it again after a power loss; two that do not parse are as many as `drain(2)` looks
at, so both sides of `ReadableNotBlocked`'s condition occur. In `gateway` a frame with signals
follows one without, so the loop is seen to go on, and both kinds of command are there; what can go wrong in
the two stop orders needs a single item under way. Eleven bits from bit 13 on end beyond three
bytes, and a layout that starts at 7 or 8 sits on either side of a byte boundary; four lines are enough to define a
name in two messages and to put a signal before any message. The scores are on and on
either side of both comparisons; two invocations for one alert can disagree. Deadlock is not checked where
the process may end for good or consumers wait for a push nobody owes them (all but `buffer`).

**Fairness.**
- `OtaAgent`: weak fairness of the worker, except where it waits for the broker (`AwaitsBroker`). Its other
  waits are `pop_for(1s)`, a transfer with `CURLOPT_TIMEOUT`, and file copies; `publish()->wait()` has no
  timeout, and nothing is assumed of it. Nothing is assumed of crashes, triggers or `stop()` either.
- `CommandHandler`: weak fairness of the handler thread and of the thread in
  `stop()`. Nothing is assumed of the broker: each unsubscribe waits one second at
  most, and that is what `StopReturns` is about.
- `SafeQueue`: inside a call threads are scheduled, and a thread that finds the
  mutex free again and again gets it (strong fairness of `Lock`). Nobody must call
  anything, no spurious wakeup or timeout helps.
- `AnomalyLoop`: weak fairness of the detector's thread, except in its publish, which waits for the
  broker without a timeout; of the first invocation for an alert (the rule engine
  delivers at least once), of an invocation's steps until it is killed, and of
  `handle_diagnosis()` while the gateway runs. No second invocation has to come.
- `Gateway`: weak fairness of `main()` and of each thread, except where they wait for the broker. Reads and
  pops have timeouts of a second or less, joins wait for threads that look at `running_`; the publishes inside
  the work of three threads, and `main()`'s waits for SUBSCRIBE and disconnect, have no timeout, and nothing is assumed
  of them. No signal, frame or command has to come.

So these runs do not show that an update, `stop()` or the shutdown ends, because it need not. They show that a
broker that never answers is the *only* thing that can keep it from ending: each property has an escape for one
wait that lasts for ever (`<>[]AwaitsBroker`) and for no other. Without the escape TLC refutes it (section 4).
`OnlyBrokerHoldsUpStop` has one more, for a worker that dies, and `EveryTriggerTaken` for an agent that is
stopped or dies: the queue is in memory. `EveryItemTaken` also says that a broker that is silent to one
consumer holds up that one and not the other.

## 4. Where code and documents disagree

Each is a run whose property quotes the document and which TLC refutes.

- `RolledBackMeansRestored`: `flash_firmware()` ignores the answer of `rollback()`,
  so ROLLED_BACK is reported although the active slot is torn.
- `PowerFailSafe`: the one installed file is overwritten in place; a process that dies
  during the copy leaves no image. The architecture document promises A/B slots.
- `OfflineCommandsKept`: a graceful stop unsubscribes, so the persistent session queues
  nothing while the gateway is off.
- `CriticalReachesOperator`: the rule hands the alert over as it is, the agent looks for it under
  `payload`, finds an empty object and answers 500: no operator hears of a CRITICAL alert.

Met while modelling, and visible in the models without a run of their own:

**A silent broker hangs updates and shutdown.** `command_handler.hpp:101-106` says of CommandHandler's `stop()` that it
"must never depend on the broker being alive/responsive", a lesson from an earlier hang in a publish.
CommandHandler keeps to it (`StopReturns`). The rest of the gateway does not: `publish()->wait()` in
`ota_agent.cpp:364`, `telemetry_publisher.cpp:214` and `anomaly_detector.cpp:231`, `subscribe()->wait()` in
`CommandHandler::start()` and `disconnect()->wait()` in `main.cpp:216` have no timeout. A broker that keeps the connection
and never answers blocks the update, `OtaAgent::stop()`, whose join waits for that thread, and with it the
whole shutdown. `OnlyBrokerHoldsUpStop` and `OnlyBrokerHoldsUpShutdown` state the hang and that it is the only one.

**A closed connection is used once, after every normal shutdown.** `main()` disconnects, and then `~CommandHandler`
runs `stop()` again, whose `unsubscribe()` is not guarded by `running_` (`command_handler.cpp:23-26`, `:78-92`). The client throws and
`stop()` logs a warning, so it does no harm; `OnlyDestructorUsesClosed` says that no other call does this.

**COMPLETE is told before anything is synced** (`ota_agent.cpp:314`), so a power loss soon after may bring back
the old image, or leave a torn one, on a vehicle the cloud takes for updated.

Also: a DBC line with a number that is too long terminates the gateway at its start (`signal_decoder.cpp:47`, `:61-66`);
unmet preconditions end an update with FAILED where `ota_agent.hpp:58` says deferred; after
a failed rollback the next backup copies the torn slot over the only good image; the
configured `publish_interval_ms` is never read; `publish_now()` speaks of QoS 2 and
uses 1; a full duplicate guard forgets ids before a restart does; `OfflineBuffer` is never called, so
a failed publish loses what was accumulated although `docs/architecture.md:23` says it is
buffered; `mark_sent()` answers true for a row that was evicted; as many rows that do not
parse as `drain()`'s limit block every row behind them; `check_preconditions()` has a TODO where
`safety/ASIL_ANALYSIS.md:22-23` calls the vehicle speed check implemented; `anomaly_q` grows with every frame
when AnomalyDetector has not started; OtaAgent is stopped before CommandHandler, so a trigger
routed in between is never read; a SIGTERM during startup ends the process without any `stop()`;
commands without `correlation_id` share the empty id, so the second of two is dropped as a
redelivery on its first delivery (`command_handler.cpp:171`); rows marked as sent are never deleted and the ceiling does
not count them, so the 2 MB of `docs/architecture.md:37` do not bound the database; preconditions are
not checked again after a download of minutes; `load()` notes the byte order of a signal and `decode()`
ignores it; a message with 29-bit ids has bit 31 set in a DBC file and cleared in a frame, so its signals are
never found, while extended and remote frames are taken for standard ones; a signal that the frame cuts
short is published as if the missing bits were 0; an unsigned 64-bit signal comes out negative; the
diagnosis of a CRITICAL alert is never published after the human has seen it
(`diagnostic_agent.py:19` says "then publish"); of two diagnoses for one alert handed over twice one may
escalate and the other be shown; the agent's handler swallows every error, so the platform has
nothing to retry; the table named `sdv_anomalies` is filled by the same rule and does not notice.

## 5. What is proved

For all values of the constants (any number of images, triggers, messages,
threads, items, crashes, power losses), from the named `ConstantsAssumption` of each
module, which TLC evaluates in the runs. There are no other assumptions. (`SafeQueue`'s
says that the sets of threads are finite, which `NoLostWakeup` needs to count them.)

Six components are shown to implement an abstract specification, each by a theorem
`Refinement == Spec => Implements`: initial states map to initial states, and under the
component's inductive invariant every step maps to a step or a stutter, one lemma or step per action.

- **OtaAgentProofs**: `TypeCorrect`, `OnlyRequested`, `BackupHeld`,
  `CompleteInstalled`, `FailedUntouched`, `StatusForward`, `Refinement`. None of the properties is
  inductive: that a completed flash holds the requested image depends on
  the SHA-256 check several steps earlier and on nobody rewriting the download in
  between. The inductive invariant `IInv` says, for each place of `run()`, what is known
  there: from `backup` to `flash_copy` the download is the requested image, until
  the flash starts the active slot is what it was when the command was taken,
  and from the backup on the backup equals it. Each action keeps each part; the
  properties follow from the invariant at the place where they bite.
  `StatusForward` rests on a second invariant, `StatusInv`: triggers are queued once, those
  not yet taken are unreported, and what the cloud knows of the command at hand ranks
  no higher than the place of `run()` allows. `Refinement` takes both: where `run()` reports
  `COMPLETE`, `FAILED` or `ROLLED_BACK` the invariant gives what `Updater` asks of the slot. For the last it
  has a part of its own: while the slot is being overwritten (`Overwriting`) it is torn or what it was.
- **CommandHandlerProofs**: `TypeCorrect`, `NeverTwice`, `QuietAfterStop`, `Refinement`. `IInv` says
  that the ids of all effects since `epoch` are in the guard, that the message
  about to be routed is in the guard too, and that it has had no effect since
  `epoch`. Accepting a message needs the first, routing it the third. A second part
  says that a joined thread has exited, which gives `QuietAfterJoin`. `Refinement` needs a third,
  `SentInv`: what the broker, the library or the handler holds was published.
- **SafeQueueProofs**: `TypeCorrect` (with mutual exclusion), `Refinement` and `WakeupsKept`. Every
  step is a step of `Fifo` or a stutter. The invariant needed is that a consumer that stands before its answer is in a call, that a consumer
  in the critical section holds the mutex (so the queue does not change under it), and
  that a patient consumer comes to `take` with an empty queue only when the queue is shut.
  `WakeupsKept` is the safety half of `NoItemStranded`, and inductive beside the type invariant. A push adds an item
  and its notifier; a notification that is used turns a notifier into an awake consumer, and one that finds nobody
  waiting makes the claim empty; a consumer that takes goes with its item, and one goes to sleep only
  when the queue is empty. Each case is a lemma on cardinalities of sets that gain or lose an element.
- **TelemetryPublisherProofs**: `TypeCorrect`, `NewestPublished`, `HeldBriefly`,
  `NeverTwice`, `Refinement`. `OrderInv` says that per signal the queue holds ascending readings newer than
  `taken`, and that an accumulator is 0 or `taken` and newer than `latest`. For `Refinement` it also says the
  converse, that a signal with an empty accumulator has been published: then what the accumulators hold is
  `Uplink`'s `News` (`HeldIsNews`). `ClockInv`
  bounds the age of what is held by the clock at each place of `run()`: it started after the
  last publish, so it is no older than `elapsed`, plus the wait under way.
- **OfflineBufferProofs**: `TypeCorrect`, `NewestSurvive`, `CeilingHolds`,
  `MarkedWereDelivered`, `ReadableDrained`. A power loss swaps the table for `disk`, so the
  invariant `Sound` (ids are unique and at most `seq`, the newest are there, marked rows were
  delivered, unsent rows within the ceiling) must hold of both. `CallInv` carries from
  one statement of `store()` to the next that there is room, `BatchInv` that an id the
  caller holds names the row it was read from or none. The step that needs an argument is
  eviction: at least `MaxRows` unsent rows with different ids lie between the oldest and `seq`,
  so the oldest is not among the newest `MaxRows - 1`.
  `Refinement` (`Spec => Implements`) uses the same invariant: a full table is a full store because
  ids are unique, the evicted row is the oldest entry, a new id is larger than any in sight, and
  the row `mark_sent()` finds is, if there is one, the entry acknowledged. An insert has room in the
  abstract store by the bound on unsent rows, which `CeilingHolds` states of the table itself.
- **SignalDecoderProofs**: `TypeCorrect`, `TableCorrect`, `BitsCorrect`, `ResultsComplete`.
  `TableCorrect` needs that `current_can_id` is the id of the block the reader stands in. For
  `BitsCorrect` the loop invariant says that `raw` holds exactly the bits of the frame on the bus
  below `i`; the leftover bytes drop out because a bit is only read below `dlc`, and positions do not wrap
  because start bit and length come from 8 bytes. `ResultsComplete` says that a signal of the frame is in
  `todo` or in `results`, never in both.
- **AnomalyLoopProofs**: `TypeCorrect`, `AlertsCorrect`, `HumanGate`, `StatusCorrect`, `Refinement`. The invariant ties
  each alert to the score it was made from, and for each invocation says what is known where it
  stands: at `vehicle` its alert is no CRITICAL one and its diagnosis does not escalate. Alerts and
  answers of the model never change once there, so this still holds when the diagnosis arrives. `Refinement` also needs
  that an invocation has no verdict before the model's answer, and at `operator` one that, or an alert that, is for a human.
- **GatewayProofs**: `TypeCorrect`, `ClosedIsUnused`, `AllOnTheirWay`, `ConsumedInOrder`, `ForwardOnly`. The inductive invariant has two
  parts. `StartInv`: while `main()` starts modules, those still to come have no thread, and
  CanWriter's socket is open from the second on. `OrderInv`: a module that `stop()` is done
  with (`Down`) has no thread at work, in the stop order as in that of the destructors; the
  connection is open until `main()` disconnects or returns. `ClosedIsUnused` (`OnlyDestructorUsesClosed`) is about
  the threads and about `main()`, which calls the closed connection in `~CommandHandler` and nowhere else; no thread is left
  when modules are destroyed. Closing a socket keeps the property because
  CommandHandler is before CanWriter in both orders, which is the one fact about the orders
  that the proof of `Join` uses.
  `AllOnTheirWay` (`NothingLost`) and `ConsumedInOrder` (`TakenInOrder`: no gap, and first in, first out, all the way
  from the bus to each consumer) come from one invariant, `FlowInv`. The way of an item to a thread is five
  `Stages`, from what was taken back to the hand of the reader: together they hold what came in and is wanted,
  and every number in a stage is below those in the stages behind it. Each action moves the
  smallest element of a stage to the next, which is a lemma on stages (`Arrives`, `MovesFrom...`); that the head of a queue is its
  smallest element is `QueuesAscend`. The decode loop's two pushes are the one place where the two ways differ.
  `ForwardOnly` (`ShutdownForward`) is the safety half of `OnlyBrokerHoldsUpShutdown`: once `main()` stops modules a measure of what
  is left falls with each of its steps, it joins only threads that were told to stop (`ToldInv`), and such a thread has
  at most three steps to its end. What TLC adds is that fairness makes them happen, but for the broker's.

## 6. Not proved, not modelled

Liveness (`EveryTriggerTaken`, `OnlyBrokerHoldsUpStop`, `EveryMessageConsumed`, `StopReturns`,
`NoItemStranded`, `ShutdownReleases`,
`OnlyBrokerHoldsUpShutdown`, `EveryItemTaken`, `EverySignalJudged`) is model-checked only: the prover cannot
reason about fairness and ENABLED. Of `NoItemStranded` and `OnlyBrokerHoldsUpShutdown` the safety half is proved
(`WakeupsKept`, `ForwardOnly`). `StatusForwardOnly`, `QuietAfterJoin`, `CeilingHeld`, `NewestReadingPublished`,
`NoReadingTwice`, `AlertsTruthful`, `TakenInOrder` and `ShutdownForward` are proved and in no run. The first six are about components whose run
checks `Implements`, which says the same and more of what can be seen from outside. Induction over recursively defined data is out of
its reach as well, and so is that `SignalBits` is the number a layout defines (a sum of
powers of two), which TLC evaluates for the layouts and frames of the instance; no module uses a RECURSIVE operator.

Left out of the models: log output, JSON layout, TLS, scale and offset of signals, the normalisation
before the network and the network itself, the texts of prompt and diagnosis, values of commands, SHA-256 itself (two images have different hashes), the memory the
unbounded queues need, and time outside of `TelemetryPublisher`.

## 7. Plan

Done, in the order of what a fault would cost the vehicle: `OtaAgent`/`Updater`, `CommandHandler`/`AtMostOnce`,
`SafeQueue`/`Fifo`, `TelemetryPublisher`/`Uplink`, `OfflineBuffer`/`ReplayStore`, `Gateway`, which puts the threads
together, `SignalDecoder` and `AnomalyLoop`/`Escalation`; each with its proofs. Left:

1. Lemmas about `SignalBits`: the signal does not depend on bits outside of its range.
2. That the threads of `Gateway` are what `OtaAgent` and `TelemetryPublisher` show from outside: one abstract
   worker that all of them implement.
