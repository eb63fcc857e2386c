----------------------------- MODULE SafeQueue -----------------------------
(***************************************************************************)
(* The queue between the gateway's threads: common/safe_queue.hpp, a       *)
(* std::queue under a mutex with a condition variable.                     *)
(*                                                                         *)
(* A thread holds the mutex from the step that takes it to the step that   *)
(* ends its critical section.  push() notifies after it has released the   *)
(* mutex.  A wait releases the mutex and blocks in one step; a waiter goes *)
(* on when it is notified, when its timeout expires, or for no reason.     *)
(***************************************************************************)
EXTENDS Naturals, Sequences, FiniteSets

CONSTANTS
    Producers,  \* threads that call push()
    Consumers,  \* threads that take items out
    Method,     \* the operation each consumer calls: pop, pop_for or try_pop
    MaxPush,    \* bound on the pushes of one producer
    Nobody      \* the mutex is free

ASSUME ConstantsAssumption ==
    /\ Producers \cap Consumers = {}
    /\ Nobody \notin Producers \cup Consumers
    /\ IsFiniteSet(Producers) /\ IsFiniteSet(Consumers)
    /\ Method \in [Consumers -> {"pop", "pop_for", "try_pop"}]
    /\ MaxPush \in Nat

VARIABLES
    mutex,      \* mutex_: the thread that holds it
    queue,      \* queue_
    shut,       \* shutdown_
    pc,         \* where each thread stands
    expired,    \* has the consumer's timeout expired?
    pushes,     \* pushes completed by each producer
    result      \* what each consumer's call has answered so far

vars == <<mutex, queue, shut, pc, expired, pushes, result>>

Threads == Producers \cup Consumers
Items == Producers \X (1..MaxPush)

Abstract == INSTANCE Fifo WITH
    closed <- shut,
    Patient <- {c \in Consumers : Method[c] = "pop"}

NoCall == Abstract!NoCall
Pending == Abstract!Pending
Nothing == Abstract!Nothing
Item(x) == Abstract!Item(x)

CriticalSection == {"push", "check", "take"}

\* Types, and that the mutex is held exactly by the thread in a critical section.
TypeOK ==
    /\ mutex \in Threads \cup {Nobody}
    /\ queue \in Seq(Items)
    /\ shut \in BOOLEAN
    /\ pc \in [Threads -> {"idle", "lock", "push", "notify", "check", "take", "waiting"}]
    /\ expired \in [Consumers -> BOOLEAN]
    /\ pushes \in [Producers -> 0..MaxPush]
    /\ result \in [Consumers -> Abstract!Answers \cup {NoCall, Pending, Nothing}]
    /\ \A t \in Threads : pc[t] \in CriticalSection <=> mutex = t

Init ==
    /\ mutex = Nobody
    /\ queue = <<>>
    /\ shut = FALSE
    /\ pc = [t \in Threads |-> "idle"]
    /\ expired = [c \in Consumers |-> FALSE]
    /\ pushes = [p \in Producers |-> 0]
    /\ result = [c \in Consumers |-> NoCall]

-----------------------------------------------------------------------------

Goto(t, from, to) == pc[t] = from /\ pc' = [pc EXCEPT ![t] = to]

Lock(t, to) ==
    /\ Goto(t, "lock", to)
    /\ mutex = Nobody
    /\ mutex' = t
    /\ UNCHANGED <<queue, shut, expired, pushes, result>>

(* push() *)

CallPush(p) ==
    /\ Goto(p, "idle", "lock")
    /\ pushes[p] < MaxPush
    /\ UNCHANGED <<mutex, queue, shut, expired, pushes, result>>

PushThen(p, next) ==
    /\ Goto(p, "push", next)
    /\ queue' = Append(queue, <<p, pushes[p] + 1>>)
    /\ pushes' = [pushes EXCEPT ![p] = @ + 1]
    /\ mutex' = Nobody
    /\ UNCHANGED <<shut, expired, result>>

PushWithoutNotify(p) == PushThen(p, "idle")      \* mutation

Push(p) == PushThen(p, "notify")

Waiters == {c \in Consumers : pc[c] = "waiting"}

\* notify_one(): one waiter, if there is one, goes for the mutex again.
Notify(p) ==
    /\ pc[p] = "notify"
    /\ IF Waiters = {}
         THEN pc' = [pc EXCEPT ![p] = "idle"]
         ELSE \E c \in Waiters : pc' = [pc EXCEPT ![p] = "idle", ![c] = "lock"]
    /\ UNCHANGED <<mutex, queue, shut, expired, pushes, result>>

(* pop(), pop_for() and try_pop() *)

CallPop(c) ==
    /\ Goto(c, "idle", "lock")
    /\ result[c] = NoCall
    /\ result' = [result EXCEPT ![c] = Pending]
    /\ expired' = [expired EXCEPT ![c] = FALSE]
    /\ UNCHANGED <<mutex, queue, shut, pushes>>

\* The predicate of both waits.
Ready == queue # <<>> \/ shut

\* pop_for() looks at the predicate again after its timeout; try_pop() never waits.
Check(c) ==
    /\ Goto(c, "check", "take")
    /\ Ready \/ expired[c] \/ Method[c] = "try_pop"
    /\ UNCHANGED <<mutex, queue, shut, expired, pushes, result>>

WaitHoldingMutex(c) ==      \* mutation
    /\ Goto(c, "check", "waiting")
    /\ ~Ready /\ ~expired[c] /\ Method[c] # "try_pop"
    /\ UNCHANGED <<mutex, queue, shut, expired, pushes, result>>

Wait(c) ==
    /\ Goto(c, "check", "waiting")
    /\ ~Ready /\ ~expired[c] /\ Method[c] # "try_pop"
    /\ mutex' = Nobody
    /\ UNCHANGED <<queue, shut, expired, pushes, result>>

SpuriousWakeup(c) ==
    /\ Goto(c, "waiting", "lock")
    /\ UNCHANGED <<mutex, queue, shut, expired, pushes, result>>

Timeout(c) ==
    /\ Goto(c, "waiting", "lock")
    /\ Method[c] = "pop_for"
    /\ expired' = [expired EXCEPT ![c] = TRUE]
    /\ UNCHANGED <<mutex, queue, shut, pushes, result>>

TakeTrustingTimeout(c) ==      \* mutation
    /\ Goto(c, "take", "idle")
    /\ mutex' = Nobody
    /\ IF queue = <<>> \/ expired[c]
         THEN result' = [result EXCEPT ![c] = Nothing] /\ UNCHANGED queue
         ELSE /\ result' = [result EXCEPT ![c] = Item(Head(queue))]
              /\ queue' = Tail(queue)
    /\ UNCHANGED <<shut, expired, pushes>>

\* The rest of the critical section: nullopt (pop() throws) on an empty queue,
\* the oldest item otherwise.
Take(c) ==
    /\ Goto(c, "take", "idle")
    /\ mutex' = Nobody
    /\ \/ /\ queue = <<>>
          /\ result' = [result EXCEPT ![c] = Nothing]
          /\ UNCHANGED queue
       \/ /\ queue # <<>>
          /\ result' = [result EXCEPT ![c] = Item(Head(queue))]
          /\ queue' = Tail(queue)
    /\ UNCHANGED <<shut, expired, pushes>>

\* The caller has used the answer and may call again.
Return(c) ==
    /\ pc[c] = "idle"
    /\ result[c] # NoCall
    /\ result' = [result EXCEPT ![c] = NoCall]
    /\ UNCHANGED <<mutex, queue, shut, pc, expired, pushes>>

ShutdownNotifyingOne ==      \* mutation
    /\ mutex = Nobody
    /\ ~shut
    /\ shut' = TRUE
    /\ \E t \in Threads :
          /\ Waiters # {} => t \in Waiters
          /\ pc' = IF t \in Waiters THEN [pc EXCEPT ![t] = "lock"] ELSE pc
    /\ UNCHANGED <<mutex, queue, expired, pushes, result>>

\* shutdown(): flag and notify_all() inside one critical section.
Shutdown ==
    /\ mutex = Nobody
    /\ ~shut
    /\ shut' = TRUE
    /\ pc' = [t \in Threads |-> IF t \in Waiters THEN "lock" ELSE pc[t]]
    /\ UNCHANGED <<mutex, queue, expired, pushes, result>>

-----------------------------------------------------------------------------

ProducerStep(p) == CallPush(p) \/ Lock(p, "push") \/ Push(p) \/ Notify(p)

ConsumerStep(c) ==
    \/ CallPop(c) \/ Lock(c, "check") \/ Check(c) \/ Wait(c)
    \/ SpuriousWakeup(c) \/ Timeout(c) \/ Take(c) \/ Return(c)

Next ==
    \/ \E p \in Producers : ProducerStep(p)
    \/ \E c \in Consumers : ConsumerStep(c)
    \/ Shutdown

Spec == Init /\ [][Next]_vars

\* Inside a call every thread is scheduled, and the mutex does not starve a
\* thread for ever.  No waiter is woken for no reason, no timeout helps, and
\* nobody has to call push(), pop() or shutdown().
FairSpec ==
    /\ Spec
    /\ \A p \in Producers : WF_vars(Push(p) \/ Notify(p)) /\ SF_vars(Lock(p, "push"))
    /\ \A c \in Consumers :
          WF_vars(Check(c) \/ Wait(c) \/ Take(c)) /\ SF_vars(Lock(c, "check"))

-----------------------------------------------------------------------------

\* The queue with its mutex and condition variable is a FIFO queue: every step
\* of the threads is one of Fifo's or changes nothing a caller can see.
Implements == Abstract!Spec

Notifying == {p \in Producers : pc[p] = "notify"}
Awake == {c \in Consumers : pc[c] \in {"lock", "check", "take"}}

\* While a consumer waits each item has a thread on its way to it, a producer that has
\* still to notify or a consumer that has still to look; and nobody waits once the queue is
\* shut.  So notifying one waiter after the mutex is released is enough, whoever takes what.
NoLostWakeup ==
    /\ Waiters # {} => Len(queue) <= Cardinality(Notifying) + Cardinality(Awake)
    /\ shut => Waiters = {}

\* No wakeup is lost: items do not sit in the queue for ever while a consumer
\* is inside a call.
NoItemStranded == []<>(queue = <<>> \/ \A c \in Consumers : result[c] # Pending)

\* shutdown() lets every blocked caller go.
ShutdownReleases == \A c \in Consumers : shut /\ result[c] = Pending ~> result[c] # Pending
=============================================================================
