-------------------------- MODULE SafeQueueProofs --------------------------
(***************************************************************************)
(* Theorems about SafeQueue, for any number of threads and pushes: types,  *)
(* mutual exclusion, that no wakeup is lost, and that it implements Fifo.  *)
(*                                                                         *)
(* The refinement needs what a consumer knows when it reaches the end of   *)
(* its critical section: it is in a call, and if it called pop() there is  *)
(* an item or the queue is shut.  That stays true from the check to the    *)
(* end because only the holder of the mutex touches the queue.             *)
(***************************************************************************)
EXTENDS SafeQueue, FiniteSetTheorems, TLAPS

CallInv ==
    \A c \in Consumers :
        /\ pc[c] # "idle" <=> result[c] = Pending
        /\ pc[c] \notin {"push", "notify"}
        /\ expired[c] => Method[c] = "pop_for"
        /\ pc[c] = "take" /\ Method[c] = "pop" => Ready

ProducerInv ==
    \A p \in Producers :
        /\ pc[p] \notin {"check", "take", "waiting"}
        /\ pc[p] \in {"lock", "push"} => pushes[p] < MaxPush

Inv == TypeOK /\ ProducerInv /\ CallInv

LEMMA SeqFacts ==
    /\ <<>> \in Seq(Items)
    /\ \A s \in Seq(Items), x \in Items : Append(s, x) \in Seq(Items) /\ Append(s, x) # <<>>
    /\ \A s \in Seq(Items) : s # <<>> => Head(s) \in Items /\ Tail(s) \in Seq(Items)
<1>1. <<>> \in Seq(Items)
  OBVIOUS
<1>2. ASSUME NEW s \in Seq(Items), NEW x \in Items
      PROVE  Append(s, x) \in Seq(Items) /\ Append(s, x) # <<>>
  <2>1. Append(s, x) \in Seq(Items) /\ Len(Append(s, x)) = Len(s) + 1 /\ Len(s) \in Nat
    OBVIOUS
  <2>2. Len(<<>>) = 0
    OBVIOUS
  <2>. QED
    BY <2>1, <2>2
<1>3. \A s \in Seq(Items) : s # <<>> => Head(s) \in Items /\ Tail(s) \in Seq(Items)
  OBVIOUS
<1>. QED
  BY <1>1, <1>2, <1>3

\* The four kinds of answer are different.
LEMMA AnswerFacts ==
    /\ NoCall # Pending /\ Nothing # Pending /\ NoCall # Nothing
    /\ \A x : Item(x) # Pending /\ Item(x) # NoCall
    /\ \A x \in Items : Item(x) \in Abstract!Answers
    /\ \A a \in Abstract!Answers : a # Pending
<1>. USE DEF NoCall, Pending, Nothing, Item, Abstract!NoCall, Abstract!Pending,
             Abstract!Nothing, Abstract!Item, Abstract!Answers
<1>1. NoCall.type = "no call" /\ Pending.type = "pending" /\ Nothing.type = "nothing"
  OBVIOUS
<1>2. \A x : Item(x).type = "item"
  OBVIOUS
<1>3. \A a \in Abstract!Answers : a.type = "item"
  OBVIOUS
<1>4. \A x \in Items : Item(x) \in Abstract!Answers
  OBVIOUS
<1>5. NoCall # Pending /\ Nothing # Pending /\ NoCall # Nothing
  BY <1>1
<1>6. \A x : Item(x) # Pending /\ Item(x) # NoCall
  BY <1>1, <1>2
<1>. QED
  BY <1>1, <1>3, <1>4, <1>5, <1>6

LEMMA InitInv ==
    ASSUME Init
    PROVE  Inv
<1>1. pushes \in [Producers -> 0..MaxPush]
  BY ConstantsAssumption DEF ConstantsAssumption, Init
<1>2. \A t \in Threads : ~(pc[t] \in CriticalSection) /\ mutex # t
  BY ConstantsAssumption DEF ConstantsAssumption, Init, CriticalSection, Threads
<1>3. result \in [Consumers -> Abstract!Answers \cup {NoCall, Pending, Nothing}]
  BY DEF Init
<1>4. mutex \in Threads \cup {Nobody} /\ queue \in Seq(Items) /\ shut \in BOOLEAN
  BY SeqFacts DEF Init
<1>5. /\ pc \in [Threads -> {"idle", "lock", "push", "notify", "check", "take", "waiting"}]
      /\ expired \in [Consumers -> BOOLEAN]
  BY DEF Init
<1>6. ProducerInv /\ CallInv
  BY AnswerFacts DEF Init, ProducerInv, CallInv, Threads
<1>. QED
  BY <1>1, <1>2, <1>3, <1>4, <1>5, <1>6 DEF TypeOK, Inv

\* A step of one thread t that does not end in, nor start from, a critical
\* section it did not hold: the mutex stays with whoever stands in one.
LEMMA ProducerStepInv ==
    ASSUME Inv, NEW p \in Producers, ProducerStep(p)
    PROVE  Inv'
<1>. USE ConstantsAssumption DEF ConstantsAssumption, Inv, Threads, CriticalSection, Goto
<1>1. CASE CallPush(p)
  BY <1>1 DEF CallPush, TypeOK, ProducerInv, CallInv, Ready
<1>2. CASE Lock(p, "push")
  BY <1>2 DEF Lock, TypeOK, ProducerInv, CallInv, Ready
<1>3. CASE Push(p)
  <2>1. <<p, pushes[p] + 1>> \in Items
    BY <1>3 DEF Push, PushThen, Items, TypeOK, ProducerInv
  <2>2. queue' \in Seq(Items) /\ queue' # <<>>
    BY <1>3, <2>1, SeqFacts DEF Push, PushThen, TypeOK
  <2>3. pushes' \in [Producers -> 0..MaxPush]
    BY <1>3 DEF Push, PushThen, TypeOK, ProducerInv
  <2>4. mutex = p /\ mutex' = Nobody
    BY <1>3 DEF Push, PushThen, TypeOK
  <2>5. TypeOK'
    BY <1>3, <2>2, <2>3, <2>4 DEF Push, PushThen, TypeOK
  <2>6. ProducerInv'
    BY <1>3 DEF Push, PushThen, TypeOK, ProducerInv
  <2>7. CallInv'
    BY <1>3, <2>2 DEF Push, PushThen, TypeOK, CallInv, Ready
  <2>. QED
    BY <2>5, <2>6, <2>7
<1>4. CASE Notify(p)
  <2>1. CASE Waiters = {}
    <3>1. pc' = [pc EXCEPT ![p] = "idle"] /\ pc[p] = "notify"
      BY <1>4, <2>1, Zenon DEF Notify
    <3>2. UNCHANGED <<mutex, queue, shut, expired, pushes, result>>
      BY <1>4, Zenon DEF Notify
    <3>. QED
      BY <3>1, <3>2 DEF TypeOK, ProducerInv, CallInv, Ready
  <2>2. ASSUME NEW c \in Waiters, pc' = [pc EXCEPT ![p] = "idle", ![c] = "lock"]
        PROVE  Inv'
    <3>1. c \in Consumers /\ pc[c] = "waiting" /\ pc[p] = "notify" /\ c # p
      BY <1>4, <2>2 DEF Notify, Waiters
    <3>2. UNCHANGED <<mutex, queue, shut, expired, pushes, result>>
      BY <1>4 DEF Notify
    <3>. QED
      BY <2>2, <3>1, <3>2 DEF TypeOK, ProducerInv, CallInv, Ready
  <2>. QED
    BY <1>4, <2>1, <2>2 DEF Notify
<1>. QED
  BY <1>1, <1>2, <1>3, <1>4 DEF ProducerStep

LEMMA ConsumerStepInv ==
    ASSUME Inv, NEW c \in Consumers, ConsumerStep(c)
    PROVE  Inv'
<1>. USE ConstantsAssumption DEF ConstantsAssumption, Inv, Threads, CriticalSection, Goto
<1>1. CASE CallPop(c)
  BY <1>1 DEF CallPop, TypeOK, ProducerInv, CallInv, Ready
<1>2. CASE Lock(c, "check")
  BY <1>2 DEF Lock, TypeOK, ProducerInv, CallInv, Ready
<1>3. CASE Check(c)
  BY <1>3 DEF Check, TypeOK, ProducerInv, CallInv, Ready
<1>4. CASE Wait(c)
  BY <1>4 DEF Wait, TypeOK, ProducerInv, CallInv, Ready
<1>5. CASE SpuriousWakeup(c)
  BY <1>5 DEF SpuriousWakeup, TypeOK, ProducerInv, CallInv, Ready
<1>6. CASE Timeout(c)
  BY <1>6 DEF Timeout, TypeOK, ProducerInv, CallInv, Ready
<1>7. CASE Take(c)
  <2>1. /\ mutex = c /\ mutex' = Nobody /\ pc[c] = "take" /\ pc' = [pc EXCEPT ![c] = "idle"]
        /\ UNCHANGED <<shut, expired, pushes>>
    BY <1>7 DEF Take, TypeOK
  <2>2. queue' \in Seq(Items)
    <3>1. queue \in Seq(Items)
      BY DEF TypeOK
    <3>2. UNCHANGED queue \/ (queue # <<>> /\ queue' = Tail(queue))
      BY <1>7 DEF Take
    <3>. QED
      BY <3>1, <3>2, SeqFacts, Zenon
  <2>3. \E a \in Abstract!Answers \cup {Nothing} : result' = [result EXCEPT ![c] = a]
    BY <1>7, SeqFacts, AnswerFacts DEF Take, TypeOK
  <2>4. TypeOK'
    BY <2>1, <2>2, <2>3 DEF TypeOK
  <2>5. ProducerInv'
    BY <2>1 DEF TypeOK, ProducerInv
  <2>6. \A d \in Consumers \ {c} : pc[d] \notin {"check", "take"}
    BY <2>1 DEF TypeOK
  <2>7. CallInv'
    BY <2>1, <2>3, <2>6, AnswerFacts DEF TypeOK, CallInv
  <2>. QED
    BY <2>4, <2>5, <2>7
<1>8. CASE Return(c)
  BY <1>8, AnswerFacts DEF Return, TypeOK, ProducerInv, CallInv, Ready
<1>. QED
  BY <1>1, <1>2, <1>3, <1>4, <1>5, <1>6, <1>7, <1>8 DEF ConsumerStep

THEOREM InvHolds == Spec => []Inv
<1>1. Init => Inv
  BY InitInv
<1>2. Inv /\ [Next]_vars => Inv'
  <2>. SUFFICES ASSUME Inv, [Next]_vars PROVE Inv'
    OBVIOUS
  <2>1. CASE Shutdown
    <3>1. \A t \in Threads : pc[t] \notin CriticalSection
      BY <2>1, ConstantsAssumption DEF ConstantsAssumption, Shutdown, Inv, TypeOK, Threads
    <3>2. \A t \in Threads : \/ pc'[t] = pc[t]
                             \/ t \in Consumers /\ pc[t] = "waiting" /\ pc'[t] = "lock"
      BY <2>1 DEF Shutdown, Waiters
    <3>3. pc' \in [Threads -> {"idle", "lock", "push", "notify", "check", "take", "waiting"}]
      BY <2>1 DEF Shutdown, Inv, TypeOK
    <3>4. shut' = TRUE /\ UNCHANGED <<mutex, queue, expired, pushes, result>>
      BY <2>1 DEF Shutdown
    <3>5. TypeOK'
      BY <3>1, <3>2, <3>3, <3>4 DEF Inv, TypeOK, CriticalSection
    <3>6. ProducerInv'
      BY <3>2, <3>4, ConstantsAssumption DEF ConstantsAssumption, Inv, ProducerInv, Threads
    <3>7. CallInv'
      BY <3>2, <3>4 DEF Inv, CallInv, Ready, Threads
    <3>. QED
      BY <3>5, <3>6, <3>7 DEF Inv
  <2>2. CASE UNCHANGED vars
    BY <2>2 DEF vars, Inv, TypeOK, ProducerInv, CallInv, Ready
  <2>. QED
    BY <2>1, <2>2, ProducerStepInv, ConsumerStepInv DEF Next
<1>. QED
  BY <1>1, <1>2, PTL DEF Spec

\* Types, and mutual exclusion of the critical sections.
THEOREM TypeCorrect == Spec => []TypeOK
<1>1. Inv => TypeOK
  BY DEF Inv
<1>. QED
  BY <1>1, InvHolds, PTL

-----------------------------------------------------------------------------
(* Wakeups *)

LEMMA FiniteThreads ==
    /\ \A S \in SUBSET Producers : IsFiniteSet(S) /\ Cardinality(S) \in Nat
    /\ \A S \in SUBSET Consumers : IsFiniteSet(S) /\ Cardinality(S) \in Nat
BY FS_Subset, FS_CardinalityType, ConstantsAssumption DEF ConstantsAssumption

\* Who waits, who is awake and who has still to notify is a matter of pc only.
LEMMA SamePlaces ==
    ASSUME NoLostWakeup, UNCHANGED <<Waiters, Notifying, Awake, queue, shut>>
    PROVE  NoLostWakeup'
BY DEF NoLostWakeup

\* A consumer that starts to look: one more is awake, and perhaps one less waits.
LEMMA OneMoreAwake ==
    ASSUME NoLostWakeup, Inv, NEW c \in Consumers \ Awake, Awake' = Awake \cup {c},
           Waiters' \subseteq Waiters, UNCHANGED <<Notifying, queue, shut>>
    PROVE  NoLostWakeup'
<1>1. IsFiniteSet(Awake) /\ Cardinality(Awake) \in Nat /\ Cardinality(Notifying) \in Nat
  BY FiniteThreads DEF Awake, Notifying
<1>2. Cardinality(Awake') = Cardinality(Awake) + 1
  BY <1>1, FS_AddElement
<1>3. Len(queue) \in Nat
  BY DEF Inv, TypeOK
<1>. QED
  BY <1>1, <1>2, <1>3 DEF NoLostWakeup

LEMMA ProducerKeepsWakeups ==
    ASSUME Inv, NoLostWakeup, NEW p \in Producers, ProducerStep(p)
    PROVE  NoLostWakeup'
<1>. DEFINE n == Cardinality(Notifying)
            a == Cardinality(Awake)
<1>1. /\ IsFiniteSet(Notifying) /\ n \in Nat
      /\ IsFiniteSet(Awake) /\ a \in Nat
      /\ Len(queue) \in Nat
  BY FiniteThreads DEF Notifying, Awake, Inv, TypeOK
<1>2. p \notin Consumers /\ p \in Threads /\ Consumers \subseteq Threads /\ Producers \subseteq Threads
  BY ConstantsAssumption DEF ConstantsAssumption, Threads
<1>3. pc \in [Threads -> {"idle", "lock", "push", "notify", "check", "take", "waiting"}]
  BY DEF Inv, TypeOK
<1>4. CASE CallPush(p) \/ Lock(p, "push")
  <2>1. UNCHANGED <<Waiters, Notifying, Awake, queue, shut>>
    BY <1>2, <1>3, <1>4 DEF CallPush, Lock, Goto, Waiters, Notifying, Awake
  <2>. QED
    BY <2>1, SamePlaces
<1>5. CASE Push(p)
  <2>1. /\ Notifying' = Notifying \cup {p} /\ p \notin Notifying
        /\ UNCHANGED <<Waiters, Awake, shut>>
    BY <1>2, <1>3, <1>5 DEF Push, PushThen, Goto, Waiters, Notifying, Awake
  <2>2. Len(queue') = Len(queue) + 1
    BY <1>5, ConstantsAssumption
       DEF ConstantsAssumption, Push, PushThen, Goto, Items, Inv, TypeOK, ProducerInv
  <2>3. Cardinality(Notifying') = n + 1
    BY <1>1, <2>1, FS_AddElement
  <2>. QED
    BY <1>1, <2>1, <2>2, <2>3 DEF NoLostWakeup
<1>6. CASE Notify(p)
  <2>1. CASE Waiters = {}
    <3>1. pc' = [pc EXCEPT ![p] = "idle"]
      BY <1>6, <2>1, Zenon DEF Notify
    <3>2. Waiters' = {}
      BY <1>2, <1>3, <2>1, <3>1 DEF Waiters
    <3>. QED
      BY <3>2 DEF NoLostWakeup
  <2>2. ASSUME NEW c \in Waiters, pc' = [pc EXCEPT ![p] = "idle", ![c] = "lock"]
        PROVE  NoLostWakeup'
    <3>1. pc[p] = "notify" /\ UNCHANGED <<queue, shut>>
      BY <1>6 DEF Notify
    <3>2. /\ Notifying' = Notifying \ {p} /\ p \in Notifying
          /\ Awake' = Awake \cup {c} /\ c \notin Awake
          /\ Waiters' \subseteq Waiters
      BY <1>2, <1>3, <2>2, <3>1 DEF Waiters, Notifying, Awake
    <3>3. Cardinality(Notifying') = n - 1 /\ Cardinality(Awake') = a + 1
      BY <1>1, <3>2, FS_RemoveElement, FS_AddElement
    <3>. QED
      BY <1>1, <3>1, <3>2, <3>3 DEF NoLostWakeup
  <2>. QED
    BY <1>6, <2>1, <2>2 DEF Notify
<1>. QED
  BY <1>4, <1>5, <1>6 DEF ProducerStep

LEMMA ConsumerKeepsWakeups ==
    ASSUME Inv, NoLostWakeup, NEW c \in Consumers, ConsumerStep(c)
    PROVE  NoLostWakeup'
<1>1. /\ IsFiniteSet(Awake) /\ Cardinality(Awake) \in Nat
      /\ Cardinality(Notifying) \in Nat
      /\ Len(queue) \in Nat
  BY FiniteThreads DEF Notifying, Awake, Inv, TypeOK
<1>2. c \notin Producers /\ c \in Threads /\ Consumers \subseteq Threads /\ Producers \subseteq Threads
  BY ConstantsAssumption DEF ConstantsAssumption, Threads
<1>3. pc \in [Threads -> {"idle", "lock", "push", "notify", "check", "take", "waiting"}]
  BY DEF Inv, TypeOK
<1>4. CASE CallPop(c) \/ SpuriousWakeup(c) \/ Timeout(c)
  <2>1. /\ pc[c] \in {"idle", "waiting"} /\ pc' = [pc EXCEPT ![c] = "lock"]
        /\ UNCHANGED <<queue, shut>>
    BY <1>4 DEF CallPop, SpuriousWakeup, Timeout, Goto
  <2>2. /\ Awake' = Awake \cup {c} /\ c \notin Awake
        /\ Waiters' \subseteq Waiters /\ Notifying' = Notifying
    BY <1>2, <1>3, <2>1 DEF Waiters, Notifying, Awake
  <2>. QED
    BY <2>1, <2>2, OneMoreAwake
<1>5. CASE Lock(c, "check") \/ Check(c) \/ Return(c)
  <2>1. UNCHANGED <<Waiters, Notifying, Awake, queue, shut>>
    BY <1>2, <1>3, <1>5 DEF Lock, Check, Return, Goto, Waiters, Notifying, Awake
  <2>. QED
    BY <2>1, SamePlaces
<1>6. CASE Wait(c)
  <2>1. queue' = <<>> /\ ~shut'
    BY <1>6 DEF Wait, Ready
  <2>2. Cardinality(Notifying') \in Nat /\ Cardinality(Awake') \in Nat
    BY FiniteThreads DEF Notifying, Awake
  <2>. QED
    BY <2>1, <2>2 DEF NoLostWakeup
<1>7. CASE Take(c)
  <2>1. pc[c] = "take" /\ pc' = [pc EXCEPT ![c] = "idle"] /\ UNCHANGED shut
    BY <1>7 DEF Take, Goto
  <2>2. /\ Awake' = Awake \ {c} /\ c \in Awake
        /\ UNCHANGED <<Waiters, Notifying>>
    BY <1>2, <1>3, <2>1 DEF Waiters, Notifying, Awake
  <2>3. Cardinality(Awake') = Cardinality(Awake) - 1 /\ Cardinality(Awake') \in Nat
    BY <1>1, <2>2, FS_RemoveElement, FiniteThreads DEF Awake
  <2>4. CASE queue = <<>>
    <3>1. queue' = <<>>
      BY <1>7, <2>4 DEF Take
    <3>. QED
      BY <1>1, <2>1, <2>2, <2>3, <3>1 DEF NoLostWakeup
  <2>5. CASE queue # <<>>
    <3>1. Len(queue') = Len(queue) - 1
      BY <1>7, <2>5 DEF Take, Inv, TypeOK
    <3>. QED
      BY <1>1, <2>1, <2>2, <2>3, <3>1 DEF NoLostWakeup
  <2>. QED
    BY <2>4, <2>5
<1>. QED
  BY <1>4, <1>5, <1>6, <1>7 DEF ConsumerStep

\* No wakeup is lost, for any number of threads: an item in the queue never stands
\* beside a waiting consumer without a thread that is on its way, and after shutdown()
\* nobody waits.
THEOREM WakeupsKept == Spec => []NoLostWakeup
<1>1. Init => NoLostWakeup
  BY DEF Init, NoLostWakeup, Waiters, Threads
<1>2. Inv /\ NoLostWakeup /\ [Next]_vars => NoLostWakeup'
  <2>. SUFFICES ASSUME Inv, NoLostWakeup, [Next]_vars
                PROVE  NoLostWakeup'
    OBVIOUS
  <2>1. CASE Shutdown
    <3>1. Waiters' = {}
      BY <2>1 DEF Shutdown, Waiters, Threads
    <3>. QED
      BY <3>1 DEF NoLostWakeup
  <2>2. CASE UNCHANGED vars
    BY <2>2, SamePlaces DEF vars, Waiters, Notifying, Awake
  <2>. QED
    BY <2>1, <2>2, ProducerKeepsWakeups, ConsumerKeepsWakeups DEF Next
<1>. QED
  BY <1>1, <1>2, InvHolds, PTL DEF Spec

-----------------------------------------------------------------------------
(* Refinement *)

LEMMA AbstractInit == Init => Abstract!Init
BY DEF Init, Abstract!Init, NoCall

LEMMA AbstractStep ==
    ASSUME Inv, [Next]_vars
    PROVE  [Abstract!Next]_(Abstract!vars)
<1>. USE DEF Abstract!vars
<1>1. ASSUME NEW p \in Producers, Push(p)
      PROVE  Abstract!Next
  <2>1. <<p, pushes[p] + 1>> \in Items
    BY <1>1, ConstantsAssumption
       DEF ConstantsAssumption, Push, PushThen, Goto, Items, Inv, TypeOK, ProducerInv
  <2>2. Abstract!Put(<<p, pushes[p] + 1>>)
    BY <1>1 DEF Push, PushThen, Abstract!Put
  <2>. QED
    BY <2>1, <2>2 DEF Abstract!Next
<1>2. ASSUME NEW p \in Producers, CallPush(p) \/ Lock(p, "push") \/ Notify(p)
      PROVE  UNCHANGED Abstract!vars
  BY <1>2 DEF CallPush, Lock, Notify
<1>3. ASSUME NEW c \in Consumers, CallPop(c)
      PROVE  Abstract!Call(c)
  BY <1>3 DEF CallPop, Abstract!Call, NoCall, Pending
<1>4. ASSUME NEW c \in Consumers, Take(c)
      PROVE  Abstract!Take(c) \/ Abstract!GiveUp(c)
  <2>1. result[c] = Pending /\ (Method[c] = "pop" => Ready)
    BY <1>4 DEF Take, Goto, Inv, CallInv
  <2>. QED
    BY <1>4, <2>1 DEF Take, Ready, Abstract!Take, Abstract!GiveUp, Pending, Nothing, Item
<1>5. ASSUME NEW c \in Consumers, Return(c)
      PROVE  Abstract!Return(c)
  <2>1. result[c] # Pending
    BY <1>5 DEF Return, Inv, CallInv
  <2>. QED
    BY <1>5, <2>1 DEF Return, Abstract!Return, NoCall, Pending
<1>6. ASSUME NEW c \in Consumers,
             Lock(c, "check") \/ Check(c) \/ Wait(c) \/ SpuriousWakeup(c) \/ Timeout(c)
      PROVE  UNCHANGED Abstract!vars
  BY <1>6 DEF Lock, Check, Wait, SpuriousWakeup, Timeout
<1>7. CASE Shutdown
  BY <1>7 DEF Shutdown, Abstract!Next, Abstract!Close
<1>8. CASE UNCHANGED vars
  BY <1>8 DEF vars
<1>. QED
  BY <1>1, <1>2, <1>3, <1>4, <1>5, <1>6, <1>7, <1>8
     DEF Next, ProducerStep, ConsumerStep, Abstract!Next

\* The mutex-and-condition-variable queue implements the FIFO queue.
THEOREM Refinement == Spec => Implements
<1>. QED
  BY AbstractInit, AbstractStep, InvHolds, PTL DEF Spec, Implements, Abstract!Spec
=============================================================================
