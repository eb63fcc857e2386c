------------------------ MODULE CommandHandlerProofs ------------------------
(***************************************************************************)
(* Theorems about CommandHandler, for any messages, ids and capacity of    *)
(* the duplicate guard, and any number of deliveries and process starts.   *)
(*                                                                         *)
(* That no id takes effect twice is not inductive: it needs that every id  *)
(* with an effect since the guard was emptied is still in the guard, and   *)
(* that the command standing at route() has been put in the guard without  *)
(* having had an effect yet.                                               *)
(***************************************************************************)
EXTENDS CommandHandler, FiniteSetTheorems, TLAPS

SinceEpoch == (epoch + 1)..Len(effects)

\* The handler works on a message between taking one and being done with it.
TypeInv ==
    /\ TypeOK
    /\ pc \in {"parse", "route"} => msg \in Messages

IInv ==
    /\ TypeInv
    /\ \A i \in SinceEpoch : IdOf[effects[i]] \in seen
    /\ NoDoubleExecution
    /\ pc = "route" =>
          /\ IdOf[msg] \in seen
          /\ \A i \in SinceEpoch : IdOf[effects[i]] # IdOf[msg]

\* stop() is past the join only when the thread is through.
JoinInv == stopper \in {"unsub_commands", "unsub_diagnosis", "returned"} => pc = "exited"

-----------------------------------------------------------------------------
(* Type correctness *)

LEMMA RememberType ==
    ASSUME TypeOK, NEW id \in Ids, id \notin seen, Remember(id)
    PROVE  /\ seen' \in SUBSET Ids
           /\ IsFiniteSet(seen') /\ Cardinality(seen') <= MaxSeen
           /\ epoch' \in 0..Len(effects)
<1>1. seen \in SUBSET Ids /\ IsFiniteSet(seen) /\ Cardinality(seen) \in Nat /\ MaxSeen \in Nat \ {0}
  BY FS_CardinalityType, ConstantsAssumption DEF ConstantsAssumption, TypeOK
<1>2. Len(effects) \in Nat /\ epoch \in 0..Len(effects)
  BY DEF TypeOK
<1>3. CASE Cardinality(seen) >= MaxSeen
  <2>1. seen' = {id} /\ epoch' = Len(effects)
    BY <1>3 DEF Remember
  <2>2. IsFiniteSet({id}) /\ Cardinality({id}) = 1
    BY FS_Singleton
  <2>. QED
    BY <1>1, <1>2, <2>1, <2>2
<1>4. CASE ~(Cardinality(seen) >= MaxSeen)
  <2>1. seen' = seen \cup {id} /\ epoch' = epoch
    BY <1>4 DEF Remember
  <2>2. IsFiniteSet(seen \cup {id}) /\ Cardinality(seen \cup {id}) = Cardinality(seen) + 1
    BY <1>1, FS_AddElement
  <2>. QED
    BY <1>1, <1>2, <1>4, <2>1, <2>2
<1>. QED
  BY <1>3, <1>4

LEMMA SeqFacts ==
    /\ <<>> \in Seq(Messages)
    /\ \A s \in Seq(Messages), m \in Messages :
          Append(s, m) \in Seq(Messages) /\ Len(Append(s, m)) = Len(s) + 1 /\ Len(s) \in Nat
OBVIOUS

LEMMA ThreadType ==
    ASSUME TypeInv, Thread
    PROVE  TypeInv'
<1>. USE DEF broker, library, handler, history, Goto, TypeInv
<1>1. CASE StartConsuming \/ CheckRunning \/ ConsumeTimeout \/ StopConsuming
  <2>1. UNCHANGED <<broker, running, msg, seen, stopper, history>>
    BY <1>1 DEF StartConsuming, CheckRunning, ConsumeTimeout, StopConsuming
  <2>2. consuming' \in {consuming, TRUE, FALSE} /\ inbox' \in {inbox, <<>>}
    BY <1>1 DEF StartConsuming, CheckRunning, ConsumeTimeout, StopConsuming
  <2>3. pc' \in {"loop", "wait", "stop_consuming", "exited"}
    BY <1>1 DEF StartConsuming, CheckRunning, ConsumeTimeout, StopConsuming
  <2>4. inbox' \in Seq(Messages)
    BY <2>2, SeqFacts DEF TypeOK
  <2>. QED
    BY <2>1, <2>2, <2>3, <2>4 DEF TypeOK
<1>2. CASE Consume
  BY <1>2 DEF Consume, TypeOK
<1>3. CASE HandleDiagnosis \/ DropMalformed \/ DropDuplicate \/ RouteUnknown
  BY <1>3 DEF HandleDiagnosis, DropMalformed, DropDuplicate, RouteUnknown, Done, TypeOK
<1>4. CASE Accept
  BY <1>4, RememberType DEF Accept, Ids, TypeOK
<1>5. CASE RouteOta \/ RouteActuation
  <2>1. effects' \in {effects, Append(effects, msg)} /\ msg \in Messages
    BY <1>5 DEF RouteOta, RouteActuation, Done
  <2>2. effects' \in Seq(Messages) /\ Len(effects) <= Len(effects')
    <3>1. effects \in Seq(Messages) /\ Len(effects) \in Nat
      BY SeqFacts DEF TypeOK
    <3>2. CASE effects' = effects
      BY <3>1, <3>2
    <3>3. CASE effects' = Append(effects, msg)
      BY <2>1, <3>1, <3>3, SeqFacts
    <3>. QED
      BY <2>1, <3>2, <3>3
  <2>3. epoch' \in 0..Len(effects')
    BY <1>5, <2>2 DEF RouteOta, RouteActuation, TypeOK
  <2>. QED
    BY <1>5, <2>2, <2>3 DEF RouteOta, RouteActuation, Done, TypeOK
<1>. QED
  BY <1>1, <1>2, <1>3, <1>4, <1>5 DEF Thread

LEMMA InitType ==
    ASSUME Init
    PROVE  TypeInv
<1>1. IsFiniteSet(seen) /\ Cardinality(seen) = 0
  BY FS_EmptySet DEF Init
<1>2. deliveries \in [Messages -> 0..MaxDeliveries] /\ starts \in 0..MaxStarts
  BY ConstantsAssumption DEF ConstantsAssumption, Init
<1>3. inbox \in Seq(Messages) /\ effects \in Seq(Messages)
  BY SeqFacts DEF Init
<1>4. epoch \in 0..Len(effects)
  BY DEF Init
<1>5. Cardinality(seen) <= MaxSeen
  BY <1>1, ConstantsAssumption DEF ConstantsAssumption
<1>. QED
  BY <1>1, <1>2, <1>3, <1>4, <1>5 DEF Init, TypeInv, TypeOK

LEMMA TypeInvHolds == Spec => []TypeInv
<1>. USE DEF broker, library, handler, history
<1>1. Init => TypeInv
  BY InitType
<1>2. TypeInv /\ [Next]_vars => TypeInv'
  <2>. SUFFICES ASSUME TypeInv, [Next]_vars
                PROVE  TypeInv'
    OBVIOUS
  <2>. USE DEF TypeInv
  <2>1. CASE Thread
    BY <2>1, ThreadType
  <2>2. ASSUME NEW m \in Messages, Publish(m)
        PROVE  TypeInv'
    BY <2>2 DEF Publish, TypeOK
  <2>3. ASSUME NEW m \in Messages, NEW acked \in BOOLEAN, Deliver(m, acked)
        PROVE  TypeInv'
    <3>1. deliveries' \in [Messages -> 0..MaxDeliveries]
      BY <2>3, ConstantsAssumption DEF ConstantsAssumption, Deliver, TypeOK
    <3>2. pending' \in SUBSET Messages
      BY <2>3 DEF Deliver, TypeOK
    <3>3. inbox' \in Seq(Messages)
      BY <2>3 DEF Deliver, TypeOK
    <3>. QED
      BY <2>3, <3>1, <3>2, <3>3 DEF Deliver, TypeOK
  <2>4. CASE Start
    <3>1. IsFiniteSet(seen') /\ Cardinality(seen') <= MaxSeen
      BY <2>4, FS_EmptySet, ConstantsAssumption DEF ConstantsAssumption, Start
    <3>2. starts' \in 0..MaxStarts /\ Len(effects) \in 0..Len(effects)
      BY <2>4, ConstantsAssumption DEF ConstantsAssumption, Start, TypeOK
    <3>. QED
      BY <2>4, <3>1, <3>2 DEF Start, Topics, TypeOK
  <2>5. CASE StartFails
    <3>1. starts' \in 0..MaxStarts
      BY <2>5, ConstantsAssumption DEF ConstantsAssumption, StartFails, TypeOK
    <3>2. subscribed' \in SUBSET Topics
      BY <2>5 DEF StartFails, Topics, TypeOK
    <3>. QED
      BY <2>5, <3>1, <3>2 DEF StartFails, TypeOK
  <2>6. CASE Stop \/ Join
    BY <2>6 DEF Stop, Join, TypeOK
  <2>7. ASSUME NEW topic, NEW from, NEW to \in {"unsub_diagnosis", "returned"},
               Unsubscribe(topic, from, to)
        PROVE  TypeInv'
    BY <2>7 DEF Unsubscribe, TypeOK
  <2>8. CASE Exit \/ Crash
    <3>1. inbox' \in Seq(Messages)
      BY <2>8, SeqFacts DEF Exit, Crash, ProcessGone
    <3>. QED
      BY <2>8, <3>1 DEF Exit, Crash, ProcessGone, TypeOK
  <2>9. CASE UNCHANGED vars
    BY <2>9 DEF vars, TypeOK
  <2>. QED
    BY <2>1, <2>2, <2>3, <2>4, <2>5, <2>6, <2>7, <2>8, <2>9 DEF Next, Stopper
<1>. QED
  BY <1>1, <1>2, PTL DEF Spec

\* Every variable keeps its type, and the duplicate guard never exceeds
\* MAX_SEEN_IDS, in every behaviour.
THEOREM TypeCorrect == Spec => []TypeOK
<1>1. TypeInv => TypeOK
  BY DEF TypeInv
<1>. QED
  BY <1>1, TypeInvHolds, PTL

-----------------------------------------------------------------------------
(* The duplicate guard *)

\* Steps that touch neither the guard nor the effects.
LEMMA QuietStep ==
    ASSUME IInv, TypeInv', UNCHANGED <<seen, effects, epoch>>,
           pc' = "route" => pc = "route" /\ msg' = msg
    PROVE  IInv'
BY DEF IInv, SinceEpoch, NoDoubleExecution, NoneTwiceSince

LEMMA AcceptKeepsIInv ==
    ASSUME IInv, TypeInv', Accept
    PROVE  IInv'
<1>1. /\ pc' = "route" /\ UNCHANGED <<effects, msg>> /\ IdOf[msg] \notin seen
      /\ Len(effects) \in Nat
  BY SeqFacts DEF Accept, Goto, history, IInv, TypeInv, TypeOK
<1>2. CASE seen' = {IdOf[msg]} /\ epoch' = Len(effects)
  BY <1>1, <1>2 DEF IInv, SinceEpoch, NoDoubleExecution, NoneTwiceSince
<1>3. CASE seen' = seen \cup {IdOf[msg]} /\ epoch' = epoch
  BY <1>1, <1>3 DEF IInv, SinceEpoch, NoDoubleExecution, NoneTwiceSince
<1>. QED
  BY <1>2, <1>3 DEF Accept, Remember

LEMMA EffectKeepsIInv ==
    ASSUME IInv, TypeInv', RouteOta \/ RouteActuation
    PROVE  IInv'
<1>1. /\ pc = "route" /\ pc' = "loop" /\ UNCHANGED <<seen, epoch>>
      /\ effects' \in {effects, Append(effects, msg)}
  BY DEF RouteOta, RouteActuation, Done, Goto
<1>2. CASE effects' = effects
  BY <1>1, <1>2, QuietStep
<1>3. CASE effects' = Append(effects, msg)
  <2>1. /\ Len(effects) \in Nat /\ epoch \in 0..Len(effects)
        /\ \A i \in 1..Len(effects) : effects'[i] = effects[i]
        /\ effects'[Len(effects) + 1] = msg
        /\ Len(effects') = Len(effects) + 1
    BY <1>1, <1>3, SeqFacts DEF IInv, TypeInv, TypeOK
  <2>2. \A i \in SinceEpoch' : \/ i \in SinceEpoch /\ effects'[i] = effects[i]
                               \/ i = Len(effects) + 1 /\ effects'[i] = msg
    BY <1>1, <2>1 DEF SinceEpoch
  <2>3. \A i \in SinceEpoch : IdOf[effects[i]] # IdOf[msg] /\ IdOf[effects[i]] \in seen
    BY <1>1 DEF IInv
  <2>4. \A i, j \in SinceEpoch' : IdOf[effects'[i]] = IdOf[effects'[j]] => i = j
    BY <2>2, <2>3 DEF IInv, NoDoubleExecution, NoneTwiceSince, SinceEpoch
  <2>. QED
    BY <1>1, <2>2, <2>3, <2>4 DEF IInv, NoDoubleExecution, NoneTwiceSince, SinceEpoch
<1>. QED
  BY <1>1, <1>2, <1>3

THEOREM IInvHolds == Spec => []IInv
<1>1. Init => IInv
  <2>. SUFFICES ASSUME Init PROVE IInv
    OBVIOUS
  <2>1. TypeInv
    BY InitType
  <2>2. SinceEpoch = {}
    BY DEF Init, SinceEpoch
  <2>. QED
    BY <2>1, <2>2 DEF Init, IInv, NoDoubleExecution, NoneTwiceSince, SinceEpoch
<1>2. IInv /\ TypeInv' /\ [Next]_vars => IInv'
  <2>. SUFFICES ASSUME IInv, TypeInv', [Next]_vars
                PROVE  IInv'
    OBVIOUS
  <2>. USE DEF broker, library, handler, history, Goto
  <2>1. CASE Accept
    BY <2>1, AcceptKeepsIInv
  <2>2. CASE RouteOta \/ RouteActuation
    BY <2>2, EffectKeepsIInv
  <2>3. CASE StartConsuming \/ CheckRunning \/ ConsumeTimeout \/ StopConsuming \/ Consume
    BY <2>3, QuietStep DEF StartConsuming, CheckRunning, ConsumeTimeout, StopConsuming, Consume
  <2>4. CASE HandleDiagnosis \/ DropMalformed \/ DropDuplicate \/ RouteUnknown
    BY <2>4, QuietStep DEF HandleDiagnosis, DropMalformed, DropDuplicate, RouteUnknown, Done
  <2>5. ASSUME NEW m \in Messages, NEW acked \in BOOLEAN, Publish(m) \/ Deliver(m, acked)
        PROVE  IInv'
    BY <2>5, QuietStep DEF Publish, Deliver
  <2>6. CASE Start
    <3>1. /\ pc' = "started" /\ UNCHANGED effects /\ epoch' = Len(effects)
          /\ Len(effects) \in Nat
      BY <2>6, SeqFacts DEF Start, IInv, TypeInv, TypeOK
    <3>2. SinceEpoch' = {}
      BY <3>1 DEF SinceEpoch
    <3>. QED
      BY <3>1, <3>2 DEF IInv, NoDoubleExecution, NoneTwiceSince, SinceEpoch
  <2>7. CASE StartFails \/ Stop \/ Join
    BY <2>7, QuietStep DEF StartFails, Stop, Join
  <2>8. ASSUME NEW topic, NEW from, NEW to, Unsubscribe(topic, from, to)
        PROVE  IInv'
    BY <2>8, QuietStep DEF Unsubscribe
  <2>9. CASE Exit \/ Crash
    BY <2>9, QuietStep DEF Exit, Crash, ProcessGone
  <2>10. CASE UNCHANGED vars
    BY <2>10, QuietStep DEF vars
  <2>. QED
    BY <2>1, <2>2, <2>3, <2>4, <2>5, <2>6, <2>7, <2>8, <2>9, <2>10
       DEF Next, Thread, Stopper
<1>. QED
  BY <1>1, <1>2, TypeInvHolds, PTL DEF Spec

\* As long as the guard is not emptied, no id has an effect on the vehicle
\* twice, for any capacity, any redelivery and any number of restarts.
THEOREM NeverTwice == Spec => []NoDoubleExecution
<1>1. IInv => NoDoubleExecution
  BY DEF IInv
<1>. QED
  BY <1>1, IInvHolds, PTL

-----------------------------------------------------------------------------
(* stop() *)

LEMMA JoinInvHolds == Spec => []JoinInv
<1>1. Init => JoinInv
  BY DEF Init, JoinInv
<1>2. JoinInv /\ [Next]_vars => JoinInv'
  <2>. SUFFICES ASSUME JoinInv, [Next]_vars
                PROVE  JoinInv'
    OBVIOUS
  <2>. USE DEF JoinInv, broker, library, handler, history, Goto
  <2>1. CASE StartConsuming \/ CheckRunning \/ ConsumeTimeout \/ StopConsuming \/ Consume
    BY <2>1 DEF StartConsuming, CheckRunning, ConsumeTimeout, StopConsuming, Consume
  <2>2. CASE HandleDiagnosis \/ DropMalformed \/ DropDuplicate \/ RouteUnknown
             \/ RouteOta \/ RouteActuation
    BY <2>2 DEF HandleDiagnosis, DropMalformed, DropDuplicate, RouteUnknown,
                RouteOta, RouteActuation, Done
  <2>3. CASE Accept
    BY <2>3 DEF Accept
  <2>4. CASE Start \/ StartFails
    BY <2>4 DEF Start, StartFails
  <2>5. CASE Stop \/ Join
    BY <2>5 DEF Stop, Join
  <2>6. CASE Unsubscribe("commands", "unsub_commands", "unsub_diagnosis")
             \/ Unsubscribe("diagnosis", "unsub_diagnosis", "returned")
    BY <2>6 DEF Unsubscribe
  <2>7. CASE Exit \/ Crash
    BY <2>7 DEF Exit, Crash, ProcessGone
  <2>8. ASSUME NEW m \in Messages, NEW acked \in BOOLEAN, Publish(m) \/ Deliver(m, acked)
        PROVE  JoinInv'
    BY <2>8 DEF Publish, Deliver
  <2>9. CASE UNCHANGED vars
    BY <2>9 DEF vars
  <2>. QED
    BY <2>1, <2>2, <2>3, <2>4, <2>5, <2>6, <2>7, <2>8, <2>9 DEF Next, Thread, Stopper
<1>. QED
  BY <1>1, <1>2, PTL DEF Spec

\* No frame is written and no trigger pushed after stop() has joined the thread.
THEOREM QuietAfterStop == Spec => QuietAfterJoin
<1>1. TypeInv /\ JoinInv /\ [Next]_vars =>
        [effects' # effects => stopper \in {"none", "join"}]_vars
  <2>. SUFFICES ASSUME TypeInv, JoinInv, [Next]_vars, effects' # effects
                PROVE  stopper \in {"none", "join"}
    OBVIOUS
  <2>. USE DEF broker, library, handler, history
  <2>1. CASE RouteOta \/ RouteActuation
    BY <2>1 DEF RouteOta, RouteActuation, Done, Goto, JoinInv, TypeInv, TypeOK
  <2>2. CASE StartConsuming \/ CheckRunning \/ ConsumeTimeout \/ StopConsuming \/ Consume
             \/ HandleDiagnosis \/ DropMalformed \/ DropDuplicate \/ RouteUnknown \/ Accept
    BY <2>2 DEF StartConsuming, CheckRunning, ConsumeTimeout, StopConsuming, Consume,
                HandleDiagnosis, DropMalformed, DropDuplicate, RouteUnknown, Accept
  <2>3. CASE Start \/ StartFails \/ Stop \/ Stopper \/ Exit \/ Crash
    BY <2>3 DEF Start, StartFails, Stop, Stopper, Join, Unsubscribe, Exit, Crash, ProcessGone
  <2>4. ASSUME NEW m \in Messages, NEW acked \in BOOLEAN, Publish(m) \/ Deliver(m, acked)
        PROVE  FALSE
    BY <2>4 DEF Publish, Deliver
  <2>5. CASE UNCHANGED vars
    BY <2>5 DEF vars
  <2>. QED
    BY <2>1, <2>2, <2>3, <2>4, <2>5 DEF Next, Thread
<1>. QED
  BY <1>1, TypeInvHolds, JoinInvHolds, PTL DEF Spec, QuietAfterJoin
-----------------------------------------------------------------------------
(* Refinement *)

\* What the handler works on has been published: nothing else is ever delivered.
SentInv ==
    /\ pending \subseteq sent
    /\ \A i \in DOMAIN inbox : inbox[i] \in sent
    /\ msg \in sent \cup {None}

LEMMA SentInvHolds == Spec => []SentInv
<1>1. Init => SentInv
  BY DEF Init, SentInv
<1>2. TypeInv /\ SentInv /\ [Next]_vars => SentInv'
  <2>. SUFFICES ASSUME TypeInv, SentInv, [Next]_vars
                PROVE  SentInv'
    OBVIOUS
  <2>. USE DEF SentInv, broker, library, handler, history, Goto
  <2>1. CASE StartConsuming \/ CheckRunning \/ ConsumeTimeout \/ StopConsuming
    BY <2>1 DEF StartConsuming, CheckRunning, ConsumeTimeout, StopConsuming
  <2>2. CASE Consume
    <3>1. inbox \in Seq(Messages) /\ inbox # <<>>
      BY <2>2 DEF Consume, TypeInv, TypeOK
    <3>2. /\ Head(inbox) = inbox[1] /\ 1 \in DOMAIN inbox
          /\ \A i \in DOMAIN Tail(inbox) : i + 1 \in DOMAIN inbox /\ Tail(inbox)[i] = inbox[i + 1]
      BY <3>1
    <3>. QED
      BY <2>2, <3>2 DEF Consume
  <2>3. CASE HandleDiagnosis \/ DropMalformed \/ DropDuplicate \/ RouteUnknown
             \/ RouteOta \/ RouteActuation
    BY <2>3 DEF HandleDiagnosis, DropMalformed, DropDuplicate, RouteUnknown,
                RouteOta, RouteActuation, Done
  <2>4. CASE Accept
    BY <2>4 DEF Accept
  <2>5. CASE Start \/ StartFails \/ Stop \/ Join
    BY <2>5 DEF Start, StartFails, Stop, Join
  <2>6. ASSUME NEW topic, NEW from, NEW to, Unsubscribe(topic, from, to)
        PROVE  SentInv'
    BY <2>6 DEF Unsubscribe
  <2>7. CASE Exit \/ Crash
    BY <2>7 DEF Exit, Crash, ProcessGone
  <2>8. ASSUME NEW m \in Messages, Publish(m)
        PROVE  SentInv'
    BY <2>8 DEF Publish
  <2>9. ASSUME NEW m \in Messages, NEW acked \in BOOLEAN, Deliver(m, acked)
        PROVE  SentInv'
    <3>1. m \in sent /\ UNCHANGED <<sent, msg>> /\ pending' \subseteq sent
      BY <2>9 DEF Deliver
    <3>2. inbox' \in {inbox, Append(inbox, m)} /\ inbox \in Seq(Messages)
      BY <2>9 DEF Deliver, TypeInv, TypeOK
    <3>3. \A i \in DOMAIN inbox' : \/ i \in DOMAIN inbox /\ inbox'[i] = inbox[i]
                                   \/ inbox'[i] = m
      BY <3>2
    <3>. QED
      BY <3>1, <3>3
  <2>10. CASE UNCHANGED vars
    BY <2>10 DEF vars
  <2>. QED
    BY <2>1, <2>2, <2>3, <2>4, <2>5, <2>6, <2>7, <2>8, <2>9, <2>10 DEF Next, Thread, Stopper
<1>. QED
  BY <1>1, <1>2, TypeInvHolds, PTL DEF Spec

LEMMA AbstractInit == Init => Abstract!Init
BY DEF Init, Abstract!Init, Serving, Owed

\* The thread's steps: nothing can be seen of it before the guard and after the route.
LEMMA ThreadRefines ==
    ASSUME TypeInv, JoinInv, SentInv, Thread
    PROVE  Abstract!Next \/ UNCHANGED Abstract!vars
<1>. USE DEF Abstract!vars, Serving, Owed, broker, library, handler, history, Goto
<1>1. CASE StartConsuming \/ CheckRunning \/ ConsumeTimeout \/ Consume
  BY <1>1 DEF StartConsuming, CheckRunning, ConsumeTimeout, Consume
<1>2. CASE HandleDiagnosis \/ DropMalformed \/ DropDuplicate
  BY <1>2 DEF HandleDiagnosis, DropMalformed, DropDuplicate, Done
<1>3. CASE StopConsuming
  <2>1. stopper \in {"none", "join"}
    BY <1>3 DEF StopConsuming, JoinInv, TypeInv, TypeOK
  <2>2. Abstract!Close
    BY <1>3, <2>1 DEF StopConsuming, Abstract!Close
  <2>. QED
    BY <2>2 DEF Abstract!Next
<1>4. CASE Accept
  <2>1. /\ pc = "parse" /\ pc' = "route" /\ IsCommand(msg) /\ IdOf[msg] \notin seen
        /\ UNCHANGED <<sent, msg, effects, stopper>>
    BY <1>4 DEF Accept
  <2>2. msg \in Messages /\ msg \in sent /\ msg # None
    BY <2>1, ConstantsAssumption DEF ConstantsAssumption, TypeInv, SentInv
  <2>3. stopper \in {"none", "join"}
    BY <2>1 DEF JoinInv, TypeInv, TypeOK
  <2>4. seen' = IF Cardinality(seen) < MaxSeen THEN seen \cup {IdOf[msg]} ELSE {IdOf[msg]}
    <3>1. Cardinality(seen) \in Nat /\ MaxSeen \in Nat
      BY FS_CardinalityType, ConstantsAssumption DEF ConstantsAssumption, TypeInv, TypeOK
    <3>. QED
      BY <1>4, <3>1 DEF Accept, Remember
  <2>5. Serving /\ Serving' /\ Owed = None /\ Owed' = msg
    BY <2>1, <2>3
  <2>6. Abstract!Cardinality(seen) = Cardinality(seen)
    BY DEF Cardinality, Abstract!Cardinality
  <2>7. Abstract!Accept(msg)
    BY <2>1, <2>2, <2>4, <2>5, <2>6 DEF Abstract!Accept
  <2>. QED
    BY <2>2, <2>7 DEF Abstract!Next
<1>5. CASE RouteOta \/ RouteActuation \/ RouteUnknown
  <2>1. /\ pc = "route" /\ pc' = "loop" /\ UNCHANGED <<sent, seen, stopper>>
    BY <1>5 DEF RouteOta, RouteActuation, RouteUnknown, Done
  <2>2. msg \in Messages /\ msg # None
    BY <2>1, ConstantsAssumption DEF ConstantsAssumption, TypeInv
  <2>3. stopper \in {"none", "join"}
    BY <2>1 DEF JoinInv, TypeInv, TypeOK
  <2>4. CASE effects' = Append(effects, msg) /\ KindOf[msg] \in {"OTA", "ACTUATE"}
    <3>1. Abstract!Perform
      BY <2>1, <2>2, <2>3, <2>4 DEF Abstract!Perform
    <3>. QED
      BY <3>1 DEF Abstract!Next
  <2>5. CASE effects' = effects /\ KindOf[msg] # "OTA"
    <3>1. Abstract!Abandon
      BY <2>1, <2>2, <2>3, <2>5 DEF Abstract!Abandon
    <3>. QED
      BY <3>1 DEF Abstract!Next
  <2>. QED
    BY <1>5, <2>4, <2>5 DEF RouteOta, RouteActuation, RouteUnknown
<1>. QED
  BY <1>1, <1>2, <1>3, <1>4, <1>5 DEF Thread

LEMMA AbstractStep ==
    ASSUME TypeInv, JoinInv, SentInv, [Next]_vars
    PROVE  [Abstract!Next]_(Abstract!vars)
<1>. USE DEF Abstract!vars, Serving, Owed, broker, library, handler, history
<1>1. CASE Thread
  BY <1>1, ThreadRefines
<1>2. ASSUME NEW m \in Messages, Publish(m)
      PROVE  Abstract!Next
  <2>1. Abstract!Publish(m)
    BY <1>2 DEF Publish, Abstract!Publish
  <2>. QED
    BY <2>1 DEF Abstract!Next
<1>3. ASSUME NEW m \in Messages, NEW acked \in BOOLEAN, Deliver(m, acked)
      PROVE  UNCHANGED Abstract!vars
  BY <1>3 DEF Deliver
<1>4. CASE Start
  <2>1. stopper \in {"none", "join"}
    BY <1>4 DEF Start, JoinInv, TypeInv, TypeOK
  <2>2. Abstract!Open
    BY <1>4, <2>1 DEF Start, Abstract!Open
  <2>. QED
    BY <2>2 DEF Abstract!Next
<1>5. CASE StartFails \/ Stop
  BY <1>5 DEF StartFails, Stop
<1>6. CASE Join
  BY <1>6 DEF Join
<1>7. CASE Unsubscribe("commands", "unsub_commands", "unsub_diagnosis")
           \/ Unsubscribe("diagnosis", "unsub_diagnosis", "returned")
  BY <1>7 DEF Unsubscribe, JoinInv
<1>8. CASE Exit \/ Crash
  <2>1. pc' = "down" /\ pc # "down" /\ UNCHANGED <<sent, seen, effects>>
    BY <1>8 DEF Exit, Crash, ProcessGone, JoinInv
  <2>2. CASE pc = "exited"
    BY <2>1, <2>2
  <2>3. CASE pc # "exited"
    <3>1. stopper \in {"none", "join"}
      BY <2>3 DEF JoinInv, TypeInv, TypeOK
    <3>2. Abstract!Close
      BY <2>1, <2>3, <3>1 DEF Abstract!Close
    <3>. QED
      BY <3>2 DEF Abstract!Next
  <2>. QED
    BY <2>2, <2>3
<1>9. CASE UNCHANGED vars
  BY <1>9 DEF vars
<1>. QED
  BY <1>1, <1>2, <1>3, <1>4, <1>5, <1>6, <1>7, <1>8, <1>9 DEF Next, Stopper

\* The handler implements the at-most-once executor, for every broker that repeats,
\* reorders and drops deliveries, and wherever stop() and the death of the process come.
THEOREM Refinement == Spec => Implements
<1>. QED
  BY AbstractInit, AbstractStep, TypeInvHolds, JoinInvHolds, SentInvHolds, PTL
     DEF Spec, Implements, Abstract!Spec
=============================================================================
