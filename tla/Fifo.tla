-------------------------------- MODULE Fifo --------------------------------
(***************************************************************************)
(* What common/safe_queue.hpp promises its users, without its mutex and    *)
(* condition variable: items leave in the order they came, each to one     *)
(* caller; a caller is told "nothing" only at a moment the queue is empty, *)
(* and a caller of pop() only when the queue has been shut down besides.   *)
(***************************************************************************)
EXTENDS Sequences

CONSTANTS
    Items,      \* what can be put in the queue
    Consumers,  \* callers that take items out
    Patient     \* those of them that call pop(), which has no timeout

VARIABLES
    queue,      \* the items in the queue, oldest first
    closed,     \* has the queue been shut down?
    result      \* of each consumer: not in a call, waiting for an answer, or the answer

vars == <<queue, closed, result>>

Answers == [type : {"item"}, item : Items]
NoCall == [type |-> "no call"]
Pending == [type |-> "pending"]
Nothing == [type |-> "nothing"]
Item(x) == [type |-> "item", item |-> x]

Init ==
    /\ queue = <<>>
    /\ closed = FALSE
    /\ result = [c \in Consumers |-> NoCall]

Put(x) ==
    /\ queue' = Append(queue, x)
    /\ UNCHANGED <<closed, result>>

Call(c) ==
    /\ result[c] = NoCall
    /\ result' = [result EXCEPT ![c] = Pending]
    /\ UNCHANGED <<queue, closed>>

Take(c) ==
    /\ result[c] = Pending
    /\ queue # <<>>
    /\ result' = [result EXCEPT ![c] = Item(Head(queue))]
    /\ queue' = Tail(queue)
    /\ UNCHANGED closed

GiveUp(c) ==
    /\ result[c] = Pending
    /\ queue = <<>>
    /\ c \in Patient => closed
    /\ result' = [result EXCEPT ![c] = Nothing]
    /\ UNCHANGED <<queue, closed>>

Return(c) ==
    /\ result[c] \notin {NoCall, Pending}
    /\ result' = [result EXCEPT ![c] = NoCall]
    /\ UNCHANGED <<queue, closed>>

Close ==
    /\ closed' = TRUE
    /\ UNCHANGED <<queue, result>>

Next ==
    \/ \E x \in Items : Put(x)
    \/ \E c \in Consumers : Call(c) \/ Take(c) \/ GiveUp(c) \/ Return(c)
    \/ Close

Spec == Init /\ [][Next]_vars
=============================================================================
