---------------------------- MODULE BoundedQueue ----------------------------
(***************************************************************************)
(* What mt::TaskRing (src/mt/task_ring.hpp) promises its callers: a FIFO   *)
(* of at most Size values, several producers, one consumer.  An offered    *)
(* value enters the queue exactly once or is refused, and a value leaves   *)
(* the queue exactly once, in the order of entry.                          *)
(***************************************************************************)
EXTENDS Naturals, Sequences

CONSTANTS Producers,   \* the threads that enqueue
          Values,      \* what can be enqueued
          Size,        \* capacity
          NoValue      \* nothing offered, nothing taken

VARIABLES queue,     \* the values in the queue, oldest first
          offered,   \* the value each producer is trying to enqueue
          taken      \* the last value the consumer has got

qvars == <<queue, offered, taken>>

QInit == /\ queue = <<>>
         /\ offered = [p \in Producers |-> NoValue]
         /\ taken = NoValue

\* A call of enqueue or try_enqueue begins.
Offer(p, v) == /\ offered[p] = NoValue
               /\ offered' = [offered EXCEPT ![p] = v]
               /\ UNCHANGED <<queue, taken>>

\* The offered value enters the queue: the call will succeed.
Put(p) == /\ offered[p] # NoValue
          /\ Len(queue) < Size
          /\ queue' = Append(queue, offered[p])
          /\ offered' = [offered EXCEPT ![p] = NoValue]
          /\ UNCHANGED taken

\* try_enqueue returns false.
Refuse(p) == /\ offered[p] # NoValue
             /\ offered' = [offered EXCEPT ![p] = NoValue]
             /\ UNCHANGED <<queue, taken>>

Get == /\ queue # <<>>
       /\ taken' = Head(queue)
       /\ queue' = Tail(queue)
       /\ UNCHANGED offered

QNext == \/ \E p \in Producers : \/ \E v \in Values : Offer(p, v)
                                 \/ Put(p)
                                 \/ Refuse(p)
         \/ Get

QSpec == QInit /\ [][QNext]_qvars

\* What is in the queue is taken in the end.
QFairSpec == QSpec /\ WF_qvars(Get)
=============================================================================
