------------------------------ MODULE TaskRing ------------------------------
(***************************************************************************)
(* mt::TaskRing (src/mt/task_ring.hpp): the ring every RingWorker, the     *)
(* UnixWorker and every queued signal uses.  A producer claims a ticket    *)
(* with a CAS on _head, fills the ticket's slot, waits for its turn,       *)
(* publishes with _head_check and releases the semaphore _available.  A    *)
(* consumer acquires the semaphore, reads _tail, waits for the ticket to   *)
(* be published, moves the value out and advances _tail.                   *)
(*                                                                         *)
(* Each access to a shared atomic is a step of its own.  The consumer side *)
(* is written for a set of consumers, though the code's own comment on     *)
(* _tail says "consumer": the theorems of TaskRing_proofs assume one.      *)
(***************************************************************************)
EXTENDS Integers, Sequences, FiniteSets

CONSTANTS Producers,    \* threads that enqueue
          Consumers,    \* threads that dequeue
          Values,       \* the values enqueued
          Size,         \* template parameter Size
          MaxTickets,   \* bound: no call starts once this many were claimed
          NoValue       \* a moved-from or not yet filled value

ASSUME ThreadAssumption == IsFiniteSet(Producers) /\ IsFiniteSet(Consumers)
ASSUME SizeAssumption == Size \in Nat \ {0}
ASSUME TicketAssumption == MaxTickets \in Nat
ASSUME NoValueAssumption == NoValue \notin Values

VARIABLES ring,        \* _ring, by slot
          head,        \* _head: next ticket to claim
          headCheck,   \* _head_check: tickets below it are published
          tail,        \* _tail: next ticket to take
          available,   \* _available's count
          ppc,         \* where each producer is in _enqueue_impl
          waits,       \* its argument `wait`
          item,        \* its argument `value`
          seen,        \* its local `head`
          cpc,         \* where each consumer is in a dequeue
          at,          \* its local `tail`
          got          \* its argument `value`

pvars == <<ppc, waits, item, seen>>
cvars == <<cpc, at, got>>
shared == <<ring, head, headCheck, tail, available>>
vars == <<shared, pvars, cvars>>

Slot(ticket) == ticket % Size

\* `head - _tail.load() >= Size` over an unsigned type: a head older than the
\* tail wraps around to a huge difference, and counts as full.
FullOffByOne(h, t) == h < t \/ h - t > Size
Full(h, t) == h < t \/ h - t >= Size

Init == /\ ring = [s \in 0..(Size - 1) |-> NoValue]
        /\ head = 0
        /\ headCheck = 0
        /\ tail = 0
        /\ available = 0
        /\ ppc = [p \in Producers |-> "idle"]
        /\ waits = [p \in Producers |-> FALSE]
        /\ item = [p \in Producers |-> NoValue]
        /\ seen = [p \in Producers |-> 0]
        /\ cpc = [c \in Consumers |-> "idle"]
        /\ at = [c \in Consumers |-> 0]
        /\ got = [c \in Consumers |-> NoValue]

-----------------------------------------------------------------------------
(* The producer: _enqueue_impl(wait, value).                               *)

\* enqueue, enqueue_ref (w) or try_enqueue, try_enqueue_ref (~w) is called.
Call(p, v, w) == /\ ppc[p] = "idle"
                 /\ head < MaxTickets
                 /\ ppc' = [ppc EXCEPT ![p] = "load"]
                 /\ waits' = [waits EXCEPT ![p] = w]
                 /\ item' = [item EXCEPT ![p] = v]
                 /\ UNCHANGED <<shared, seen, cvars>>

LoadHead(p) == /\ ppc[p] = "load"
               /\ seen' = [seen EXCEPT ![p] = head]
               /\ ppc' = [ppc EXCEPT ![p] = "check"]
               /\ UNCHANGED <<shared, waits, item, cvars>>

\* The ring looks full: spin, or give up.
SeeFull(p) == /\ ppc[p] = "check"
              /\ Full(seen[p], tail)
              /\ ppc' = [ppc EXCEPT ![p] = IF waits[p] THEN "load" ELSE "idle"]
              /\ UNCHANGED <<shared, waits, item, seen, cvars>>

SeeRoom(p) == /\ ppc[p] = "check"
              /\ ~ Full(seen[p], tail)
              /\ ppc' = [ppc EXCEPT ![p] = "claim"]
              /\ UNCHANGED <<shared, waits, item, seen, cvars>>

Claim(p) == /\ ppc[p] = "claim"
            /\ head = seen[p]
            /\ head' = head + 1
            /\ ppc' = [ppc EXCEPT ![p] = "fill"]
            /\ UNCHANGED <<ring, headCheck, tail, available, waits, item, seen, cvars>>

\* compare_exchange_weak fails: another head, or for no reason.
ClaimFails(p) == /\ ppc[p] = "claim"
                 /\ ppc' = [ppc EXCEPT ![p] = "load"]
                 /\ UNCHANGED <<shared, waits, item, seen, cvars>>

Fill(p) == /\ ppc[p] = "fill"
           /\ ring' = [ring EXCEPT ![Slot(seen[p])] = item[p]]
           /\ ppc' = [ppc EXCEPT ![p] = "publish"]
           /\ UNCHANGED <<head, headCheck, tail, available, waits, item, seen, cvars>>

\* The spin until _head_check == head, and the store that ends it.
PublishOutOfTurn(p) ==
    /\ ppc[p] = "publish"
    /\ headCheck' = seen[p] + 1
    /\ ppc' = [ppc EXCEPT ![p] = "release"]
    /\ UNCHANGED <<ring, head, tail, available, waits, item, seen, cvars>>
Publish(p) ==
    /\ ppc[p] = "publish"
    /\ headCheck = seen[p]
    /\ headCheck' = seen[p] + 1
    /\ ppc' = [ppc EXCEPT ![p] = "release"]
    /\ UNCHANGED <<ring, head, tail, available, waits, item, seen, cvars>>

ReleaseForgotten(p) ==
    /\ ppc[p] = "release"
    /\ ppc' = [ppc EXCEPT ![p] = "idle"]
    /\ UNCHANGED <<shared, waits, item, seen, cvars>>
Release(p) ==
    /\ ppc[p] = "release"
    /\ available' = available + 1
    /\ ppc' = [ppc EXCEPT ![p] = "idle"]
    /\ UNCHANGED <<ring, head, headCheck, tail, waits, item, seen, cvars>>

ProducerStep(p) == \/ LoadHead(p) \/ SeeFull(p) \/ SeeRoom(p)
                   \/ Claim(p) \/ ClaimFails(p)
                   \/ Fill(p) \/ Publish(p) \/ Release(p)

-----------------------------------------------------------------------------
(* The consumer: try_dequeue, dequeue and dequeue(max).  They differ in    *)
(* what they do while the semaphore is 0 (return false at once, wait,      *)
(* return false after max), which leaves the ring as it is.                *)

Acquire(c) ==
    /\ cpc[c] = "idle"
    /\ available > 0
    /\ available' = available - 1
    /\ cpc' = [cpc EXCEPT ![c] = "load"]
    /\ UNCHANGED <<ring, head, headCheck, tail, pvars, at, got>>

LoadTail(c) == /\ cpc[c] = "load"
               /\ at' = [at EXCEPT ![c] = tail]
               /\ cpc' = [cpc EXCEPT ![c] = "take"]
               /\ UNCHANGED <<shared, pvars, got>>

\* The wait for _head_check > tail, and the move out of the slot.
Take(c) == /\ cpc[c] = "take"
           /\ headCheck > at[c]
           /\ got' = [got EXCEPT ![c] = ring[Slot(at[c])]]
           /\ cpc' = [cpc EXCEPT ![c] = "advance"]
           /\ UNCHANGED <<shared, pvars, at>>

\* _tail.store(tail + 1)
Advance(c) == /\ cpc[c] = "advance"
              /\ tail' = at[c] + 1
              /\ cpc' = [cpc EXCEPT ![c] = "idle"]
              /\ UNCHANGED <<ring, head, headCheck, available, pvars, at, got>>

ConsumerStep(c) == Acquire(c) \/ LoadTail(c) \/ Take(c) \/ Advance(c)

-----------------------------------------------------------------------------
\* The bound is used up and everything enqueued was dequeued.
Finished == /\ head >= MaxTickets
            /\ \A p \in Producers : ppc[p] = "idle"
            /\ \A c \in Consumers : cpc[c] = "idle"
            /\ available = 0
            /\ UNCHANGED vars

Next == \/ \E p \in Producers :
              \/ \E v \in Values, w \in BOOLEAN : Call(p, v, w)
              \/ ProducerStep(p)
        \/ \E c \in Consumers : ConsumerStep(c)
        \/ Finished

Spec == Init /\ [][Next]_vars

\* The threads run, and the consumer (a worker's loop) always comes back.
FairSpec == /\ Spec
            /\ \A p \in Producers : WF_vars(ProducerStep(p))
            /\ \A c \in Consumers : WF_vars(ConsumerStep(c))

-----------------------------------------------------------------------------
(* What must hold of the ring when it has one consumer.                    *)

ProducerPC == {"idle", "load", "check", "claim", "fill", "publish", "release"}
ConsumerPC == {"idle", "load", "take", "advance"}

\* The type of every variable; in particular the semaphore never goes below 0.
TypeOK ==
    /\ ring \in [0..(Size - 1) -> Values \cup {NoValue}]
    /\ head \in Nat
    /\ headCheck \in Nat
    /\ tail \in Nat
    /\ available \in Nat
    /\ ppc \in [Producers -> ProducerPC]
    /\ waits \in [Producers -> BOOLEAN]
    /\ item \in [Producers -> Values \cup {NoValue}]
    /\ seen \in [Producers -> Nat]
    /\ cpc \in [Consumers -> ConsumerPC]
    /\ at \in [Consumers -> Nat]
    /\ got \in [Consumers -> Values \cup {NoValue}]

\* p has claimed the ticket seen[p] and has not published it.
Owns(p) == ppc[p] \in {"fill", "publish"}

\* c has acquired the semaphore for a value it has not accounted for in _tail.
Holds(c) == cpc[c] \in {"load", "take", "advance"}

\* No data race on a slot (task_ring.hpp:58 and 73): a producer about to move a
\* value in shares its slot with no other producer that still writes, and with
\* no consumer about to move a value out.
NoSlotRace ==
    \A p \in Producers : ppc[p] = "fill" =>
        /\ \A q \in Producers \ {p} : Owns(q) => Slot(seen[q]) # Slot(seen[p])
        /\ \A c \in Consumers :
              cpc[c] = "take" /\ headCheck > at[c] => Slot(at[c]) # Slot(seen[p])

\* The counters never run away from each other: nothing is published before it
\* is claimed or taken before it is published, and a claim never reaches a slot
\* whose value has not been taken (the ring never overwrites).
Window == /\ tail <= headCheck
          /\ headCheck <= head
          /\ head <= tail + Size

\* The semaphore counts exactly the published values that nobody has come for:
\* none is lost and none is counted twice, whatever the interleaving of
\* _head_check.store, _available.release, the acquire and _tail.store.
Releasing == {p \in Producers : ppc[p] = "release"}
Holding == {c \in Consumers : Holds(c)}
Accounted ==
    headCheck - tail = available + Cardinality(Releasing) + Cardinality(Holding)

-----------------------------------------------------------------------------
(* Refinement: the ring is a bounded FIFO.  A value enters the abstract    *)
(* queue when _head_check passes its ticket, and leaves it when it is      *)
(* moved out of its slot.                                                  *)

Moved == IF \E c \in Consumers : cpc[c] = "advance" THEN tail + 1 ELSE tail

AbstractQueue == [i \in 1..(headCheck - Moved) |-> ring[Slot(Moved + i - 1)]]

AbstractOffered ==
    [p \in Producers |->
        IF ppc[p] \in {"idle", "release"} THEN NoValue ELSE item[p]]

AbstractTaken == got[CHOOSE c \in Consumers : TRUE]

Queue == INSTANCE BoundedQueue WITH queue <- AbstractQueue,
                                    offered <- AbstractOffered,
                                    taken <- AbstractTaken

\* Every value offered is delivered exactly once and in order, or refused; and a
\* value that was published is delivered: the semaphore and the consumer's wait
\* for a publication (task_ring.hpp:71) bring the consumer to it.
ImplementsQueue == Queue!QFairSpec
=============================================================================
