---------------------------- MODULE Tasks_proofs ----------------------------
(***************************************************************************)
(* Proofs about the two things a task goes through: mt::TaskRing, for any  *)
(* number of producers, any capacity and any number of tickets, with at    *)
(* most one consumer; and the block it shares with its futures, for any    *)
(* users and any bounds on calls and runs.                                 *)
(***************************************************************************)
EXTENDS MCTasks, FiniteSetTheorems, SequenceTheorems, TLAPS

OneConsumer == \A c, d \in Consumers : c = d

(***************************************************************************)
(* The inductive invariant.  Tickets are distinct among their owners and   *)
(* lie between _head_check and _head; a producer that saw room still has   *)
(* room, since _tail only grows; the consumer's copy of _tail is current.  *)
(***************************************************************************)
OwnedTickets ==
    /\ \A p \in Producers : Owns(p) => headCheck <= seen[p] /\ seen[p] < head
    /\ \A p, q \in Producers : p # q /\ Owns(p) /\ Owns(q) => seen[p] # seen[q]

RoomSeen == \A p \in Producers : ppc[p] = "claim" => seen[p] < tail + Size

ConsumerCurrent ==
    \A c \in Consumers :
        /\ cpc[c] \in {"take", "advance"} => at[c] = tail
        /\ cpc[c] = "advance" => tail < headCheck

IInv == TypeOK /\ Window /\ OwnedTickets /\ RoomSeen /\ ConsumerCurrent

-----------------------------------------------------------------------------
(* Two tickets less than Size apart have different slots.                  *)
LEMMA SlotsDiffer ==
    ASSUME NEW a \in Nat, NEW b \in Nat, a < b, b - a < Size
    PROVE  Slot(a) # Slot(b)
<1>1. Size \in Nat \ {0}
  BY SizeAssumption
<1> DEFINE i == a \div Size
           j == b \div Size
<1> SUFFICES ASSUME a % Size = b % Size PROVE FALSE
  BY DEF Slot
<1>2. i \in Int /\ j \in Int /\ a % Size \in Int
  BY <1>1
<1>3. a = Size * i + (a % Size) /\ b = Size * j + (b % Size)
  BY <1>1
<1> HIDE DEF i, j
<1>4. Size * j - Size * i = Size * (j - i)
  BY <1>1, <1>2
<1>5. 0 < Size * (j - i) /\ Size * (j - i) < Size
  BY <1>1, <1>2, <1>3, <1>4
<1>6. j - i \in Int
  BY <1>2
<1> DEFINE d == j - i
<1> HIDE DEF d
<1>7. d \in Int /\ 0 < Size * d /\ Size * d < Size
  BY <1>5, <1>6 DEF d
<1>8. QED
  BY <1>1, <1>7

LEMMA SlotInRing == ASSUME NEW t \in Nat PROVE Slot(t) \in 0..(Size - 1)
BY SizeAssumption DEF Slot

-----------------------------------------------------------------------------
(* Every variable always has its type.                                     *)
LEMMA TypeInductive == TypeOK /\ [Next]_vars => TypeOK'
<1> SUFFICES ASSUME TypeOK, [Next]_vars PROVE TypeOK'
  OBVIOUS
<1> USE SizeAssumption DEF TypeOK, ProducerPC, shared, pvars, cvars
<1>1. ASSUME NEW p \in Producers, NEW v \in Values, NEW w \in BOOLEAN, Call(p, v, w)
      PROVE TypeOK'
  BY <1>1 DEF Call
<1>2. ASSUME NEW p \in Producers, LoadHead(p) PROVE TypeOK'
  BY <1>2 DEF LoadHead
<1>3. ASSUME NEW p \in Producers, SeeFull(p) PROVE TypeOK'
  BY <1>3 DEF SeeFull
<1>4. ASSUME NEW p \in Producers, SeeRoom(p) PROVE TypeOK'
  BY <1>4 DEF SeeRoom
<1>5. ASSUME NEW p \in Producers, Claim(p) PROVE TypeOK'
  BY <1>5 DEF Claim
<1>6. ASSUME NEW p \in Producers, ClaimFails(p) PROVE TypeOK'
  BY <1>6 DEF ClaimFails
<1>7. ASSUME NEW p \in Producers, Fill(p) PROVE TypeOK'
  BY <1>7 DEF Fill
<1>8. ASSUME NEW p \in Producers, Publish(p) PROVE TypeOK'
  BY <1>8 DEF Publish
<1>9. ASSUME NEW p \in Producers, Release(p) PROVE TypeOK'
  BY <1>9 DEF Release
<1>10. ASSUME NEW c \in Consumers, Acquire(c) PROVE TypeOK'
  BY <1>10 DEF Acquire, ConsumerPC
<1>11. ASSUME NEW c \in Consumers, LoadTail(c) PROVE TypeOK'
  BY <1>11 DEF LoadTail, ConsumerPC
<1>12. ASSUME NEW c \in Consumers, Take(c) PROVE TypeOK'
  BY <1>12, SlotInRing DEF Take, ConsumerPC
<1>13. ASSUME NEW c \in Consumers, Advance(c) PROVE TypeOK'
  BY <1>13 DEF Advance, ConsumerPC
<1>14. CASE UNCHANGED vars
  BY <1>14 DEF vars
<1>15. QED
  BY <1>1, <1>2, <1>3, <1>4, <1>5, <1>6, <1>7, <1>8, <1>9, <1>10, <1>11,
     <1>12, <1>13, <1>14 DEF Next, ProducerStep, ConsumerStep, Finished

THEOREM TypeCorrect == Spec => []TypeOK
<1>1. Init => TypeOK
  BY SizeAssumption DEF Init, TypeOK, ProducerPC, ConsumerPC
<1>2. QED
  BY <1>1, TypeInductive, PTL DEF Spec
-----------------------------------------------------------------------------
(* The inductive invariant is preserved by every step.  A producer's step  *)
(* changes at most head or headCheck and its own pc; the consumer's only   *)
(* tail.                                                                   *)
LEMMA IInvInductive ==
    ASSUME OneConsumer, IInv, [Next]_vars PROVE IInv'
<1> USE SizeAssumption
<1>1. TypeOK'
  BY TypeInductive DEF IInv
<1> DEFINE Rest == Window /\ OwnedTickets /\ RoomSeen /\ ConsumerCurrent
<1> SUFFICES Rest'
  BY <1>1 DEF IInv
<1> USE DEF IInv, TypeOK, Window, OwnedTickets, RoomSeen, ConsumerCurrent, Owns,
            shared, pvars, cvars
<1>2. ASSUME NEW p \in Producers, NEW v \in Values, NEW w \in BOOLEAN, Call(p, v, w)
      PROVE Rest'
  BY <1>2 DEF Call
<1>3. ASSUME NEW p \in Producers, LoadHead(p) PROVE Rest'
  BY <1>3 DEF LoadHead
<1>4. ASSUME NEW p \in Producers, SeeFull(p) PROVE Rest'
  BY <1>4 DEF SeeFull
<1>5. ASSUME NEW p \in Producers, SeeRoom(p) PROVE Rest'
  BY <1>5 DEF SeeRoom, Full
<1>6. ASSUME NEW p \in Producers, Claim(p) PROVE Rest'
  <2>1. Window'
    BY <1>6 DEF Claim
  <2>2. OwnedTickets'
    BY <1>6 DEF Claim
  <2>3. RoomSeen' /\ ConsumerCurrent'
    BY <1>6 DEF Claim
  <2>4. QED
    BY <2>1, <2>2, <2>3
<1>7. ASSUME NEW p \in Producers, ClaimFails(p) PROVE Rest'
  BY <1>7 DEF ClaimFails
<1>8. ASSUME NEW p \in Producers, Fill(p) PROVE Rest'
  BY <1>8 DEF Fill
<1>9. ASSUME NEW p \in Producers, Publish(p) PROVE Rest'
  <2>1. Window'
    BY <1>9 DEF Publish
  <2>2. OwnedTickets'
    BY <1>9 DEF Publish
  <2>3. RoomSeen' /\ ConsumerCurrent'
    BY <1>9 DEF Publish
  <2>4. QED
    BY <2>1, <2>2, <2>3
<1>10. ASSUME NEW p \in Producers, Release(p) PROVE Rest'
  BY <1>10 DEF Release
<1>11. ASSUME NEW c \in Consumers, Acquire(c) PROVE Rest'
  BY <1>11 DEF Acquire
<1>12. ASSUME NEW c \in Consumers, LoadTail(c) PROVE Rest'
  BY <1>12 DEF LoadTail
<1>13. ASSUME NEW c \in Consumers, Take(c) PROVE Rest'
  BY <1>13 DEF Take
<1>14. ASSUME NEW c \in Consumers, Advance(c) PROVE Rest'
  <2>1. at[c] = tail /\ tail < headCheck /\ tail' = tail + 1
    BY <1>14 DEF Advance
  <2>2. \A d \in Consumers : cpc'[d] = "idle"
    BY <1>14, OneConsumer DEF Advance, OneConsumer
  <2>3. QED
    BY <1>14, <2>1, <2>2 DEF Advance
<1>15. CASE UNCHANGED vars
  BY <1>15 DEF vars
<1>16. QED
  BY <1>2, <1>3, <1>4, <1>5, <1>6, <1>7, <1>8, <1>9, <1>10, <1>11,
     <1>12, <1>13, <1>14, <1>15 DEF Next, ProducerStep, ConsumerStep, Finished

LEMMA IInvInit == Init => IInv
BY SizeAssumption
   DEF Init, IInv, TypeOK, ProducerPC, ConsumerPC, Window, OwnedTickets, RoomSeen,
       ConsumerCurrent, Owns

(* _tail, _head_check and _head never leave their window: nothing is taken *)
(* that was not published, and no slot is claimed that still holds a       *)
(* value.                                                                  *)
THEOREM WindowCorrect == ASSUME OneConsumer PROVE Spec => []Window
<1>1. IInv /\ [Next]_vars => IInv'
  BY IInvInductive, OneConsumer
<1>2. IInv => Window
  BY DEF IInv
<1>3. QED
  BY <1>1, <1>2, IInvInit, PTL DEF Spec

(* A producer that fills a slot has it for itself.                         *)
LEMMA RaceFreedom == IInv => NoSlotRace
<1> SUFFICES ASSUME IInv, NEW p \in Producers, ppc[p] = "fill"
             PROVE  /\ \A q \in Producers \ {p} : Owns(q) => Slot(seen[q]) # Slot(seen[p])
                    /\ \A c \in Consumers : cpc[c] = "take" /\ headCheck > at[c]
                                               => Slot(at[c]) # Slot(seen[p])
  BY DEF NoSlotRace
<1> USE SizeAssumption DEF IInv, TypeOK, Window, OwnedTickets, ConsumerCurrent, Owns
<1>1. ASSUME NEW q \in Producers \ {p}, Owns(q) PROVE Slot(seen[q]) # Slot(seen[p])
  <2>1. seen[p] \in Nat /\ seen[q] \in Nat /\ seen[p] # seen[q]
    BY <1>1
  <2>2. seen[p] - seen[q] < Size /\ seen[q] - seen[p] < Size
    BY <1>1
  <2>3. CASE seen[p] < seen[q]
    BY <2>1, <2>2, <2>3, SlotsDiffer
  <2>4. CASE seen[q] < seen[p]
    BY <2>1, <2>2, <2>4, SlotsDiffer
  <2>5. QED
    BY <2>1, <2>3, <2>4
<1>2. ASSUME NEW c \in Consumers, cpc[c] = "take", headCheck > at[c]
      PROVE  Slot(at[c]) # Slot(seen[p])
  <2>1. at[c] \in Nat /\ seen[p] \in Nat /\ at[c] < seen[p] /\ seen[p] - at[c] < Size
    BY <1>2
  <2>2. QED
    BY <2>1, SlotsDiffer
<1>3. QED
  BY <1>1, <1>2

(* With one consumer no two threads ever touch one slot at the same time   *)
(* with one of them writing.                                               *)
THEOREM SlotsAreExclusive == ASSUME OneConsumer PROVE Spec => []NoSlotRace
<1>1. IInv /\ [Next]_vars => IInv'
  BY IInvInductive, OneConsumer
<1>2. QED
  BY <1>1, RaceFreedom, IInvInit, PTL DEF Spec
-----------------------------------------------------------------------------
(* The books of the semaphore: each step moves a value between the three   *)
(* places where it can be, or moves none.                                  *)
LEMMA Finite == TypeOK => /\ IsFiniteSet(Releasing) /\ Cardinality(Releasing) \in Nat
                          /\ IsFiniteSet(Holding) /\ Cardinality(Holding) \in Nat
<1>1. Releasing \in SUBSET Producers /\ Holding \in SUBSET Consumers
  BY DEF Releasing, Holding
<1>2. QED
  BY <1>1, ThreadAssumption, FS_Subset, FS_CardinalityType

LEMMA AccountedInductive ==
    ASSUME OneConsumer, IInv, Accounted, [Next]_vars PROVE Accounted'
<1>1. /\ IsFiniteSet(Releasing) /\ Cardinality(Releasing) \in Nat
      /\ IsFiniteSet(Holding) /\ Cardinality(Holding) \in Nat
  BY Finite DEF IInv
<1> USE <1>1 DEF IInv, TypeOK, Accounted, shared, pvars, cvars
<1>2. ASSUME Releasing' = Releasing, Holding' = Holding,
             UNCHANGED <<headCheck, tail, available>>
      PROVE  Accounted'
  BY <1>2
<1>3. ASSUME NEW p \in Producers, NEW v \in Values, NEW w \in BOOLEAN, Call(p, v, w)
      PROVE Accounted'
  BY <1>2, <1>3 DEF Call, Releasing, Holding, Holds
<1>4. ASSUME NEW p \in Producers, LoadHead(p) PROVE Accounted'
  BY <1>2, <1>4 DEF LoadHead, Releasing, Holding, Holds
<1>5. ASSUME NEW p \in Producers, SeeFull(p) PROVE Accounted'
  BY <1>2, <1>5 DEF SeeFull, Releasing, Holding, Holds
<1>6. ASSUME NEW p \in Producers, SeeRoom(p) PROVE Accounted'
  BY <1>2, <1>6 DEF SeeRoom, Releasing, Holding, Holds
<1>7. ASSUME NEW p \in Producers, Claim(p) PROVE Accounted'
  BY <1>2, <1>7 DEF Claim, Releasing, Holding, Holds
<1>8. ASSUME NEW p \in Producers, ClaimFails(p) PROVE Accounted'
  BY <1>2, <1>8 DEF ClaimFails, Releasing, Holding, Holds
<1>9. ASSUME NEW p \in Producers, Fill(p) PROVE Accounted'
  BY <1>2, <1>9 DEF Fill, Releasing, Holding, Holds
<1>10. ASSUME NEW p \in Producers, Publish(p) PROVE Accounted'
  <2>1. Releasing' = Releasing \cup {p} /\ p \notin Releasing
    BY <1>10 DEF Publish, Releasing
  <2>2. Cardinality(Releasing') = Cardinality(Releasing) + 1
    BY <2>1, FS_AddElement
  <2>3. Holding' = Holding /\ UNCHANGED <<tail, available>> /\ headCheck' = headCheck + 1
    BY <1>10 DEF Publish, Holding, Holds
  <2>4. QED
    BY <2>2, <2>3
<1>11. ASSUME NEW p \in Producers, Release(p) PROVE Accounted'
  <2>1. Releasing' = Releasing \ {p} /\ p \in Releasing
    BY <1>11 DEF Release, Releasing
  <2>2. Cardinality(Releasing') = Cardinality(Releasing) - 1
    BY <2>1, FS_RemoveElement
  <2>3. Holding' = Holding /\ UNCHANGED <<tail, headCheck>> /\ available' = available + 1
    BY <1>11 DEF Release, Holding, Holds
  <2>4. QED
    BY <2>2, <2>3
<1>12. ASSUME NEW c \in Consumers, Acquire(c) PROVE Accounted'
  <2>1. Holding' = Holding \cup {c} /\ c \notin Holding
    BY <1>12 DEF Acquire, Holding, Holds
  <2>2. Cardinality(Holding') = Cardinality(Holding) + 1
    BY <2>1, FS_AddElement
  <2>3. Releasing' = Releasing /\ UNCHANGED <<tail, headCheck>> /\ available' = available - 1
    BY <1>12 DEF Acquire, Releasing
  <2>4. QED
    BY <2>2, <2>3
<1>13. ASSUME NEW c \in Consumers, LoadTail(c) PROVE Accounted'
  BY <1>2, <1>13 DEF LoadTail, Releasing, Holding, Holds
<1>14. ASSUME NEW c \in Consumers, Take(c) PROVE Accounted'
  BY <1>2, <1>14 DEF Take, Releasing, Holding, Holds
<1>15. ASSUME NEW c \in Consumers, Advance(c) PROVE Accounted'
  <2>1. Holding' = Holding \ {c} /\ c \in Holding
    BY <1>15 DEF Advance, Holding, Holds
  <2>2. Cardinality(Holding') = Cardinality(Holding) - 1
    BY <2>1, FS_RemoveElement
  <2>3. /\ Releasing' = Releasing /\ UNCHANGED <<available, headCheck>>
        /\ tail' = tail + 1
    BY <1>15 DEF Advance, Releasing, ConsumerCurrent
  <2>4. QED
    BY <2>2, <2>3
<1>16. CASE UNCHANGED vars
  BY <1>2, <1>16 DEF vars, Releasing, Holding, Holds
<1>17. QED
  BY <1>3, <1>4, <1>5, <1>6, <1>7, <1>8, <1>9, <1>10, <1>11, <1>12,
     <1>13, <1>14, <1>15, <1>16 DEF Next, ProducerStep, ConsumerStep, Finished

(* With one consumer the semaphore's count is the number of published      *)
(* values nobody has come for, less those not yet released.                *)
THEOREM SemaphoreAccounts == ASSUME OneConsumer PROVE Spec => []Accounted
<1>1. Init => Accounted
  <2> SUFFICES ASSUME Init PROVE Accounted
    OBVIOUS
  <2>1. Releasing = {} /\ Holding = {}
    BY DEF Init, Releasing, Holding, Holds
  <2>2. QED
    BY <2>1, FS_EmptySet DEF Init, Accounted
<1>2. IInv /\ Accounted /\ [Next]_vars => IInv' /\ Accounted'
  BY IInvInductive, AccountedInductive, OneConsumer
<1>3. QED
  BY <1>1, <1>2, IInvInit, PTL DEF Spec
-----------------------------------------------------------------------------
(* Refinement.  The abstract queue is the slots from the next value to be  *)
(* moved out to the last one published: Publish appends to it, Take takes  *)
(* its head, and every other step of the ring leaves it alone.             *)

\* What a producer has not published yet is the value it was called with, and in its
\* slot once it is filled.
Filled == \A p \in Producers : /\ ppc[p] # "idle" => item[p] # NoValue
                               /\ ppc[p] = "publish" => ring[Slot(seen[p])] = item[p]

RInv == IInv /\ Filled

LEMMA FilledInductive == ASSUME OneConsumer, RInv, [Next]_vars PROVE Filled'
<1> USE SizeAssumption, NoValueAssumption DEF RInv, Filled, IInv, TypeOK, shared, pvars, cvars
<1>1. ASSUME NEW p \in Producers, NEW v \in Values, NEW w \in BOOLEAN, Call(p, v, w) PROVE Filled'
  BY <1>1 DEF Call
<1>2. ASSUME NEW p \in Producers, Fill(p) PROVE Filled'
  <2>1. \A q \in Producers \ {p} : ppc[q] = "publish" => Slot(seen[q]) # Slot(seen[p])
    BY <1>2, RaceFreedom DEF NoSlotRace, Fill, Owns
  <2>2. Slot(seen[p]) \in 0..(Size - 1)
    BY SlotInRing
  <2>3. QED
    BY <1>2, <2>1, <2>2 DEF Fill
<1>3. ASSUME NEW p \in Producers, ProducerStep(p), ~ Fill(p) PROVE Filled'
  BY <1>3 DEF ProducerStep, LoadHead, SeeFull, SeeRoom, Claim, ClaimFails, Publish, Release
<1>4. ASSUME NEW c \in Consumers, ConsumerStep(c) PROVE Filled'
  BY <1>4 DEF ConsumerStep, Acquire, LoadTail, Take, Advance
<1>5. CASE UNCHANGED vars
  BY <1>5 DEF vars
<1>6. QED
  BY <1>1, <1>2, <1>3, <1>4, <1>5 DEF Next, Finished

LEMMA QueueTyped ==
    ASSUME OneConsumer, RInv
    PROVE  /\ Moved \in Nat /\ tail <= Moved /\ Moved <= headCheck
           /\ AbstractQueue \in Seq(Values \cup {NoValue}) /\ Len(AbstractQueue) = headCheck - Moved
           /\ \A i \in 1..(headCheck - Moved) : AbstractQueue[i] = ring[Slot(Moved + i - 1)]
<1> USE DEF RInv, IInv, TypeOK, Window, ConsumerCurrent
<1>1. Moved \in Nat /\ tail <= Moved /\ Moved <= headCheck
  BY DEF Moved
<1>2. \A i \in 1..(headCheck - Moved) : ring[Slot(Moved + i - 1)] \in Values \cup {NoValue}
  <2> TAKE i \in 1..(headCheck - Moved)
  <2>1. PICK m \in Nat : m = Moved + i - 1
    BY <1>1
  <2>2. Slot(m) \in 0..(Size - 1)
    BY SlotInRing
  <2>3. ring \in [0..(Size - 1) -> Values \cup {NoValue}]
    OBVIOUS
  <2> QED
    BY <2>1, <2>2, <2>3
<1> DEFINE n == headCheck - Moved
<1>3. n \in Nat
  BY <1>1
<1>4. AbstractQueue = [i \in 1..n |-> ring[Slot(Moved + i - 1)]]
  BY DEF AbstractQueue
<1> DEFINE e(i) == ring[Slot(Moved + i - 1)]
           V == Values \cup {NoValue}
<1>e. \A i \in 1..n : e(i) \in V
  BY <1>2
<1> HIDE DEF n, e, V
<1>5. [i \in 1..n |-> e(i)] \in Seq(V)
  BY <1>3, <1>e
<1>6. Len(AbstractQueue) = n
  BY <1>3, <1>4
<1>7. QED
  BY <1>1, <1>4, <1>5, <1>6 DEF n, e, V

\* Publishing appends, and moving a value out takes the head.
LEMMA PublishAppends ==
    ASSUME OneConsumer, RInv, NEW p \in Producers, Publish(p)
    PROVE  AbstractQueue' = Append(AbstractQueue, item[p]) /\ Len(AbstractQueue) < Size
<1> DEFINE V == Values \cup {NoValue}
           q == AbstractQueue
           n == headCheck - Moved
<1>1. /\ Moved \in Nat /\ tail <= Moved /\ Moved <= headCheck
      /\ q \in Seq(V) /\ Len(q) = n /\ n \in Nat
      /\ \A i \in 1..n : q[i] = ring[Slot(Moved + i - 1)]
  BY QueueTyped DEF RInv, IInv, TypeOK
<1>2. /\ headCheck \in Nat /\ seen[p] = headCheck /\ headCheck' = headCheck + 1
      /\ ring[Slot(headCheck)] = item[p] /\ item[p] \in V
      /\ UNCHANGED <<ring, tail, cpc>> /\ Moved' = Moved
  BY DEF Publish, RInv, IInv, TypeOK, Filled, cvars, Moved
<1>3. n < Size
  BY <1>1, <1>2, SizeAssumption DEF RInv, IInv, TypeOK, Window, OwnedTickets, Owns, Publish
<1>4. AbstractQueue' = [i \in 1..(n + 1) |-> ring[Slot(Moved + i - 1)]]
  <2>1. headCheck' - Moved' = n + 1
    BY <1>1, <1>2
  <2>2. QED
    BY <1>2, <2>1 DEF AbstractQueue
<1>5. Append(q, item[p]) \in Seq(V) /\ Len(Append(q, item[p])) = n + 1
      /\ (\A i \in 1..n : Append(q, item[p])[i] = q[i]) /\ Append(q, item[p])[n + 1] = item[p]
  <2>1. q \in Seq(V) /\ item[p] \in V
    BY <1>1, <1>2
  <2> HIDE DEF q, V
  <2>2. /\ Append(q, item[p]) \in Seq(V) /\ Len(Append(q, item[p])) = Len(q) + 1
        /\ \A i \in 1..Len(q) : Append(q, item[p])[i] = q[i]
        /\ Append(q, item[p])[Len(q) + 1] = item[p]
    BY <2>1, AppendProperties
  <2>3. Len(q) = n
    BY <1>1
  <2>4. QED
    BY <2>2, <2>3
<1>6. \A i \in 1..(n + 1) : Append(q, item[p])[i] = ring[Slot(Moved + i - 1)]
  <2> SUFFICES ASSUME NEW i \in 1..(n + 1) PROVE Append(q, item[p])[i] = ring[Slot(Moved + i - 1)]
    OBVIOUS
  <2>1. CASE i \in 1..n
    BY <1>1, <1>5, <2>1
  <2>2. CASE i = n + 1
    <3>1. Moved + i - 1 = headCheck
      BY <1>1, <1>2, <2>2
    <3>2. QED
      BY <1>2, <1>5, <2>2, <3>1
  <2>3. QED
    BY <1>1, <2>1, <2>2
<1>7. Append(q, item[p]) = [i \in 1..(n + 1) |-> Append(q, item[p])[i]]
  <2>1. DOMAIN Append(q, item[p]) = 1..(n + 1)
    BY <1>5, LenProperties
  <2>2. Append(q, item[p]) \in [1..(n + 1) -> V]
    BY <1>5, LenProperties
  <2>3. QED
    BY <2>2
<1>8. QED
  BY <1>1, <1>3, <1>4, <1>6, <1>7

LEMMA TakeGets ==
    ASSUME OneConsumer, RInv, NEW c \in Consumers, Take(c)
    PROVE  /\ AbstractQueue # <<>> /\ AbstractQueue' = Tail(AbstractQueue)
           /\ got'[c] = Head(AbstractQueue)
<1> DEFINE V == Values \cup {NoValue}
           q == AbstractQueue
           n == headCheck - tail
<1>1. /\ cpc[c] = "take" /\ at[c] = tail /\ tail < headCheck /\ UNCHANGED <<ring, tail, headCheck>>
      /\ tail \in Nat /\ headCheck \in Nat /\ n \in Nat \ {0}
      /\ got'[c] = ring[Slot(tail)]
  BY DEF Take, RInv, IInv, TypeOK, ConsumerCurrent, shared
<1>2. Moved = tail /\ Moved' = tail + 1
  <2>1. \A d \in Consumers : d = c
    BY OneConsumer DEF OneConsumer
  <2>2. cpc'[c] = "advance"
    BY DEF Take, RInv, IInv, TypeOK
  <2>3. QED
    BY <1>1, <2>1, <2>2 DEF Moved
<1>3. q \in Seq(V) /\ Len(q) = n /\ \A i \in 1..n : q[i] = ring[Slot(tail + i - 1)]
  BY <1>2, QueueTyped
<1>4. q # <<>> /\ Head(q) = q[1] /\ 1 \in 1..n
  BY <1>1, <1>3
<1>5. Head(q) = ring[Slot(tail)]
  BY <1>1, <1>3, <1>4
<1>6. AbstractQueue' = [i \in 1..(n - 1) |-> ring[Slot(tail + 1 + i - 1)]]
  <2>1. headCheck' - Moved' = n - 1
    BY <1>1, <1>2
  <2>2. QED
    BY <1>1, <1>2, <2>1 DEF AbstractQueue
<1>7. Tail(q) \in Seq(V) /\ Len(Tail(q)) = n - 1 /\ \A i \in 1..(n - 1) : Tail(q)[i] = q[i + 1]
  BY <1>3, <1>4, HeadTailProperties
<1>8. \A i \in 1..(n - 1) : Tail(q)[i] = ring[Slot(tail + 1 + i - 1)]
  <2> SUFFICES ASSUME NEW i \in 1..(n - 1) PROVE Tail(q)[i] = ring[Slot(tail + 1 + i - 1)]
    OBVIOUS
  <2>1. i + 1 \in 1..n /\ tail + (i + 1) - 1 = tail + 1 + i - 1
    BY <1>1
  <2>2. QED
    BY <1>3, <1>7, <2>1
<1>9. Tail(q) = [i \in 1..(n - 1) |-> Tail(q)[i]]
  BY <1>7, LenProperties
<1>10. QED
  BY <1>1, <1>4, <1>5, <1>6, <1>8, <1>9

\* The other steps leave the abstract queue as it is.
LEMMA FillHides ==
    ASSUME OneConsumer, RInv, NEW p \in Producers, Fill(p) PROVE AbstractQueue' = AbstractQueue
<1>1. /\ Moved \in Nat /\ tail <= Moved /\ Moved <= headCheck /\ Moved' = Moved
      /\ headCheck' = headCheck /\ headCheck \in Nat
      /\ ring' = [ring EXCEPT ![Slot(seen[p])] = item[p]]
      /\ seen[p] \in Nat /\ headCheck <= seen[p] /\ seen[p] < tail + Size /\ tail \in Nat
  BY QueueTyped, SizeAssumption
     DEF Fill, RInv, IInv, TypeOK, Window, OwnedTickets, Owns, Moved, cvars
<1>2. ASSUME NEW i \in 1..(headCheck - Moved)
      PROVE ring'[Slot(Moved + i - 1)] = ring[Slot(Moved + i - 1)]
  <2>1. Moved + i - 1 \in Nat /\ Moved + i - 1 < seen[p] /\ seen[p] - (Moved + i - 1) < Size
    BY <1>1, SizeAssumption
  <2>2. Slot(Moved + i - 1) # Slot(seen[p])
    BY <1>1, <2>1, SlotsDiffer
  <2>3. QED
    BY <1>1, <2>2 DEF RInv, IInv, TypeOK
<1>3. QED
  BY <1>1, <1>2 DEF AbstractQueue

LEMMA AdvanceHides ==
    ASSUME OneConsumer, RInv, NEW c \in Consumers, Advance(c) PROVE AbstractQueue' = AbstractQueue
<1>1. /\ cpc[c] = "advance" /\ tail' = tail + 1 /\ UNCHANGED <<ring, headCheck>>
      /\ \A d \in Consumers : cpc'[d] # "advance"
  BY DEF OneConsumer, Advance, RInv, IInv, TypeOK, ConsumerCurrent
<1>2. Moved' = Moved
  BY <1>1 DEF Moved
<1>3. QED
  BY <1>1, <1>2 DEF AbstractQueue

(* With one consumer the ring is a bounded FIFO: each value that is        *)
(* offered goes in once or is refused, and comes out once, in order        *)
(* (the safety half of ImplementsQueue).                                   *)
THEOREM RingIsQueue == ASSUME NEW one, Consumers = {one} PROVE Spec => Queue!QSpec
<1>1. OneConsumer /\ (CHOOSE c \in Consumers : TRUE) = one /\ one \in Consumers
  BY DEF OneConsumer
<1>2. Init => RInv /\ Queue!QInit
  <2> SUFFICES ASSUME Init PROVE RInv /\ Queue!QInit
    OBVIOUS
  <2>1. RInv
    BY IInvInit DEF RInv, Filled, Init
  <2>2. AbstractQueue = <<>>
    <3>1. AbstractQueue \in Seq(Values \cup {NoValue}) /\ Len(AbstractQueue) = headCheck - Moved
      BY <1>1, <2>1, QueueTyped
    <3>2. Moved = 0 /\ headCheck = 0
      BY DEF Init, Moved
    <3>3. QED
      BY <3>1, <3>2, EmptySeq
  <2>3. QED
    BY <1>1, <2>1, <2>2 DEF Queue!QInit, Init, AbstractOffered, AbstractTaken
<1>3. RInv /\ [Next]_vars => RInv'
  BY <1>1, IInvInductive, FilledInductive DEF RInv
<1>4. RInv /\ [Next]_vars => [Queue!QNext]_(Queue!qvars)
  <2> SUFFICES ASSUME RInv, [Next]_vars PROVE Queue!QNext \/ UNCHANGED Queue!qvars
    OBVIOUS
  <2> USE <1>1
  <2>0. /\ ppc \in [Producers -> ProducerPC] /\ item \in [Producers -> Values \cup {NoValue}]
        /\ got \in [Consumers -> Values \cup {NoValue}]
        /\ \A p \in Producers : ppc[p] # "idle" => item[p] # NoValue
    BY DEF RInv, IInv, TypeOK, Filled
  <2>1. ASSUME UNCHANGED <<ring, headCheck, tail, cpc, got>>
        PROVE  UNCHANGED <<AbstractQueue, AbstractTaken>>
    BY <2>1 DEF AbstractQueue, AbstractTaken, Moved
  <2>2. ASSUME NEW p \in Producers, NEW v \in Values, NEW w \in BOOLEAN, Call(p, v, w)
        PROVE  Queue!Offer(p, v)
    <3>1. AbstractOffered[p] = NoValue /\ AbstractOffered' = [AbstractOffered EXCEPT ![p] = v]
      BY <2>0, <2>2 DEF Call, AbstractOffered, ProducerPC
    <3>2. QED
      BY <2>1, <2>2, <3>1 DEF Queue!Offer, Call, shared, cvars
  <2>3. ASSUME NEW p \in Producers, LoadHead(p) \/ SeeRoom(p) \/ Claim(p) \/ ClaimFails(p) \/ Release(p)
        PROVE  UNCHANGED Queue!qvars
    <3>1. UNCHANGED AbstractOffered
      BY <2>0, <2>3 DEF LoadHead, SeeRoom, Claim, ClaimFails, Release, AbstractOffered, ProducerPC
    <3>2. QED
      BY <2>1, <2>3, <3>1
         DEF Queue!qvars, LoadHead, SeeRoom, Claim, ClaimFails, Release, shared, cvars
  <2>4. ASSUME NEW p \in Producers, SeeFull(p) PROVE Queue!Refuse(p) \/ UNCHANGED Queue!qvars
    <3>1. UNCHANGED <<AbstractQueue, AbstractTaken>>
      BY <2>1, <2>4 DEF SeeFull, shared, cvars
    <3>2. CASE waits[p]
      <4>1. UNCHANGED AbstractOffered
        BY <2>0, <2>4, <3>2 DEF SeeFull, AbstractOffered, ProducerPC
      <4>2. QED
        BY <3>1, <4>1 DEF Queue!qvars
    <3>3. CASE ~ waits[p]
      <4>1. AbstractOffered[p] # NoValue /\ AbstractOffered' = [AbstractOffered EXCEPT ![p] = NoValue]
        BY <2>0, <2>4, <3>3 DEF SeeFull, AbstractOffered, ProducerPC
      <4>2. QED
        BY <3>1, <4>1 DEF Queue!Refuse
    <3>4. QED
      BY <3>2, <3>3
  <2>5. ASSUME NEW p \in Producers, Fill(p) PROVE UNCHANGED Queue!qvars
    <3>1. UNCHANGED AbstractOffered
      BY <2>0, <2>5 DEF Fill, AbstractOffered, ProducerPC
    <3>2. QED
      BY <2>5, <3>1, FillHides DEF Queue!qvars, Fill, AbstractTaken, cvars
  <2>6. ASSUME NEW p \in Producers, Publish(p) PROVE Queue!Put(p)
    <3>1. AbstractOffered[p] = item[p] /\ item[p] # NoValue
          /\ AbstractOffered' = [AbstractOffered EXCEPT ![p] = NoValue]
      BY <2>0, <2>6 DEF Publish, AbstractOffered, ProducerPC
    <3>2. QED
      BY <2>6, <3>1, PublishAppends DEF Queue!Put, Publish, AbstractTaken, cvars
  <2>7. ASSUME NEW c \in Consumers, Acquire(c) \/ LoadTail(c) PROVE UNCHANGED Queue!qvars
    <3>1. Moved' = Moved /\ UNCHANGED <<ring, headCheck, got, pvars>>
      BY <2>7 DEF Acquire, LoadTail, Moved, shared, RInv, IInv, TypeOK
    <3>2. QED
      BY <3>1 DEF Queue!qvars, AbstractQueue, AbstractTaken, AbstractOffered, pvars
  <2>8. ASSUME NEW c \in Consumers, Take(c) PROVE Queue!Get
    <3>1. c = one /\ UNCHANGED AbstractOffered
      BY <2>8 DEF Take, AbstractOffered, pvars
    <3>2. QED
      BY <2>8, <3>1, TakeGets DEF Queue!Get, AbstractTaken
  <2>9. ASSUME NEW c \in Consumers, Advance(c) PROVE UNCHANGED Queue!qvars
    BY <2>9, AdvanceHides DEF Queue!qvars, Advance, AbstractTaken, AbstractOffered, pvars
  <2>10. CASE UNCHANGED vars
    BY <2>1, <2>10 DEF vars, shared, pvars, cvars, Queue!qvars, AbstractOffered
  <2>11. QED
    BY <2>2, <2>3, <2>4, <2>5, <2>6, <2>7, <2>8, <2>9, <2>10
       DEF Next, ProducerStep, ConsumerStep, Finished, Queue!QNext
<1>5. QED
  BY <1>2, <1>3, <1>4, PTL DEF Spec, Queue!QSpec

-----------------------------------------------------------------------------
(* Nobody reads the value of a task that runs once before the task has     *)
(* written it.  The flags are all that keeps the two apart, and every call *)
(* of a user may clear some of them.                                       *)

Flags == {"Updated", "Exception", "Discarded", "Paused"}
Stages == {"queued", "pause", "call", "call alone", "store", "flag", "resume",
           "report", "again", "done"}
Places == {"idle", "sync", "wait", "choose", "clear", "rethrow", "get",
           "defer", "look", "look again", "suspended"}

FutureTypeOK == /\ shape \in {"launch", "deferred", "cyclic", "co"}
                /\ flags \in SUBSET Flags
                /\ task \in Stages
                /\ handle \in Users \cup {"none"}
                /\ where \in [Users -> Places]

\* The stages only a task with a timer goes through, and only one that runs again.
StagesOfShape == /\ task = "pause" => shape \in {"deferred", "cyclic"}
                 /\ task \in {"again", "report"} => shape = "cyclic"

\* A task that runs once has not stored its value yet.
Unwritten == shape # "cyclic" /\ task \in {"queued", "pause", "call", "call alone", "store"}

\* Until then its flags tell of no value, and nobody is past the look at them.
NothingToRead == Unwritten => /\ flags \cap {"Updated", "Exception"} = {}
                              /\ \A u \in Users : where[u] \notin {"clear", "rethrow", "get"}

FutureInv == FutureTypeOK /\ StagesOfShape /\ NothingToRead

\* Initially the task is queued and nobody has called anything.
LEMMA FutureInvInit == InitFuture => FutureInv
BY ShapeAssumption DEF InitFuture, FutureInv, FutureTypeOK, StagesOfShape, NothingToRead,
   Unwritten, Flags, Stages, Places

\* The steps of the task keep the invariant: only Store ends the time before the value.
LEMMA TaskKeeps == FutureInv /\ TaskStep => FutureInv'
<1> SUFFICES ASSUME FutureInv, TaskStep PROVE FutureInv'
    OBVIOUS
<1> USE DEF FutureInv, FutureTypeOK, StagesOfShape, NothingToRead, Unwritten, TaskAt,
            blockVars, userVars, Flags, Stages
<1>1. CASE Begin
    BY <1>1 DEF Begin
<1>2. CASE SeePaused
    BY <1>2 DEF SeePaused
<1>3. CASE \E o \in {"value", "exception"} : Run(o)
    BY <1>3 DEF Run
<1>4. CASE Store
    BY <1>4 DEF Store
<1>5. CASE Flag
    <2>1. SetFlags \in SUBSET Flags
        BY DEF SetFlags
    <2>2. AfterFlag \in {"resume", "report", "again", "done"}
          /\ (AfterFlag \in {"report", "again"} => shape = "cyclic")
        BY DEF AfterFlag
    <2> QED
        BY <1>5, <2>1, <2>2 DEF Flag
<1>6. CASE TryRunHandle
    <2>1. where' \in [Users -> Places]
        BY <1>6 DEF TryRunHandle, Places
    <2> QED
        BY <1>6, <2>1 DEF TryRunHandle
<1>7. CASE \E handled \in BOOLEAN : Report(handled)
    BY <1>7 DEF Report
<1>8. CASE Again
    BY <1>8 DEF Again
<1> QED
    BY <1>1, <1>2, <1>3, <1>4, <1>5, <1>6, <1>7, <1>8 DEF TaskStep

\* A user reaches the value only through a look at the flags, and its calls set none
\* that tells of one.
LEMMA UserKeeps == ASSUME NEW u \in Users, FutureInv, UserStep(u) \/ UserCall(u) PROVE FutureInv'
<1> USE DEF FutureInv, FutureTypeOK, StagesOfShape, NothingToRead, Unwritten, Move, Enter,
            taskVars, blockVars, Flags, Places
<1>1. CASE Sync(u)
    <2>1. CASE flags \cap Awaited(op[u]) = {}
        BY <1>1, <2>1 DEF Sync
    <2>2. CASE flags \cap Awaited(op[u]) # {} /\ op[u] \in {"sync", "sync_value", "value_or"}
        BY <1>1, <2>2 DEF Sync
    <2>3. CASE flags \cap Awaited(op[u]) # {} /\ op[u] \notin {"sync", "sync_value", "value_or"}
        <3>1. ~ Unwritten
            BY <2>3 DEF Awaited
        <3> QED
            BY <1>1, <2>3, <3>1 DEF Sync
    <2> QED
        BY <2>1, <2>2, <2>3
<1>2. CASE Choose(u)
    BY <1>2 DEF Choose
<1>3. CASE Clear(u)
    BY <1>3 DEF Clear
<1>4. CASE Rethrow(u)
    BY <1>4 DEF Rethrow
<1>5. CASE Get(u)
    BY <1>5 DEF Get
<1>6. CASE TrySetHandle(u)
    BY <1>6 DEF TrySetHandle
<1>7. CASE Look(u)
    BY <1>7 DEF Look
<1>8. CASE LookAgain(u)
    BY <1>8 DEF LookAgain
<1>9. CASE \E o \in {"sync", "sync_value", "value_or", "value"} : Read(u, o)
    BY <1>9 DEF Read
<1>10. CASE \E o \in {"discard", "pause", "unpause"} : Set(u, o)
    BY <1>10 DEF Set
<1>11. CASE Drop(u)
    BY <1>11 DEF Drop
<1>12. CASE Await(u)
    BY <1>12 DEF Await
<1> QED
    BY <1>1, <1>2, <1>3, <1>4, <1>5, <1>6, <1>7, <1>8, <1>9, <1>10, <1>11, <1>12
    DEF UserStep, UserCall

\* The inductive invariant holds in every reachable state.
THEOREM FutureInductive == FutureSpec => []FutureInv
<1>1. FutureInv /\ UNCHANGED futureVars => FutureInv'
    BY DEF FutureInv, FutureTypeOK, StagesOfShape, NothingToRead, Unwritten, futureVars,
       blockVars, taskVars, userVars
<1>2. FutureInv /\ [FutureNext]_futureVars => FutureInv'
    BY <1>1, TaskKeeps, UserKeeps DEF FutureNext
<1> QED
    BY <1>2, FutureInvInit, PTL DEF FutureSpec

\* The value of a task that runs once is never read while the task writes it, although
\* neither takes a lock (ControlBlock::value, src/mt/control.hpp).
THEOREM ValueIsExclusive == FutureSpec => []NoValueRace
<1>1. FutureInv => NoValueRace
    BY DEF FutureInv, NothingToRead, Unwritten, NoValueRace
<1> QED
    BY <1>1, FutureInductive, PTL
=============================================================================
