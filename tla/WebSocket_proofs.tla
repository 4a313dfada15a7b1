-------------------------- MODULE WebSocket_proofs --------------------------
(***************************************************************************)
(* That the maps of the websockets' thread agree with the states of the    *)
(* connections, that on_close comes once and last, and that messages go    *)
(* out in order, for any number of connections, messages, reconnections    *)
(* and slots.                                                              *)
(***************************************************************************)
EXTENDS WebSocket, SequenceTheorems, TLAPS

States == {"Created", "Connecting", "Open", "Closing", "Reconnecting", "Closed", "Failed"}
Op == [state : States, handle : BOOLEAN, maps : SUBSET {"connecting", "open", "reconnecting"},
       asked : BOOLEAN, framed : BOOLEAN, user : BOOLEAN, attempts : Nat, pending : Nat,
       outgoing : Seq(Nat)]
Tasks == [kind : {"start", "send", "close"}, of : Conns, msg : Nat]

NetTypeOK == /\ ops \in [Conns -> Op] /\ tasks \in Seq(Tasks) /\ sent \in [Conns -> Nat]
             /\ closes \in [Conns -> Nat] /\ todo \subseteq Conns

\* What holds of an operation alone: it is in the map of its state, and one that failed
\* may not be tried again.
Mapped(o) == o.maps = MapOf(o.state) /\ (o.handle <=> o.state \in {"Connecting", "Open", "Closing"})
Final(c, o) == o.state = "Failed" => ~ Retries(c, o)

\* on_close has been called if it is over, and not before.
ClosesFit(c) == /\ c \in late => ops[c].state = "Failed"
                /\ c \notin late => closes[c] = IF ops[c].state \in Ended THEN 1 ELSE 0

\* A connection is started first of all, and once.
Starts == \A i \in 1..Len(tasks) :
              /\ tasks[i].of \in alive \cup closing
              /\ tasks[i].kind = "start" =>
                    /\ ops[tasks[i].of].state = "Created"
                    /\ \A j \in 1..(i - 1) : tasks[j].of # tasks[i].of

\* Between the connects and the reconnections nothing is started: what is driven was open.
Driven == /\ at \in {"drive", "close", "recv", "ping", "timeout"} =>
                \A c \in todo : ops[c].state \notin {"Created", "Connecting"}
          /\ at \in {"close", "recv"} => cur \in Conns /\ ops[cur].state \in {"Open", "Closing"}
          /\ at \in {"ping", "timeout"} =>
                cur \in Conns /\ ops[cur].state \in {"Open", "Closing", "Reconnecting", "Failed"}

NetInv == /\ NetTypeOK
          /\ at # "ended" => \A c \in Conns : Mapped(ops[c])
          /\ \A c \in Conns : Final(c, ops[c])
          /\ \A c \in Conns : ClosesFit(c)
          /\ after = {} /\ Starts /\ Driven

-----------------------------------------------------------------------------
(* What the thread does to an operation.                                   *)

LEMMA CleanedOp ==
    ASSUME NEW o \in Op
    PROVE  /\ Cleaned(o) \in Op /\ Cleaned(o).state = o.state /\ Cleaned(o).handle = FALSE
           /\ Cleaned(o).maps = IF o.handle THEN {} ELSE o.maps \ {"reconnecting"}
           /\ Cleaned(o).user = o.user /\ Cleaned(o).attempts = o.attempts
BY DEF Op, Cleaned, Reset, None

\* An operation that is given up, or closed.
LEMMA OverOp ==
    ASSUME NEW o \in Op, Mapped(o), NEW s \in Ended
    PROVE  LET f == [Cleaned(o) EXCEPT !.state = s]
           IN  f \in Op /\ f.state = s /\ Mapped(f) /\ f.user = o.user /\ f.attempts = o.attempts
<1>1. /\ Cleaned(o) \in Op /\ Cleaned(o).handle = FALSE
      /\ Cleaned(o).maps = IF o.handle THEN {} ELSE o.maps \ {"reconnecting"}
      /\ Cleaned(o).user = o.user /\ Cleaned(o).attempts = o.attempts
    BY CleanedOp
<1>2. Cleaned(o).maps = {}
    BY <1>1 DEF Mapped, MapOf, Op, States
<1> QED
    BY <1>1, <1>2 DEF Op, States, Ended, Mapped, MapOf

LEMMA ScheduledOp ==
    ASSUME NEW o \in Op, Mapped(o)
    PROVE  LET f == Scheduled(Cleaned(o)) IN f \in Op /\ f.state = "Reconnecting" /\ Mapped(f)
<1>1. \A d \in Op : d.maps = {} /\ d.handle = FALSE =>
          LET f == Scheduled(d) IN f \in Op /\ f.state = "Reconnecting" /\ Mapped(f)
    <2> SUFFICES ASSUME NEW d \in Op, d.maps = {}, d.handle = FALSE
                 PROVE  LET f == Scheduled(d)
                        IN  f \in Op /\ f.state = "Reconnecting" /\ Mapped(f)
        OBVIOUS
    <2>1. d.attempts + 1 \in Nat
        BY DEF Op
    <2>2. PICK n \in Nat : n = d.attempts + 1
        BY <2>1
    <2>3. Scheduled(d) = [d EXCEPT !.state = "Reconnecting", !.attempts = n, !.maps = {"reconnecting"}]
        BY <2>2 DEF Op, Scheduled
    <2>4. [d EXCEPT !.state = "Reconnecting", !.attempts = n, !.maps = {"reconnecting"}] \in Op
        BY DEF Op, States
    <2>5. /\ Scheduled(d).state = "Reconnecting" /\ Scheduled(d).handle = FALSE
          /\ Scheduled(d).maps = {"reconnecting"}
        BY <2>3 DEF Op
    <2> QED
        BY <2>3, <2>4, <2>5 DEF Mapped, MapOf
<1>2. /\ Cleaned(o) \in Op /\ Cleaned(o).handle = FALSE
      /\ Cleaned(o).maps = IF o.handle THEN {} ELSE o.maps \ {"reconnecting"}
    BY CleanedOp
<1>3. Cleaned(o).maps = {}
    BY <1>2 DEF Mapped, MapOf, Op, States
<1> QED
    BY <1>1, <1>2, <1>3

\* Connection c goes on with the operation r, and its client is told if it is over.
Becomes(c, r) == /\ r \in Op /\ Mapped(r) /\ Final(c, r)
                 /\ ops' = [ops EXCEPT ![c] = r]
                 /\ closes' = [closes EXCEPT ![c] = closes[c] + (IF r.state \in Ended THEN 1 ELSE 0)]

LEMMA GoesOn ==
    ASSUME NetInv, NEW c \in Conns, NEW r \in Op, Mapped(r), Final(c, r), r.state \notin Ended,
           ops' = [ops EXCEPT ![c] = r], closes' = closes
    PROVE  Becomes(c, r)
<1>1. closes \in [Conns -> Nat] /\ closes[c] + 0 = closes[c]
    BY DEF NetInv, NetTypeOK
<1>2. closes = [closes EXCEPT ![c] = closes[c]]
    BY <1>1
<1> QED
    BY <1>1, <1>2 DEF Becomes

\* _transport_error on an operation that takes part of another's fields.
LEMMA ErrorOp ==
    ASSUME NetInv, NEW c \in Conns, NEW o \in Op, Mapped(o), o.state = "Failed" => ~ Retries(c, o),
           ops' = [ops EXCEPT ![c] = IF Retries(c, o) THEN Scheduled(Cleaned(o))
                                     ELSE [Cleaned(o) EXCEPT !.state = "Failed"]],
           closes' = [closes EXCEPT ![c] = IF Retries(c, o) THEN closes[c] ELSE closes[c] + 1]
    PROVE  \E r \in Op : /\ Becomes(c, r) /\ r.state \in {"Reconnecting", "Failed"}
                         /\ o.state = "Failed" => r.state = "Failed"
<1>0. closes \in [Conns -> Nat] /\ closes[c] \in Nat
    BY DEF NetInv, NetTypeOK
<1>1. CASE Retries(c, o)
    <2> DEFINE r == Scheduled(Cleaned(o))
    <2>1. r \in Op /\ r.state = "Reconnecting" /\ Mapped(r)
        BY ScheduledOp
    <2>2. ops' = [ops EXCEPT ![c] = r] /\ closes' = closes
        BY <1>0, <1>1
    <2> HIDE DEF r
    <2>3. Final(c, r) /\ r.state \notin Ended /\ o.state # "Failed"
        BY <1>1, <2>1 DEF Final, Ended
    <2>4. Becomes(c, r)
        BY <2>1, <2>2, <2>3, GoesOn
    <2> QED
        BY <2>1, <2>3, <2>4
<1>2. CASE ~ Retries(c, o)
    <2> DEFINE r == [Cleaned(o) EXCEPT !.state = "Failed"]
    <2>1. r \in Op /\ r.state = "Failed" /\ Mapped(r) /\ r.user = o.user /\ r.attempts = o.attempts
        BY OverOp DEF Ended
    <2>2. ops' = [ops EXCEPT ![c] = r] /\ closes' = [closes EXCEPT ![c] = closes[c] + 1]
        BY <1>0, <1>2
    <2> HIDE DEF r
    <2>3. Final(c, r) /\ r.state \in Ended
        BY <1>2, <2>1 DEF Final, Retries, Ended
    <2>4. Becomes(c, r)
        BY <2>1, <2>2, <2>3 DEF Becomes
    <2> QED
        BY <2>1, <2>4
<1> QED
    BY <1>1, <1>2

LEMMA ErrorBecomes ==
    ASSUME NetInv, at # "ended", NEW c \in Conns, Error(c)
    PROVE  \E r \in Op : /\ Becomes(c, r) /\ r.state \in {"Reconnecting", "Failed"}
                         /\ ops[c].state = "Failed" => r.state = "Failed"
<1>1. /\ ops \in [Conns -> Op] /\ ops[c] \in Op /\ Mapped(ops[c]) /\ Final(c, ops[c])
      /\ closes \in [Conns -> Nat]
    BY DEF NetInv, NetTypeOK
<1>2. /\ ops' = [ops EXCEPT ![c] = IF Retries(c, ops[c]) THEN Scheduled(Cleaned(ops[c]))
                                   ELSE [Cleaned(ops[c]) EXCEPT !.state = "Failed"]]
      /\ closes' = [closes EXCEPT ![c] = IF Retries(c, ops[c]) THEN closes[c] ELSE closes[c] + 1]
    BY <1>1 DEF Error
<1> QED
    BY <1>1, <1>2, ErrorOp DEF Final

LEMMA CloseBecomes ==
    ASSUME NetInv, at # "ended", NEW c \in Conns, FinishClose(c)
    PROVE  \E r \in Op : Becomes(c, r) /\ r.state = "Closed"
<1>1. /\ ops \in [Conns -> Op] /\ ops[c] \in Op /\ Mapped(ops[c]) /\ closes \in [Conns -> Nat]
    BY DEF NetInv, NetTypeOK
<1> DEFINE r == [Cleaned(ops[c]) EXCEPT !.state = "Closed"]
<1>2. r \in Op /\ r.state = "Closed" /\ Mapped(r)
    BY <1>1, OverOp DEF Ended
<1>3. ops' = [ops EXCEPT ![c] = r] /\ closes' = [closes EXCEPT ![c] = closes[c] + 1]
    BY <1>1 DEF FinishClose
<1> HIDE DEF r
<1>4. Becomes(c, r)
    BY <1>2, <1>3 DEF Becomes, Final, Ended
<1> QED
    BY <1>2, <1>4

LEMMA RequestBecomes ==
    ASSUME NetInv, at # "ended", NEW c \in Conns, RequestClose(c)
    PROVE  \/ UNCHANGED <<ops, closes>>
           \/ /\ ops[c].state \notin Ended
              /\ \E r \in Op : Becomes(c, r) /\ r.state \in {"Closed", "Closing"}
<1>1. /\ ops \in [Conns -> Op] /\ ops[c] \in Op /\ Mapped(ops[c]) /\ closes \in [Conns -> Nat]
      /\ ops[c].state \in States
    BY DEF NetInv, NetTypeOK, Op
<1>2. CASE ops[c].state \in Ended \cup {"Closing"}
    BY <1>2 DEF RequestClose, Ended
<1>3. CASE ops[c].state \in {"Created", "Connecting", "Reconnecting"}
    <2> DEFINE f == [Cleaned(ops[c]) EXCEPT !.state = "Closed"]
               r == [f EXCEPT !.user = TRUE]
    <2>1. f \in Op /\ f.state = "Closed" /\ Mapped(f)
        BY <1>1, OverOp DEF Ended
    <2>2. r = [Cleaned(ops[c]) EXCEPT !.state = "Closed", !.user = TRUE]
        OBVIOUS
    <2>3. ops' = [ops EXCEPT ![c] = r] /\ closes' = [closes EXCEPT ![c] = closes[c] + 1]
        BY <1>1, <1>3, <2>2 DEF RequestClose, Ended
    <2> HIDE DEF f
    <2>4. r \in Op /\ r.state = "Closed" /\ Mapped(r)
        BY <2>1 DEF Op, Mapped
    <2> HIDE DEF r
    <2>5. Becomes(c, r)
        BY <2>3, <2>4 DEF Becomes, Final, Ended
    <2> QED
        BY <1>3, <2>4, <2>5 DEF Ended
<1>4. CASE ops[c].state = "Open"
    <2> DEFINE r == Asked(ops[c])
    <2>1. r \in Op /\ r.state = "Closing" /\ Mapped(r)
        BY <1>1, <1>4 DEF Asked, Op, States, Mapped, MapOf
    <2>2. ops' = [ops EXCEPT ![c] = r] /\ closes' = closes
        BY <1>1, <1>4 DEF RequestClose, Ended
    <2> HIDE DEF r
    <2>3. Becomes(c, r)
        BY <2>1, <2>2, GoesOn DEF Final, Ended
    <2> QED
        BY <1>4, <2>1, <2>3 DEF Ended
<1> QED
    BY <1>1, <1>2, <1>3, <1>4 DEF States, Ended

LEMMA StartBecomes ==
    ASSUME NetInv, at # "ended", NEW c \in Conns, StartOp(c)
    PROVE  \E r \in Op : Becomes(c, r)
<1>1. /\ ops \in [Conns -> Op] /\ ops[c] \in Op
    BY DEF NetInv, NetTypeOK
<1>2. CASE Error(c)
    BY <1>2, ErrorBecomes
<1>3. CASE /\ ops' = [ops EXCEPT ![c] = [Setup(@) EXCEPT !.state = "Connecting", !.maps = {"connecting"}]]
           /\ UNCHANGED closes
    <2> DEFINE r == [Setup(ops[c]) EXCEPT !.state = "Connecting", !.maps = {"connecting"}]
    <2>1. r \in Op /\ r.state = "Connecting" /\ Mapped(r)
        BY <1>1 DEF Setup, Reset, Op, States, Mapped, MapOf, None
    <2>2. ops' = [ops EXCEPT ![c] = r] /\ closes' = closes
        BY <1>1, <1>3
    <2> HIDE DEF r
    <2>3. Becomes(c, r)
        BY <2>1, <2>2, GoesOn DEF Final, Ended
    <2> QED
        BY <2>1, <2>3
<1> QED
    BY <1>2, <1>3 DEF StartOp

\* _send_outgoing on an open connection.
LEMMA FlushBecomes ==
    ASSUME NetInv, at # "ended", NEW c \in Conns, NEW o \in Op, o.state = "Open", Mapped(o),
           NEW q \in Seq(Nat), Flush(c, q, o)
    PROVE  \E r \in Op : Becomes(c, r) /\ r.state \in {"Open", "Reconnecting", "Failed"}
<1>1. /\ ops \in [Conns -> Op] /\ closes \in [Conns -> Nat]
    BY DEF NetInv, NetTypeOK
<1>2. PICK k \in 0..Len(q) :
        \/ /\ ops' = [ops EXCEPT ![c] = [o EXCEPT !.pending = None, !.outgoing = <<>>]]
           /\ UNCHANGED closes
        \/ /\ k < Len(q)
           /\ ops' = [ops EXCEPT ![c] = [o EXCEPT !.pending = q[k + 1],
                                                  !.outgoing = SubSeq(q, k + 2, Len(q))]]
           /\ UNCHANGED closes
        \/ /\ k < Len(q)
           /\ LET o2 == [o EXCEPT !.outgoing = SubSeq(q, k + 2, Len(q))]
              IN /\ ops' = [ops EXCEPT ![c] = IF Retries(c, o) THEN Scheduled(Cleaned(o2))
                                              ELSE [Cleaned(o2) EXCEPT !.state = "Failed"]]
                 /\ closes' = [closes EXCEPT ![c] = IF Retries(c, o) THEN @ ELSE @ + 1]
    BY DEF Flush
<1>3. Len(q) \in Nat
    BY LenProperties
<1>4. k < Len(q) => q[k + 1] \in Nat /\ SubSeq(q, k + 2, Len(q)) \in Seq(Nat)
    <2> SUFFICES ASSUME k < Len(q) PROVE q[k + 1] \in Nat /\ SubSeq(q, k + 2, Len(q)) \in Seq(Nat)
        OBVIOUS
    <2>1. k + 1 \in 1..Len(q) /\ k + 2 \in 1..Len(q) + 1 /\ Len(q) \in (k + 2) - 1..Len(q)
        BY <1>3
    <2> QED
        BY <2>1, ElementOfSeq, SubSeqProperties
<1>5. CASE /\ ops' = [ops EXCEPT ![c] = [o EXCEPT !.pending = None, !.outgoing = <<>>]]
           /\ UNCHANGED closes
    <2>0. PICK e \in Seq(Nat) : e = <<>>
        BY EmptySeq
    <2> DEFINE r == [o EXCEPT !.pending = 0, !.outgoing = e]
    <2>1. r \in Op /\ r.state = "Open" /\ Mapped(r)
        BY DEF Op, Mapped
    <2>2. ops' = [ops EXCEPT ![c] = r] /\ closes' = closes
        BY <1>5, <2>0 DEF None
    <2> HIDE DEF r
    <2> QED
        BY <2>1, <2>2, GoesOn DEF Final, Ended
<1>6. CASE /\ k < Len(q)
           /\ ops' = [ops EXCEPT ![c] = [o EXCEPT !.pending = q[k + 1],
                                                  !.outgoing = SubSeq(q, k + 2, Len(q))]]
           /\ UNCHANGED closes
    <2>1. PICK m \in Nat, rem \in Seq(Nat) : m = q[k + 1] /\ rem = SubSeq(q, k + 2, Len(q))
        BY <1>4, <1>6
    <2> DEFINE r == [o EXCEPT !.pending = m, !.outgoing = rem]
    <2>2. r \in Op /\ r.state = "Open" /\ Mapped(r)
        BY DEF Op, Mapped
    <2>3. ops' = [ops EXCEPT ![c] = r] /\ closes' = closes
        BY <1>6, <2>1
    <2> HIDE DEF r
    <2> QED
        BY <2>2, <2>3, GoesOn DEF Final, Ended
<1>7. CASE /\ k < Len(q)
           /\ LET o2 == [o EXCEPT !.outgoing = SubSeq(q, k + 2, Len(q))]
              IN /\ ops' = [ops EXCEPT ![c] = IF Retries(c, o) THEN Scheduled(Cleaned(o2))
                                              ELSE [Cleaned(o2) EXCEPT !.state = "Failed"]]
                 /\ closes' = [closes EXCEPT ![c] = IF Retries(c, o) THEN @ ELSE @ + 1]
    <2>1. PICK rem \in Seq(Nat) : rem = SubSeq(q, k + 2, Len(q))
        BY <1>4, <1>7
    <2> DEFINE o2 == [o EXCEPT !.outgoing = rem]
    <2>2. /\ o2 \in Op /\ o2.state = "Open" /\ Mapped(o2) /\ o2.user = o.user
          /\ o2.attempts = o.attempts
        BY DEF Op, Mapped
    <2>3. /\ ops' = [ops EXCEPT ![c] = IF Retries(c, o) THEN Scheduled(Cleaned(o2))
                                       ELSE [Cleaned(o2) EXCEPT !.state = "Failed"]]
          /\ closes' = [closes EXCEPT ![c] = IF Retries(c, o) THEN closes[c] ELSE closes[c] + 1]
        BY <1>1, <1>7, <2>1
    <2> HIDE DEF o2
    <2>4. Retries(c, o) <=> Retries(c, o2)
        BY <2>2 DEF Retries
    <2>5. /\ ops' = [ops EXCEPT ![c] = IF Retries(c, o2) THEN Scheduled(Cleaned(o2))
                                       ELSE [Cleaned(o2) EXCEPT !.state = "Failed"]]
          /\ closes' = [closes EXCEPT ![c] = IF Retries(c, o2) THEN closes[c] ELSE closes[c] + 1]
        BY <2>3, <2>4
    <2>6. o2.state = "Failed" => ~ Retries(c, o2)
        BY <2>2
    <2> QED
        BY <2>2, <2>5, <2>6, ErrorOp
<1> QED
    BY <1>2, <1>5, <1>6, <1>7

LEMMA SendBecomes ==
    ASSUME NetInv, at # "ended", NEW c \in Conns, NEW m \in Nat, SendTask(c, m)
    PROVE  \/ UNCHANGED <<ops, closes>>
           \/ /\ ops[c].state \notin Ended
              /\ \E r \in Op : /\ Becomes(c, r)
                               /\ ops[c].state = "Created" => r.state = "Created"
<1>1. /\ ops \in [Conns -> Op] /\ ops[c] \in Op /\ Mapped(ops[c]) /\ closes \in [Conns -> Nat]
    BY DEF NetInv, NetTypeOK
<1>2. ops[c].state \in States /\ ops[c].pending \in Nat /\ ops[c].outgoing \in Seq(Nat)
    BY <1>1 DEF Op
<1>3. CASE ops[c].state \in Ended \cup {"Closing"}
    BY <1>3 DEF SendTask, Ended
<1>4. CASE ops[c].state = "Open"
    <2> DEFINE n == IF ops[c].pending = None THEN m ELSE ops[c].pending
               q == <<n>> \o ops[c].outgoing
    <2>1. n \in Nat
        BY <1>2
    <2>2. Flush(c, q, ops[c])
        BY <1>4 DEF SendTask, Ended
    <2> HIDE DEF n
    <2>3. q \in Seq(Nat)
        BY <1>2, <2>1
    <2> HIDE DEF q
    <2> QED
        BY <1>1, <1>4, <2>2, <2>3, FlushBecomes DEF Ended
<1>5. CASE ops[c].state \in {"Created", "Connecting", "Reconnecting"}
    <2>1. PICK out \in Seq(Nat) : out = Append(ops[c].outgoing, m)
        BY <1>2, AppendProperties
    <2> DEFINE r == [ops[c] EXCEPT !.outgoing = out]
    <2>2. r \in Op /\ r.state = ops[c].state /\ Mapped(r)
        BY <1>1 DEF Op, Mapped
    <2>3. ops' = [ops EXCEPT ![c] = r] /\ closes' = closes
        BY <1>1, <1>5, <2>1 DEF SendTask, Ended
    <2> HIDE DEF r
    <2>4. Becomes(c, r)
        BY <1>5, <2>2, <2>3, GoesOn DEF Final, Ended
    <2> QED
        BY <1>5, <2>2, <2>4 DEF Ended
<1> QED
    BY <1>2, <1>3, <1>4, <1>5 DEF States, Ended

-----------------------------------------------------------------------------
(* What the rest of the invariant asks of a step.                          *)

\* The conjuncts that are about each connection alone.
Sound == /\ ops \in [Conns -> Op] /\ closes \in [Conns -> Nat]
         /\ at # "ended" => \A c \in Conns : Mapped(ops[c])
         /\ \A c \in Conns : Final(c, ops[c])
         /\ \A c \in Conns : ClosesFit(c)

\* A connection that is not over goes on, and the others stay.
LEMMA BecomesSound ==
    ASSUME NetInv, at # "ended", NEW c \in Conns, NEW r \in Op, Becomes(c, r),
           ops[c].state \notin Ended, UNCHANGED late
    PROVE  Sound' /\ ops'[c] = r /\ \A d \in Conns \ {c} : ops'[d] = ops[d]
<1>0. /\ ops \in [Conns -> Op] /\ closes \in [Conns -> Nat]
      /\ \A d \in Conns : Mapped(ops[d]) /\ Final(d, ops[d]) /\ ClosesFit(d)
    BY DEF NetInv, NetTypeOK
<1>1. c \notin late /\ closes[c] = 0
    <2>1. ClosesFit(c)
        BY <1>0
    <2> QED
        BY <2>1 DEF ClosesFit, Ended
<1>2. /\ ops'[c] = r /\ \A d \in Conns \ {c} : ops'[d] = ops[d] /\ closes'[d] = closes[d]
      /\ closes'[c] = IF r.state \in Ended THEN 1 ELSE 0
    BY <1>0, <1>1 DEF Becomes
<1>3. ops' \in [Conns -> Op] /\ closes' \in [Conns -> Nat]
    BY <1>0 DEF Becomes
<1>4. \A d \in Conns : Mapped(ops'[d]) /\ Final(d, ops'[d])
    BY <1>0, <1>2 DEF Becomes
<1>5. \A d \in Conns : ClosesFit(d)'
    BY <1>0, <1>1, <1>2 DEF ClosesFit
<1>6. (\A d \in Conns : Mapped(ops[d]))' /\ (\A d \in Conns : Final(d, ops[d]))'
    BY <1>4 DEF Mapped, Final
<1> QED
    BY <1>2, <1>3, <1>5, <1>6 DEF Sound

LEMMA StaySound ==
    ASSUME NetInv, UNCHANGED <<ops, closes, late>>,
           at' # "ended" => at # "ended"
    PROVE  Sound'
BY DEF NetInv, NetTypeOK, Sound, ClosesFit, Mapped, Final, Retries

\* The connections that are to be started, and the tasks.
Queued == tasks \in Seq(Tasks) /\ Starts

\* No connection leaves Created, and nobody is forgotten.
Rests == /\ \A d \in Conns : ops[d].state = "Created" => ops'[d].state = "Created"
         /\ alive \cup closing \subseteq alive' \cup closing'

LEMMA QueueRests ==
    ASSUME NetInv, Rests, tasks' = tasks
    PROVE  Queued'
<1>0. tasks \in Seq(Tasks)
    BY DEF NetInv, NetTypeOK
<1>1. \A i \in 1..Len(tasks) : tasks[i] \in Tasks
    BY <1>0, ElementOfSeq
<1>2. \A i \in 1..Len(tasks) : tasks[i].of \in Conns
    BY <1>1 DEF Tasks
<1> QED
    BY <1>0, <1>2 DEF NetInv, Starts, Queued, Rests

LEMMA QueueAppends ==
    ASSUME NetInv, Rests, NEW t \in Tasks, tasks' = Append(tasks, t), t.of \in alive' \cup closing',
           t.kind = "start" => ops'[t.of].state = "Created" /\ t.of \notin alive \cup closing
    PROVE  Queued'
<1>0. tasks \in Seq(Tasks) /\ Len(tasks) \in Nat
    BY LenProperties DEF NetInv, NetTypeOK
<1>1. \A i \in 1..Len(tasks) : tasks[i] \in Tasks
    BY <1>0, ElementOfSeq
<1>2. \A i \in 1..Len(tasks) : tasks[i].of \in Conns
    BY <1>1 DEF Tasks
<1>3. /\ tasks' \in Seq(Tasks) /\ Len(tasks') = Len(tasks) + 1 /\ tasks'[Len(tasks) + 1] = t
      /\ \A i \in 1..Len(tasks) : tasks'[i] = tasks[i]
    BY <1>0, AppendProperties
<1> SUFFICES ASSUME NEW i \in 1..Len(tasks')
             PROVE  /\ tasks'[i].of \in alive' \cup closing'
                    /\ tasks'[i].kind = "start" =>
                          /\ ops'[tasks'[i].of].state = "Created"
                          /\ \A j \in 1..(i - 1) : tasks'[j].of # tasks'[i].of
    BY <1>3 DEF Queued, Starts
<1>4. CASE i = Len(tasks) + 1
    <2>1. \A j \in 1..(i - 1) : tasks'[j] = tasks[j] /\ tasks[j].of \in alive \cup closing
        BY <1>0, <1>3, <1>4 DEF NetInv, Starts
    <2> QED
        BY <1>3, <1>4, <2>1
<1>5. CASE i # Len(tasks) + 1
    <2>1. i \in 1..Len(tasks) /\ tasks'[i] = tasks[i] /\ \A j \in 1..(i - 1) : tasks'[j] = tasks[j]
        BY <1>0, <1>3, <1>5
    <2> QED
        BY <1>2, <2>1 DEF NetInv, Starts, Rests
<1> QED
    BY <1>4, <1>5

\* A task that is run is for a connection that no start behind it is for.
LEMMA QueueRuns ==
    ASSUME NetInv, tasks # <<>>, tasks' = Tail(tasks), UNCHANGED <<alive, closing>>,
           \A d \in Conns \ {Head(tasks).of} : ops'[d] = ops[d]
    PROVE  /\ Queued' /\ Head(tasks) \in Tasks
           /\ Head(tasks).kind = "start" => ops[Head(tasks).of].state = "Created"
<1>0. tasks \in Seq(Tasks) /\ Len(tasks) \in Nat \ {0} /\ Head(tasks) = tasks[1]
    BY LenProperties DEF NetInv, NetTypeOK
<1>1. \A i \in 1..Len(tasks) : tasks[i] \in Tasks
    BY <1>0, ElementOfSeq
<1>2. \A i \in 1..Len(tasks) : tasks[i].of \in Conns
    BY <1>1 DEF Tasks
<1>3. /\ tasks' \in Seq(Tasks) /\ Len(tasks') = Len(tasks) - 1
      /\ \A i \in 1..Len(tasks') : tasks'[i] = tasks[i + 1]
    BY <1>0, HeadTailProperties
<1>4. Head(tasks) \in Tasks /\ (Head(tasks).kind = "start" => ops[Head(tasks).of].state = "Created")
    BY <1>0, <1>1 DEF NetInv, Starts
<1>5. ASSUME NEW i \in 1..Len(tasks')
      PROVE  /\ tasks'[i].of \in alive' \cup closing'
             /\ tasks'[i].kind = "start" =>
                   /\ ops'[tasks'[i].of].state = "Created"
                   /\ \A j \in 1..(i - 1) : tasks'[j].of # tasks'[i].of
    <2>1. i + 1 \in 1..Len(tasks) /\ 1 \in 1..(i + 1) - 1 /\ tasks'[i] = tasks[i + 1]
        BY <1>0, <1>3
    <2>2. \A j \in 1..(i - 1) : j + 1 \in 1..(i + 1) - 1 /\ tasks'[j] = tasks[j + 1]
        BY <1>0, <1>3
    <2>3. /\ tasks[i + 1].of \in alive \cup closing
          /\ tasks[i + 1].kind = "start" =>
                /\ ops[tasks[i + 1].of].state = "Created"
                /\ \A j \in 1..(i + 1) - 1 : tasks[j].of # tasks[i + 1].of
        BY <2>1 DEF NetInv, Starts
    <2> QED
        BY <1>0, <1>2, <2>1, <2>2, <2>3
<1> QED
    BY <1>3, <1>4, <1>5 DEF Queued, Starts

\* A callback may send, or close, or find the ring full.
LEMMA CallbackQueues ==
    ASSUME NetInv, NEW c \in Conns, NEW l, Callback(c, l),
           \A d \in Conns : ops[d].state = "Created" => ops'[d].state = "Created"
    PROVE  Queued' /\ at' \in {l, "stuck"} /\ sent' \in [Conns -> Nat]
<1>0. sent \in [Conns -> Nat] /\ sent[c] + 1 \in Nat
    BY DEF NetInv, NetTypeOK
<1>1. Rests
    BY DEF Rests, Callback, clientVars
<1>2. sent' \in [Conns -> Nat]
    BY <1>0 DEF Callback, clientVars
<1>3. at' \in {l, "stuck"}
    BY DEF Callback, Goto
<1>4. Queued'
    <2>1. CASE tasks' = tasks
        BY <1>1, <2>1, QueueRests
    <2>2. CASE tasks' # tasks
        <3>1. PICK t \in {Task("send", c, sent[c] + 1), Task("close", c, None)} :
                  tasks' = Append(tasks, t) /\ t.of \in alive' \cup closing'
            BY <2>2 DEF Callback, Run, Task, clientVars
        <3>2. t \in Tasks /\ t.kind # "start"
            BY <1>0 DEF Task, Tasks, None
        <3> QED
            BY <1>1, <3>1, <3>2, QueueAppends
    <2> QED
        BY <2>1, <2>2
<1> QED
    BY <1>2, <1>3, <1>4

-----------------------------------------------------------------------------
(* The steps.                                                              *)

LEMMA Together ==
    ASSUME Sound', Queued', sent' \in [Conns -> Nat], todo' \subseteq Conns, after' = {}, Driven'
    PROVE  NetInv'
BY DEF Sound, Queued, NetInv, NetTypeOK

LEMMA ClientKeeps ==
    ASSUME NetInv, NEW c \in Conns, Connect(c) \/ Send(c) \/ Close(c) \/ Release(c)
    PROVE  NetInv'
<1>1. UNCHANGED <<ops, closes, late, after, at, todo, cur>>
    BY DEF Connect, Send, Close, Release, ByClient, netVars
<1>2. Sound'
    BY <1>1, StaySound
<1>3. sent \in [Conns -> Nat] /\ sent[c] + 1 \in Nat /\ todo \subseteq Conns /\ after = {} /\ Driven
    BY DEF NetInv, NetTypeOK
<1>4. sent' \in [Conns -> Nat] /\ Rests
    BY <1>1, <1>3 DEF Connect, Send, Close, Release, Rests
<1>5. PICK t \in {Task("start", c, None), Task("send", c, sent[c] + 1), Task("close", c, None)} :
          /\ tasks' = Append(tasks, t) /\ c \in alive' \cup closing'
          /\ t.kind = "start" => ops[c].state = "Created" /\ c \notin alive \cup closing
    BY DEF Connect, Send, Close, Release, Run, Task
<1>6. t \in Tasks /\ t.of = c
    BY <1>3 DEF Task, Tasks, None
<1>7. Queued'
    BY <1>1, <1>4, <1>5, <1>6, QueueAppends
<1>8. Driven'
    BY <1>1, <1>3 DEF Driven
<1> QED
    BY <1>1, <1>2, <1>3, <1>4, <1>7, <1>8, Together

\* A task: a connection is started, sends or is closed.
LEMMA RunTaskKeeps ==
    ASSUME NetInv, RunTask
    PROVE  NetInv'
<1> DEFINE t == Head(tasks)
<1>0. /\ sent \in [Conns -> Nat] /\ todo \subseteq Conns /\ after = {} /\ at = "tasks"
      /\ UNCHANGED <<sent, alive, closing, todo, after, late, at>>
      /\ tasks # <<>> /\ tasks' = Tail(tasks)
      /\ tasks \in Seq(Tasks)
    BY DEF NetInv, NetTypeOK, RunTask, clientVars
<1>1. t \in Tasks
    BY <1>0, HeadTailProperties
<1>2. t.of \in Conns /\ t.msg \in Nat /\ t.kind \in {"start", "send", "close"}
    BY <1>1 DEF Tasks
<1>3. t.kind = "start" => ops[t.of].state = "Created"
    BY <1>0, HeadTailProperties, LenProperties DEF NetInv, Starts
<1>4. \/ UNCHANGED <<ops, closes>>
      \/ ops[t.of].state \notin Ended /\ \E r \in Op : Becomes(t.of, r)
    <2>1. CASE t.kind = "start"
        <3>1. StartOp(t.of)
            BY <2>1 DEF RunTask
        <3> QED
            BY <1>0, <1>2, <1>3, <2>1, <3>1, StartBecomes DEF Ended
    <2>2. CASE t.kind = "send"
        <3>1. SendTask(t.of, t.msg)
            BY <2>2 DEF RunTask
        <3> QED
            BY <1>0, <1>2, <3>1, SendBecomes
    <2>3. CASE t.kind = "close"
        <3>1. RequestClose(t.of)
            BY <2>3 DEF RunTask
        <3> QED
            BY <1>0, <1>2, <3>1, RequestBecomes
    <2> QED
        BY <1>2, <2>1, <2>2, <2>3
<1>5. Sound' /\ \A d \in Conns \ {t.of} : ops'[d] = ops[d]
    <2>1. CASE UNCHANGED <<ops, closes>>
        BY <1>0, <2>1, StaySound
    <2>2. CASE ops[t.of].state \notin Ended /\ \E r \in Op : Becomes(t.of, r)
        BY <1>0, <1>2, <2>2, BecomesSound
    <2> QED
        BY <1>4, <2>1, <2>2
<1>6. Queued'
    BY <1>0, <1>5, QueueRuns
<1>7. Driven'
    BY <1>0 DEF Driven
<1> QED
    BY <1>0, <1>5, <1>6, <1>7, Together

\* A connection goes on while no task is run: what is left to be shown is where the thread is.
LEMMA GoneOn ==
    ASSUME NetInv, at # "ended", NEW c \in Conns, NEW r \in Op, Becomes(c, r),
           ops[c].state \notin Ended \cup {"Created"},
           UNCHANGED <<tasks, sent, alive, closing, after, late>>, todo' \subseteq todo
    PROVE  /\ Sound' /\ Queued' /\ sent' \in [Conns -> Nat] /\ todo' \subseteq Conns /\ after' = {}
           /\ ops'[c] = r /\ \A d \in Conns \ {c} : ops'[d] = ops[d]
<1>1. Sound' /\ ops'[c] = r /\ \A d \in Conns \ {c} : ops'[d] = ops[d]
    BY BecomesSound
<1>2. Rests
    BY <1>1 DEF Rests
<1> QED
    BY <1>1, <1>2, QueueRests DEF NetInv, NetTypeOK

LEMMA StayedOn ==
    ASSUME NetInv, UNCHANGED <<ops, closes, late, tasks, sent, alive, closing, after>>,
           at' # "ended" => at # "ended", todo' \subseteq Conns, Driven'
    PROVE  NetInv'
<1>1. Sound'
    BY StaySound
<1>2. Queued'
    BY QueueRests DEF Rests
<1> QED
    BY <1>1, <1>2, Together DEF NetInv, NetTypeOK

LEMMA ConnectedKeeps ==
    ASSUME NetInv, NEW c \in Conns, Connected(c)
    PROVE  NetInv'
<1>0. /\ ops \in [Conns -> Op] /\ ops[c] \in Op /\ closes \in [Conns -> Nat] /\ at = "connect"
      /\ todo \subseteq Conns /\ after = {} /\ UNCHANGED <<todo, late>>
      /\ Mapped(ops[c]) /\ "connecting" \in ops[c].maps /\ ClosesFit(c)
    BY DEF NetInv, NetTypeOK, Connected
<1>1. ops[c].state = "Connecting" /\ ops[c].handle
    BY <1>0 DEF Mapped, MapOf, Op, States
<1>2. closes[c] = 0
    BY <1>0, <1>1 DEF ClosesFit, Ended
<1>3. after' = {}
    BY <1>0, <1>2 DEF Connected, Told
<1> DEFINE o == [ops[c] EXCEPT !.state = "Open", !.attempts = 0, !.maps = {"open"}]
<1>4. o \in Op /\ o.state = "Open" /\ Mapped(o) /\ o.outgoing \in Seq(Nat)
    BY <1>0, <1>1 DEF Op, States, Mapped, MapOf
<1>5. Callback(c, "connect") /\ (IF at' = "stuck" THEN ops' = [ops EXCEPT ![c] = o] /\ UNCHANGED <<wire, closes>>
                                 ELSE Flush(c, o.outgoing, o))
    BY DEF Connected
<1> HIDE DEF o
<1>6. \E r \in Op : Becomes(c, r)
    <2>1. CASE at' = "stuck"
        BY <1>4, <1>5, <2>1, GoesOn DEF Final, Ended
    <2>2. CASE at' # "stuck"
        BY <1>0, <1>4, <1>5, <2>2, FlushBecomes
    <2> QED
        BY <2>1, <2>2
<1>7. Sound' /\ \A d \in Conns \ {c} : ops'[d] = ops[d]
    BY <1>0, <1>1, <1>6, BecomesSound DEF Ended
<1>8. Queued' /\ at' \in {"connect", "stuck"} /\ sent' \in [Conns -> Nat]
    BY <1>1, <1>5, <1>7, CallbackQueues
<1>9. Driven'
    BY <1>8 DEF Driven
<1> QED
    BY <1>0, <1>3, <1>7, <1>8, <1>9, Together

\* Reconnect and ConnectFails.
LEMMA RestartKeeps ==
    ASSUME NetInv, NEW c \in Conns, ConnectFails(c) \/ Reconnect(c)
    PROVE  NetInv'
<1>0. /\ ops \in [Conns -> Op] /\ ops[c] \in Op /\ at \in {"connect", "reconnect"}
      /\ UNCHANGED <<tasks, sent, alive, closing, after, late, at, todo>>
    BY DEF NetInv, NetTypeOK, ConnectFails, Reconnect, clientVars
<1>1. Mapped(ops[c]) /\ ops[c].maps \cap {"connecting", "reconnecting"} # {}
    BY <1>0 DEF NetInv, ConnectFails, Reconnect
<1>2. ops[c].state \in {"Connecting", "Reconnecting"}
    BY <1>0, <1>1 DEF Mapped, MapOf, Op, States
<1>3. \E r \in Op : Becomes(c, r)
    BY <1>0, ErrorBecomes, StartBecomes DEF ConnectFails, Reconnect
<1>4. Sound' /\ Queued' /\ sent' \in [Conns -> Nat] /\ todo' \subseteq Conns /\ after' = {}
    BY <1>0, <1>2, <1>3, GoneOn DEF Ended
<1>5. Driven'
    BY <1>0 DEF Driven
<1> QED
    BY <1>4, <1>5, Together

\* The connection that is driven goes on.
LEMMA DrivenOn ==
    ASSUME NetInv, at \in {"close", "recv", "ping", "timeout"}, NEW r \in Op, Becomes(cur, r),
           ops[cur].state # "Failed",
           UNCHANGED <<tasks, sent, alive, closing, after, late, todo, cur>>,
           \/ at' = "drive" /\ r.state \in {"Reconnecting", "Failed", "Closed"}
           \/ at' = "recv" /\ r.state = "Closing"
           \/ at' \in {"ping", "timeout"} /\ r.state \in {"Reconnecting", "Failed"}
    PROVE  NetInv'
<1>1. /\ cur \in Conns /\ ops[cur].state \in {"Open", "Closing", "Reconnecting"}
      /\ \A d \in todo : ops[d].state \notin {"Created", "Connecting"}
    BY DEF NetInv, Driven
<1>2. /\ Sound' /\ Queued' /\ sent' \in [Conns -> Nat] /\ todo' \subseteq Conns /\ after' = {}
      /\ ops'[cur] = r /\ \A d \in Conns \ {cur} : ops'[d] = ops[d]
    BY <1>1, GoneOn DEF Ended
<1>3. \A d \in todo' : ops'[d].state \notin {"Created", "Connecting"}
    BY <1>1, <1>2
<1>4. Driven'
    BY <1>1, <1>2, <1>3 DEF Driven
<1> QED
    BY <1>2, <1>4, Together

LEMMA FrameKeeps ==
    ASSUME NetInv, Frame
    PROVE  NetInv'
<1>1. /\ ops \in [Conns -> Op] /\ cur \in Conns /\ ops[cur] \in Op /\ Mapped(ops[cur])
      /\ ops[cur].state \in {"Open", "Closing"} /\ at = "close"
      /\ UNCHANGED <<tasks, sent, alive, closing, after, late, todo, cur>>
    BY DEF NetInv, NetTypeOK, Driven, Frame, Driving, clientVars
<1>2. CASE Error(cur) /\ at' = "drive"
    BY <1>1, <1>2, ErrorBecomes, DrivenOn
<1>3. CASE /\ ops' = [ops EXCEPT ![cur].state = "Closing", ![cur].framed = TRUE]
           /\ at' = "recv" /\ UNCHANGED closes
    <2> DEFINE r == [ops[cur] EXCEPT !.state = "Closing", !.framed = TRUE]
    <2>1. r \in Op /\ r.state = "Closing" /\ Mapped(r)
        BY <1>1 DEF Op, States, Mapped, MapOf
    <2>2. ops' = [ops EXCEPT ![cur] = r] /\ closes' = closes
        BY <1>1, <1>3
    <2> HIDE DEF r
    <2>3. Becomes(cur, r)
        BY <1>1, <2>1, <2>2, GoesOn DEF Final, Ended
    <2> QED
        BY <1>1, <1>3, <2>1, <2>3, DrivenOn
<1> QED
    BY <1>2, <1>3 DEF Frame, Goto

LEMMA RecvFailsKeeps ==
    ASSUME NetInv, RecvFails
    PROVE  NetInv'
<1>1. /\ ops \in [Conns -> Op] /\ cur \in Conns /\ ops[cur].state \in {"Open", "Closing"} /\ at = "recv"
      /\ UNCHANGED <<tasks, sent, alive, closing, after, late, todo, cur>>
      /\ at' = IF ops'[cur].state \in Ended THEN "drive" ELSE "ping"
      /\ FinishClose(cur) \/ Error(cur)
    BY DEF NetInv, NetTypeOK, Driven, RecvFails, Driving, clientVars, Goto
<1>2. PICK r \in Op : Becomes(cur, r) /\ r.state \in {"Reconnecting", "Failed", "Closed"}
    BY <1>1, ErrorBecomes, CloseBecomes
<1>3. ops'[cur] = r
    BY <1>1, <1>2 DEF Becomes
<1>4. \/ at' = "drive" /\ r.state \in {"Failed", "Closed"}
      \/ at' = "ping" /\ r.state = "Reconnecting"
    BY <1>1, <1>2, <1>3 DEF Ended
<1> QED
    BY <1>1, <1>2, <1>4, DrivenOn

LEMMA RecvCloseKeeps ==
    ASSUME NetInv, RecvClose
    PROVE  NetInv'
<1>1. /\ ops \in [Conns -> Op] /\ cur \in Conns /\ ops[cur] \in Op /\ Mapped(ops[cur])
      /\ closes \in [Conns -> Nat]
      /\ ops[cur].state \in {"Open", "Closing"} /\ at = "recv" /\ at' = "drive"
      /\ UNCHANGED <<tasks, sent, alive, closing, after, late, todo, cur>>
    BY DEF NetInv, NetTypeOK, Driven, RecvClose, Driving, clientVars, Goto
<1>0. PICK u \in BOOLEAN : u <=> ops[cur].user \/ ~ ops[cur].framed
    OBVIOUS
<1> DEFINE f == [Cleaned(ops[cur]) EXCEPT !.state = "Closed"]
           r == [f EXCEPT !.user = u]
<1>2. f \in Op /\ f.state = "Closed" /\ Mapped(f)
    BY <1>1, OverOp DEF Ended
<1>3. ops' = [ops EXCEPT ![cur] = r] /\ closes' = [closes EXCEPT ![cur] = closes[cur] + 1]
    <2>1. /\ Cleaned(ops[cur]) \in Op /\ Cleaned(ops[cur]).user = ops[cur].user
          /\ ops[cur].user \in BOOLEAN
        BY <1>1, CleanedOp DEF Op
    <2>2. u = (ops[cur].user \/ ~ ops[cur].framed)
        BY <1>0, <2>1
    <2>3. ops' = [ops EXCEPT ![cur] = [f EXCEPT !.user = (ops[cur].user \/ ~ ops[cur].framed)]]
        BY <1>1 DEF RecvClose
    <2> QED
        BY <1>1, <2>2, <2>3 DEF RecvClose
<1> HIDE DEF f
<1>4. r \in Op /\ r.state = "Closed" /\ Mapped(r)
    BY <1>2 DEF Op, Mapped
<1> HIDE DEF r
<1>5. Becomes(cur, r)
    BY <1>3, <1>4 DEF Becomes, Final, Ended
<1> QED
    BY <1>1, <1>4, <1>5, DrivenOn

LEMMA PingKeeps ==
    ASSUME NetInv, Ping
    PROVE  NetInv'
<1>1. /\ cur \in Conns /\ at = "ping" /\ at' = "timeout"
      /\ UNCHANGED <<tasks, sent, alive, closing, after, late, todo, cur>>
    BY DEF NetInv, Driven, Ping, Driving, clientVars, Goto
<1>2. CASE UNCHANGED <<ops, closes>>
    <2>1. Driven'
        BY <1>1, <1>2 DEF NetInv, Driven
    <2> QED
        BY <1>1, <1>2, <2>1, StayedOn DEF NetInv, NetTypeOK
<1>3. CASE ops[cur].state = "Open" /\ Error(cur)
    BY <1>1, <1>3, ErrorBecomes, DrivenOn
<1> QED
    BY <1>2, <1>3 DEF Ping

\* A connection that failed with its ping is told twice that it is over: it is late.
LEMMA TimesOutKeeps ==
    ASSUME NetInv, TimesOut
    PROVE  NetInv'
<1>1. /\ cur \in Conns /\ at = "timeout" /\ at' = "drive" /\ Error(cur)
      /\ UNCHANGED <<tasks, sent, alive, closing, after, todo, cur>>
      /\ late' = IF ops[cur].state = "Failed" THEN late \cup {cur} ELSE late
    BY DEF NetInv, Driven, TimesOut, Driving, clientVars, Goto
<1>2. PICK r \in Op : /\ Becomes(cur, r) /\ r.state \in {"Reconnecting", "Failed"}
                      /\ ops[cur].state = "Failed" => r.state = "Failed"
    BY <1>1, ErrorBecomes
<1>3. CASE ops[cur].state # "Failed"
    BY <1>1, <1>2, <1>3, DrivenOn
<1>4. CASE ops[cur].state = "Failed"
    <2>0. /\ ops \in [Conns -> Op] /\ closes \in [Conns -> Nat] /\ closes[cur] + 1 \in Nat
          /\ \A d \in Conns : Mapped(ops[d]) /\ Final(d, ops[d]) /\ ClosesFit(d)
          /\ \A d \in todo : ops[d].state \notin {"Created", "Connecting"}
        BY <1>1 DEF NetInv, NetTypeOK, Driven
    <2>1. /\ ops'[cur] = r /\ r.state = "Failed" /\ cur \in late'
          /\ \A d \in Conns \ {cur} : /\ ops'[d] = ops[d] /\ closes'[d] = closes[d]
                                      /\ d \in late' <=> d \in late
          /\ ops' \in [Conns -> Op] /\ closes' \in [Conns -> Nat]
        BY <1>1, <1>2, <1>4, <2>0 DEF Becomes, Ended
    <2>2. \A d \in Conns : Mapped(ops'[d]) /\ Final(d, ops'[d])
        BY <1>2, <2>0, <2>1 DEF Becomes
    <2>3. \A d \in Conns : ClosesFit(d)'
        BY <2>0, <2>1 DEF ClosesFit
    <2>4. Sound'
        BY <2>1, <2>2, <2>3 DEF Sound, Mapped, Final
    <2>5. Rests
        BY <1>1, <1>4, <2>1 DEF Rests
    <2>6. Driven'
        BY <1>1, <2>0, <2>1 DEF Driven, NetInv, NetTypeOK
    <2> QED
        BY <1>1, <2>4, <2>5, <2>6, QueueRests, Together DEF NetInv, NetTypeOK
<1> QED
    BY <1>3, <1>4

LEMMA RecvMessageKeeps ==
    ASSUME NetInv, RecvMessage
    PROVE  NetInv'
<1>1. /\ cur \in Conns /\ ops[cur].state \in {"Open", "Closing"} /\ at = "recv" /\ after = {}
      /\ UNCHANGED <<ops, closes, late, todo, cur>> /\ ClosesFit(cur) /\ todo \subseteq Conns
    BY DEF NetInv, NetTypeOK, Driven, RecvMessage
<1>2. closes[cur] = 0
    BY <1>1 DEF ClosesFit, Ended
<1>3. after' = {}
    BY <1>1, <1>2 DEF RecvMessage, Told
<1>4. Sound'
    BY <1>1, StaySound
<1>5. Queued' /\ at' \in {"recv", "stuck"} /\ sent' \in [Conns -> Nat]
    BY <1>1, CallbackQueues DEF RecvMessage
<1>6. Driven'
    BY <1>1, <1>5 DEF Driven, NetInv
<1> QED
    BY <1>1, <1>3, <1>4, <1>5, <1>6, Together

\* The steps that touch no connection.
LEMMA MovesKeep ==
    ASSUME NetInv,
           \/ TasksDone \/ ConnectsDone \/ (\E c \in Conns : Drive(c)) \/ NoFrame \/ FrameWaits
           \/ RecvNone \/ InTime \/ DrivesDone \/ Poll \/ Load \/ Unload
    PROVE  NetInv'
<1>0. /\ UNCHANGED <<ops, closes, late, tasks, sent, alive, closing, after>>
      /\ at' # "ended" => at # "ended"
    BY DEF TasksDone, ConnectsDone, Drive, NoFrame, FrameWaits, RecvNone, InTime, DrivesDone, Poll,
           Load, Unload, Driving, clientVars, netVars, Goto
<1>1. /\ ops \in [Conns -> Op] /\ todo \subseteq Conns /\ Driven
    BY DEF NetInv, NetTypeOK
<1>2. ASSUME at # "ended", NEW d \in Conns
      PROVE  /\ "open" \in ops[d].maps => ops[d].state \in {"Open", "Closing"}
             /\ ops[d].handle => ops[d].state \in {"Connecting", "Open", "Closing"}
    <2>1. Mapped(ops[d])
        BY <1>2 DEF NetInv
    <2>2. PICK o : o = ops[d]
        OBVIOUS
    <2>3. o.maps = MapOf(o.state) /\ (o.handle <=> o.state \in {"Connecting", "Open", "Closing"})
        BY <2>1, <2>2 DEF Mapped
    <2>4. "open" \in MapOf(o.state) => o.state \in {"Open", "Closing"}
        BY DEF MapOf
    <2> QED
        BY <2>2, <2>3, <2>4
<1>3. todo' \subseteq Conns
    BY <1>1 DEF TasksDone, ConnectsDone, Drive, NoFrame, FrameWaits, RecvNone, InTime, DrivesDone, Poll,
                Load, Unload, Driving
<1>4. Driven'
    <2>1. CASE TasksDone \/ DrivesDone \/ Poll \/ Load
        BY <2>1 DEF TasksDone, DrivesDone, Poll, Load, Goto, Driven
    <2>2. CASE ConnectsDone
        <3>1. /\ at = "connect" /\ at' = "drive" /\ ops' = ops
              /\ todo' = {c \in Conns : "open" \in ops[c].maps}
            BY <2>2 DEF ConnectsDone, Goto
        <3>2. ASSUME NEW c \in Conns, "open" \in ops[c].maps
              PROVE  ops[c].state \notin {"Created", "Connecting"}
            <4>1. "open" \in ops[c].maps => ops[c].state \in {"Open", "Closing"}
                <5>1. at # "ended"
                    BY <3>1
                <5> QED
                    BY <1>2, <5>1
            <4> QED
                BY <3>2, <4>1
        <3>3. \A c \in todo' : ops'[c].state \notin {"Created", "Connecting"}
            BY <3>1, <3>2
        <3> QED
            BY <3>1, <3>3 DEF Driven
    <2>3. ASSUME NEW c \in Conns, Drive(c)
          PROVE  Driven'
        <3>1. /\ at = "drive" /\ c \in todo /\ ops' = ops /\ todo' = todo \ {c} /\ cur' = c
              /\ at' = IF ops[c].handle THEN "close" ELSE "drive"
            BY <2>3 DEF Drive, Goto
        <3>2. \A d \in todo : ops[d].state \notin {"Created", "Connecting"}
            BY <1>1, <3>1 DEF Driven
        <3>3. ops[c].handle => ops'[cur'].state \in {"Open", "Closing"}
            <4>1. at # "ended"
                BY <3>1
            <4>2. ops[c].handle => ops[c].state \in {"Connecting", "Open", "Closing"}
                BY <1>2, <4>1
            <4>3. ops[c].state # "Connecting"
                BY <3>1, <3>2
            <4>4. ops'[cur'] = ops[c]
                BY <3>1
            <4> QED
                BY <4>2, <4>3, <4>4
        <3> QED
            BY <3>1, <3>2, <3>3 DEF Driven
    <2>4. CASE NoFrame \/ FrameWaits \/ RecvNone \/ InTime
        BY <1>0, <1>1, <2>4 DEF NoFrame, FrameWaits, RecvNone, InTime, Driving, Goto, Driven
    <2>5. CASE Unload
        BY <1>0, <1>1, <2>5 DEF Unload, Driven
    <2> QED
        BY <2>1, <2>2, <2>3, <2>4, <2>5
<1> QED
    BY <1>0, <1>3, <1>4, StayedOn

\* The thread's end.
LEMMA EndKeeps ==
    ASSUME NetInv, End
    PROVE  NetInv'
<1> DEFINE told == {c \in Conns : ops[c].maps \cap {"connecting", "open"} # {}}
           Over(o) == [Reset(o) EXCEPT !.state = "Closed", !.user = TRUE, !.maps = {}]
<1>0. /\ ops \in [Conns -> Op] /\ closes \in [Conns -> Nat] /\ at = "end" /\ at' = "ended"
      /\ UNCHANGED <<tasks, sent, alive, closing, after, late, todo, cur>>
      /\ \A c \in Conns : Mapped(ops[c]) /\ Final(c, ops[c]) /\ ClosesFit(c)
    BY DEF NetInv, NetTypeOK, End, Goto, clientVars
<1>1. /\ ops' = [c \in Conns |-> IF c \in told THEN Over(ops[c]) ELSE [ops[c] EXCEPT !.maps = {}]]
      /\ closes' = [c \in Conns |-> IF c \in told THEN closes[c] + 1 ELSE closes[c]]
    BY DEF End
<1>2. ASSUME NEW c \in told
      PROVE  /\ ops'[c] \in Op /\ closes'[c] \in Nat /\ Final(c, ops'[c]) /\ ClosesFit(c)'
             /\ ops[c].state # "Created"
    <2>1. ops[c] \in Op /\ Mapped(ops[c]) /\ ClosesFit(c) /\ closes[c] \in Nat
        BY <1>0
    <2>2. ops[c].state \in {"Connecting", "Open", "Closing"}
        BY <2>1 DEF Mapped, MapOf, Op, States
    <2>3. c \notin late /\ closes[c] = 0
        BY <2>1, <2>2 DEF ClosesFit, Ended
    <2>4. Over(ops[c]) \in Op /\ Over(ops[c]).state = "Closed"
        BY <2>1 DEF Reset, Op, States, None
    <2> HIDE DEF Over
    <2>5. ops'[c] = Over(ops[c]) /\ closes'[c] = 1
        <3>1. c \in Conns
            OBVIOUS
        <3> HIDE DEF told
        <3> QED
            BY <1>1, <2>3, <3>1
    <2> QED
        BY <1>0, <2>2, <2>3, <2>4, <2>5 DEF Final, ClosesFit, Ended
<1>3. ASSUME NEW c \in Conns \ told
      PROVE  /\ ops'[c] \in Op /\ closes'[c] \in Nat /\ Final(c, ops'[c]) /\ ClosesFit(c)'
             /\ ops'[c].state = ops[c].state
    <2>1. ops[c] \in Op /\ Final(c, ops[c]) /\ ClosesFit(c) /\ closes[c] \in Nat
        BY <1>0
    <2>2. ops'[c] = [ops[c] EXCEPT !.maps = {}] /\ closes'[c] = closes[c]
        BY <1>1
    <2>3. /\ ops'[c] \in Op /\ ops'[c].state = ops[c].state /\ ops'[c].user = ops[c].user
          /\ ops'[c].attempts = ops[c].attempts
        BY <2>1, <2>2 DEF Op
    <2> QED
        BY <1>0, <2>1, <2>2, <2>3 DEF Final, Retries, ClosesFit
<1> HIDE DEF told, Over
<1>4. /\ \A c \in Conns : ops'[c] \in Op /\ closes'[c] \in Nat /\ Final(c, ops'[c]) /\ ClosesFit(c)'
      /\ \A c \in Conns : ops[c].state = "Created" => ops'[c].state = "Created"
    BY <1>2, <1>3
<1>5. Sound'
    <2>1. ops' \in [Conns -> Op] /\ closes' \in [Conns -> Nat]
        BY <1>1, <1>4
    <2> QED
        BY <1>0, <1>4, <2>1 DEF Sound, Final
<1>6. Queued'
    BY <1>0, <1>4, QueueRests DEF Rests
<1>7. Driven'
    BY <1>0 DEF Driven
<1> QED
    BY <1>0, <1>5, <1>6, <1>7, Together DEF NetInv, NetTypeOK

-----------------------------------------------------------------------------
(* The theorems.                                                           *)

LEMMA NetKeeps ==
    ASSUME NetInv, [Next]_vars
    PROVE  NetInv'
<1>1. CASE UNCHANGED vars
    BY <1>1, StayedOn DEF vars, clientVars, netVars, NetInv, NetTypeOK, Driven
<1>2. CASE \E c \in Conns : Connect(c) \/ Send(c) \/ Close(c) \/ Release(c)
    BY <1>2, ClientKeeps
<1>3. CASE \E c \in Conns : Connected(c) \/ ConnectFails(c) \/ Reconnect(c)
    BY <1>3, ConnectedKeeps, RestartKeeps
<1>4. CASE RunTask \/ Frame \/ RecvFails \/ RecvClose \/ RecvMessage \/ Ping \/ TimesOut \/ End
    BY <1>4, RunTaskKeeps, FrameKeeps, RecvFailsKeeps, RecvCloseKeeps, RecvMessageKeeps, PingKeeps,
       TimesOutKeeps, EndKeeps
<1>5. CASE \/ TasksDone \/ ConnectsDone \/ (\E c \in Conns : Drive(c)) \/ NoFrame \/ FrameWaits
           \/ RecvNone \/ InTime \/ DrivesDone \/ Poll \/ Load \/ Unload
    BY <1>5, MovesKeep
<1> QED
    BY <1>1, <1>2, <1>3, <1>4, <1>5 DEF Next, Worker

\* NetInv is an inductive invariant.
THEOREM NetInductive == Spec => []NetInv
<1>1. Init => NetInv
    <2> SUFFICES ASSUME Init PROVE NetInv
        OBVIOUS
    <2>1. [state |-> "Created", handle |-> FALSE, maps |-> {}, asked |-> FALSE, framed |-> FALSE,
           user |-> FALSE, attempts |-> 0, pending |-> None, outgoing |-> <<>>] \in Op
        BY EmptySeq DEF Op, States, None
    <2>2. NetTypeOK
        BY <2>1, EmptySeq DEF Init, NetTypeOK
    <2>3. tasks = <<>> /\ Len(tasks) = 0
        BY EmptySeq DEF Init
    <2>4. Starts
        BY <2>3 DEF Starts
    <2> QED
        BY <2>2, <2>4 DEF Init, NetInv, Mapped, MapOf, Final, ClosesFit, Ended, Driven
<1>2. NetInv /\ [Next]_vars => NetInv'
    BY NetKeeps
<1> QED
    BY <1>1, <1>2, PTL DEF Spec

\* Whatever breaks, times out or is closed in which state, a connection is in the map of the
\* thread that its state belongs to, and has a handle exactly while curl works on it
\* (d2_ws_curl.cpp:655).
THEOREM MapsAgree == Spec => []ConnectionsMapped
<1>1. NetInv => ConnectionsMapped
    BY DEF NetInv, ConnectionsMapped, Mapped
<1> QED
    BY <1>1, NetInductive, PTL

\* on_close comes once for a connection that is over, whatever ends it, and no callback comes
\* after it (d2_ws_curl.cpp:620).
THEOREM ClosesOnce == Spec => []ClosedOnce
<1>1. NetInv => ClosedOnce
    BY DEF NetInv, ClosedOnce, ClosesFit
<1> QED
    BY <1>1, NetInductive, PTL

-----------------------------------------------------------------------------
(* The order of the messages: what curl has of a connection's messages,    *)
(* the one that is half sent, those that wait in the operation, and those  *)
(* that wait in the ring of tasks come in the order of the calls.          *)

Ascending(s) == \A i, j \in 1..Len(s) : i < j => s[i] < s[j]
Below(s, n) == \A i \in 1..Len(s) : s[i] < n
InRow(w, p, q) == /\ Ascending(w) /\ Ascending(q)
                  /\ \A i \in 1..Len(q) : p < q[i] /\ Below(w, q[i])
                  /\ p # None => Below(w, p)
\* The messages of a connection that have left the ring are all from before message n.
UpTo(w, o, n) == Below(w, n) /\ o.pending < n /\ Below(o.outgoing, n)

TasksInRow == \A i \in 1..Len(tasks) : tasks[i].kind = "send" =>
    /\ tasks[i].msg <= sent[tasks[i].of]
    /\ UpTo(wire[tasks[i].of], ops[tasks[i].of], tasks[i].msg)
    /\ \A j \in 1..(i - 1) : tasks[j].kind = "send" /\ tasks[j].of = tasks[i].of
                             => tasks[j].msg < tasks[i].msg

\* On an open connection messages wait only behind one that is half sent.
Drained(o) == o.state = "Open" /\ o.pending = None => o.outgoing = <<>>

RowInv == /\ wire \in [Conns -> Seq(Nat)]
          /\ \A c \in Conns : /\ InRow(wire[c], ops[c].pending, ops[c].outgoing)
                              /\ UpTo(wire[c], ops[c], sent[c] + 1)
                              /\ at # "stuck" => Drained(ops[c])
          /\ TasksInRow

\* curl takes the first k of the messages q, and the rest waits behind the next one.
Taken(w, q, k) == w \o SubSeq(q, 1, k)
Rest(q, k) == SubSeq(q, k + 2, Len(q))

LEMMA RowIsCut ==
    ASSUME NEW w \in Seq(Nat), NEW q \in Seq(Nat), InRow(w, None, q), NEW k \in 0..Len(q)
    PROVE  /\ Taken(w, q, k) \in Seq(Nat) /\ Ascending(Taken(w, q, k))
           /\ \A n \in Nat : Below(w, n) /\ Below(q, n) => Below(Taken(w, q, k), n)
           /\ \A i \in 1..Len(q) : k < i => Below(Taken(w, q, k), q[i])
<1>a. PICK v : v = Taken(w, q, k)
    OBVIOUS
<1>0. /\ Len(w) \in Nat /\ Len(q) \in Nat /\ k \in Nat /\ 1 \in Int /\ k \in Int
      /\ \A i \in 1..Len(w) : w[i] \in Nat
      /\ \A i \in 1..Len(q) : q[i] \in Nat
    BY LenProperties, ElementOfSeq
<1> DEFINE s == SubSeq(q, 1, k)
<1>1. s \in Seq(Nat) /\ Len(s) = k /\ \A i \in 1..k : s[i] = q[i]
    <2>1. \A i \in 1..k : q[i] \in Nat
        BY <1>0
    <2> QED
        BY <1>0, <2>1, SubSeqProperties
<1> HIDE DEF s
<1>2. /\ v \in Seq(Nat) /\ Len(v) = Len(w) + k
      /\ \A i \in 1..Len(w) + k : v[i] = IF i <= Len(w) THEN w[i] ELSE s[i - Len(w)]
    BY <1>a, <1>1, ConcatProperties DEF s, Taken
<1>3. \A i \in 1..Len(v) : \/ i \in 1..Len(w) /\ v[i] = w[i]
                           \/ i - Len(w) \in 1..k /\ i > Len(w) /\ v[i] = q[i - Len(w)]
    <2> SUFFICES ASSUME NEW i \in 1..Len(v)
                 PROVE  \/ i \in 1..Len(w) /\ v[i] = w[i]
                        \/ i - Len(w) \in 1..k /\ i > Len(w) /\ v[i] = q[i - Len(w)]
        OBVIOUS
    <2>1. i \in 1..Len(w) + k
        BY <1>2
    <2>2. CASE i <= Len(w)
        BY <1>0, <1>2, <2>1, <2>2
    <2>3. CASE ~ (i <= Len(w))
        <3>1. i - Len(w) \in 1..k /\ i > Len(w)
            BY <1>0, <2>1, <2>3
        <3> QED
            BY <1>1, <1>2, <2>1, <2>3, <3>1
    <2> QED
        BY <2>2, <2>3
<1>4. \A i \in 1..Len(q), j \in 1..Len(w) : w[j] < q[i]
    BY DEF InRow, Below
<1>5. \A i, j \in 1..Len(q) : i < j => q[i] < q[j]
    BY DEF InRow, Ascending
<1>6. \A i, j \in 1..Len(w) : i < j => w[i] < w[j]
    BY DEF InRow, Ascending
<1>7. Ascending(v)
    <2> SUFFICES ASSUME NEW i \in 1..Len(v), NEW j \in 1..Len(v), i < j PROVE v[i] < v[j]
        BY DEF Ascending
    <2>1. i \in Nat /\ j \in Nat
        BY <1>0, <1>2
    <2>2. CASE j \in 1..Len(w) /\ v[j] = w[j]
        <3>1. i \in 1..Len(w) /\ i \in 1..Len(w) + k /\ i <= Len(w)
            BY <1>0, <1>2, <2>1, <2>2
        <3>2. v[i] = w[i]
            BY <1>2, <3>1
        <3> QED
            BY <1>6, <2>2, <3>1, <3>2
    <2>3. CASE j - Len(w) \in 1..k /\ j > Len(w) /\ v[j] = q[j - Len(w)]
        <3>1. j - Len(w) \in 1..Len(q)
            BY <1>0, <2>3
        <3>2. CASE i \in 1..Len(w) /\ v[i] = w[i]
            BY <1>4, <2>3, <3>1, <3>2
        <3>3. CASE i - Len(w) \in 1..k /\ i > Len(w) /\ v[i] = q[i - Len(w)]
            <4>1. PICK a \in 1..k, b \in 1..k : a = i - Len(w) /\ b = j - Len(w)
                BY <2>3, <3>3
            <4>2. a \in 1..Len(q) /\ b \in 1..Len(q) /\ a < b
                <5>1. PICK l \in Nat, m \in Nat : l = Len(w) /\ m = Len(q) /\ k <= m /\ k \in Nat
                    BY <1>0
                <5>2. a = i - l /\ b = j - l /\ i < j
                    BY <4>1, <5>1
                <5> QED
                    BY <2>1, <5>1, <5>2
            <4> QED
                BY <1>5, <2>3, <3>3, <4>1, <4>2
        <3> QED
            BY <1>3, <3>2, <3>3
    <2> QED
        BY <1>3, <2>2, <2>3
<1>8. ASSUME NEW n \in Nat, Below(w, n), Below(q, n)
      PROVE  Below(v, n)
    <2> SUFFICES ASSUME NEW i \in 1..Len(v) PROVE v[i] < n
        BY DEF Below
    <2>1. CASE i \in 1..Len(w) /\ v[i] = w[i]
        BY <1>8, <2>1 DEF Below
    <2>2. CASE i - Len(w) \in 1..k /\ i > Len(w) /\ v[i] = q[i - Len(w)]
        <3>1. i - Len(w) \in 1..Len(q)
            BY <1>0, <2>2
        <3> QED
            BY <1>8, <2>2, <3>1 DEF Below
    <2> QED
        BY <1>3, <2>1, <2>2
<1>9. ASSUME NEW i \in 1..Len(q), k < i
      PROVE  Below(v, q[i])
    <2> SUFFICES ASSUME NEW j \in 1..Len(v) PROVE v[j] < q[i]
        BY DEF Below
    <2>1. CASE j \in 1..Len(w) /\ v[j] = w[j]
        BY <1>4, <2>1
    <2>2. CASE j - Len(w) \in 1..k /\ j > Len(w) /\ v[j] = q[j - Len(w)]
        <3>1. PICK b \in 1..k : b = j - Len(w)
            BY <2>2
        <3>2. b \in 1..Len(q) /\ b < i
            <4>1. k \in Nat /\ Len(q) \in Nat /\ k <= Len(q) /\ i \in Nat
                BY <1>0
            <4> QED
                BY <1>9, <3>1, <4>1
        <3> QED
            BY <1>5, <2>2, <3>1, <3>2
    <2> QED
        BY <1>3, <2>1, <2>2
<1> QED
    BY <1>a, <1>2, <1>7, <1>8, <1>9

\* What is left of the messages q behind the one after the first k.
LEMMA RestInRow ==
    ASSUME NEW v \in Seq(Nat), NEW q \in Seq(Nat), Ascending(q), NEW k \in 0..Len(q), k < Len(q),
           Ascending(v), \A i \in 1..Len(q) : k < i => Below(v, q[i])
    PROVE  /\ Rest(q, k) \in Seq(Nat) /\ q[k + 1] \in Nat
           /\ InRow(v, q[k + 1], Rest(q, k)) /\ InRow(v, None, Rest(q, k))
           /\ \A n \in Nat : Below(q, n) => q[k + 1] < n /\ Below(Rest(q, k), n)
<1>a. PICK r : r = Rest(q, k)
    OBVIOUS
<1>0. /\ Len(q) \in Nat /\ k \in Nat /\ k + 2 \in Int /\ Len(q) \in Int /\ k + 1 \in 1..Len(q)
      /\ \A i \in 1..Len(q) : q[i] \in Nat
    BY LenProperties, ElementOfSeq
<1>1. /\ r \in Seq(Nat) /\ Len(r) = Len(q) - k - 1
      /\ \A i \in 1..Len(r) : /\ r[i] = q[k + 1 + i] /\ k + 1 + i \in 1..Len(q) /\ k < k + 1 + i
                              /\ k + 1 < k + 1 + i
    <2>1. \A i \in (k + 2)..Len(q) : q[i] \in Nat
        BY <1>0
    <2>2. /\ r \in Seq(Nat) /\ Len(r) = IF k + 2 <= Len(q) THEN Len(q) - (k + 2) + 1 ELSE 0
          /\ \A i \in 1..Len(q) - (k + 2) + 1 : r[i] = q[k + 2 + i - 1]
        <3>1. PICK m \in Int, n \in Int : m = k + 2 /\ n = Len(q)
            BY <1>0
        <3>2. \A i \in m..n : q[i] \in Nat
            BY <2>1, <3>1
        <3>3. /\ SubSeq(q, m, n) \in Seq(Nat)
              /\ Len(SubSeq(q, m, n)) = IF m <= n THEN n - m + 1 ELSE 0
              /\ \A i \in 1..n - m + 1 : SubSeq(q, m, n)[i] = q[m + i - 1]
            BY <3>2, SubSeqProperties
        <3>4. r = SubSeq(q, m, n)
            BY <1>a, <3>1 DEF Rest
        <3> QED
            BY <3>1, <3>3, <3>4
    <2>3. Len(r) = Len(q) - k - 1
        BY <1>0, <2>2
    <2>4. \A i \in 1..Len(r) : /\ k + 2 + i - 1 = k + 1 + i /\ i \in 1..Len(q) - (k + 2) + 1
                               /\ k + 1 + i \in 1..Len(q) /\ k < k + 1 + i /\ k + 1 < k + 1 + i
        BY <1>0, <2>3
    <2> QED
        BY <2>2, <2>3, <2>4
<1>2. \A i, j \in 1..Len(q) : i < j => q[i] < q[j]
    BY DEF Ascending
<1>3. Ascending(r)
    <2> SUFFICES ASSUME NEW i \in 1..Len(r), NEW j \in 1..Len(r), i < j PROVE r[i] < r[j]
        BY DEF Ascending
    <2>1. k + 1 + i < k + 1 + j
        BY <1>0, <1>1
    <2> QED
        BY <1>1, <1>2, <2>1
<1>4. \A i \in 1..Len(r) : q[k + 1] < r[i] /\ None < r[i] /\ Below(v, r[i])
    <2> SUFFICES ASSUME NEW i \in 1..Len(r) PROVE q[k + 1] < r[i] /\ None < r[i] /\ Below(v, r[i])
        OBVIOUS
    <2>1. q[k + 1] < r[i] /\ q[k + 1] \in Nat /\ r[i] \in Nat
        BY <1>0, <1>1, <1>2
    <2>2. None < r[i]
        BY <2>1 DEF None
    <2> QED
        BY <1>0, <1>1, <2>1, <2>2
<1>5. Below(v, q[k + 1])
    BY <1>0
<1>6. \A n \in Nat : Below(q, n) => q[k + 1] < n /\ Below(r, n)
    BY <1>0, <1>1 DEF Below
<1> QED
    <2>1. InRow(v, q[k + 1], r) /\ InRow(v, None, r)
        BY <1>0, <1>1, <1>3, <1>4, <1>5 DEF InRow
    <2> QED
        BY <1>a, <1>0, <1>1, <1>6, <2>1

\* A connection's messages are in a row and all from before n, whatever the operation.
Rows(w, o) == w \in Seq(Nat) /\ InRow(w, o.pending, o.outgoing) /\ Drained(o)

\* _send_outgoing of the messages q.
LEMMA FlushRows ==
    ASSUME NetInv, wire \in [Conns -> Seq(Nat)], NEW c \in Conns, NEW o \in Op, NEW q \in Seq(Nat),
           InRow(wire[c], None, q), Flush(c, q, o)
    PROVE  /\ wire' \in [Conns -> Seq(Nat)] /\ Rows(wire'[c], ops'[c])
           /\ \A n \in Nat : Below(wire[c], n) /\ Below(q, n) /\ 0 < n => UpTo(wire'[c], ops'[c], n)
           /\ \A d \in Conns \ {c} : wire'[d] = wire[d] /\ ops'[d] = ops[d]
<1>0. ops \in [Conns -> Op] /\ wire[c] \in Seq(Nat) /\ Len(q) \in Nat
    BY LenProperties DEF NetInv, NetTypeOK
<1>1. PICK k \in 0..Len(q) :
        /\ wire' = [wire EXCEPT ![c] = wire[c] \o SubSeq(q, 1, k)]
        /\ \/ /\ k = Len(q)
              /\ ops' = [ops EXCEPT ![c] = [o EXCEPT !.pending = None, !.outgoing = <<>>]]
           \/ /\ k < Len(q)
              /\ ops' = [ops EXCEPT ![c] = [o EXCEPT !.pending = q[k + 1],
                                                     !.outgoing = SubSeq(q, k + 2, Len(q))]]
           \/ /\ k < Len(q)
              /\ LET o2 == [o EXCEPT !.outgoing = SubSeq(q, k + 2, Len(q))]
                 IN  ops' = [ops EXCEPT ![c] = IF Retries(c, o) THEN Scheduled(Cleaned(o2))
                                               ELSE [Cleaned(o2) EXCEPT !.state = "Failed"]]
    BY <1>0 DEF Flush
<1>2. PICK w \in Seq(Nat) : w = wire[c]
    BY <1>0
<1> DEFINE v == Taken(w, q, k)
<1>3. /\ v \in Seq(Nat) /\ Ascending(v)
      /\ \A n \in Nat : Below(wire[c], n) /\ Below(q, n) => Below(v, n)
      /\ \A i \in 1..Len(q) : k < i => Below(v, q[i])
    BY <1>2, RowIsCut
<1>4. wire'[c] = v /\ wire' \in [Conns -> Seq(Nat)] /\ \A d \in Conns \ {c} : wire'[d] = wire[d]
    BY <1>1, <1>2, <1>3 DEF Taken
<1> HIDE DEF v
<1>5. \A d \in Conns \ {c} : ops'[d] = ops[d]
    BY <1>0, <1>1
<1>6. CASE k = Len(q) /\ ops' = [ops EXCEPT ![c] = [o EXCEPT !.pending = None, !.outgoing = <<>>]]
    <2>1. ops'[c].pending = None /\ ops'[c].outgoing = <<>>
        BY <1>0, <1>6 DEF Op
    <2>2. <<>> \in Seq(Nat) /\ Len(<<>>) = 0
        BY EmptySeq
    <2>3. Ascending(<<>>) /\ (\A n \in Nat : Below(<<>>, n)) /\ InRow(v, None, <<>>)
        BY <1>3, <2>2 DEF Ascending, Below, InRow
    <2> QED
        BY <1>3, <1>4, <1>5, <2>1, <2>3 DEF Rows, Drained, UpTo, None
<1>7. CASE k < Len(q)
    <2>0. Ascending(q)
        BY DEF InRow
    <2> DEFINE r == Rest(q, k)
    <2>2. /\ r \in Seq(Nat) /\ q[k + 1] \in Nat
          /\ InRow(v, q[k + 1], r) /\ InRow(v, None, r)
          /\ \A n \in Nat : Below(q, n) => q[k + 1] < n /\ Below(r, n)
        BY <1>3, <1>7, <2>0, RestInRow
    <2> HIDE DEF r
    <2>3. \/ ops'[c].pending = q[k + 1] /\ ops'[c].outgoing = r
          \/ ops'[c].pending = None /\ ops'[c].outgoing = r /\ ops'[c].state \in {"Reconnecting", "Failed"}
        <3>1. PICK m \in Nat : m = q[k + 1]
            BY <2>2
        <3>2. CASE ops' = [ops EXCEPT ![c] = [o EXCEPT !.pending = q[k + 1],
                                                       !.outgoing = SubSeq(q, k + 2, Len(q))]]
            <4>1. ops'[c] = [o EXCEPT !.pending = m, !.outgoing = r]
                BY <1>0, <3>1, <3>2 DEF r, Rest
            <4> QED
                BY <3>1, <4>1 DEF Op
        <3>3. CASE LET o2 == [o EXCEPT !.outgoing = SubSeq(q, k + 2, Len(q))]
                   IN  ops' = [ops EXCEPT ![c] = IF Retries(c, o) THEN Scheduled(Cleaned(o2))
                                                 ELSE [Cleaned(o2) EXCEPT !.state = "Failed"]]
            <4>1. PICK o2 \in Op : o2 = [o EXCEPT !.outgoing = r]
                BY <2>2 DEF Op
            <4>2. ops'[c] \in {Scheduled(Cleaned(o2)), [Cleaned(o2) EXCEPT !.state = "Failed"]}
                BY <1>0, <3>3, <4>1 DEF r, Rest
            <4>3. o2.outgoing = r
                BY <4>1 DEF Op
            <4>4. Cleaned(o2) \in Op /\ Cleaned(o2).pending = None /\ Cleaned(o2).outgoing = r
                BY <4>3, CleanedOp DEF Cleaned, Reset, Op
            <4> HIDE DEF None
            <4> QED
                BY <4>2, <4>4 DEF Scheduled, Op
        <3>4. k # Len(q)
            BY <1>0, <1>7
        <3> QED
            BY <1>1, <3>2, <3>3, <3>4
    <2>4. q[k + 1] # None
        <3>1. k + 1 \in 1..Len(q) /\ q[k + 1] > None
            BY <1>0, <1>7 DEF InRow
        <3> QED
            BY <2>2, <3>1 DEF None
    <2>5. Rows(wire'[c], ops'[c])
        BY <1>3, <1>4, <2>2, <2>3, <2>4 DEF Rows, Drained
    <2>6. ASSUME NEW n \in Nat, Below(wire[c], n), Below(q, n), 0 < n
          PROVE  UpTo(wire'[c], ops'[c], n)
        BY <1>3, <1>4, <2>2, <2>3, <2>6 DEF UpTo, None
    <2> QED
        BY <1>4, <1>5, <2>5, <2>6
<1> QED
    BY <1>1, <1>6, <1>7

\* An operation that goes on, or is given up, without sending: what waits stays, but for the
\* message that is half sent, and it does not come to be open.
Quiet(o, r) == /\ r.outgoing = o.outgoing /\ r.pending \in {None, o.pending}
               /\ r.state = "Open" => o.state = "Open" /\ r.pending = o.pending

LEMMA CleanedQuiet ==
    ASSUME NEW o \in Op
    PROVE  /\ Cleaned(o).pending = None /\ Cleaned(o).outgoing = o.outgoing
           /\ \A s \in Ended : Quiet(o, [Cleaned(o) EXCEPT !.state = s])
           /\ \A s \in Ended : Quiet(o, [Cleaned(o) EXCEPT !.state = s, !.user = TRUE])
           /\ Quiet(o, Scheduled(Cleaned(o)))
<1>1. Cleaned(o) \in Op /\ Cleaned(o).pending = None /\ Cleaned(o).outgoing = o.outgoing
    BY CleanedOp DEF Cleaned, Reset, Op
<1>2. PICK d \in Op : d = Cleaned(o)
    BY <1>1
<1>3. \A s \in Ended : /\ Quiet(o, [d EXCEPT !.state = s])
                           /\ \A u : Quiet(o, [d EXCEPT !.state = s, !.user = u])
    BY <1>1, <1>2 DEF Quiet, Op, Ended
<1>4. Quiet(o, Scheduled(d))
    BY <1>1, <1>2 DEF Quiet, Scheduled, Op
<1> QED
    BY <1>1, <1>2, <1>3, <1>4

LEMMA ErrorQuiet ==
    ASSUME NetInv, NEW c \in Conns, Error(c) \/ FinishClose(c) \/ RequestClose(c) \/ StartOp(c)
    PROVE  \A d \in Conns : Quiet(ops[d], ops'[d])
<1>0. ops \in [Conns -> Op] /\ ops[c] \in Op
    BY DEF NetInv, NetTypeOK
<1>1. \A d \in Conns : Quiet(ops[d], ops[d])
    BY DEF Quiet
<1> SUFFICES Quiet(ops[c], ops'[c]) /\ (\A d \in Conns \ {c} : ops'[d] = ops[d])
    BY <1>1
<1>2. CASE Error(c)
    BY <1>0, <1>2, CleanedQuiet DEF Error, Ended
<1>3. CASE FinishClose(c)
    BY <1>0, <1>3, CleanedQuiet DEF FinishClose, Ended
<1>4. CASE RequestClose(c)
    <2>1. Quiet(ops[c], Asked(ops[c]))
        BY <1>0 DEF Quiet, Asked, Op
    <2>2. /\ ops'[c] \in {ops[c], Asked(ops[c]), [Cleaned(ops[c]) EXCEPT !.state = "Closed"],
                         [Cleaned(ops[c]) EXCEPT !.state = "Closed", !.user = TRUE]}
          /\ \A d \in Conns \ {c} : ops'[d] = ops[d]
        BY <1>0, <1>4 DEF RequestClose
    <2>3. Quiet(ops[c], ops[c])
        BY <1>1
    <2> QED
        BY <1>0, <2>1, <2>2, <2>3, CleanedQuiet DEF Ended
<1>5. CASE StartOp(c)
    <2>1. Quiet(ops[c], [Setup(ops[c]) EXCEPT !.state = "Connecting", !.maps = {"connecting"}])
        BY <1>0 DEF Quiet, Setup, Reset, Op, None
    <2> QED
        BY <1>0, <1>2, <1>5, <2>1 DEF StartOp
<1> QED
    BY <1>2, <1>3, <1>4, <1>5

-----------------------------------------------------------------------------
(* The steps keep the order.                                               *)

LEMMA RowTogether ==
    ASSUME wire' \in [Conns -> Seq(Nat)], TasksInRow',
           \A c \in Conns : /\ InRow(wire'[c], ops'[c].pending, ops'[c].outgoing)
                            /\ UpTo(wire'[c], ops'[c], sent'[c] + 1)
                            /\ at' # "stuck" => Drained(ops'[c])
    PROVE  RowInv'
BY DEF RowInv, InRow, UpTo, Drained, Ascending, Below

LEMMA TasksTogether ==
    ASSUME \A i \in 1..Len(tasks') : tasks'[i].kind = "send" =>
               /\ tasks'[i].msg <= sent'[tasks'[i].of]
               /\ UpTo(wire'[tasks'[i].of], ops'[tasks'[i].of], tasks'[i].msg)
               /\ \A j \in 1..(i - 1) : tasks'[j].kind = "send" /\ tasks'[j].of = tasks'[i].of
                                        => tasks'[j].msg < tasks'[i].msg
    PROVE  TasksInRow'
BY DEF TasksInRow, UpTo, Below

\* What is in the ring.
LEMMA RingTyped ==
    ASSUME NetInv, RowInv
    PROVE  /\ tasks \in Seq(Tasks) /\ Len(tasks) \in Nat /\ sent \in [Conns -> Nat]
           /\ ops \in [Conns -> Op] /\ wire \in [Conns -> Seq(Nat)]
           /\ \A i \in 1..Len(tasks) : tasks[i].of \in Conns /\ tasks[i].msg \in Nat
           /\ \A i \in 1..Len(tasks) : tasks[i].kind = "send" =>
                  /\ tasks[i].msg <= sent[tasks[i].of]
                  /\ UpTo(wire[tasks[i].of], ops[tasks[i].of], tasks[i].msg)
                  /\ \A j \in 1..(i - 1) : tasks[j].kind = "send" /\ tasks[j].of = tasks[i].of
                                           => tasks[j].msg < tasks[i].msg
<1>1. tasks \in Seq(Tasks) /\ sent \in [Conns -> Nat] /\ ops \in [Conns -> Op]
    BY DEF NetInv, NetTypeOK
<1>2. \A i \in 1..Len(tasks) : tasks[i] \in Tasks
    BY <1>1, ElementOfSeq
<1> QED
    BY <1>1, <1>2, LenProperties DEF RowInv, TasksInRow, Tasks

LEMMA UpToMore ==
    ASSUME NEW w \in Seq(Nat), NEW o \in Op, NEW m \in Nat, NEW n \in Nat, m <= n, UpTo(w, o, m)
    PROVE  UpTo(w, o, n)
<1>1. o.pending \in Nat /\ o.outgoing \in Seq(Nat)
    BY DEF Op
<1>2. ASSUME NEW s \in Seq(Nat), Below(s, m) PROVE Below(s, n)
    <2>1. \A i \in 1..Len(s) : s[i] \in Nat
        BY ElementOfSeq
    <2> QED
        BY <1>2, <2>1 DEF Below
<1> QED
    BY <1>1, <1>2 DEF UpTo

\* Messages wait in the ring, and another one may come.
LEMMA TasksGrow ==
    ASSUME NetInv, NetInv', RowInv, wire' \in [Conns -> Seq(Nat)],
           \A c \in Conns : sent[c] <= sent'[c],
           \A c \in Conns, n \in Nat : UpTo(wire[c], ops[c], n) => UpTo(wire'[c], ops'[c], n),
           \/ tasks' = tasks
           \/ \E t \in Tasks : /\ tasks' = Append(tasks, t)
                               /\ t.kind = "send" => t.msg = sent[t.of] + 1 /\ t.msg <= sent'[t.of]
    PROVE  TasksInRow' /\ \A c \in Conns : UpTo(wire'[c], ops'[c], sent'[c] + 1)
<1>1. /\ tasks \in Seq(Tasks) /\ Len(tasks) \in Nat /\ sent \in [Conns -> Nat]
      /\ \A i \in 1..Len(tasks) : tasks[i].of \in Conns /\ tasks[i].msg \in Nat
      /\ \A i \in 1..Len(tasks) : tasks[i].kind = "send" =>
             /\ tasks[i].msg <= sent[tasks[i].of]
             /\ UpTo(wire[tasks[i].of], ops[tasks[i].of], tasks[i].msg)
             /\ \A j \in 1..(i - 1) : tasks[j].kind = "send" /\ tasks[j].of = tasks[i].of
                                      => tasks[j].msg < tasks[i].msg
    BY RingTyped
<1>2. sent' \in [Conns -> Nat] /\ ops' \in [Conns -> Op]
    BY DEF NetInv, NetTypeOK
<1>3. \A c \in Conns : UpTo(wire[c], ops[c], sent[c] + 1)
    BY DEF RowInv
<1>4. ASSUME NEW c \in Conns
      PROVE  UpTo(wire'[c], ops'[c], sent[c] + 1) /\ UpTo(wire'[c], ops'[c], sent'[c] + 1)
    <2>0. sent[c] \in Nat /\ sent'[c] \in Nat /\ sent[c] <= sent'[c]
        BY <1>1, <1>2
    <2>1. PICK m \in Nat, n \in Nat : m = sent[c] + 1 /\ n = sent'[c] + 1 /\ m <= n
        BY <2>0
    <2>2. UpTo(wire'[c], ops'[c], m)
        BY <1>3, <2>1
    <2>3. wire'[c] \in Seq(Nat) /\ ops'[c] \in Op
        BY <1>2
    <2>4. UpTo(wire'[c], ops'[c], n)
        BY <2>1, <2>2, <2>3, UpToMore
    <2> QED
        BY <2>1, <2>2, <2>4
<1>5. ASSUME NEW i \in 1..Len(tasks), tasks[i].kind = "send"
      PROVE  /\ tasks[i].msg <= sent'[tasks[i].of]
             /\ UpTo(wire'[tasks[i].of], ops'[tasks[i].of], tasks[i].msg)
    <2>1. PICK c \in Conns, m \in Nat : c = tasks[i].of /\ m = tasks[i].msg
        BY <1>1
    <2>2. m <= sent[c] /\ UpTo(wire[c], ops[c], m) /\ sent[c] \in Nat /\ sent'[c] \in Nat
        BY <1>1, <1>2, <1>5, <2>1
    <2>3. m <= sent'[c] /\ UpTo(wire'[c], ops'[c], m)
        BY <2>2
    <2> QED
        BY <2>1, <2>3
<1>6. CASE tasks' = tasks
    BY <1>1, <1>4, <1>5, <1>6, TasksTogether
<1>7. ASSUME NEW t \in Tasks, tasks' = Append(tasks, t),
             t.kind = "send" => t.msg = sent[t.of] + 1 /\ t.msg <= sent'[t.of]
      PROVE  TasksInRow'
    <2>1. /\ Len(tasks') = Len(tasks) + 1 /\ tasks'[Len(tasks) + 1] = t
          /\ \A i \in 1..Len(tasks) : tasks'[i] = tasks[i]
        BY <1>1, <1>7, AppendProperties
    <2> SUFFICES ASSUME NEW i \in 1..Len(tasks'), tasks'[i].kind = "send"
                 PROVE  /\ tasks'[i].msg <= sent'[tasks'[i].of]
                        /\ UpTo(wire'[tasks'[i].of], ops'[tasks'[i].of], tasks'[i].msg)
                        /\ \A j \in 1..(i - 1) : tasks'[j].kind = "send" /\ tasks'[j].of = tasks'[i].of
                                                 => tasks'[j].msg < tasks'[i].msg
        BY TasksTogether
    <2>2. CASE i = Len(tasks) + 1
        <3>1. PICK c \in Conns : c = t.of
            BY DEF Tasks
        <3>2. t.msg = sent[c] + 1 /\ t.msg <= sent'[c] /\ tasks'[i] = t
            BY <1>7, <2>1, <2>2, <3>1
        <3>3. ASSUME NEW j \in 1..(i - 1), tasks'[j].kind = "send", tasks'[j].of = c
              PROVE  tasks'[j].msg < t.msg
            <4>1. j \in 1..Len(tasks) /\ tasks'[j] = tasks[j]
                BY <1>1, <2>1, <2>2
            <4>2. tasks[j].msg <= sent[c] /\ tasks[j].msg \in Nat /\ sent[c] \in Nat
                BY <1>1, <3>3, <4>1
            <4> QED
                BY <3>2, <4>1, <4>2
        <3>4. UpTo(wire'[c], ops'[c], t.msg)
            BY <1>4, <3>2
        <3> QED
            BY <3>1, <3>2, <3>3, <3>4
    <2>3. CASE i # Len(tasks) + 1
        <3>1. i \in 1..Len(tasks) /\ tasks'[i] = tasks[i] /\ \A j \in 1..(i - 1) : tasks'[j] = tasks[j]
            BY <1>1, <2>1, <2>3
        <3>2. \A j \in 1..(i - 1) : tasks[j].kind = "send" /\ tasks[j].of = tasks[i].of
                                    => tasks[j].msg < tasks[i].msg
            BY <1>1, <3>1
        <3> QED
            BY <1>5, <3>1, <3>2
    <2> QED
        BY <2>2, <2>3
<1> QED
    BY <1>4, <1>6, <1>7

\* The thread takes a task, and sends at most its message.
LEMMA TasksRun ==
    ASSUME NetInv, NetInv', RowInv, wire' \in [Conns -> Seq(Nat)], sent' = sent,
           tasks # <<>>, tasks' = Tail(tasks),
           \A c \in Conns, n \in Nat :
               /\ UpTo(wire[c], ops[c], n)
               /\ tasks[1].kind = "send" /\ tasks[1].of = c => tasks[1].msg < n
               => UpTo(wire'[c], ops'[c], n)
    PROVE  TasksInRow' /\ \A c \in Conns : UpTo(wire'[c], ops'[c], sent'[c] + 1)
<1>1. /\ tasks \in Seq(Tasks) /\ Len(tasks) \in Nat /\ sent \in [Conns -> Nat]
      /\ \A i \in 1..Len(tasks) : tasks[i].of \in Conns /\ tasks[i].msg \in Nat
      /\ \A i \in 1..Len(tasks) : tasks[i].kind = "send" =>
             /\ tasks[i].msg <= sent[tasks[i].of]
             /\ UpTo(wire[tasks[i].of], ops[tasks[i].of], tasks[i].msg)
             /\ \A j \in 1..(i - 1) : tasks[j].kind = "send" /\ tasks[j].of = tasks[i].of
                                      => tasks[j].msg < tasks[i].msg
    BY RingTyped
<1>2. /\ Len(tasks') = Len(tasks) - 1 /\ Len(tasks) > 0
      /\ \A i \in 1..Len(tasks') : tasks'[i] = tasks[i + 1]
    BY <1>1, HeadTailProperties, EmptySeq
<1>3. ASSUME NEW c \in Conns
      PROVE  UpTo(wire'[c], ops'[c], sent'[c] + 1)
    <2>1. PICK m \in Nat : m = sent[c] + 1
        BY <1>1
    <2>2. UpTo(wire[c], ops[c], m)
        BY <2>1 DEF RowInv
    <2>3. tasks[1].kind = "send" /\ tasks[1].of = c => tasks[1].msg < m
        <3>1. 1 \in 1..Len(tasks) /\ sent[c] \in Nat
            BY <1>1, <1>2
        <3>2. tasks[1].msg \in Nat /\ (tasks[1].kind = "send" => tasks[1].msg <= sent[tasks[1].of])
            BY <1>1, <3>1
        <3> QED
            BY <2>1, <3>1, <3>2
    <2> QED
        BY <2>1, <2>2, <2>3
<1>4. ASSUME NEW i \in 1..Len(tasks'), tasks'[i].kind = "send"
      PROVE  /\ tasks'[i].msg <= sent'[tasks'[i].of]
             /\ UpTo(wire'[tasks'[i].of], ops'[tasks'[i].of], tasks'[i].msg)
             /\ \A j \in 1..(i - 1) : tasks'[j].kind = "send" /\ tasks'[j].of = tasks'[i].of
                                      => tasks'[j].msg < tasks'[i].msg
    <2>1. /\ i + 1 \in 1..Len(tasks) /\ 1 \in 1..(i + 1) - 1 /\ tasks'[i] = tasks[i + 1]
          /\ \A j \in 1..(i - 1) : j + 1 \in 1..(i + 1) - 1 /\ tasks'[j] = tasks[j + 1]
        BY <1>1, <1>2
    <2>2. PICK k \in 1..Len(tasks) : k = i + 1
        BY <2>1
    <2>3. PICK c \in Conns, m \in Nat : c = tasks[k].of /\ m = tasks[k].msg
        BY <1>1
    <2>4. /\ m <= sent[c] /\ UpTo(wire[c], ops[c], m)
          /\ \A j \in 1..(k - 1) : tasks[j].kind = "send" /\ tasks[j].of = c => tasks[j].msg < m
        BY <1>1, <1>4, <2>1, <2>2, <2>3
    <2>5. UpTo(wire'[c], ops'[c], m)
        BY <2>1, <2>2, <2>4
    <2>6. \A j \in 1..(i - 1) : tasks'[j].kind = "send" /\ tasks'[j].of = c => tasks'[j].msg < m
        BY <2>1, <2>2, <2>4
    <2> QED
        BY <2>1, <2>2, <2>3, <2>4, <2>5, <2>6
<1> QED
    BY <1>3, <1>4, TasksTogether

\* What quiet operations do to the order.
LEMMA QuietRows ==
    ASSUME NetInv, RowInv, wire' = wire, \A c \in Conns : Quiet(ops[c], ops'[c]),
           at' # "stuck" => at # "stuck"
    PROVE  /\ wire' \in [Conns -> Seq(Nat)]
           /\ \A c \in Conns : /\ InRow(wire'[c], ops'[c].pending, ops'[c].outgoing)
                               /\ at' # "stuck" => Drained(ops'[c])
           /\ \A c \in Conns, n \in Nat : UpTo(wire[c], ops[c], n) => UpTo(wire'[c], ops'[c], n)
<1>1. ops \in [Conns -> Op] /\ wire \in [Conns -> Seq(Nat)]
    BY DEF NetInv, NetTypeOK, RowInv
<1>2. ASSUME NEW c \in Conns
      PROVE  /\ InRow(wire'[c], ops'[c].pending, ops'[c].outgoing)
             /\ at' # "stuck" => Drained(ops'[c])
             /\ \A n \in Nat : UpTo(wire[c], ops[c], n) => UpTo(wire'[c], ops'[c], n)
    <2>1. PICK o \in Op, r \in {ops'[c]}, w \in Seq(Nat) : o = ops[c] /\ w = wire[c]
        BY <1>1
    <2>2. o.pending \in Nat /\ o.outgoing \in Seq(Nat) /\ Quiet(o, r) /\ InRow(w, o.pending, o.outgoing)
        BY <2>1 DEF Op, RowInv
    <2>3. \A i \in 1..Len(o.outgoing) : o.outgoing[i] \in Nat
        BY <2>2, ElementOfSeq
    <2>4. InRow(w, None, o.outgoing)
        BY <2>2, <2>3 DEF InRow, None
    <2>5. InRow(w, r.pending, r.outgoing)
        BY <2>2, <2>4 DEF Quiet
    <2>6. \A n \in Nat : UpTo(w, o, n) => UpTo(w, r, n)
        BY <2>2 DEF UpTo, Quiet, None
    <2>7. Drained(o) => Drained(r)
        BY <2>2 DEF Drained, Quiet
    <2> QED
        BY <2>1, <2>5, <2>6, <2>7 DEF RowInv
<1> QED
    BY <1>1, <1>2

\* The messages that wait behind one that is half sent, or that comes alone.
LEMMA RowBegins ==
    ASSUME NEW w \in Seq(Nat), NEW x \in Nat, x # None, NEW s \in Seq(Nat), InRow(w, x, s)
    PROVE  /\ <<x>> \o s \in Seq(Nat) /\ InRow(w, None, <<x>> \o s)
           /\ \A n \in Nat : x < n /\ Below(s, n) => Below(<<x>> \o s, n)
<1>1. /\ <<x>> \in Seq(Nat) /\ Len(<<x>>) = 1 /\ <<x>>[1] = x /\ Len(s) \in Nat
      /\ \A i \in 1..Len(s) : s[i] \in Nat
    BY LenProperties, ElementOfSeq
<1>2. PICK q : q = <<x>> \o s
    OBVIOUS
<1>3. /\ q \in Seq(Nat) /\ Len(q) = 1 + Len(s)
      /\ \A i \in 1..1 + Len(s) : q[i] = IF i <= 1 THEN <<x>>[1] ELSE s[i - 1]
    <2>1. PICK f \in Seq(Nat) : f = <<x>> /\ Len(f) = 1 /\ f[1] = x
        BY <1>1
    <2>2. /\ f \o s \in Seq(Nat) /\ Len(f \o s) = Len(f) + Len(s)
          /\ \A i \in 1..Len(f) + Len(s) : (f \o s)[i] = IF i <= Len(f) THEN f[i] ELSE s[i - Len(f)]
        BY ConcatProperties
    <2> QED
        BY <1>1, <1>2, <2>1, <2>2
<1>4. q[1] = x /\ \A i \in 1..Len(q) : i # 1 => i - 1 \in 1..Len(s) /\ q[i] = s[i - 1]
    BY <1>1, <1>3
<1>5. \A i \in 1..Len(s) : x < s[i] /\ Below(w, s[i])
    BY DEF InRow
<1>6. Ascending(q)
    <2> SUFFICES ASSUME NEW i \in 1..Len(q), NEW j \in 1..Len(q), i < j PROVE q[i] < q[j]
        BY DEF Ascending
    <2>1. j # 1 /\ j - 1 \in 1..Len(s) /\ q[j] = s[j - 1]
        BY <1>1, <1>3, <1>4
    <2>2. CASE i = 1
        BY <1>4, <1>5, <2>1, <2>2
    <2>3. CASE i # 1
        <3>1. PICK a \in 1..Len(s), b \in 1..Len(s) : a = i - 1 /\ b = j - 1
            BY <1>4, <2>1, <2>3
        <3>2. a < b
            BY <1>1, <1>3, <3>1
        <3>3. s[a] < s[b]
            BY <3>2 DEF InRow, Ascending
        <3> QED
            BY <1>4, <2>1, <2>3, <3>1, <3>3
    <2> QED
        BY <2>2, <2>3
<1>7. \A i \in 1..Len(q) : None < q[i] /\ Below(w, q[i])
    <2> SUFFICES ASSUME NEW i \in 1..Len(q) PROVE None < q[i] /\ Below(w, q[i])
        OBVIOUS
    <2>1. CASE i = 1
        BY <1>4, <2>1 DEF InRow, None
    <2>2. CASE i # 1
        <3>1. PICK a \in 1..Len(s) : a = i - 1
            BY <1>4, <2>2
        <3>2. x < s[a] /\ Below(w, s[a]) /\ s[a] \in Nat
            BY <1>1, <1>5
        <3> QED
            BY <1>4, <2>2, <3>1, <3>2 DEF None
    <2> QED
        BY <2>1, <2>2
<1>8. InRow(w, None, q)
    BY <1>6, <1>7 DEF InRow
<1>9. ASSUME NEW n \in Nat, x < n, Below(s, n)
      PROVE  Below(q, n)
    BY <1>4, <1>9 DEF Below
<1> QED
    BY <1>2, <1>3, <1>8, <1>9

\* A message that waits behind the others.
LEMMA RowEnds ==
    ASSUME NEW w \in Seq(Nat), NEW p \in Nat, NEW s \in Seq(Nat), InRow(w, p, s), NEW m \in Nat,
           Below(w, m), p < m, Below(s, m)
    PROVE  /\ InRow(w, p, Append(s, m))
           /\ \A n \in Nat : m < n /\ Below(s, n) => Below(Append(s, m), n)
<1>1. PICK q : q = Append(s, m)
    OBVIOUS
<1>2. /\ q \in Seq(Nat) /\ Len(q) = Len(s) + 1 /\ Len(s) \in Nat /\ q[Len(s) + 1] = m
      /\ \A i \in 1..Len(s) : q[i] = s[i]
    BY <1>1, AppendProperties, LenProperties
<1>3. \A i \in 1..Len(q) : i = Len(s) + 1 \/ i \in 1..Len(s)
    BY <1>2
<1>4. Ascending(q)
    <2> SUFFICES ASSUME NEW i \in 1..Len(q), NEW j \in 1..Len(q), i < j PROVE q[i] < q[j]
        BY DEF Ascending
    <2>1. i \in 1..Len(s)
        BY <1>2
    <2>2. CASE j = Len(s) + 1
        BY <1>2, <2>1, <2>2 DEF Below
    <2>3. CASE j \in 1..Len(s)
        BY <1>2, <2>1, <2>3 DEF InRow, Ascending
    <2> QED
        BY <1>3, <2>2, <2>3
<1>5. \A i \in 1..Len(q) : p < q[i] /\ Below(w, q[i])
    BY <1>2, <1>3 DEF InRow
<1>6. InRow(w, p, q)
    BY <1>4, <1>5 DEF InRow
<1>7. ASSUME NEW n \in Nat, m < n, Below(s, n)
      PROVE  Below(q, n)
    BY <1>2, <1>3, <1>7 DEF Below
<1> QED
    BY <1>1, <1>6, <1>7

LEMMA SendRows ==
    ASSUME NetInv, RowInv, at # "stuck", NEW c \in Conns, NEW m \in Nat, UpTo(wire[c], ops[c], m),
           SendTask(c, m)
    PROVE  /\ wire' \in [Conns -> Seq(Nat)] /\ Rows(wire'[c], ops'[c])
           /\ \A d \in Conns \ {c} : wire'[d] = wire[d] /\ ops'[d] = ops[d]
           /\ \A n \in Nat : UpTo(wire[c], ops[c], n) /\ m < n => UpTo(wire'[c], ops'[c], n)
<1>0. /\ ops \in [Conns -> Op] /\ wire \in [Conns -> Seq(Nat)] /\ sent \in [Conns -> Nat]
      /\ InRow(wire[c], ops[c].pending, ops[c].outgoing) /\ Drained(ops[c])
    BY DEF NetInv, NetTypeOK, RowInv
<1>1. PICK o \in Op, w \in Seq(Nat), q \in Seq(Nat), p \in Nat :
          o = ops[c] /\ w = wire[c] /\ q = o.outgoing /\ p = o.pending
    BY <1>0 DEF Op
<1>2. InRow(w, p, q) /\ Below(w, m) /\ p < m /\ Below(q, m) /\ Rows(w, o)
    BY <1>0, <1>1 DEF UpTo, Rows
<1>3. CASE UNCHANGED <<ops, wire>>
    BY <1>0, <1>1, <1>2, <1>3
<1>4. CASE o.state = "Open"
    <2>1. PICK x \in Nat : x = IF p = None THEN m ELSE p
        OBVIOUS
    <2>2. x # None /\ x <= m
        BY <1>2, <2>1 DEF None
    <2>3. InRow(w, x, q)
        <3>1. CASE p = None
            <4>1. q = <<>> /\ Len(<<>>) = 0
                BY <1>0, <1>1, <1>4, <3>1 DEF Drained
            <4> QED
                BY <1>2, <2>1, <3>1, <4>1 DEF InRow
        <3> QED
            BY <1>2, <2>1, <3>1
    <2>4. /\ <<x>> \o q \in Seq(Nat) /\ InRow(w, None, <<x>> \o q)
          /\ \A n \in Nat : x < n /\ Below(q, n) => Below(<<x>> \o q, n)
        BY <2>2, <2>3, RowBegins
    <2>5. Flush(c, <<x>> \o q, o)
        BY <1>1, <1>4, <2>1 DEF SendTask, Ended
    <2>6. PICK s \in Seq(Nat) : s = <<x>> \o q
        BY <2>4
    <2>7. /\ wire' \in [Conns -> Seq(Nat)] /\ Rows(wire'[c], ops'[c])
          /\ \A n \in Nat : Below(wire[c], n) /\ Below(s, n) /\ 0 < n => UpTo(wire'[c], ops'[c], n)
          /\ \A d \in Conns \ {c} : wire'[d] = wire[d] /\ ops'[d] = ops[d]
        BY <1>0, <1>1, <2>4, <2>5, <2>6, FlushRows
    <2>8. ASSUME NEW n \in Nat, UpTo(wire[c], ops[c], n), m < n
          PROVE  UpTo(wire'[c], ops'[c], n)
        <3>1. x < n /\ 0 < n /\ Below(q, n) /\ Below(wire[c], n)
            BY <1>1, <2>2, <2>8 DEF UpTo
        <3> QED
            BY <2>4, <2>6, <2>7, <3>1
    <2> QED
        BY <2>7, <2>8
<1>5. CASE /\ o.state # "Open" /\ UNCHANGED wire
           /\ ops' = [ops EXCEPT ![c].outgoing = Append(@, m)]
    <2>1. PICK s : s = Append(q, m)
        OBVIOUS
    <2>2. InRow(w, p, s) /\ \A n \in Nat : m < n /\ Below(q, n) => Below(s, n)
        BY <1>2, <2>1, RowEnds
    <2>3. /\ ops'[c].outgoing = s /\ ops'[c].pending = p /\ ops'[c].state = o.state
          /\ \A d \in Conns \ {c} : ops'[d] = ops[d]
        BY <1>0, <1>1, <1>5, <2>1 DEF Op
    <2> QED
        BY <1>0, <1>1, <1>2, <1>5, <2>2, <2>3 DEF Rows, Drained, UpTo
<1> QED
    BY <1>1, <1>3, <1>4, <1>5 DEF SendTask

\* A step without sending, after which at most one more task waits.
LEMMA QuietKeeps ==
    ASSUME NetInv, NetInv', RowInv, wire' = wire, \A c \in Conns : Quiet(ops[c], ops'[c]),
           at' # "stuck" => at # "stuck",
           \A c \in Conns : sent[c] <= sent'[c],
           \/ tasks' = tasks
           \/ \E t \in Tasks : /\ tasks' = Append(tasks, t)
                               /\ t.kind = "send" => t.msg = sent[t.of] + 1 /\ t.msg <= sent'[t.of]
    PROVE  RowInv'
<1>1. /\ wire' \in [Conns -> Seq(Nat)]
      /\ \A c \in Conns : /\ InRow(wire'[c], ops'[c].pending, ops'[c].outgoing)
                          /\ at' # "stuck" => Drained(ops'[c])
      /\ \A c \in Conns, n \in Nat : UpTo(wire[c], ops[c], n) => UpTo(wire'[c], ops'[c], n)
    BY QuietRows
<1>2. TasksInRow' /\ \A c \in Conns : UpTo(wire'[c], ops'[c], sent'[c] + 1)
    BY <1>1, TasksGrow
<1> QED
    BY <1>1, <1>2, RowTogether

LEMMA ClientKeepsRow ==
    ASSUME NetInv, NetInv', RowInv, NEW c \in Conns, Connect(c) \/ Send(c) \/ Close(c) \/ Release(c)
    PROVE  RowInv'
<1>1. UNCHANGED <<ops, wire, at>>
    BY DEF Connect, Send, Close, Release, ByClient, netVars
<1>2. sent \in [Conns -> Nat] /\ sent[c] + 1 \in Nat
    BY DEF NetInv, NetTypeOK
<1>3. CASE Send(c)
    <2>1. /\ sent' = [sent EXCEPT ![c] = sent[c] + 1]
          /\ tasks' = Append(tasks, Task("send", c, sent[c] + 1))
        BY <1>2, <1>3 DEF Send, Run
    <2>2. \A d \in Conns : sent[d] <= sent'[d]
        BY <1>2, <2>1
    <2>3. PICK t \in Tasks : t = Task("send", c, sent[c] + 1)
        BY <1>2 DEF Task, Tasks
    <2>4. t.of = c /\ t.msg = sent[c] + 1
        BY <2>3 DEF Task
    <2>5. sent'[c] = sent[c] + 1
        BY <1>2, <2>1
    <2>6. t.msg = sent[t.of] + 1 /\ t.msg <= sent'[t.of]
        BY <1>2, <2>4, <2>5
    <2> QED
        BY <1>1, <2>1, <2>2, <2>3, <2>6, QuietKeeps DEF Quiet
<1>4. CASE Connect(c) \/ Close(c) \/ Release(c)
    <2>1. sent' = sent /\ \A d \in Conns : sent[d] <= sent'[d]
        BY <1>2, <1>4 DEF Connect, Close, Release
    <2>2. PICK t \in {Task("start", c, None), Task("close", c, None)} : tasks' = Append(tasks, t)
        BY <1>4 DEF Connect, Close, Release, Run
    <2>3. t \in Tasks /\ t.kind # "send"
        BY <2>2 DEF Task, Tasks, None
    <2> QED
        BY <1>1, <2>1, <2>2, <2>3, QuietKeeps DEF Quiet
<1> QED
    BY <1>3, <1>4

LEMMA CallbackGrows ==
    ASSUME NetInv, NEW c \in Conns, NEW l, Callback(c, l)
    PROVE  /\ \A d \in Conns : sent[d] <= sent'[d]
           /\ \/ tasks' = tasks
              \/ \E t \in Tasks :
                    /\ tasks' = Append(tasks, t)
                    /\ t.kind = "send" => t.msg = sent[t.of] + 1 /\ t.msg <= sent'[t.of]
<1>1. sent \in [Conns -> Nat] /\ sent[c] \in Nat /\ sent[c] + 1 \in Nat
    BY DEF NetInv, NetTypeOK
<1>2. CASE sent' = [sent EXCEPT ![c] = sent[c] + 1] /\ sent' # sent
    <2>1. sent'[c] = sent[c] + 1 /\ \A d \in Conns : sent[d] <= sent'[d]
        BY <1>1, <1>2
    <2>2. tasks' = tasks \/ tasks' = Append(tasks, Task("send", c, sent[c] + 1))
        BY <1>2 DEF Callback, Run, clientVars
    <2>3. PICK t \in Tasks : t = Task("send", c, sent[c] + 1)
        BY <1>1 DEF Task, Tasks
    <2>4. t.of = c /\ t.msg = sent[c] + 1
        BY <2>3 DEF Task
    <2>5. t.msg = sent[t.of] + 1 /\ t.msg <= sent'[t.of]
        BY <1>1, <2>1, <2>4
    <2> QED
        BY <2>1, <2>2, <2>3, <2>5
<1>3. CASE sent' = sent
    <2>1. \A d \in Conns : sent[d] <= sent'[d]
        BY <1>1, <1>3
    <2>2. sent # [sent EXCEPT ![c] = sent[c] + 1]
        <3>1. [sent EXCEPT ![c] = sent[c] + 1][c] = sent[c] + 1 /\ sent[c] + 1 # sent[c]
            BY <1>1
        <3> QED
            BY <3>1
    <2>3. tasks' = tasks \/ tasks' = Append(tasks, Task("close", c, None))
        BY <1>3, <2>2 DEF Callback, Run, clientVars
    <2>4. PICK t \in {Task("close", c, None)} : TRUE
        OBVIOUS
    <2>5. t \in Tasks /\ t.kind # "send"
        BY <2>4 DEF Task, Tasks, None
    <2> QED
        BY <2>1, <2>3, <2>4, <2>5
<1> QED
    BY <1>1, <1>2, <1>3 DEF Callback, clientVars

LEMMA RecvMessageKeepsRow ==
    ASSUME NetInv, NetInv', RowInv, RecvMessage
    PROVE  RowInv'
<1>1. cur \in Conns /\ Callback(cur, "recv") /\ UNCHANGED <<ops, wire>> /\ at # "stuck"
    BY DEF NetInv, Driven, RecvMessage
<1> QED
    BY <1>1, CallbackGrows, QuietKeeps DEF Quiet

\* What goes on, fails or is closed, and the end of the thread.
LEMMA DrivenQuiet ==
    ASSUME NetInv,
           \/ \E c \in Conns : ConnectFails(c) \/ Reconnect(c)
           \/ Frame \/ RecvFails \/ RecvClose \/ Ping \/ TimesOut
    PROVE  \A d \in Conns : Quiet(ops[d], ops'[d])
<1>0. ops \in [Conns -> Op] /\ \A d \in Conns : Quiet(ops[d], ops[d])
    BY DEF NetInv, NetTypeOK, Quiet
<1>1. CASE \E c \in Conns : ConnectFails(c) \/ Reconnect(c)
    BY <1>1, ErrorQuiet DEF ConnectFails, Reconnect
<1>2. CASE Frame \/ RecvFails \/ RecvClose \/ Ping \/ TimesOut
    <2>1. cur \in Conns /\ ops[cur] \in Op
        BY <1>0, <1>2 DEF NetInv, Driven, Frame, RecvFails, RecvClose, Ping, TimesOut
    <2>2. CASE Error(cur) \/ FinishClose(cur)
        BY <2>1, <2>2, ErrorQuiet
    <2>3. CASE Frame /\ ops' = [ops EXCEPT ![cur].state = "Closing", ![cur].framed = TRUE]
        <3>1. Quiet(ops[cur], ops'[cur]) /\ \A d \in Conns \ {cur} : ops'[d] = ops[d]
            BY <1>0, <2>1, <2>3 DEF Quiet, Op
        <3> QED
            BY <1>0, <3>1
    <2>4. CASE RecvClose
        <3>1. ops' = [ops EXCEPT ![cur] = [Cleaned(ops[cur]) EXCEPT !.state = "Closed",
                                              !.user = ops[cur].user \/ ~ ops[cur].framed]]
            BY <1>0, <2>1, <2>4 DEF RecvClose
        <3>2. PICK d \in Op : d = Cleaned(ops[cur]) /\ d.pending = None /\ d.outgoing = ops[cur].outgoing
            BY <2>1, CleanedOp, CleanedQuiet
        <3>3. \A u : Quiet(ops[cur], [d EXCEPT !.state = "Closed", !.user = u])
            BY <3>2 DEF Quiet, Op
        <3>4. Quiet(ops[cur], ops'[cur]) /\ \A e \in Conns \ {cur} : ops'[e] = ops[e]
            BY <1>0, <2>1, <3>1, <3>2, <3>3
        <3> QED
            BY <1>0, <3>4
    <2>5. CASE UNCHANGED ops
        BY <1>0, <2>5
    <2> QED
        BY <1>2, <2>2, <2>3, <2>4, <2>5 DEF Frame, RecvFails, Ping, TimesOut
<1> QED
    BY <1>1, <1>2

LEMMA EndQuiet ==
    ASSUME NetInv, End
    PROVE  \A c \in Conns : Quiet(ops[c], ops'[c])
<1> SUFFICES ASSUME NEW c \in Conns PROVE Quiet(ops[c], ops'[c])
    OBVIOUS
<1>1. PICK o \in Op : o = ops[c]
    BY DEF NetInv, NetTypeOK
<1>2. ops'[c] \in {[Reset(o) EXCEPT !.state = "Closed", !.user = TRUE, !.maps = {}], [o EXCEPT !.maps = {}]}
    BY <1>1 DEF End
<1>3. Quiet(o, [Reset(o) EXCEPT !.state = "Closed", !.user = TRUE, !.maps = {}])
    BY DEF Quiet, Reset, Op
<1>4. Quiet(o, [o EXCEPT !.maps = {}])
    BY DEF Quiet, Op
<1> QED
    BY <1>1, <1>2, <1>3, <1>4

\* A task is run: it sends, or not.
LEMMA RunTaskKeepsRow ==
    ASSUME NetInv, NetInv', RowInv, RunTask
    PROVE  RowInv'
<1>0. /\ tasks # <<>> /\ tasks' = Tail(tasks) /\ sent' = sent /\ at = "tasks" /\ at' = at
      /\ tasks \in Seq(Tasks) /\ Head(tasks) = tasks[1] /\ Len(tasks) > 0
      /\ wire \in [Conns -> Seq(Nat)]
    BY EmptySeq DEF NetInv, NetTypeOK, RunTask, clientVars, RowInv
<1>1. 1 \in 1..Len(tasks) /\ Len(tasks) \in Nat
    BY <1>0, LenProperties
<1>2. PICK t \in Tasks : t = tasks[1] /\ t = Head(tasks)
    BY <1>0, <1>1, ElementOfSeq
<1>3. PICK c \in Conns, m \in Nat : c = t.of /\ m = t.msg
    BY DEF Tasks
<1>4. t.kind \in {"start", "send", "close"}
    BY DEF Tasks
<1>5. CASE t.kind = "send"
    <2>1. UpTo(wire[c], ops[c], m) /\ SendTask(c, m)
        BY <1>0, <1>1, <1>2, <1>3, <1>5 DEF RowInv, TasksInRow, RunTask
    <2>2. /\ wire' \in [Conns -> Seq(Nat)] /\ Rows(wire'[c], ops'[c])
          /\ \A d \in Conns \ {c} : wire'[d] = wire[d] /\ ops'[d] = ops[d]
          /\ \A n \in Nat : UpTo(wire[c], ops[c], n) /\ m < n => UpTo(wire'[c], ops'[c], n)
        BY <1>0, <2>1, SendRows
    <2>3. \A d \in Conns, n \in Nat :
              /\ UpTo(wire[d], ops[d], n)
              /\ tasks[1].kind = "send" /\ tasks[1].of = d => tasks[1].msg < n
              => UpTo(wire'[d], ops'[d], n)
        BY <1>2, <1>3, <1>5, <2>2
    <2>4. TasksInRow' /\ \A d \in Conns : UpTo(wire'[d], ops'[d], sent'[d] + 1)
        BY <1>0, <2>2, <2>3, TasksRun
    <2>5. \A d \in Conns : /\ InRow(wire'[d], ops'[d].pending, ops'[d].outgoing)
                           /\ at' # "stuck" => Drained(ops'[d])
        BY <1>0, <2>2 DEF Rows, RowInv
    <2> QED
        BY <2>2, <2>4, <2>5, RowTogether
<1>6. CASE t.kind # "send"
    <2>1. wire' = wire /\ (StartOp(c) \/ RequestClose(c))
        BY <1>2, <1>3, <1>4, <1>6 DEF RunTask
    <2>2. \A d \in Conns : Quiet(ops[d], ops'[d])
        BY <2>1, ErrorQuiet
    <2>3. /\ wire' \in [Conns -> Seq(Nat)]
          /\ \A d \in Conns : /\ InRow(wire'[d], ops'[d].pending, ops'[d].outgoing)
                              /\ at' # "stuck" => Drained(ops'[d])
          /\ \A d \in Conns, n \in Nat : UpTo(wire[d], ops[d], n) => UpTo(wire'[d], ops'[d], n)
        BY <1>0, <2>1, <2>2, QuietRows
    <2>4. TasksInRow' /\ \A d \in Conns : UpTo(wire'[d], ops'[d], sent'[d] + 1)
        BY <1>0, <2>3, TasksRun
    <2> QED
        BY <2>3, <2>4, RowTogether
<1> QED
    BY <1>5, <1>6

\* What waited for the connection goes out first, or the thread is stuck.
LEMMA ConnectedKeepsRow ==
    ASSUME NetInv, NetInv', RowInv, NEW c \in Conns, Connected(c)
    PROVE  RowInv'
<1> DEFINE o == [ops[c] EXCEPT !.state = "Open", !.attempts = 0, !.maps = {"open"}]
<1>0. /\ ops \in [Conns -> Op] /\ ops[c] \in Op /\ at = "connect" /\ wire \in [Conns -> Seq(Nat)]
      /\ Mapped(ops[c]) /\ "connecting" \in ops[c].maps /\ Callback(c, "connect")
      /\ InRow(wire[c], ops[c].pending, ops[c].outgoing)
    BY DEF NetInv, NetTypeOK, Connected, RowInv
<1>1. ops[c].state = "Connecting" /\ ops[c].handle
    BY <1>0 DEF Mapped, MapOf, Op, States
<1>2. /\ o \in Op /\ o.outgoing = ops[c].outgoing /\ o.pending = ops[c].pending
      /\ o.outgoing \in Seq(Nat) /\ o.pending \in Nat
    BY <1>0, <1>1 DEF Op, States
<1>3. IF at' = "stuck" THEN ops' = [ops EXCEPT ![c] = o] /\ UNCHANGED wire
      ELSE Flush(c, o.outgoing, o)
    BY DEF Connected
<1> HIDE DEF o
<1>4. \A i \in 1..Len(o.outgoing) : o.outgoing[i] \in Nat
    BY <1>2, ElementOfSeq
<1>5. /\ wire' \in [Conns -> Seq(Nat)]
      /\ \A d \in Conns : /\ InRow(wire'[d], ops'[d].pending, ops'[d].outgoing)
                          /\ at' # "stuck" => Drained(ops'[d])
      /\ \A d \in Conns, n \in Nat : UpTo(wire[d], ops[d], n) => UpTo(wire'[d], ops'[d], n)
    <2>1. CASE at' = "stuck"
        <3>1. /\ wire' = wire /\ ops'[c].pending = ops[c].pending /\ ops'[c].outgoing = ops[c].outgoing
              /\ \A d \in Conns \ {c} : ops'[d] = ops[d]
            BY <1>0, <1>2, <1>3, <2>1
        <3>2. \A n \in Nat : UpTo(wire[c], ops[c], n) => UpTo(wire'[c], ops'[c], n)
            BY <3>1 DEF UpTo
        <3> QED
            BY <1>0, <2>1, <3>1, <3>2 DEF RowInv
    <2>2. CASE at' # "stuck"
        <3>1. InRow(wire[c], None, o.outgoing)
            BY <1>0, <1>2, <1>4 DEF InRow, None
        <3>2. PICK q \in Seq(Nat) : q = o.outgoing
            BY <1>2
        <3>3. /\ wire' \in [Conns -> Seq(Nat)] /\ Rows(wire'[c], ops'[c])
              /\ \A n \in Nat : Below(wire[c], n) /\ Below(q, n) /\ 0 < n => UpTo(wire'[c], ops'[c], n)
              /\ \A d \in Conns \ {c} : wire'[d] = wire[d] /\ ops'[d] = ops[d]
            BY <1>0, <1>2, <1>3, <2>2, <3>1, <3>2, FlushRows
        <3>4. ASSUME NEW n \in Nat, UpTo(wire[c], ops[c], n)
              PROVE  UpTo(wire'[c], ops'[c], n)
            <4>1. Below(wire[c], n) /\ Below(q, n) /\ 0 < n
                BY <1>2, <3>2, <3>4 DEF UpTo
            <4> QED
                BY <3>3, <4>1
        <3> QED
            BY <1>0, <3>3, <3>4 DEF Rows, RowInv
    <2> QED
        BY <2>1, <2>2
<1>6. TasksInRow' /\ \A d \in Conns : UpTo(wire'[d], ops'[d], sent'[d] + 1)
    BY <1>0, <1>5, CallbackGrows, TasksGrow
<1> QED
    BY <1>5, <1>6, RowTogether

\* RowInv is inductive, where NetInv holds.
LEMMA RowKeeps ==
    ASSUME NetInv, NetInv', RowInv, [Next]_vars
    PROVE  RowInv'
<1>0. sent \in [Conns -> Nat] /\ \A c \in Conns : sent[c] <= sent[c]
    BY DEF NetInv, NetTypeOK
<1>1. CASE \/ UNCHANGED vars \/ TasksDone \/ ConnectsDone \/ (\E c \in Conns : Drive(c)) \/ NoFrame
           \/ FrameWaits \/ RecvNone \/ InTime \/ DrivesDone \/ Poll \/ Load \/ Unload
    <2>1. UNCHANGED <<ops, wire, sent, tasks>> /\ (at' # "stuck" => at # "stuck")
        BY <1>1 DEF vars, TasksDone, ConnectsDone, Drive, NoFrame, FrameWaits, RecvNone, InTime, DrivesDone,
            Poll, Load, Unload, Driving, clientVars, netVars, Goto
    <2> QED
        BY <1>0, <2>1, QuietKeeps DEF Quiet
<1>2. CASE \/ \E c \in Conns : ConnectFails(c) \/ Reconnect(c)
           \/ Frame \/ RecvFails \/ RecvClose \/ Ping \/ TimesOut
    <2>1. UNCHANGED <<wire, sent, tasks>> /\ at # "stuck"
        BY <1>2 DEF ConnectFails, Reconnect, Frame, RecvFails, RecvClose, Ping, TimesOut, Driving, clientVars
    <2> QED
        BY <1>0, <1>2, <2>1, DrivenQuiet, QuietKeeps
<1>3. CASE End
    <2>1. UNCHANGED <<wire, sent, tasks>> /\ at # "stuck"
        BY <1>3 DEF End, clientVars
    <2> QED
        BY <1>0, <1>3, <2>1, EndQuiet, QuietKeeps
<1>4. CASE RunTask \/ RecvMessage
    BY <1>4, RunTaskKeepsRow, RecvMessageKeepsRow
<1>5. CASE \E c \in Conns : Connected(c)
    BY <1>5, ConnectedKeepsRow
<1>6. CASE \E c \in Conns : Connect(c) \/ Send(c) \/ Close(c) \/ Release(c)
    BY <1>6, ClientKeepsRow
<1> QED
    BY <1>1, <1>2, <1>3, <1>4, <1>5, <1>6 DEF Next, Worker

\* curl gets the messages of a connection in the order of the calls of send(), and none
\* twice: what fails to go out whole is dropped, and what waited for a reconnection comes
\* before what is sent after it (d2_ws_curl.cpp:427).
THEOREM SendsInOrder == Spec => []SentInOrder
<1>1. Init => RowInv
    <2> SUFFICES ASSUME Init PROVE RowInv
        OBVIOUS
    <2>1. <<>> \in Seq(Nat) /\ Len(<<>>) = 0
        BY EmptySeq
    <2>2. /\ wire = [c \in Conns |-> <<>>] /\ tasks = <<>> /\ sent = [c \in Conns |-> 0]
          /\ \A c \in Conns : ops[c].pending = None /\ ops[c].outgoing = <<>>
        BY DEF Init
    <2>3. wire \in [Conns -> Seq(Nat)] /\ TasksInRow
        BY <2>1, <2>2 DEF TasksInRow
    <2>4. ASSUME NEW c \in Conns
          PROVE  /\ InRow(wire[c], ops[c].pending, ops[c].outgoing) /\ UpTo(wire[c], ops[c], sent[c] + 1)
                 /\ Drained(ops[c])
        BY <2>1, <2>2 DEF InRow, Ascending, Below, UpTo, Drained, None
    <2> QED
        BY <2>3, <2>4 DEF RowInv
<1>2. RowInv => SentInOrder
    BY DEF RowInv, SentInOrder, InRow, Ascending
<1>3. NetInv /\ NetInv' /\ RowInv /\ [Next]_vars => RowInv'
    BY RowKeeps
<1> QED
    BY <1>1, <1>2, <1>3, NetInductive, PTL DEF Spec
=============================================================================
