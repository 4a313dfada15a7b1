----------------------------- MODULE Pool_proofs -----------------------------
(***************************************************************************)
(* That the pool's counters are the tasks that are there, that its list is *)
(* the workers that are started, and that a launched task is always in one *)
(* place, for any threads, workers, tasks, sizes, ratios and policies.     *)
(***************************************************************************)
EXTENDS Pool, FiniteSetTheorems, SequenceTheorems, WellFoundedInduction, TLAPS

-----------------------------------------------------------------------------
(* Induction over the numbers, from the order on them.                     *)

LEMMA Least ==
    ASSUME NEW T, T \subseteq Nat, T # {}
    PROVE  \E n \in T : \A m \in T : n <= m
<1>1. PICK n \in T : \A m \in T : ~ (<<m, n>> \in OpToRel(<, Nat))
    BY NatLessThanWellFounded, WFMin
<1>2. \A m \in T : ~ (m < n)
    BY <1>1 DEF OpToRel
<1> QED
    BY <1>2

LEMMA Induction ==
    ASSUME NEW S, 0 \in S, \A n \in Nat : n \in S => n + 1 \in S
    PROVE  Nat \subseteq S
<1>1. SUFFICES ASSUME Nat \ S # {} PROVE FALSE
    OBVIOUS
<1>2. PICK n \in Nat \ S : \A m \in Nat \ S : n <= m
    BY <1>1, Least
<1>3. n # 0 /\ n - 1 \in Nat /\ n - 1 \in S /\ (n - 1) + 1 = n
    BY <1>2
<1> QED
    BY <1>2, <1>3

-----------------------------------------------------------------------------
(* Counting.                                                               *)

\* Two sets that differ in one element at most.
LEMMA OneDiffers ==
    ASSUME NEW S, IsFiniteSet(S), NEW A \in SUBSET S, NEW B \in SUBSET S, NEW t,
           A \ {t} = B \ {t}
    PROVE  /\ Cardinality(A) \in Nat /\ Cardinality(B) \in Nat
           /\ Cardinality(B) = Cardinality(A) - (IF t \in A THEN 1 ELSE 0)
                                             + (IF t \in B THEN 1 ELSE 0)
<1>1. /\ IsFiniteSet(A) /\ Cardinality(A) \in Nat /\ IsFiniteSet(B) /\ Cardinality(B) \in Nat
    BY FS_Subset, FS_CardinalityType
<1>2. /\ Cardinality(A \ {t}) = IF t \in A THEN Cardinality(A) - 1 ELSE Cardinality(A)
      /\ Cardinality(B \ {t}) = IF t \in B THEN Cardinality(B) - 1 ELSE Cardinality(B)
    BY <1>1, FS_RemoveElement
<1>3. Cardinality(A \ {t}) = Cardinality(B \ {t})
    OBVIOUS
<1> QED
    BY <1>1, <1>2, <1>3

-----------------------------------------------------------------------------
(* Sums: the fold that adds up the counters of the workers.                *)

Total(f, S) == FoldFunctionOnSet(LAMBDA n, m : n + m, 0, f, S)

Some(s) == CHOOSE x \in s : TRUE
Totals(f, D, g) ==
    g = [s \in D |-> IF s = {} THEN 0 ELSE f[Some(s)] + g[s \ {Some(s)}]]
Small(S, n) == {s \in SUBSET S : Cardinality(s) <= n}

LEMMA SomeIsMember ==
    ASSUME NEW S, IsFiniteSet(S), NEW n \in Nat, NEW s \in SUBSET S, s # {},
           Cardinality(s) <= n + 1
    PROVE  Some(s) \in s /\ s \ {Some(s)} \in Small(S, n)
<1>1. Some(s) \in s
    BY DEF Some
<1>2. IsFiniteSet(s)
    BY FS_Subset
<1>3. Cardinality(s) \in Nat /\ Cardinality(s \ {Some(s)}) = Cardinality(s) - 1
    BY <1>1, <1>2, FS_CardinalityType, FS_RemoveElement
<1> QED
    BY <1>1, <1>3 DEF Small

\* Where the induction over the subsets of a finite set starts and ends.
LEMMA SmallSubsets ==
    ASSUME NEW S, IsFiniteSet(S)
    PROVE  /\ \A s \in Small(S, 0) : s = {}
           /\ Cardinality(S) \in Nat /\ Small(S, Cardinality(S)) = SUBSET S
<1>1. ASSUME NEW s \in Small(S, 0)
      PROVE  s = {}
    <2>1. s \subseteq S /\ Cardinality(s) <= 0 /\ IsFiniteSet(s)
        BY FS_Subset DEF Small
    <2>2. Cardinality(s) = 0
        BY <2>1, FS_CardinalityType
    <2> QED
        BY <2>1, <2>2, FS_EmptySet
<1>2. Cardinality(S) \in Nat /\ Small(S, Cardinality(S)) = SUBSET S
    BY FS_Subset, FS_CardinalityType DEF Small
<1> QED
    BY <1>1, <1>2

LEMMA TotalsExist ==
    ASSUME NEW f, NEW S, IsFiniteSet(S)
    PROVE  \E g : Totals(f, SUBSET S, g)
<1> DEFINE T == {n \in Nat : \E g : Totals(f, Small(S, n), g)}
<1>1. 0 \in T
    <2>1. Totals(f, Small(S, 0), [s \in Small(S, 0) |-> 0])
        BY SmallSubsets DEF Totals
    <2> QED
        BY <2>1
<1>2. ASSUME NEW n \in Nat, n \in T
      PROVE  n + 1 \in T
    <2>1. PICK g : Totals(f, Small(S, n), g)
        BY <1>2
    <2> DEFINE h == [s \in Small(S, n + 1) |->
                        IF s = {} THEN 0 ELSE f[Some(s)] + g[s \ {Some(s)}]]
    <2>2. \A s \in Small(S, n + 1) :
              s # {} => s \ {Some(s)} \in Small(S, n)
        BY SomeIsMember DEF Small
    <2>3. \A s \in Small(S, n) : s \in Small(S, n + 1)
        <3> SUFFICES ASSUME NEW s \in Small(S, n) PROVE Cardinality(s) <= n + 1
            BY DEF Small
        <3>1. IsFiniteSet(s) /\ Cardinality(s) <= n
            BY FS_Subset DEF Small
        <3> QED
            BY <3>1, FS_CardinalityType
    <2>4. \A s \in Small(S, n) : g[s] = h[s]
        BY <2>1, <2>3 DEF Totals
    <2>5. ASSUME NEW s \in Small(S, n + 1)
          PROVE  h[s] = IF s = {} THEN 0 ELSE f[Some(s)] + h[s \ {Some(s)}]
        BY <2>2, <2>4
    <2>6. h = [s \in Small(S, n + 1) |-> h[s]]
        OBVIOUS
    <2> HIDE DEF h
    <2>7. Totals(f, Small(S, n + 1), h)
        BY <2>5, <2>6 DEF Totals
    <2> QED
        BY <2>7
<1> HIDE DEF T
<1>3. Cardinality(S) \in T
    BY <1>1, <1>2, Induction, SmallSubsets
<1>4. Small(S, Cardinality(S)) = SUBSET S
    BY SmallSubsets
<1> QED
    BY <1>3, <1>4 DEF T

\* One total is the sum of the whole, and adds up along any way through the set.
LEMMA TotalIsTotal ==
    ASSUME NEW f, NEW S, IsFiniteSet(S)
    PROVE  \E g : Totals(f, SUBSET S, g) /\ Total(f, S) = g[S]
<1> DEFINE g == CHOOSE g : Totals(f, SUBSET S, g)
<1>1. Total(f, S) = g[S]
    BY DEF Total, FoldFunctionOnSet, MapThenFoldSet, Totals, Some
<1>2. Totals(f, SUBSET S, g)
    BY TotalsExist
<1> QED
    BY <1>1, <1>2

\* A change of one counter is a change of the sum.
LEMMA TotalOfUpdate ==
    ASSUME NEW S, IsFiniteSet(S), NEW f \in [S -> Int], NEW h \in [S -> Int],
           NEW w \in S, NEW d \in Int,
           \A x \in S : h[x] = IF x = w THEN f[x] + d ELSE f[x]
    PROVE  Total(h, S) = Total(f, S) + d
<1>1. PICK F : Totals(f, SUBSET S, F) /\ Total(f, S) = F[S]
    BY TotalIsTotal
<1>2. PICK H : Totals(h, SUBSET S, H) /\ Total(h, S) = H[S]
    BY TotalIsTotal
<1> DEFINE Agree(s) == /\ F[s] \in Int
                       /\ H[s] = F[s] + (IF w \in s THEN d ELSE 0)
           T == {n \in Nat : \A s \in Small(S, n) : Agree(s)}
<1>3. \A s \in SUBSET S : s = {} => Agree(s)
    BY <1>1, <1>2 DEF Totals
<1>4. 0 \in T
    <2> HIDE DEF Agree
    <2> QED
        BY <1>3, SmallSubsets DEF Small
<1>5. ASSUME NEW n \in Nat, n \in T
      PROVE  n + 1 \in T
    <2> SUFFICES ASSUME NEW s \in Small(S, n + 1) PROVE Agree(s)
        OBVIOUS
    <2>1. CASE s = {}
        BY <1>3, <2>1
    <2>2. CASE s # {}
        <3> DEFINE x == Some(s)
                   r == s \ {x}
        <3>1. x \in s /\ x \in S /\ r \in Small(S, n) /\ s \in SUBSET S
            BY <2>2, SomeIsMember DEF Small
        <3>2. Agree(r)
            BY <1>5, <3>1
        <3>3. F[s] = f[x] + F[r] /\ H[s] = h[x] + H[r]
            BY <1>1, <1>2, <2>2, <3>1 DEF Totals
        <3>4. f[x] \in Int /\ h[x] = IF x = w THEN f[x] + d ELSE f[x]
            BY <3>1
        <3>5. w \in s <=> x = w \/ w \in r
            BY <3>1
        <3>6. x = w => w \notin r
            OBVIOUS
        <3> HIDE DEF x, r
        <3> QED
            BY <3>2, <3>3, <3>4, <3>5, <3>6
    <2> QED
        BY <2>1, <2>2
<1> HIDE DEF T
<1>6. Cardinality(S) \in T
    BY <1>4, <1>5, Induction, SmallSubsets
<1>7. S \in Small(S, Cardinality(S))
    BY SmallSubsets
<1> QED
    BY <1>1, <1>2, <1>6, <1>7 DEF T

\* Counters that are all zero sum up to zero, and any to a number.
LEMMA TotalOfZeros ==
    ASSUME NEW S, IsFiniteSet(S), NEW f, \A x \in S : f[x] = 0
    PROVE  Total(f, S) = 0
<1>1. PICK F : Totals(f, SUBSET S, F) /\ Total(f, S) = F[S]
    BY TotalIsTotal
<1> DEFINE T == {n \in Nat : \A s \in Small(S, n) : F[s] = 0}
<1>2. ASSUME NEW s \in SUBSET S, s # {}, F[s \ {Some(s)}] = 0
      PROVE  F[s] = 0
    <2>1. Some(s) \in S
        BY <1>2 DEF Some
    <2>2. F[s] = f[Some(s)] + F[s \ {Some(s)}]
        BY <1>1, <1>2 DEF Totals
    <2> QED
        BY <1>2, <2>1, <2>2
<1>3. F[{}] = 0
    BY <1>1 DEF Totals
<1>4. 0 \in T
    BY <1>3, SmallSubsets
<1>5. ASSUME NEW n \in Nat, n \in T
      PROVE  n + 1 \in T
    <2> SUFFICES ASSUME NEW s \in Small(S, n + 1), s # {} PROVE F[s] = 0
        BY <1>3
    <2>1. s \in SUBSET S /\ s \ {Some(s)} \in Small(S, n)
        BY SomeIsMember DEF Small
    <2> QED
        BY <1>2, <1>5, <2>1
<1> HIDE DEF T
<1>6. Cardinality(S) \in T
    BY <1>4, <1>5, Induction, SmallSubsets
<1>7. S \in Small(S, Cardinality(S))
    BY SmallSubsets
<1> QED
    BY <1>1, <1>6, <1>7 DEF T

-----------------------------------------------------------------------------
(* The invariant.                                                          *)

Calling == {"ensure", "await", "check", "schedule", "grow", "grow put", "pick", "try", "put",
            "reject", "accept", "enqueue"}
MainOnly == {"before", "started", "changed", "stopping", "barrier", "over", "process",
             "stopping one"}
TaskJobs == [kind : {"task", "later"}, of : Tasks]
WorkJobs == [kind : {"grow", "shrink"}, of : Workers]
Jobs == TaskJobs \cup WorkJobs

\* Where the threads are with what they hand over.
CallsTyped ==
    /\ at \in [Threads -> Calling \cup MainOnly \cup {"idle"}]
    /\ \A t \in Callers : at[t] \notin MainOnly
    /\ job \in [Threads -> TaskJobs \cup {NoJob}]
    /\ \A t \in Threads : job[t] = NoJob <=> at[t] \notin Calling
    /\ target \in [Threads -> All \cup {"none"}]
    /\ \A t \in Threads : /\ at[t] \in {"try", "put", "accept", "enqueue"} => target[t] \in All
                          /\ at[t] = "grow put" => target[t] \in Workers

\* What the workers have.
CountsTyped == tasks \in [All -> Int] /\ count \in Int

\* Only the main worker gets requests to grow and to shrink.
RingsTyped == /\ ring \in [All -> Seq(Jobs)]
              /\ \A w \in All : Len(ring[w]) <= Size
              /\ \A w \in Workers : ring[w] \in Seq(TaskJobs)

\* It has a task only while it processes it or, having a worker to stop, waits.
BusyTyped ==
    /\ busy \in [All -> Jobs \cup {NoJob}]
    /\ \A w \in Workers : busy[w] \in TaskJobs \cup {NoJob}
    /\ busy[Main] # NoJob => at[Main] \in {"process", "stopping one", "barrier"}
    /\ timers \subseteq Tasks

WorkersTyped == CountsTyped /\ RingsTyped /\ BusyTyped

\* What the list and the stopped workers are in the phases of the pool.
Phases ==
    /\ off \in [All -> BOOLEAN] /\ halted \in BOOLEAN
    /\ list \subseteq All /\ todo \subseteq All
    /\ halted => at[Main] \in {"before", "stopping", "barrier", "changed", "over"}
    /\ at[Main] = "stopping" => halted
    /\ at[Main] = "changed" /\ halted => stopped
    /\ at[Main] = "before" => todo = {} /\ \A w \in All : off[w]
    /\ at[Main] = "stopping one" => todo \cap list = {} /\ \A v, w \in todo : v = w
    /\ ~ halted /\ todo # {} => at[Main] = "stopping one"

\* A task is in one place or in none.
Once == \A x \in Tasks : Places(x) <= 1

\* How far the workers are that ask for their removal.
AskingTyped == asking \in [Workers -> {"no", "awaits start", "awaits stop", "check", "request",
                                       "put"}]

Asked(w) == Ask(w) \/ AskCheck(w) \/ AskRequest(w) \/ AskPut(w)

\* A worker that asks counts its request for the main worker and puts it into the ring, or
\* does neither; nothing else moves.
LEMMA AskedChoices ==
    ASSUME NEW w \in Workers, Asked(w)
    PROVE  /\ UNCHANGED <<at, job, target, pressed, saw, stopped, changing, halted, todo, list, off,
                          busy, warm, timers, done, dropped, undefined>>
           /\ \E l \in {"no", "awaits start", "awaits stop", "check", "request", "put"} :
                  /\ asking' = [asking EXCEPT ![w] = l]
                  /\ \/ /\ l # "put" /\ asking[w] # "put" /\ UNCHANGED <<count, tasks, ring>>
                     \/ /\ l = "put" /\ asking[w] # "put" /\ Inc(Main) /\ UNCHANGED ring
                     \/ /\ l # "put" /\ asking[w] = "put" /\ UNCHANGED <<count, tasks>>
                        /\ Len(ring[Main]) < Size
                        /\ ring' = [ring EXCEPT ![Main] = Append(@, ShrinkTask(w))]
<1> USE DEF Asks, AskFrame, callVars, poolVars, endVars
<1>1. CASE Ask(w)
    BY <1>1 DEF Ask
<1>2. CASE AskCheck(w)
    BY <1>2 DEF AskCheck
<1>3. CASE AskRequest(w)
    BY <1>3 DEF AskRequest
<1>4. CASE AskPut(w)
    BY <1>4 DEF AskPut
<1> QED
    BY <1>1, <1>2, <1>3, <1>4 DEF Asked

\* What the answer of the reject callback leads to.
LEMMA RejectChoices ==
    ASSUME NEW t \in Threads, NEW p \in Policies, Reject(t, p)
    PROVE  /\ at[t] = "reject"
           /\ UNCHANGED <<pressed, saw, poolVars, workVars, done>>
           /\ \/ /\ target[t] = "none" /\ Finish(t) /\ UNCHANGED dropped
                 /\ undefined' = undefined \cup {job[t].of}
              \/ /\ target[t] # "none" /\ Goto(t, "accept")
                 /\ UNCHANGED <<job, target, dropped, undefined>>
              \/ Drop(t) /\ UNCHANGED undefined
              \/ Goto(t, "schedule") /\ UNCHANGED <<job, target, dropped, undefined>>
              \/ /\ Goto(t, "schedule") /\ job' = [job EXCEPT ![t].kind = "later"]
                 /\ UNCHANGED <<target, dropped, undefined>>
<1>1. p \in {"Wait", "Discard", "Throw", "Again", "Later"}
    BY PoolAssumption
<1>2. CASE p = "Wait" /\ target[t] = "none"
    BY <1>2 DEF Reject
<1>3. CASE p = "Wait" /\ target[t] # "none"
    BY <1>3 DEF Reject
<1>4. CASE p \in {"Discard", "Throw"}
    BY <1>4 DEF Reject
<1>5. CASE p = "Again"
    BY <1>5 DEF Reject
<1>6. CASE p = "Later"
    BY <1>6 DEF Reject
<1> QED
    BY <1>1, <1>2, <1>3, <1>4, <1>5, <1>6

\* A thread that has handed its task over, or has lost it, is idle.
LEMMA CallEnds ==
    ASSUME CallsTyped, NEW t \in Threads, Finish(t)
    PROVE  CallsTyped'
BY PoolAssumption DEF CallsTyped, Finish, Goto, Calling, MainOnly, Threads, All, NoJob

\* A thread that keeps its task, and its worker, goes on.
LEMMA CallGoes ==
    ASSUME CallsTyped, NEW t \in Threads, NEW l, Goto(t, l), UNCHANGED <<job, target>>,
           at[t] \in Calling, l \in Calling \ {"grow put"},
           l \in {"try", "put", "accept", "enqueue"} => target[t] \in All
    PROVE  CallsTyped'
BY PoolAssumption DEF CallsTyped, Goto, Calling, MainOnly, Threads, All, NoJob

\* So does the main thread with what is no task that it launched.
LEMMA MainGoes ==
    ASSUME CallsTyped, NEW l, Goto(Main, l), UNCHANGED <<job, target>>,
           at[Main] \notin Calling, l \in MainOnly \cup {"idle"}
    PROVE  CallsTyped'
BY PoolAssumption DEF CallsTyped, Goto, Calling, MainOnly, Threads, All, NoJob

LEMMA CallsKeep ==
    ASSUME CallsTyped, WorkersTyped, Phases, [Next]_vars
    PROVE  CallsTyped'
<1> USE PoolAssumption DEF CallsTyped, Fixed, callVars, Calling, MainOnly, Threads, All
<1>1. CASE Start
    BY <1>1 DEF Start, Goto
<1>2. CASE Started
    BY <1>2 DEF Started, Goto
<1>3. CASE Changed
    BY <1>3 DEF Changed, Goto
<1>4. CASE StopSelf
    BY <1>4 DEF StopSelf
<1>5. CASE Stopped
    BY <1>5 DEF Stopped, Goto
<1>6. ASSUME NEW w \in Workers, StopOther(w)
      PROVE  CallsTyped'
    BY <1>6 DEF StopOther, Goto
<1>7. CASE MainTake
    BY <1>7 DEF MainTake, Goto
<1>8. CASE MainGrow
    BY <1>8 DEF MainGrow, Goto, MainDone
<1>9. CASE MainShrink
    <2>1. \E l \in {"stopping one", "idle"} : Goto(Main, l)
        BY <1>9 DEF MainShrink
    <2>2. UNCHANGED <<job, target>> /\ at[Main] = "process"
        BY <1>9 DEF MainShrink
    <2> QED
        BY <2>1, <2>2, MainGoes
<1>10. CASE ShrinkStop
    <2>1. Goto(Main, "barrier") /\ UNCHANGED <<job, target>> /\ at[Main] = "stopping one"
        BY <1>10 DEF ShrinkStop
    <2> QED
        BY <2>1, MainGoes
<1>11. CASE MainDelay
    BY <1>11 DEF MainDelay, Goto, MainDone
<1>12. ASSUME NEW x \in Tasks, Fire(x)
      PROVE  CallsTyped'
    BY <1>12 DEF Fire, Goto, NoJob, TaskJobs, WorkersTyped, BusyTyped
<1>13. CASE Stop
    BY <1>13 DEF Stop, Goto
<1>14. ASSUME NEW t \in Threads, Ensure(t)
      PROVE  CallsTyped'
    BY <1>14 DEF Ensure, Goto
<1>15. ASSUME NEW t \in Threads, Await(t)
      PROVE  CallsTyped'
    BY <1>15 DEF Await, Goto
<1>16. ASSUME NEW t \in Threads, Check(t)
      PROVE  CallsTyped'
    <2>1. CASE stopped
        BY <1>16, <2>1, CallEnds DEF Check, Drop
    <2>2. CASE ~ stopped
        <3>1. Goto(t, "schedule") /\ UNCHANGED <<job, target>> /\ at[t] = "check"
            BY <1>16, <2>2 DEF Check
        <3> QED
            BY <3>1, CallGoes
    <2> QED
        BY <2>1, <2>2
<1>17. ASSUME NEW t \in Threads, Schedule(t)
      PROVE  CallsTyped'
    <2>1. CASE halted
        BY <1>17, <2>1, CallEnds DEF Schedule, Drop
    <2>2. CASE ~ halted
        <3>1. at[t] = "schedule" /\ UNCHANGED <<job, target>>
            BY <1>17, <2>2 DEF Schedule
        <3>2. \E l \in {"grow", "pick"} : Goto(t, l)
            BY <1>17, <2>2 DEF Schedule
        <3> QED
            BY <3>1, <3>2, CallGoes
    <2> QED
        BY <2>1, <2>2
<1>18. ASSUME NEW t \in Threads, Pick(t)
      PROVE  CallsTyped'
    <2>1. CASE Category(t) = {}
        <3>1. /\ at[t] = "pick" /\ UNCHANGED job
              /\ target' = [target EXCEPT ![t] = "none"] /\ at' = [at EXCEPT ![t] = "reject"]
            BY <1>18, <2>1 DEF Pick, Goto
        <3> QED
            BY <3>1
    <2>2. CASE Category(t) # {}
        <3>1. PICK w \in Category(t) : target' = [target EXCEPT ![t] = w]
            BY <1>18, <2>2 DEF Pick, Optimal
        <3>2. w \in All
            BY <3>1 DEF Category, Phases
        <3>3. at[t] = "pick" /\ UNCHANGED job
            BY <1>18 DEF Pick, Goto
        <3>4. PICK l \in {"reject", "try"} : at' = [at EXCEPT ![t] = l]
            BY <1>18 DEF Pick, Goto
        <3> QED
            BY <3>1, <3>2, <3>3, <3>4
    <2> QED
        BY <2>1, <2>2
<1>19. ASSUME NEW t \in Threads, Grow(t)
      PROVE  CallsTyped'
    BY <1>19 DEF Grow, Goto
<1>20. ASSUME NEW t \in Threads, GrowPut(t)
      PROVE  CallsTyped'
    BY <1>20 DEF GrowPut, Goto
<1>21. ASSUME NEW t \in Threads, NEW w \in Workers, GrowTask(t, w)
      PROVE  CallsTyped'
    BY <1>21 DEF GrowTask, Goto
<1>22. ASSUME NEW w \in Workers, GrowSelf(w)
      PROVE  CallsTyped'
    BY <1>22 DEF GrowSelf, Goto
<1>23. ASSUME NEW t \in Threads, Try(t)
      PROVE  CallsTyped'
    <2>1. \E l \in {"reject", "put"} : Goto(t, l)
        BY <1>23 DEF Try
    <2>2. at[t] = "try" /\ UNCHANGED <<job, target>>
        BY <1>23 DEF Try
    <2> QED
        BY <2>1, <2>2, CallGoes
<1>24. ASSUME NEW t \in Threads, TryPut(t)
      PROVE  CallsTyped'
    <2>1. CASE Finish(t)
        BY <2>1, CallEnds
    <2>2. CASE ~ Finish(t)
        <3>1. Goto(t, "reject") /\ UNCHANGED <<job, target>> /\ at[t] = "put"
            BY <1>24, <2>2 DEF TryPut
        <3> QED
            BY <3>1, CallGoes
    <2> QED
        BY <2>1, <2>2
<1>25. ASSUME NEW t \in Threads, TrySelf(t)
      PROVE  CallsTyped'
    <2>1. CASE Finish(t)
        BY <2>1, CallEnds
    <2>2. CASE ~ Finish(t)
        <3>1. Goto(t, "reject") /\ UNCHANGED <<job, target>> /\ at[t] = "try"
            BY <1>25, <2>2 DEF TrySelf
        <3> QED
            BY <3>1, CallGoes
    <2> QED
        BY <2>1, <2>2
<1>26. ASSUME NEW t \in Threads, NEW p \in Policies, Reject(t, p)
      PROVE  CallsTyped'
    <2>1. CASE Finish(t)
        BY <2>1, CallEnds
    <2>2. CASE /\ Goto(t, "schedule") /\ UNCHANGED target
               /\ job' = [job EXCEPT ![t].kind = "later"]
        <3>1. /\ at[t] = "reject" /\ at' = [at EXCEPT ![t] = "schedule"] /\ UNCHANGED target
            BY <1>26, <2>2, RejectChoices DEF Goto
        <3>2. job[t] \in TaskJobs
            BY <3>1
        <3> DEFINE j == [job[t] EXCEPT !.kind = "later"]
        <3>3. j \in TaskJobs /\ j # NoJob
            BY <3>2 DEF TaskJobs, NoJob
        <3>4. job' = [job EXCEPT ![t] = j]
            BY <2>2, <3>2
        <3> HIDE DEF j
        <3>5. job' \in [Threads -> TaskJobs \cup {NoJob}]
            BY <3>3, <3>4
        <3> QED
            BY <3>1, <3>3, <3>4, <3>5
    <2>3. CASE UNCHANGED <<job, target>>
        <3>1. \/ Goto(t, "schedule")
              \/ Goto(t, "accept") /\ target[t] # "none"
              \/ Finish(t)
            BY <1>26, <2>3, RejectChoices DEF Drop
        <3>2. at[t] = "reject"
            BY <1>26, RejectChoices
        <3>3. CASE Goto(t, "schedule")
            BY <2>3, <3>2, <3>3, CallGoes
        <3>4. CASE Goto(t, "accept") /\ target[t] # "none"
            <4>1. target[t] \in All
                BY <3>4
            <4> QED
                BY <2>3, <3>2, <3>4, <4>1, CallGoes
        <3> QED
            BY <2>1, <3>1, <3>3, <3>4
    <2> QED
        BY <1>26, <2>1, <2>2, <2>3, RejectChoices DEF Drop
<1>27. ASSUME NEW t \in Threads, Accept(t)
      PROVE  CallsTyped'
    <2>1. CASE Finish(t)
        BY <2>1, CallEnds
    <2>2. CASE ~ Finish(t)
        <3>1. at[t] = "accept" /\ Goto(t, "enqueue") /\ UNCHANGED <<job, target>>
            BY <1>27, <2>2 DEF Accept, Drop
        <3> QED
            BY <3>1, CallGoes
    <2> QED
        BY <2>1, <2>2
<1>28. ASSUME NEW t \in Threads, Enqueue(t)
      PROVE  CallsTyped'
    BY <1>28, CallEnds DEF Enqueue
<1>29. ASSUME NEW t \in Threads, NEW x \in Tasks, Launch(t, x)
      PROVE  CallsTyped'
    BY <1>29 DEF Launch, Goto, NoJob, TaskJobs
<1>30. ASSUME NEW w \in Workers, Dequeue(w)
      PROVE  CallsTyped'
    BY <1>30 DEF Dequeue
<1>31. ASSUME NEW w \in Workers, Process(w)
      PROVE  CallsTyped'
    BY <1>31 DEF Process
<1>32. ASSUME NEW w \in Workers, Asked(w)
      PROVE  CallsTyped'
    BY <1>32, AskedChoices
<1>33. CASE UNCHANGED vars
    BY <1>33 DEF vars
<1> QED
    BY <1>1, <1>2, <1>3, <1>4, <1>5, <1>6, <1>7, <1>8, <1>9, <1>10, <1>11, <1>12, <1>13,
       <1>14, <1>15, <1>16, <1>17, <1>18, <1>19, <1>20, <1>21, <1>22, <1>23, <1>24, <1>25,
       <1>26, <1>27, <1>28, <1>29, <1>30, <1>31, <1>32, <1>33
    DEF Next, MainStep, CallStep, WorkerStep, Asked

\* Only a worker moves on in asking.
LEMMA AskingKeeps ==
    ASSUME AskingTyped, [Next]_vars
    PROVE  AskingTyped'
<1>1. ASSUME MainStep \/ Stop
      PROVE  UNCHANGED asking
    BY <1>1 DEF MainStep, Start, Started, Changed, Stop, StopSelf, StopOther, Stopped, MainTake,
                MainGrow, MainShrink, ShrinkStop, MainDelay, Fire, workVars
<1>2. ASSUME NEW t \in Threads, CallStep(t)
      PROVE  UNCHANGED asking
    <2>1. ASSUME NEW p \in Policies, Reject(t, p)
          PROVE  UNCHANGED asking
        BY <2>1, RejectChoices DEF workVars
    <2> QED
        BY <1>2, <2>1 DEF CallStep, Ensure, Await, Check, Schedule, Pick, Grow, GrowPut, GrowTask,
                          GrowSelf, Try, TryPut, TrySelf, Accept, Enqueue, workVars
<1>3. ASSUME NEW t \in Threads, NEW x \in Tasks, Launch(t, x)
      PROVE  UNCHANGED asking
    BY <1>3 DEF Launch, workVars
<1>4. ASSUME NEW w \in Workers, Dequeue(w) \/ Process(w)
      PROVE  UNCHANGED asking
    BY <1>4 DEF Dequeue, Process
<1>5. ASSUME NEW w \in Workers, Asked(w)
      PROVE  AskingTyped'
    BY <1>5, AskedChoices DEF AskingTyped
<1>6. CASE UNCHANGED vars
    BY <1>6 DEF vars, workVars, AskingTyped
<1> QED
    BY <1>1, <1>2, <1>3, <1>4, <1>5, <1>6 DEF Next, WorkerStep, Asked, AskingTyped

\* The counters stay counters.
LEMMA CountsKeep ==
    ASSUME CountsTyped, NEW w \in All, Inc(w) \/ Dec(w) \/ UNCHANGED <<count, tasks>>
    PROVE  CountsTyped'
<1>1. CASE Inc(w)
    BY <1>1 DEF CountsTyped, Inc
<1>2. CASE Dec(w)
    BY <1>2 DEF CountsTyped, Dec
<1>3. CASE UNCHANGED <<count, tasks>>
    BY <1>3 DEF CountsTyped
<1> QED
    BY <1>1, <1>2, <1>3

\* A ring takes what may be in it, at its end, and gives it, from its head.
LEMMA RingTakes ==
    ASSUME RingsTyped, NEW w \in All, NEW j \in Jobs, w # Main => j \in TaskJobs,
           Len(ring[w]) < Size, ring' = [ring EXCEPT ![w] = Append(@, j)]
    PROVE  RingsTyped'
<1>1. ring[w] \in Seq(Jobs) /\ Len(ring[w]) \in Nat
    BY LenProperties DEF RingsTyped
<1>2. Append(ring[w], j) \in Seq(Jobs) /\ Len(Append(ring[w], j)) = Len(ring[w]) + 1
    BY <1>1, AppendProperties
<1>3. ASSUME w \in Workers
      PROVE  Append(ring[w], j) \in Seq(TaskJobs)
    <2>1. ring[w] \in Seq(TaskJobs) /\ j \in TaskJobs
        BY <1>3, PoolAssumption DEF RingsTyped
    <2> QED
        BY <2>1, AppendProperties
<1>4. \A v \in All : ring'[v] = IF v = w THEN Append(ring[w], j) ELSE ring[v]
    BY DEF RingsTyped
<1>5. ring' \in [All -> Seq(Jobs)]
    BY <1>2 DEF RingsTyped
<1>6. Len(ring[w]) + 1 <= Size
    BY <1>1, PoolAssumption
<1> QED
    BY <1>2, <1>3, <1>4, <1>5, <1>6 DEF RingsTyped, All

LEMMA RingGives ==
    ASSUME RingsTyped, NEW w \in All, ring[w] # <<>>,
           ring' = [ring EXCEPT ![w] = Tail(@)]
    PROVE  /\ RingsTyped'
           /\ Head(ring[w]) \in Jobs /\ (w \in Workers => Head(ring[w]) \in TaskJobs)
<1>1. /\ Head(ring[w]) \in Jobs /\ Tail(ring[w]) \in Seq(Jobs)
      /\ Len(Tail(ring[w])) = Len(ring[w]) - 1 /\ Len(ring[w]) \in Nat
    BY HeadTailProperties, LenProperties DEF RingsTyped
<1>2. w \in Workers => Head(ring[w]) \in TaskJobs /\ Tail(ring[w]) \in Seq(TaskJobs)
    BY HeadTailProperties DEF RingsTyped
<1>3. \A v \in All : ring'[v] = IF v = w THEN Tail(ring[w]) ELSE ring[v]
    BY DEF RingsTyped
<1>4. ring' \in [All -> Seq(Jobs)]
    BY <1>1 DEF RingsTyped
<1>5. Len(ring[w]) <= Size /\ Size \in Nat
    BY PoolAssumption DEF RingsTyped
<1>6. Len(Tail(ring[w])) <= Size
    BY <1>1, <1>5
<1> QED
    BY <1>1, <1>2, <1>3, <1>4, <1>6 DEF RingsTyped, All

\* The main worker has no task while its thread launches one or is idle.
LEMMA CallsLeave ==
    ASSUME CallsTyped, BusyTyped, NEW t \in Threads, at[t] \in Calling \cup {"idle"},
           NEW l, Goto(t, l), UNCHANGED busy, timers' \subseteq Tasks
    PROVE  BusyTyped'
<1>1. t = Main => busy[Main] = NoJob
    BY DEF BusyTyped, Calling
<1>2. t # Main => at'[Main] = at[Main]
    BY DEF CallsTyped, Goto, Threads
<1> QED
    BY <1>1, <1>2 DEF BusyTyped

\* A launched task is a task.
LEMMA JobTyped ==
    ASSUME CallsTyped, NEW t \in Threads, at[t] \in Calling
    PROVE  job[t] \in TaskJobs /\ job[t] \in Jobs /\ job[t].of \in Tasks
BY DEF CallsTyped, Jobs, TaskJobs

LEMMA DelayedTyped ==
    ASSUME BusyTyped, busy[Main].kind = "later"
    PROVE  busy[Main].of \in Tasks
<1>1. busy[Main] \in Jobs \cup {NoJob}
    BY DEF BusyTyped, All
<1> QED
    BY <1>1 DEF Jobs, TaskJobs, WorkJobs, NoJob

LEMMA WorkersKeep ==
    ASSUME CallsTyped, WorkersTyped, [Next]_vars
    PROVE  WorkersTyped'
<1> USE PoolAssumption DEF WorkersTyped, Threads, All
<1>1. CASE Start
    <2>1. CountsTyped'
        BY <1>1 DEF Start, CountsTyped
    <2>2. RingsTyped'
        BY <1>1 DEF Start, RingsTyped
    <2>3. BusyTyped'
        BY <1>1 DEF Start, BusyTyped, Goto, CallsTyped
    <2> QED
        BY <2>1, <2>2, <2>3
<1>2. CASE Started
    <2>1. CountsTyped'
        BY <1>2 DEF Started, workVars, CountsTyped
    <2>2. RingsTyped'
        BY <1>2 DEF Started, workVars, RingsTyped
    <2>3. BusyTyped'
        BY <1>2 DEF Started, workVars, BusyTyped, Goto, CallsTyped
    <2> QED
        BY <2>1, <2>2, <2>3
<1>3. CASE Changed
    <2>1. CountsTyped'
        BY <1>3 DEF Changed, workVars, CountsTyped
    <2>2. RingsTyped'
        BY <1>3 DEF Changed, workVars, RingsTyped
    <2>3. BusyTyped'
        BY <1>3 DEF Changed, workVars, BusyTyped, Goto, CallsTyped
    <2> QED
        BY <2>1, <2>2, <2>3
<1>4. CASE StopSelf
    <2>1. CountsTyped'
        BY <1>4 DEF StopSelf, CountsTyped
    <2>2. RingsTyped'
        BY <1>4 DEF StopSelf, RingsTyped
    <2>3. BusyTyped'
        BY <1>4 DEF StopSelf, BusyTyped
    <2> QED
        BY <2>1, <2>2, <2>3
<1>5. CASE Stopped
    <2>1. CountsTyped'
        BY <1>5 DEF Stopped, CountsTyped
    <2>2. RingsTyped'
        BY <1>5 DEF Stopped, RingsTyped
    <2>3. BusyTyped'
        BY <1>5 DEF Stopped, BusyTyped, Goto, CallsTyped
    <2> QED
        BY <2>1, <2>2, <2>3
<1>6. ASSUME NEW w \in Workers, StopOther(w)
      PROVE  WorkersTyped'
    <2>1. CountsTyped'
        BY <1>6 DEF StopOther, CountsTyped
    <2>2. RingsTyped'
        BY <1>6 DEF StopOther, RingsTyped
    <2>3. BusyTyped'
        BY <1>6 DEF StopOther, BusyTyped, Goto, CallsTyped
    <2> QED
        BY <2>1, <2>2, <2>3
<1>7. CASE MainTake
    <2>1. CountsTyped'
        BY <1>7 DEF MainTake, CountsTyped
    <2>2. RingsTyped'
        BY <1>7, RingGives DEF MainTake
    <2>3. BusyTyped'
        BY <1>7, RingGives DEF MainTake, BusyTyped, Goto, CallsTyped
    <2> QED
        BY <2>1, <2>2, <2>3
<1>8. CASE MainGrow
    <2>1. CountsTyped'
        BY <1>8, CountsKeep DEF MainGrow, MainDone
    <2>2. RingsTyped'
        BY <1>8 DEF MainGrow, RingsTyped
    <2>3. BusyTyped'
        BY <1>8 DEF MainGrow, MainDone, BusyTyped, Goto, CallsTyped
    <2> QED
        BY <2>1, <2>2, <2>3
<1>9. CASE MainShrink
    <2>1. CountsTyped'
        BY <1>9, CountsKeep DEF MainShrink, MainDone
    <2>2. RingsTyped'
        BY <1>9 DEF MainShrink, RingsTyped
    <2>3. BusyTyped'
        BY <1>9 DEF MainShrink, MainDone, BusyTyped, Goto, CallsTyped
    <2> QED
        BY <2>1, <2>2, <2>3
<1>10. CASE ShrinkStop
    <2>1. CountsTyped'
        BY <1>10 DEF ShrinkStop, CountsTyped
    <2>2. RingsTyped'
        BY <1>10 DEF ShrinkStop, RingsTyped
    <2>3. BusyTyped'
        BY <1>10 DEF ShrinkStop, BusyTyped, Goto, CallsTyped
    <2> QED
        BY <2>1, <2>2, <2>3
<1>11. CASE MainDelay
    <2>1. CountsTyped'
        BY <1>11, CountsKeep DEF MainDelay, MainDone
    <2>2. RingsTyped'
        BY <1>11 DEF MainDelay, RingsTyped
    <2>3. BusyTyped'
        BY <1>11, DelayedTyped DEF MainDelay, MainDone, BusyTyped, Goto, CallsTyped
    <2> QED
        BY <2>1, <2>2, <2>3
<1>12. ASSUME NEW x \in Tasks, Fire(x)
      PROVE  WorkersTyped'
    <2>1. CountsTyped'
        BY <1>12 DEF Fire, CountsTyped
    <2>2. RingsTyped'
        BY <1>12 DEF Fire, RingsTyped
    <2>3. BusyTyped'
        <3>1. UNCHANGED busy /\ timers' \subseteq Tasks
            BY <1>12 DEF Fire, BusyTyped
        <3>2. at[Main] \in Calling \cup {"idle"} /\ \E l : Goto(Main, l)
            BY <1>12 DEF Fire, Calling
        <3> QED
            BY <3>1, <3>2, CallsLeave
    <2> QED
        BY <2>1, <2>2, <2>3
<1>13. CASE Stop
    <2>1. CountsTyped'
        BY <1>13 DEF Stop, workVars, CountsTyped
    <2>2. RingsTyped'
        BY <1>13 DEF Stop, workVars, RingsTyped
    <2>3. BusyTyped'
        <3>1. UNCHANGED busy /\ timers' \subseteq Tasks
            BY <1>13 DEF Stop, workVars, BusyTyped
        <3>2. at[Main] \in Calling \cup {"idle"} /\ \E l : Goto(Main, l)
            BY <1>13 DEF Stop, Calling
        <3> QED
            BY <3>1, <3>2, CallsLeave
    <2> QED
        BY <2>1, <2>2, <2>3
<1>14. ASSUME NEW t \in Threads, Ensure(t)
      PROVE  WorkersTyped'
    <2>1. CountsTyped'
        BY <1>14 DEF Ensure, workVars, CountsTyped
    <2>2. RingsTyped'
        BY <1>14 DEF Ensure, workVars, RingsTyped
    <2>3. BusyTyped'
        <3>1. UNCHANGED busy /\ timers' \subseteq Tasks
            BY <1>14 DEF Ensure, workVars, BusyTyped
        <3>2. at[t] \in Calling \cup {"idle"} /\ \E l : Goto(t, l)
            BY <1>14 DEF Ensure, Calling
        <3> QED
            BY <3>1, <3>2, CallsLeave
    <2> QED
        BY <2>1, <2>2, <2>3
<1>15. ASSUME NEW t \in Threads, Await(t)
      PROVE  WorkersTyped'
    <2>1. CountsTyped'
        BY <1>15 DEF Await, workVars, CountsTyped
    <2>2. RingsTyped'
        BY <1>15 DEF Await, workVars, RingsTyped
    <2>3. BusyTyped'
        <3>1. UNCHANGED busy /\ timers' \subseteq Tasks
            BY <1>15 DEF Await, workVars, BusyTyped
        <3>2. at[t] \in Calling \cup {"idle"} /\ \E l : Goto(t, l)
            BY <1>15 DEF Await, Calling
        <3> QED
            BY <3>1, <3>2, CallsLeave
    <2> QED
        BY <2>1, <2>2, <2>3
<1>16. ASSUME NEW t \in Threads, Check(t)
      PROVE  WorkersTyped'
    <2>1. CountsTyped'
        BY <1>16 DEF Check, workVars, CountsTyped
    <2>2. RingsTyped'
        BY <1>16 DEF Check, workVars, RingsTyped
    <2>3. BusyTyped'
        <3>1. UNCHANGED busy /\ timers' \subseteq Tasks
            BY <1>16 DEF Check, workVars, BusyTyped
        <3>2. at[t] \in Calling \cup {"idle"} /\ \E l : Goto(t, l)
            BY <1>16 DEF Check, Drop, Finish, Calling
        <3> QED
            BY <3>1, <3>2, CallsLeave
    <2> QED
        BY <2>1, <2>2, <2>3
<1>17. ASSUME NEW t \in Threads, Schedule(t)
      PROVE  WorkersTyped'
    <2>1. CountsTyped'
        BY <1>17 DEF Schedule, workVars, CountsTyped
    <2>2. RingsTyped'
        BY <1>17 DEF Schedule, workVars, RingsTyped
    <2>3. BusyTyped'
        <3>1. UNCHANGED busy /\ timers' \subseteq Tasks
            BY <1>17 DEF Schedule, workVars, BusyTyped
        <3>2. at[t] \in Calling \cup {"idle"} /\ \E l : Goto(t, l)
            BY <1>17 DEF Schedule, Drop, Finish, Calling
        <3> QED
            BY <3>1, <3>2, CallsLeave
    <2> QED
        BY <2>1, <2>2, <2>3
<1>18. ASSUME NEW t \in Threads, Pick(t)
      PROVE  WorkersTyped'
    <2>1. CountsTyped'
        BY <1>18 DEF Pick, workVars, CountsTyped
    <2>2. RingsTyped'
        BY <1>18 DEF Pick, workVars, RingsTyped
    <2>3. BusyTyped'
        <3>1. UNCHANGED busy /\ timers' \subseteq Tasks
            BY <1>18 DEF Pick, workVars, BusyTyped
        <3>2. at[t] \in Calling \cup {"idle"} /\ \E l : Goto(t, l)
            BY <1>18 DEF Pick, Calling
        <3> QED
            BY <3>1, <3>2, CallsLeave
    <2> QED
        BY <2>1, <2>2, <2>3
<1>19. ASSUME NEW t \in Threads, Grow(t)
      PROVE  WorkersTyped'
    <2>1. CountsTyped'
        BY <1>19 DEF Grow, workVars, CountsTyped
    <2>2. RingsTyped'
        BY <1>19 DEF Grow, workVars, RingsTyped
    <2>3. BusyTyped'
        <3>1. UNCHANGED busy /\ timers' \subseteq Tasks
            BY <1>19 DEF Grow, workVars, BusyTyped
        <3>2. at[t] \in Calling \cup {"idle"} /\ \E l : Goto(t, l)
            BY <1>19 DEF Grow, Calling
        <3> QED
            BY <3>1, <3>2, CallsLeave
    <2> QED
        BY <2>1, <2>2, <2>3
<1>20. ASSUME NEW t \in Threads, GrowPut(t)
      PROVE  WorkersTyped'
    <2>1. CountsTyped'
        BY <1>20 DEF GrowPut, CountsTyped
    <2>2. RingsTyped'
        <3>1. [kind |-> "grow", of |-> target[t]] \in Jobs
            BY <1>20 DEF GrowPut, CallsTyped, Jobs, WorkJobs
        <3> QED
            BY <1>20, <3>1, RingTakes DEF GrowPut
    <2>3. BusyTyped'
        <3>1. UNCHANGED busy /\ timers' \subseteq Tasks
            BY <1>20 DEF GrowPut, BusyTyped
        <3>2. at[t] \in Calling \cup {"idle"} /\ \E l : Goto(t, l)
            BY <1>20 DEF GrowPut, Calling
        <3> QED
            BY <3>1, <3>2, CallsLeave
    <2> QED
        BY <2>1, <2>2, <2>3
<1>21. ASSUME NEW t \in Threads, NEW w \in Workers, GrowTask(t, w)
      PROVE  WorkersTyped'
    <2>1. CountsTyped'
        BY <1>21, CountsKeep DEF GrowTask, Inc
    <2>2. RingsTyped'
        BY <1>21 DEF GrowTask, RingsTyped
    <2>3. BusyTyped'
        <3>1. UNCHANGED busy /\ timers' \subseteq Tasks
            BY <1>21 DEF GrowTask, BusyTyped
        <3>2. at[t] \in Calling \cup {"idle"} /\ \E l : Goto(t, l)
            BY <1>21 DEF GrowTask, Calling
        <3> QED
            BY <3>1, <3>2, CallsLeave
    <2> QED
        BY <2>1, <2>2, <2>3
<1>22. ASSUME NEW w \in Workers, GrowSelf(w)
      PROVE  WorkersTyped'
    <2>1. CountsTyped'
        BY <1>22 DEF GrowSelf, CountsTyped
    <2>2. RingsTyped'
        BY <1>22 DEF GrowSelf, RingsTyped
    <2>3. BusyTyped'
        <3>1. UNCHANGED busy /\ timers' \subseteq Tasks
            BY <1>22 DEF GrowSelf, BusyTyped
        <3>2. at[Main] \in Calling \cup {"idle"} /\ \E l : Goto(Main, l)
            BY <1>22 DEF GrowSelf, Calling
        <3> QED
            BY <3>1, <3>2, CallsLeave
    <2> QED
        BY <2>1, <2>2, <2>3
<1>23. ASSUME NEW t \in Threads, Try(t)
      PROVE  WorkersTyped'
    <2>1. CountsTyped'
        BY <1>23, CountsKeep DEF Try, CallsTyped
    <2>2. RingsTyped'
        BY <1>23 DEF Try, RingsTyped
    <2>3. BusyTyped'
        <3>1. UNCHANGED busy /\ timers' \subseteq Tasks
            BY <1>23 DEF Try, BusyTyped
        <3>2. at[t] \in Calling \cup {"idle"} /\ \E l : Goto(t, l)
            BY <1>23 DEF Try, Calling
        <3> QED
            BY <3>1, <3>2, CallsLeave
    <2> QED
        BY <2>1, <2>2, <2>3
<1>24. ASSUME NEW t \in Threads, TryPut(t)
      PROVE  WorkersTyped'
    <2>1. CountsTyped'
        BY <1>24, CountsKeep DEF TryPut, CallsTyped
    <2>2. RingsTyped'
        <3>1. CASE Len(ring[target[t]]) < Size
            <4>1. ring' = [ring EXCEPT ![target[t]] = Append(@, job[t])]
                BY <1>24, <3>1 DEF TryPut
            <4>2. job[t] \in Jobs /\ job[t] \in TaskJobs /\ target[t] \in All
                BY <1>24, JobTyped DEF TryPut, CallsTyped, Calling
            <4> QED
                BY <3>1, <4>1, <4>2, RingTakes
        <3>2. CASE ~ (Len(ring[target[t]]) < Size)
            BY <1>24, <3>2 DEF TryPut, RingsTyped
        <3> QED
            BY <3>1, <3>2
    <2>3. BusyTyped'
        <3>1. UNCHANGED busy /\ timers' \subseteq Tasks
            BY <1>24 DEF TryPut, BusyTyped
        <3>2. at[t] \in Calling \cup {"idle"} /\ \E l : Goto(t, l)
            BY <1>24 DEF TryPut, Finish, Calling
        <3> QED
            BY <3>1, <3>2, CallsLeave
    <2> QED
        BY <2>1, <2>2, <2>3
<1>25. ASSUME NEW t \in Threads, TrySelf(t)
      PROVE  WorkersTyped'
    <2>1. CountsTyped'
        BY <1>25 DEF TrySelf, CountsTyped
    <2>2. RingsTyped'
        BY <1>25 DEF TrySelf, RingsTyped
    <2>3. BusyTyped'
        <3>1. UNCHANGED busy /\ timers' \subseteq Tasks
            BY <1>25, JobTyped DEF TrySelf, BusyTyped, Calling
        <3>2. at[t] \in Calling \cup {"idle"} /\ \E l : Goto(t, l)
            BY <1>25 DEF TrySelf, Finish, Calling
        <3> QED
            BY <3>1, <3>2, CallsLeave
    <2> QED
        BY <2>1, <2>2, <2>3
<1>26. ASSUME NEW t \in Threads, NEW p \in Policies, Reject(t, p)
      PROVE  WorkersTyped'
    <2>1. CountsTyped'
        BY <1>26, RejectChoices DEF workVars, CountsTyped
    <2>2. RingsTyped'
        BY <1>26, RejectChoices DEF workVars, RingsTyped
    <2>3. BusyTyped'
        <3>1. UNCHANGED busy /\ timers' \subseteq Tasks
            BY <1>26, RejectChoices DEF workVars, BusyTyped
        <3>2. at[t] \in Calling \cup {"idle"} /\ \E l : Goto(t, l)
            BY <1>26, RejectChoices DEF Drop, Finish, Calling
        <3> QED
            BY <3>1, <3>2, CallsLeave
    <2> QED
        BY <2>1, <2>2, <2>3
<1>27. ASSUME NEW t \in Threads, Accept(t)
      PROVE  WorkersTyped'
    <2>1. CountsTyped'
        BY <1>27, CountsKeep DEF Accept, CallsTyped
    <2>2. RingsTyped'
        BY <1>27 DEF Accept, RingsTyped
    <2>3. BusyTyped'
        <3>1. UNCHANGED busy /\ timers' \subseteq Tasks
            BY <1>27, JobTyped DEF Accept, BusyTyped, Calling
        <3>2. at[t] \in Calling \cup {"idle"} /\ \E l : Goto(t, l)
            BY <1>27 DEF Accept, Drop, Finish, Calling
        <3> QED
            BY <3>1, <3>2, CallsLeave
    <2> QED
        BY <2>1, <2>2, <2>3
<1>28. ASSUME NEW t \in Threads, Enqueue(t)
      PROVE  WorkersTyped'
    <2>1. CountsTyped'
        BY <1>28 DEF Enqueue, CountsTyped
    <2>2. RingsTyped'
        <3>1. job[t] \in Jobs /\ job[t] \in TaskJobs /\ target[t] \in All
            BY <1>28, JobTyped DEF Enqueue, CallsTyped, Calling
        <3> QED
            BY <1>28, <3>1, RingTakes DEF Enqueue
    <2>3. BusyTyped'
        <3>1. UNCHANGED busy /\ timers' \subseteq Tasks
            BY <1>28 DEF Enqueue, BusyTyped
        <3>2. at[t] \in Calling \cup {"idle"} /\ \E l : Goto(t, l)
            BY <1>28 DEF Enqueue, Finish, Calling
        <3> QED
            BY <3>1, <3>2, CallsLeave
    <2> QED
        BY <2>1, <2>2, <2>3
<1>29. ASSUME NEW t \in Threads, NEW x \in Tasks, Launch(t, x)
      PROVE  WorkersTyped'
    <2>1. CountsTyped'
        BY <1>29 DEF Launch, workVars, CountsTyped
    <2>2. RingsTyped'
        BY <1>29 DEF Launch, workVars, RingsTyped
    <2>3. BusyTyped'
        <3>1. UNCHANGED busy /\ timers' \subseteq Tasks
            BY <1>29 DEF Launch, workVars, BusyTyped
        <3>2. at[t] \in Calling \cup {"idle"} /\ \E l : Goto(t, l)
            BY <1>29 DEF Launch, Calling
        <3> QED
            BY <3>1, <3>2, CallsLeave
    <2> QED
        BY <2>1, <2>2, <2>3
<1>30. ASSUME NEW w \in Workers, Dequeue(w)
      PROVE  WorkersTyped'
    <2>1. CountsTyped'
        BY <1>30 DEF Dequeue, CountsTyped
    <2>2. RingsTyped'
        BY <1>30, RingGives DEF Dequeue
    <2>3. BusyTyped'
        BY <1>30, RingGives DEF Dequeue, BusyTyped, callVars
    <2> QED
        BY <2>1, <2>2, <2>3
<1>31. ASSUME NEW w \in Workers, Process(w)
      PROVE  WorkersTyped'
    <2>1. CountsTyped'
        BY <1>31, CountsKeep DEF Process
    <2>2. RingsTyped'
        BY <1>31 DEF Process, RingsTyped
    <2>3. BusyTyped'
        BY <1>31, RingGives DEF Process, BusyTyped, callVars
    <2> QED
        BY <2>1, <2>2, <2>3
<1>32. ASSUME NEW w \in Workers, Asked(w)
      PROVE  WorkersTyped'
    <2>1. CountsTyped'
        <3>1. Inc(Main) \/ UNCHANGED <<count, tasks>>
            BY <1>32, AskedChoices
        <3> QED
            BY <3>1, CountsKeep
    <2>2. RingsTyped'
        <3>1. ShrinkTask(w) \in Jobs
            BY DEF ShrinkTask, Jobs, WorkJobs
        <3>2. CASE UNCHANGED ring
            BY <3>2 DEF RingsTyped
        <3>3. CASE /\ Len(ring[Main]) < Size
                   /\ ring' = [ring EXCEPT ![Main] = Append(@, ShrinkTask(w))]
            BY <3>1, <3>3, RingTakes
        <3> QED
            BY <1>32, <3>2, <3>3, AskedChoices
    <2>3. BusyTyped'
        BY <1>32, AskedChoices DEF BusyTyped
    <2> QED
        BY <2>1, <2>2, <2>3
<1>33. CASE UNCHANGED vars
    BY <1>33 DEF vars, callVars, workVars, CountsTyped, RingsTyped, BusyTyped
<1> QED
    BY <1>1, <1>2, <1>3, <1>4, <1>5, <1>6, <1>7, <1>8, <1>9, <1>10, <1>11, <1>12, <1>13,
       <1>14, <1>15, <1>16, <1>17, <1>18, <1>19, <1>20, <1>21, <1>22, <1>23, <1>24, <1>25,
       <1>26, <1>27, <1>28, <1>29, <1>30, <1>31, <1>32, <1>33
    DEF Next, MainStep, CallStep, WorkerStep, Asked

Quiet == Calling \cup {"idle", "process"}

\* What launches tasks and processes them leaves the phase and the list alone.
LEMMA PhaseStays ==
    ASSUME CallsTyped, Phases, WorkersListed, NEW t \in Threads, NEW l \in Quiet, Goto(t, l),
           at[t] \in Quiet, UNCHANGED <<off, halted, stopped, list, todo>>
    PROVE  Phases' /\ WorkersListed'
<1>1. at'[Main] = IF t = Main THEN l ELSE at[Main]
    BY DEF CallsTyped, Goto, Threads
<1>2. l \notin MainOnly \ {"process"} /\ at[t] \notin MainOnly \ {"process"}
    BY DEF Quiet, Calling, MainOnly
<1>3. t = Main => ~ halted /\ todo = {}
    BY <1>2 DEF Phases, MainOnly
<1> QED
    BY <1>1, <1>2, <1>3 DEF Phases, WorkersListed, MainOnly

\* A worker that joins the list is started.
LEMMA JoinsList ==
    ASSUME Phases, WorkersListed, NEW w \in All, Enlist(w),
           UNCHANGED <<halted, stopped, todo>>,
           at[Main] \in Quiet, at'[Main] \in Quiet
    PROVE  Phases' /\ WorkersListed'
<1>1. at[Main] \notin MainOnly \ {"process"} /\ at'[Main] \notin MainOnly \ {"process"}
    BY DEF Quiet, Calling, MainOnly
<1>2. ~ halted /\ todo = {}
    BY <1>1 DEF Phases, MainOnly
<1>3. /\ off' = [off EXCEPT ![w] = FALSE] /\ list' = list \cup {w}
      /\ off \in [All -> BOOLEAN] /\ list \subseteq All
    BY DEF Enlist, Phases
<1>4. off' \in [All -> BOOLEAN] /\ \A v \in All : off'[v] = IF v = w THEN FALSE ELSE off[v]
    BY <1>3
<1> QED
    BY <1>1, <1>2, <1>3, <1>4 DEF Phases, WorkersListed, MainOnly

LEMMA PhasesKeep ==
    ASSUME CallsTyped, BusyTyped, Phases, WorkersListed, [Next]_vars
    PROVE  Phases' /\ WorkersListed'
<1> USE PoolAssumption DEF Threads, All
<1>1. CASE Start
    BY <1>1 DEF Start, Goto, CallsTyped, Phases, WorkersListed
<1>2. CASE Started
    BY <1>2 DEF Started, Goto, workVars, CallsTyped, Phases, WorkersListed
<1>3. CASE Changed
    BY <1>3 DEF Changed, Goto, workVars, CallsTyped, Phases, WorkersListed
<1>4. CASE StopSelf
    BY <1>4 DEF StopSelf, Phases, WorkersListed
<1>5. CASE Stopped
    BY <1>5 DEF Stopped, Goto, CallsTyped, Phases, WorkersListed
<1>6. ASSUME NEW w \in Workers, StopOther(w)
      PROVE  Phases' /\ WorkersListed'
    BY <1>6 DEF StopOther, Goto, CallsTyped, Phases, WorkersListed
<1>7. CASE MainTake
    <2>1. at[Main] = "idle" /\ Goto(Main, "process")
        BY <1>7 DEF MainTake
    <2> QED
        BY <1>7, <2>1, PhaseStays DEF MainTake, Quiet, poolVars
<1>8. CASE MainGrow
    <2>1. busy[Main].of \in All
        <3>1. busy[Main] \in Jobs \cup {NoJob} /\ busy[Main].kind = "grow"
            BY <1>8 DEF MainGrow, BusyTyped
        <3> QED
            BY <3>1 DEF Jobs, TaskJobs, WorkJobs, NoJob
    <2>2. at[Main] = "process" /\ at'[Main] = "idle"
        BY <1>8 DEF MainGrow, Goto, CallsTyped
    <2> QED
        BY <1>8, <2>1, <2>2, JoinsList DEF MainGrow, Quiet, poolVars
<1>9. CASE MainShrink
    <2> DEFINE w == busy[Main].of
    <2>1. /\ at[Main] = "process" /\ list' = list \ {w} /\ UNCHANGED <<off, halted, stopped>>
          /\ ~ halted /\ todo = {}
        BY <1>9 DEF MainShrink, Phases
    <2>2. CASE w \notin list
        <3>1. Goto(Main, "idle") /\ UNCHANGED todo /\ list' = list
            BY <1>9, <2>1, <2>2 DEF MainShrink
        <3> QED
            BY <2>1, <3>1, PhaseStays DEF Quiet
    <2>3. CASE w \in list
        <3>1. Goto(Main, "stopping one") /\ todo' = {w}
            BY <1>9, <2>3 DEF MainShrink
        <3>2. at'[Main] = "stopping one"
            BY <3>1 DEF Goto, CallsTyped
        <3> HIDE DEF w
        <3>3. list \subseteq All
            BY DEF Phases
        <3>4. list' \cup todo' = list \cup todo
            BY <2>1, <2>3, <3>1
        <3>5. list' \subseteq All /\ todo' \subseteq All
            BY <2>1, <2>3, <3>1, <3>3
        <3> QED
            BY <2>1, <3>1, <3>2, <3>4, <3>5 DEF Phases, WorkersListed
    <2> QED
        BY <2>2, <2>3
<1>10. CASE ShrinkStop
    <2>1. PICK w \in todo : /\ todo' = {} /\ off' = [off EXCEPT ![w] = TRUE]
                            /\ Goto(Main, "barrier") /\ UNCHANGED <<halted, list, stopped>>
        BY <1>10 DEF ShrinkStop
    <2>2. at[Main] = "stopping one" /\ at'[Main] = "barrier"
        BY <1>10, <2>1 DEF ShrinkStop, Goto, CallsTyped
    <2>3. todo = {w} /\ w \notin list /\ w \in All /\ ~ halted
        BY <2>2 DEF Phases
    <2>4. off' \in [All -> BOOLEAN] /\ \A v \in All : off'[v] = IF v = w THEN TRUE ELSE off[v]
        BY <2>1, <2>3 DEF Phases
    <2> QED
        BY <2>1, <2>2, <2>3, <2>4 DEF Phases, WorkersListed
<1>11. CASE MainDelay
    <2>1. at[Main] = "process" /\ Goto(Main, "idle")
        BY <1>11 DEF MainDelay
    <2> QED
        BY <1>11, <2>1, PhaseStays DEF MainDelay, Quiet, poolVars
<1>12. ASSUME NEW x \in Tasks, Fire(x)
      PROVE  Phases' /\ WorkersListed'
    <2>1. /\ at[Main] = "idle" /\ Goto(Main, "schedule")
          /\ UNCHANGED <<off, halted, stopped, list, todo>>
        BY <1>12 DEF Fire, poolVars
    <2>2. "schedule" \in Quiet /\ "idle" \in Quiet
        BY DEF Quiet, Calling
    <2> QED
        BY <2>1, <2>2, PhaseStays
<1>13. CASE Stop
    BY <1>13 DEF Stop, Goto, workVars, CallsTyped, Phases, WorkersListed
<1>14. ASSUME NEW t \in Threads, Ensure(t)
      PROVE  Phases' /\ WorkersListed'
    <2>1. at[t] \in Quiet /\ \E l \in Quiet : Goto(t, l)
        BY <1>14 DEF Ensure, Quiet, Calling
    <2>2. UNCHANGED <<off, halted, stopped, list, todo>>
        BY <1>14 DEF Ensure, poolVars, workVars
    <2> QED
        BY <2>1, <2>2, PhaseStays
<1>15. ASSUME NEW t \in Threads, Await(t)
      PROVE  Phases' /\ WorkersListed'
    <2>1. at[t] \in Quiet /\ \E l \in Quiet : Goto(t, l)
        BY <1>15 DEF Await, Quiet, Calling
    <2>2. UNCHANGED <<off, halted, stopped, list, todo>>
        BY <1>15 DEF Await, poolVars, workVars
    <2> QED
        BY <2>1, <2>2, PhaseStays
<1>16. ASSUME NEW t \in Threads, Check(t)
      PROVE  Phases' /\ WorkersListed'
    <2>1. at[t] \in Quiet /\ \E l \in Quiet : Goto(t, l)
        BY <1>16 DEF Check, Finish, Drop, Quiet, Calling
    <2>2. UNCHANGED <<off, halted, stopped, list, todo>>
        BY <1>16 DEF Check, poolVars, workVars
    <2> QED
        BY <2>1, <2>2, PhaseStays
<1>17. ASSUME NEW t \in Threads, Schedule(t)
      PROVE  Phases' /\ WorkersListed'
    <2>1. at[t] \in Quiet /\ \E l \in Quiet : Goto(t, l)
        BY <1>17 DEF Schedule, Finish, Drop, Quiet, Calling
    <2>2. UNCHANGED <<off, halted, stopped, list, todo>>
        BY <1>17 DEF Schedule, poolVars, workVars
    <2> QED
        BY <2>1, <2>2, PhaseStays
<1>18. ASSUME NEW t \in Threads, Pick(t)
      PROVE  Phases' /\ WorkersListed'
    <2>1. at[t] \in Quiet /\ \E l \in Quiet : Goto(t, l)
        BY <1>18 DEF Pick, Quiet, Calling
    <2>2. UNCHANGED <<off, halted, stopped, list, todo>>
        BY <1>18 DEF Pick, poolVars, workVars
    <2> QED
        BY <2>1, <2>2, PhaseStays
<1>19. ASSUME NEW t \in Threads, Grow(t)
      PROVE  Phases' /\ WorkersListed'
    <2>1. at[t] \in Quiet /\ \E l \in Quiet : Goto(t, l)
        BY <1>19 DEF Grow, Quiet, Calling
    <2>2. UNCHANGED <<off, halted, stopped, list, todo>>
        BY <1>19 DEF Grow, poolVars, workVars
    <2> QED
        BY <2>1, <2>2, PhaseStays
<1>20. ASSUME NEW t \in Threads, GrowPut(t)
      PROVE  Phases' /\ WorkersListed'
    <2>1. at[t] \in Quiet /\ \E l \in Quiet : Goto(t, l)
        BY <1>20 DEF GrowPut, Quiet, Calling
    <2>2. UNCHANGED <<off, halted, stopped, list, todo>>
        BY <1>20 DEF GrowPut, poolVars
    <2> QED
        BY <2>1, <2>2, PhaseStays
<1>21. ASSUME NEW t \in Threads, NEW w \in Workers, GrowTask(t, w)
      PROVE  Phases' /\ WorkersListed'
    <2>1. at[t] \in Quiet /\ \E l \in Quiet : Goto(t, l)
        BY <1>21 DEF GrowTask, Quiet, Calling
    <2>2. UNCHANGED <<off, halted, stopped, list, todo>>
        BY <1>21 DEF GrowTask, poolVars
    <2> QED
        BY <2>1, <2>2, PhaseStays
<1>22. ASSUME NEW w \in Workers, GrowSelf(w)
      PROVE  Phases' /\ WorkersListed'
    <2>1. at[Main] = "grow" /\ at'[Main] = "pick" /\ Goto(Main, "pick")
        BY <1>22 DEF GrowSelf, Goto, CallsTyped
    <2>2. "grow" \in Quiet /\ "pick" \in Quiet
        BY DEF Quiet, Calling
    <2>3. CASE off[Main]
        BY <1>22, <2>1, <2>2, <2>3, PhaseStays DEF GrowSelf, poolVars
    <2>4. CASE ~ off[Main]
        BY <1>22, <2>1, <2>2, <2>4, JoinsList DEF GrowSelf, poolVars
    <2> QED
        BY <2>3, <2>4
<1>23. ASSUME NEW t \in Threads, Try(t)
      PROVE  Phases' /\ WorkersListed'
    <2>1. at[t] \in Quiet /\ \E l \in Quiet : Goto(t, l)
        BY <1>23 DEF Try, Quiet, Calling
    <2>2. UNCHANGED <<off, halted, stopped, list, todo>>
        BY <1>23 DEF Try, poolVars
    <2> QED
        BY <2>1, <2>2, PhaseStays
<1>24. ASSUME NEW t \in Threads, TryPut(t)
      PROVE  Phases' /\ WorkersListed'
    <2>1. at[t] \in Quiet /\ \E l \in Quiet : Goto(t, l)
        BY <1>24 DEF TryPut, Finish, Quiet, Calling
    <2>2. UNCHANGED <<off, halted, stopped, list, todo>>
        BY <1>24 DEF TryPut, poolVars
    <2> QED
        BY <2>1, <2>2, PhaseStays
<1>25. ASSUME NEW t \in Threads, TrySelf(t)
      PROVE  Phases' /\ WorkersListed'
    <2>1. at[t] \in Quiet /\ \E l \in Quiet : Goto(t, l)
        BY <1>25 DEF TrySelf, Finish, Quiet, Calling
    <2>2. UNCHANGED <<off, halted, stopped, list, todo>>
        BY <1>25 DEF TrySelf, poolVars
    <2> QED
        BY <2>1, <2>2, PhaseStays
<1>26. ASSUME NEW t \in Threads, NEW p \in Policies, Reject(t, p)
      PROVE  Phases' /\ WorkersListed'
    <2>1. at[t] \in Quiet /\ \E l \in Quiet : Goto(t, l)
        BY <1>26, RejectChoices DEF Drop, Finish, Quiet, Calling
    <2>2. UNCHANGED <<off, halted, stopped, list, todo>>
        BY <1>26, RejectChoices DEF poolVars, workVars
    <2> QED
        BY <2>1, <2>2, PhaseStays
<1>27. ASSUME NEW t \in Threads, Accept(t)
      PROVE  Phases' /\ WorkersListed'
    <2>1. at[t] \in Quiet /\ \E l \in Quiet : Goto(t, l)
        BY <1>27 DEF Accept, Finish, Drop, Quiet, Calling
    <2>2. UNCHANGED <<off, halted, stopped, list, todo>>
        BY <1>27 DEF Accept, poolVars
    <2> QED
        BY <2>1, <2>2, PhaseStays
<1>28. ASSUME NEW t \in Threads, Enqueue(t)
      PROVE  Phases' /\ WorkersListed'
    <2>1. at[t] \in Quiet /\ \E l \in Quiet : Goto(t, l)
        BY <1>28 DEF Enqueue, Finish, Quiet, Calling
    <2>2. UNCHANGED <<off, halted, stopped, list, todo>>
        BY <1>28 DEF Enqueue, poolVars
    <2> QED
        BY <2>1, <2>2, PhaseStays
<1>29. ASSUME NEW t \in Threads, NEW x \in Tasks, Launch(t, x)
      PROVE  Phases' /\ WorkersListed'
    <2>1. at[t] \in Quiet /\ \E l \in Quiet : Goto(t, l)
        BY <1>29 DEF Launch, Quiet, Calling
    <2>2. UNCHANGED <<off, halted, stopped, list, todo>>
        BY <1>29 DEF Launch, poolVars, workVars
    <2> QED
        BY <2>1, <2>2, PhaseStays
<1>30. ASSUME NEW w \in Workers, Dequeue(w)
      PROVE  Phases' /\ WorkersListed'
    BY <1>30 DEF Dequeue, callVars, poolVars, Phases, WorkersListed
<1>31. ASSUME NEW w \in Workers, Process(w)
      PROVE  Phases' /\ WorkersListed'
    BY <1>31 DEF Process, callVars, poolVars, Phases, WorkersListed
<1>32. ASSUME NEW w \in Workers, Asked(w)
      PROVE  Phases' /\ WorkersListed'
    BY <1>32, AskedChoices DEF Phases, WorkersListed
<1>33. CASE UNCHANGED vars
    BY <1>33 DEF vars, callVars, poolVars, workVars, Phases, WorkersListed
<1> QED
    BY <1>1, <1>2, <1>3, <1>4, <1>5, <1>6, <1>7, <1>8, <1>9, <1>10, <1>11, <1>12, <1>13,
       <1>14, <1>15, <1>16, <1>17, <1>18, <1>19, <1>20, <1>21, <1>22, <1>23, <1>24, <1>25,
       <1>26, <1>27, <1>28, <1>29, <1>30, <1>31, <1>32, <1>33
    DEF Next, MainStep, CallStep, WorkerStep, Asked

-----------------------------------------------------------------------------
(* The counters.                                                           *)

LEMMA Finiteness == IsFiniteSet(Threads) /\ IsFiniteSet(All)
BY PoolAssumption, FS_AddElement DEF Threads, All

LEMMA SumKeeps ==
    ASSUME CountsTyped, count = Total(tasks, All), NEW w \in All,
           Inc(w) \/ Dec(w) \/ UNCHANGED <<count, tasks>>
    PROVE  count' = Total(tasks, All)'
<1>1. /\ IsFiniteSet(All) /\ tasks \in [All -> Int] /\ count \in Int /\ tasks' \in [All -> Int]
    BY CountsKeep, Finiteness DEF CountsTyped
<1>2. CASE Inc(w)
    <2>1. tasks' = [tasks EXCEPT ![w] = @ + 1] /\ count' = count + 1
        BY <1>2 DEF Inc
    <2>2. \A v \in All : tasks'[v] = IF v = w THEN tasks[v] + 1 ELSE tasks[v]
        BY <1>1, <2>1
    <2>3. Total(tasks', All) = Total(tasks, All) + 1
        BY <1>1, <2>2, TotalOfUpdate
    <2> QED
        BY <2>1, <2>3
<1>3. CASE Dec(w)
    <2>1. tasks' = [tasks EXCEPT ![w] = @ - 1] /\ count' = count - 1
        BY <1>3 DEF Dec
    <2>2. \A v \in All : tasks'[v] = IF v = w THEN tasks[v] + (-1) ELSE tasks[v]
        BY <1>1, <2>1
    <2>3. Total(tasks', All) = Total(tasks, All) + (-1)
        BY <1>1, <2>2, TotalOfUpdate
    <2> QED
        BY <1>1, <2>1, <2>3
<1>4. CASE UNCHANGED <<count, tasks>>
    BY <1>4
<1> QED
    BY <1>2, <1>3, <1>4

\* Who counts tasks for workers: threads, and workers that ask for their removal.
Handers == Threads \cup Workers

LEMMA HandersFinite == IsFiniteSet(Handers)
BY Finiteness, PoolAssumption, FS_Union DEF Handers

\* The worker that one of them has counted a task for, which is not in its ring yet.
HandedTo(t) == IF t \in Workers THEN (IF asking[t] = "put" THEN Main ELSE "none")
               ELSE IF at[t] \in {"put", "enqueue"} THEN target[t]
               ELSE IF at[t] = "grow put" THEN Main ELSE "none"

LEMMA HandingIsHandedTo ==
    \A w \in All : /\ Handing(w) = {t \in Handers : HandedTo(t) = w}
                   /\ Handing(w)' = {t \in Handers : HandedTo(t)' = w}
<1>1. Threads \cap Workers = {} /\ "none" \notin All
    BY PoolAssumption DEF Threads, All
<1> SUFFICES ASSUME NEW w \in All
             PROVE  /\ Handing(w) = {t \in Handers : HandedTo(t) = w}
                    /\ Handing(w)' = {t \in Handers : HandedTo(t)' = w}
    OBVIOUS
<1>2. Handing(w) = {t \in Handers : HandedTo(t) = w}
    BY <1>1 DEF Handing, HandedTo, Handers
<1>3. Handing(w)' = {t \in Handers : HandedTo(t)' = w}
    BY <1>1 DEF Handing, HandedTo, Handers
<1> QED
    BY <1>2, <1>3

\* Nobody but t changes what it hands over.
OnlyHands(t) == \A u \in Handers \ {t} : HandedTo(u)' = HandedTo(u)

LEMMA HandingMoves ==
    ASSUME NEW t \in Handers, OnlyHands(t), NEW w \in All
    PROVE  /\ Cardinality(Handing(w)) \in Nat /\ Cardinality(Handing(w)') \in Nat
           /\ Cardinality(Handing(w)') = Cardinality(Handing(w))
                  - (IF HandedTo(t) = w THEN 1 ELSE 0) + (IF HandedTo(t)' = w THEN 1 ELSE 0)
<1> DEFINE H == {u \in Handers : HandedTo(u) = w}
           G == {u \in Handers : HandedTo(u)' = w}
<1>1. Handing(w) = H /\ Handing(w)' = G
    BY HandingIsHandedTo
<1>2. /\ IsFiniteSet(Handers) /\ H \in SUBSET Handers /\ G \in SUBSET Handers
      /\ H \ {t} = G \ {t} /\ (t \in H <=> HandedTo(t) = w) /\ (t \in G <=> HandedTo(t)' = w)
    BY HandersFinite DEF OnlyHands
<1> HIDE DEF H, G
<1>3. /\ Cardinality(H) \in Nat /\ Cardinality(G) \in Nat
      /\ Cardinality(G) = Cardinality(H) - (IF t \in H THEN 1 ELSE 0)
                                        + (IF t \in G THEN 1 ELSE 0)
    BY <1>2, OneDiffers
<1> QED
    BY <1>1, <1>2, <1>3

\* Where a thread hands something over.
HandingAt == {"put", "enqueue", "grow put"}

LEMMA HandsAlone ==
    ASSUME CallsTyped, NEW t \in Threads, NEW l, Goto(t, l),
           UNCHANGED target \/ \E g : target' = [target EXCEPT ![t] = g], UNCHANGED asking
    PROVE  /\ OnlyHands(t) /\ t \in Handers
           /\ l \in {"put", "enqueue"} => HandedTo(t)' = target'[t]
           /\ l = "grow put" => HandedTo(t)' = Main
           /\ l \notin HandingAt => HandedTo(t)' \notin All
           /\ at[t] \notin HandingAt => HandedTo(t) \notin All
<1>1. at'[t] = l /\ \A u \in Threads \ {t} : at'[u] = at[u] /\ target'[u] = target[u]
    BY DEF CallsTyped, Goto
<1>2. t \notin Workers /\ "none" \notin All /\ t \in Handers
    BY PoolAssumption DEF Threads, All, Handers
<1>3. OnlyHands(t)
    BY <1>1, <1>2 DEF OnlyHands, HandedTo, Handers
<1> QED
    BY <1>1, <1>2, <1>3 DEF HandedTo, HandingAt

Has(w) == IF busy[w] = NoJob THEN 0 ELSE 1
Agrees(w) == tasks[w] = Len(ring[w]) + Cardinality(Handing(w)) + Has(w)

LEMMA CountersAreAgreement ==
    /\ CountersAgree <=> (\A w \in All : Agrees(w)) /\ count = Total(tasks, All)
    /\ CountersAgree' <=> (\A w \in All : Agrees(w)') /\ count' = Total(tasks, All)'
BY DEF CountersAgree, Agrees, Has, Total

Base == CallsTyped /\ CountsTyped /\ RingsTyped /\ BusyTyped /\ AskingTyped /\ CountersAgree

LEMMA NobodyHands ==
    ASSUME Base, NEW t \in Handers, OnlyHands(t),
           HandedTo(t)' = HandedTo(t) \/ (HandedTo(t) \notin All /\ HandedTo(t)' \notin All),
           UNCHANGED <<count, tasks, ring, busy>>
    PROVE  CountersAgree'
<1>1. ASSUME NEW w \in All
      PROVE  Agrees(w)'
    <2>1. Cardinality(Handing(w)') = Cardinality(Handing(w))
        BY HandingMoves
    <2> QED
        BY <2>1, CountersAreAgreement DEF Base, Agrees, Has
<1> QED
    BY <1>1, CountersAreAgreement DEF Base

\* A thread that counts a task for a worker hands it over from then on.
LEMMA BeginsToHand ==
    ASSUME Base, NEW t \in Handers, OnlyHands(t), NEW v \in All, HandedTo(t) \notin All,
           HandedTo(t)' = v, Inc(v), UNCHANGED <<ring, busy>>
    PROVE  CountersAgree'
<1>1. ASSUME NEW w \in All
      PROVE  Agrees(w)'
    <2>1. Cardinality(Handing(w)') = Cardinality(Handing(w)) + (IF w = v THEN 1 ELSE 0)
          /\ Cardinality(Handing(w)) \in Nat
        BY HandingMoves
    <2>2. tasks'[w] = tasks[w] + (IF w = v THEN 1 ELSE 0) /\ tasks[w] \in Int
        BY DEF Base, CountsTyped, Inc
    <2>3. Len(ring[w]) \in Nat /\ Has(w) \in {0, 1}
        BY LenProperties DEF Base, RingsTyped, Has
    <2> QED
        BY <2>1, <2>2, <2>3, CountersAreAgreement DEF Base, Agrees, Has
<1>2. count' = Total(tasks, All)'
    BY SumKeeps, CountersAreAgreement DEF Base
<1> QED
    BY <1>1, <1>2, CountersAreAgreement

\* It ends to, either because the task is in the ring or because it is not counted any more.
LEMMA EndsToHand ==
    ASSUME Base, NEW t \in Handers, OnlyHands(t), NEW v \in All, HandedTo(t) = v,
           HandedTo(t)' \notin All, UNCHANGED busy,
           \/ UNCHANGED ring /\ Dec(v)
           \/ UNCHANGED <<count, tasks>>
              /\ \E j \in Jobs : ring' = [ring EXCEPT ![v] = Append(@, j)]
    PROVE  CountersAgree'
<1>1. ASSUME NEW w \in All
      PROVE  Agrees(w)'
    <2>1. Cardinality(Handing(w)') = Cardinality(Handing(w)) - (IF w = v THEN 1 ELSE 0)
          /\ Cardinality(Handing(w)) \in Nat
        BY HandingMoves
    <2>2. /\ Len(ring[w]) \in Nat /\ Has(w) \in {0, 1} /\ Has(w)' = Has(w)
          /\ tasks[w] \in Int /\ Agrees(w)
        BY LenProperties, CountersAreAgreement DEF Base, RingsTyped, CountsTyped, Has
    <2>3. CASE UNCHANGED ring /\ Dec(v)
        <3>1. tasks'[w] = tasks[w] - (IF w = v THEN 1 ELSE 0)
            BY <2>3 DEF Base, CountsTyped, Dec
        <3> QED
            BY <2>1, <2>2, <2>3, <3>1 DEF Agrees
    <2>4. ASSUME UNCHANGED <<count, tasks>>, NEW j \in Jobs, ring' = [ring EXCEPT ![v] = Append(@, j)]
          PROVE  Agrees(w)'
        <3>1. Len(ring'[w]) = Len(ring[w]) + (IF w = v THEN 1 ELSE 0)
            BY <2>4, AppendProperties DEF Base, RingsTyped
        <3>2. tasks'[w] = tasks[w]
            BY <2>4
        <3>3. CASE w = v
            BY <2>1, <2>2, <3>1, <3>2, <3>3 DEF Agrees
        <3>4. CASE w # v
            BY <2>1, <2>2, <3>1, <3>2, <3>4 DEF Agrees
        <3> QED
            BY <3>3, <3>4
    <2> QED
        BY <2>3, <2>4
<1>2. count' = Total(tasks, All)'
    BY SumKeeps, CountersAreAgreement DEF Base
<1> QED
    BY <1>1, <1>2, CountersAreAgreement

\* A worker that takes a task has it, and one that is done with it does not count it any more.
LEMMA WorkerTakes ==
    ASSUME Base, NEW t \in Handers, OnlyHands(t),
           HandedTo(t)' = HandedTo(t) \/ (HandedTo(t) \notin All /\ HandedTo(t)' \notin All),
           NEW v \in All, ring[v] # <<>>, busy[v] = NoJob,
           busy' = [busy EXCEPT ![v] = Head(ring[v])], ring' = [ring EXCEPT ![v] = Tail(@)],
           UNCHANGED <<count, tasks>>
    PROVE  CountersAgree'
<1>1. Head(ring[v]) \in Jobs
    BY RingGives DEF Base
<1>2. Head(ring[v]) # NoJob
    BY <1>1, PoolAssumption DEF Jobs, TaskJobs, WorkJobs, NoJob
<1>3. ASSUME NEW w \in All
      PROVE  Agrees(w)'
    <2>1. Cardinality(Handing(w)') = Cardinality(Handing(w)) /\ Cardinality(Handing(w)) \in Nat
        BY HandingMoves
    <2>2. Len(ring'[w]) = Len(ring[w]) - (IF w = v THEN 1 ELSE 0) /\ Len(ring[w]) \in Nat
        BY HeadTailProperties, LenProperties DEF Base, RingsTyped
    <2>3. Agrees(w) /\ tasks'[w] = tasks[w] /\ Has(w) \in {0, 1}
        BY CountersAreAgreement DEF Has, Base
    <2>4. CASE w = v
        <3>1. busy'[w] = Head(ring[v])
            BY <2>4 DEF Base, BusyTyped
        <3>2. Has(w) = 0 /\ Has(w)' = 1
            BY <1>2, <2>4, <3>1 DEF Has
        <3> QED
            BY <2>1, <2>2, <2>3, <2>4, <3>2 DEF Agrees
    <2>5. CASE w # v
        <3>1. Has(w)' = Has(w)
            BY <2>5 DEF Has, Base, BusyTyped
        <3> QED
            BY <2>1, <2>2, <2>3, <2>5, <3>1 DEF Agrees
    <2> QED
        BY <2>4, <2>5
<1> QED
    BY <1>3, CountersAreAgreement DEF Base

LEMMA WorkerIsDone ==
    ASSUME Base, NEW t \in Handers, OnlyHands(t),
           HandedTo(t)' = HandedTo(t) \/ (HandedTo(t) \notin All /\ HandedTo(t)' \notin All),
           NEW v \in All, busy[v] # NoJob, busy' = [busy EXCEPT ![v] = NoJob], Dec(v),
           UNCHANGED ring
    PROVE  CountersAgree'
<1>1. ASSUME NEW w \in All
      PROVE  Agrees(w)'
    <2>1. Cardinality(Handing(w)') = Cardinality(Handing(w)) /\ Cardinality(Handing(w)) \in Nat
        BY HandingMoves
    <2>2. tasks'[w] = tasks[w] - (IF w = v THEN 1 ELSE 0) /\ tasks[w] \in Int
        BY DEF Base, CountsTyped, Dec
    <2>3. Has(w)' = (IF w = v THEN 0 ELSE Has(w)) /\ Has(v) = 1 /\ Has(w) \in {0, 1}
        BY DEF Base, BusyTyped, Has
    <2>4. Agrees(w) /\ ring'[w] = ring[w] /\ Len(ring[w]) \in Nat
        BY CountersAreAgreement, LenProperties DEF Base, RingsTyped
    <2> QED
        BY <2>1, <2>2, <2>3, <2>4 DEF Agrees
<1>2. count' = Total(tasks, All)'
    BY SumKeeps, CountersAreAgreement DEF Base
<1> QED
    BY <1>1, <1>2, CountersAreAgreement

\* A step of a thread that hands nothing over changes no counter.
LEMMA QuietStep ==
    ASSUME Base, NEW t \in Threads, NEW l, Goto(t, l), at[t] \notin HandingAt, l \notin HandingAt,
           UNCHANGED target \/ \E g : target' = [target EXCEPT ![t] = g],
           UNCHANGED <<count, tasks, ring, busy, asking>>
    PROVE  CountersAgree'
<1>1. t \in Handers /\ OnlyHands(t) /\ HandedTo(t) \notin All /\ HandedTo(t)' \notin All
    BY HandsAlone DEF Base
<1> QED
    BY <1>1, NobodyHands

LEMMA NoStep ==
    ASSUME Base, UNCHANGED <<at, target, asking>>
    PROVE  /\ OnlyHands(Main) /\ HandedTo(Main)' = HandedTo(Main) /\ Main \in Handers
           /\ UNCHANGED <<count, tasks, ring, busy>> => CountersAgree'
<1>1. OnlyHands(Main) /\ HandedTo(Main)' = HandedTo(Main) /\ Main \in Handers
    BY DEF OnlyHands, HandedTo, Handers, Threads
<1>2. ASSUME UNCHANGED <<count, tasks, ring, busy>>
      PROVE  CountersAgree'
    BY <1>1, <1>2, NobodyHands
<1> QED
    BY <1>1, <1>2

LEMMA CountersKeep ==
    ASSUME Base, [Next]_vars
    PROVE  CountersAgree'
<1>0. /\ Main \in Threads /\ Main \in All /\ Workers \subseteq All
      /\ Main \in Handers /\ Threads \subseteq Handers
      /\ {"idle", "process", "pick", "grow", "try", "accept", "reject"} \cap HandingAt = {}
    BY DEF Threads, All, HandingAt, Handers
<1>1. CASE Start
    <2>1. PICK l : Goto(Main, l) /\ l \notin HandingAt /\ at[Main] \notin HandingAt
        BY <1>1 DEF Start, HandingAt
    <2>2. /\ UNCHANGED target \/ \E g : target' = [target EXCEPT ![Main] = g]
          /\ UNCHANGED <<count, tasks, ring, busy, asking>>
        BY <1>1 DEF Start, Fixed
    <2> QED
        BY <1>0, <2>1, <2>2, QuietStep
<1>2. CASE Started
    <2>1. PICK l : Goto(Main, l) /\ l \notin HandingAt /\ at[Main] \notin HandingAt
        BY <1>2 DEF Started, HandingAt
    <2>2. /\ UNCHANGED target \/ \E g : target' = [target EXCEPT ![Main] = g]
          /\ UNCHANGED <<count, tasks, ring, busy, asking>>
        BY <1>2 DEF Started, Fixed, workVars
    <2> QED
        BY <1>0, <2>1, <2>2, QuietStep
<1>3. CASE Changed
    <2>1. PICK l : Goto(Main, l) /\ l \notin HandingAt /\ at[Main] \notin HandingAt
        BY <1>3 DEF Changed, HandingAt
    <2>2. /\ UNCHANGED target \/ \E g : target' = [target EXCEPT ![Main] = g]
          /\ UNCHANGED <<count, tasks, ring, busy, asking>>
        BY <1>3 DEF Changed, Fixed, workVars
    <2> QED
        BY <1>0, <2>1, <2>2, QuietStep
<1>4. CASE StopSelf
    BY <1>4, NoStep DEF StopSelf, Fixed
<1>5. CASE Stopped
    <2>1. PICK l : Goto(Main, l) /\ l \notin HandingAt /\ at[Main] \notin HandingAt
        BY <1>5 DEF Stopped, HandingAt
    <2>2. /\ UNCHANGED target \/ \E g : target' = [target EXCEPT ![Main] = g]
          /\ UNCHANGED <<count, tasks, ring, busy, asking>>
        BY <1>5 DEF Stopped, Fixed
    <2> QED
        BY <1>0, <2>1, <2>2, QuietStep
<1>6. ASSUME NEW w \in Workers, StopOther(w)
      PROVE  CountersAgree'
    <2>1. PICK l : Goto(Main, l) /\ l \notin HandingAt /\ at[Main] \notin HandingAt
        BY <1>6 DEF StopOther, HandingAt
    <2>2. /\ UNCHANGED target \/ \E g : target' = [target EXCEPT ![Main] = g]
          /\ UNCHANGED <<count, tasks, ring, busy, asking>>
        BY <1>6 DEF StopOther, Fixed
    <2> QED
        BY <1>0, <2>1, <2>2, QuietStep
<1>7. CASE MainTake
    <2>1. Goto(Main, "process") /\ at[Main] = "idle" /\ UNCHANGED <<target, asking>>
        BY <1>7 DEF MainTake, Fixed
    <2>2. OnlyHands(Main) /\ HandedTo(Main) \notin All /\ HandedTo(Main)' \notin All
        BY <1>0, <2>1, HandsAlone DEF Base
    <2>3. busy[Main] = NoJob
        BY <2>1 DEF Base, BusyTyped
    <2> QED
        BY <1>7, <2>2, <2>3, <1>0, WorkerTakes DEF MainTake
<1>8. CASE MainGrow
    <2>1. Goto(Main, "idle") /\ at[Main] = "process" /\ UNCHANGED <<target, asking>>
        BY <1>8 DEF MainGrow, Fixed
    <2>2. OnlyHands(Main) /\ HandedTo(Main) \notin All /\ HandedTo(Main)' \notin All
        BY <1>0, <2>1, HandsAlone DEF Base
    <2>3. busy[Main] # NoJob
        <3>1. busy[Main].kind # "none"
            BY <1>8 DEF MainGrow
        <3> QED
            BY <3>1 DEF NoJob
    <2> QED
        BY <1>8, <2>2, <2>3, <1>0, WorkerIsDone DEF MainGrow, MainDone
<1>9. CASE MainShrink
    <2>1. CASE busy[Main].of \in list
        <3>1. Goto(Main, "stopping one") /\ at[Main] = "process" /\ UNCHANGED <<target, asking>>
            BY <1>9, <2>1 DEF MainShrink, Fixed
        <3>2. UNCHANGED <<count, tasks, ring, busy, asking>>
            BY <1>9, <2>1 DEF MainShrink
        <3> QED
            BY <3>1, <3>2, <1>0, QuietStep DEF HandingAt
    <2>2. CASE busy[Main].of \notin list
        <3>1. Goto(Main, "idle") /\ at[Main] = "process" /\ UNCHANGED <<target, asking>>
            BY <1>9, <2>2 DEF MainShrink, Fixed
        <3>2. OnlyHands(Main) /\ HandedTo(Main) \notin All /\ HandedTo(Main)' \notin All
            BY <1>0, <3>1, HandsAlone DEF Base
        <3>3. busy[Main] # NoJob
            <4>1. busy[Main].kind # "none"
                BY <1>9 DEF MainShrink
            <4> QED
                BY <4>1 DEF NoJob
        <3> QED
            BY <1>9, <2>2, <3>2, <3>3, <1>0, WorkerIsDone DEF MainShrink, MainDone
    <2> QED
        BY <2>1, <2>2
<1>10. CASE ShrinkStop
    <2>1. PICK l : Goto(Main, l) /\ l \notin HandingAt /\ at[Main] \notin HandingAt
        BY <1>10 DEF ShrinkStop, HandingAt
    <2>2. /\ UNCHANGED target \/ \E g : target' = [target EXCEPT ![Main] = g]
          /\ UNCHANGED <<count, tasks, ring, busy, asking>>
        BY <1>10 DEF ShrinkStop, Fixed
    <2> QED
        BY <1>0, <2>1, <2>2, QuietStep
<1>11. CASE MainDelay
    <2>1. Goto(Main, "idle") /\ at[Main] = "process" /\ UNCHANGED <<target, asking>>
        BY <1>11 DEF MainDelay, Fixed
    <2>2. OnlyHands(Main) /\ HandedTo(Main) \notin All /\ HandedTo(Main)' \notin All
        BY <1>0, <2>1, HandsAlone DEF Base
    <2>3. busy[Main] # NoJob
        <3>1. busy[Main].kind # "none"
            BY <1>11 DEF MainDelay
        <3> QED
            BY <3>1 DEF NoJob
    <2> QED
        BY <1>11, <2>2, <2>3, <1>0, WorkerIsDone DEF MainDelay, MainDone
<1>12. ASSUME NEW x \in Tasks, Fire(x)
      PROVE  CountersAgree'
    <2>1. PICK l : Goto(Main, l) /\ l \notin HandingAt /\ at[Main] \notin HandingAt
        BY <1>12 DEF Fire, HandingAt
    <2>2. /\ UNCHANGED target \/ \E g : target' = [target EXCEPT ![Main] = g]
          /\ UNCHANGED <<count, tasks, ring, busy, asking>>
        BY <1>12 DEF Fire
    <2> QED
        BY <1>0, <2>1, <2>2, QuietStep
<1>13. CASE Stop
    <2>1. PICK l : Goto(Main, l) /\ l \notin HandingAt /\ at[Main] \notin HandingAt
        BY <1>13 DEF Stop, HandingAt
    <2>2. /\ UNCHANGED target \/ \E g : target' = [target EXCEPT ![Main] = g]
          /\ UNCHANGED <<count, tasks, ring, busy, asking>>
        BY <1>13 DEF Stop, Fixed, workVars
    <2> QED
        BY <1>0, <2>1, <2>2, QuietStep
<1>14. ASSUME NEW t \in Threads, Ensure(t)
      PROVE  CountersAgree'
    <2>1. PICK l : Goto(t, l) /\ l \notin HandingAt /\ at[t] \notin HandingAt
        BY <1>14 DEF Ensure, HandingAt
    <2>2. /\ UNCHANGED target \/ \E g : target' = [target EXCEPT ![t] = g]
          /\ UNCHANGED <<count, tasks, ring, busy, asking>>
        BY <1>14 DEF Ensure, Fixed, workVars
    <2> QED
        BY <1>0, <2>1, <2>2, QuietStep
<1>15. ASSUME NEW t \in Threads, Await(t)
      PROVE  CountersAgree'
    <2>1. PICK l : Goto(t, l) /\ l \notin HandingAt /\ at[t] \notin HandingAt
        BY <1>15 DEF Await, HandingAt
    <2>2. /\ UNCHANGED target \/ \E g : target' = [target EXCEPT ![t] = g]
          /\ UNCHANGED <<count, tasks, ring, busy, asking>>
        BY <1>15 DEF Await, Fixed, workVars
    <2> QED
        BY <1>0, <2>1, <2>2, QuietStep
<1>16. ASSUME NEW t \in Threads, Check(t)
      PROVE  CountersAgree'
    <2>1. PICK l : Goto(t, l) /\ l \notin HandingAt /\ at[t] \notin HandingAt
        BY <1>16 DEF Check, Finish, Drop, HandingAt
    <2>2. /\ UNCHANGED target \/ \E g : target' = [target EXCEPT ![t] = g]
          /\ UNCHANGED <<count, tasks, ring, busy, asking>>
        BY <1>16 DEF Check, Finish, Drop, workVars
    <2> QED
        BY <1>0, <2>1, <2>2, QuietStep
<1>17. ASSUME NEW t \in Threads, Schedule(t)
      PROVE  CountersAgree'
    <2>1. PICK l : Goto(t, l) /\ l \notin HandingAt /\ at[t] \notin HandingAt
        BY <1>17 DEF Schedule, Finish, Drop, HandingAt
    <2>2. /\ UNCHANGED target \/ \E g : target' = [target EXCEPT ![t] = g]
          /\ UNCHANGED <<count, tasks, ring, busy, asking>>
        BY <1>17 DEF Schedule, Finish, Drop, workVars
    <2> QED
        BY <1>0, <2>1, <2>2, QuietStep
<1>18. ASSUME NEW t \in Threads, Pick(t)
      PROVE  CountersAgree'
    <2>1. PICK l : Goto(t, l) /\ l \notin HandingAt /\ at[t] \notin HandingAt
        BY <1>18 DEF Pick, HandingAt
    <2>2. /\ UNCHANGED target \/ \E g : target' = [target EXCEPT ![t] = g]
          /\ UNCHANGED <<count, tasks, ring, busy, asking>>
        BY <1>18 DEF Pick, workVars
    <2> QED
        BY <1>0, <2>1, <2>2, QuietStep
<1>19. ASSUME NEW t \in Threads, Grow(t)
      PROVE  CountersAgree'
    <2>1. PICK l : Goto(t, l) /\ l \notin HandingAt /\ at[t] \notin HandingAt
        BY <1>19 DEF Grow, HandingAt
    <2>2. /\ UNCHANGED target \/ \E g : target' = [target EXCEPT ![t] = g]
          /\ UNCHANGED <<count, tasks, ring, busy, asking>>
        BY <1>19 DEF Grow, Fixed, workVars
    <2> QED
        BY <1>0, <2>1, <2>2, QuietStep
<1>20. ASSUME NEW t \in Threads, GrowPut(t)
      PROVE  CountersAgree'
    <2>1. /\ at[t] = "grow put" /\ Goto(t, "pick") /\ target' = [target EXCEPT ![t] = "none"]
          /\ UNCHANGED <<count, tasks, busy, asking>>
          /\ ring' = [ring EXCEPT ![Main] = Append(@, [kind |-> "grow", of |-> target[t]])]
        BY <1>20 DEF GrowPut
    <2>2. HandedTo(t) = Main /\ t \in Handers
        BY <2>1, PoolAssumption DEF HandedTo, Threads, Handers
    <2>3. OnlyHands(t) /\ HandedTo(t)' \notin All
        BY <1>0, <2>1, HandsAlone DEF Base
    <2>4. [kind |-> "grow", of |-> target[t]] \in Jobs
        BY <2>1 DEF Base, CallsTyped, Jobs, WorkJobs
    <2> QED
        BY <1>0, <2>1, <2>2, <2>3, <2>4, EndsToHand
<1>21. ASSUME NEW t \in Threads, NEW w \in Workers, GrowTask(t, w)
      PROVE  CountersAgree'
    <2>1. at[t] = "grow" /\ target' = [target EXCEPT ![t] = w] /\ UNCHANGED <<ring, busy, asking>>
        BY <1>21 DEF GrowTask
    <2>2. CASE off[Main]
        <3>1. Goto(t, "pick") /\ UNCHANGED <<count, tasks>>
            BY <1>21, <2>2 DEF GrowTask
        <3> QED
            BY <2>1, <3>1, QuietStep DEF HandingAt
    <2>3. CASE ~ off[Main]
        <3>1. Goto(t, "grow put") /\ Inc(Main)
            BY <1>21, <2>3 DEF GrowTask, Inc
        <3>2. OnlyHands(t) /\ HandedTo(t)' = Main /\ HandedTo(t) \notin All
            BY <2>1, <1>0, <3>1, HandsAlone DEF Base
        <3> QED
            BY <1>0, <2>1, <3>1, <3>2, BeginsToHand
    <2> QED
        BY <2>2, <2>3
<1>22. ASSUME NEW w \in Workers, GrowSelf(w)
      PROVE  CountersAgree'
    <2>1. PICK l : Goto(Main, l) /\ l \notin HandingAt /\ at[Main] \notin HandingAt
        BY <1>22 DEF GrowSelf, HandingAt
    <2>2. /\ UNCHANGED target \/ \E g : target' = [target EXCEPT ![Main] = g]
          /\ UNCHANGED <<count, tasks, ring, busy, asking>>
        BY <1>22 DEF GrowSelf, Fixed
    <2> QED
        BY <1>0, <2>1, <2>2, QuietStep
<1>23. ASSUME NEW t \in Threads, Try(t)
      PROVE  CountersAgree'
    <2>1. at[t] = "try" /\ UNCHANGED <<target, ring, busy, asking>> /\ target[t] \in All
        BY <1>23 DEF Try, Fixed, Base, CallsTyped
    <2>2. CASE off[target[t]]
        <3>1. Goto(t, "reject") /\ UNCHANGED <<count, tasks>>
            BY <1>23, <2>2 DEF Try
        <3> QED
            BY <2>1, <3>1, QuietStep DEF HandingAt
    <2>3. CASE ~ off[target[t]]
        <3>1. Goto(t, "put") /\ Inc(target[t])
            BY <1>23, <2>3 DEF Try
        <3>2. OnlyHands(t) /\ HandedTo(t)' = target[t] /\ HandedTo(t) \notin All
            BY <2>1, <1>0, <3>1, HandsAlone DEF Base
        <3> QED
            BY <1>0, <2>1, <3>1, <3>2, BeginsToHand
    <2> QED
        BY <2>2, <2>3
<1>24. ASSUME NEW t \in Threads, TryPut(t)
      PROVE  CountersAgree'
    <2>1. /\ at[t] = "put" /\ UNCHANGED <<busy, asking>> /\ target[t] \in All /\ HandedTo(t) = target[t]
          /\ t \in Handers /\ job[t] \in Jobs
        BY <1>24, <1>0, JobTyped, PoolAssumption DEF TryPut, Base, CallsTyped, HandedTo, Calling, Threads,
               Handers
    <2>2. CASE Len(ring[target[t]]) < Size
        <3>1. /\ ring' = [ring EXCEPT ![target[t]] = Append(@, job[t])]
              /\ UNCHANGED <<count, tasks>> /\ Goto(t, "idle")
              /\ target' = [target EXCEPT ![t] = "none"]
            BY <1>24, <2>2 DEF TryPut, Finish
        <3>2. OnlyHands(t) /\ HandedTo(t)' \notin All
            BY <1>0, <2>1, <3>1, HandsAlone DEF Base
        <3> QED
            BY <2>1, <3>1, <3>2, EndsToHand
    <2>3. CASE ~ (Len(ring[target[t]]) < Size)
        <3>1. Goto(t, "reject") /\ Dec(target[t]) /\ UNCHANGED <<ring, target>>
            BY <1>24, <2>3 DEF TryPut
        <3>2. OnlyHands(t) /\ HandedTo(t)' \notin All
            BY <1>0, <2>1, <3>1, HandsAlone DEF Base
        <3> QED
            BY <2>1, <3>1, <3>2, EndsToHand
    <2> QED
        BY <2>2, <2>3
<1>25. ASSUME NEW t \in Threads, TrySelf(t)
      PROVE  CountersAgree'
    <2>1. PICK l : Goto(t, l) /\ l \notin HandingAt /\ at[t] \notin HandingAt
        BY <1>25 DEF TrySelf, Finish, HandingAt
    <2>2. /\ UNCHANGED target \/ \E g : target' = [target EXCEPT ![t] = g]
          /\ UNCHANGED <<count, tasks, ring, busy, asking>>
        BY <1>25 DEF TrySelf, Finish
    <2> QED
        BY <1>0, <2>1, <2>2, QuietStep
<1>26. ASSUME NEW t \in Threads, NEW p \in Policies, Reject(t, p)
      PROVE  CountersAgree'
    <2>1. PICK l : Goto(t, l) /\ l \notin HandingAt /\ at[t] \notin HandingAt
        BY <1>26, RejectChoices DEF Finish, Drop, HandingAt
    <2>2. /\ UNCHANGED target \/ \E g : target' = [target EXCEPT ![t] = g]
          /\ UNCHANGED <<count, tasks, ring, busy, asking>>
        BY <1>26, RejectChoices DEF Finish, Drop, workVars
    <2> QED
        BY <1>0, <2>1, <2>2, QuietStep
<1>27. ASSUME NEW t \in Threads, Accept(t)
      PROVE  CountersAgree'
    <2>1. at[t] = "accept" /\ UNCHANGED <<ring, busy, asking>> /\ target[t] \in All
        BY <1>27 DEF Accept, Base, CallsTyped
    <2>2. CASE off[target[t]] \/ target[t] = t
        <3>1. /\ Goto(t, "idle") /\ UNCHANGED <<count, tasks>>
              /\ target' = [target EXCEPT ![t] = "none"]
            BY <1>27, <2>2 DEF Accept, Finish, Drop
        <3> QED
            BY <2>1, <3>1, QuietStep DEF HandingAt
    <2>3. CASE ~ off[target[t]] /\ target[t] # t
        <3>1. Goto(t, "enqueue") /\ Inc(target[t]) /\ UNCHANGED target
            BY <1>27, <2>3 DEF Accept
        <3>2. OnlyHands(t) /\ HandedTo(t)' = target[t] /\ HandedTo(t) \notin All
            BY <2>1, <1>0, <3>1, HandsAlone DEF Base
        <3> QED
            BY <1>0, <2>1, <3>1, <3>2, BeginsToHand
    <2> QED
        BY <2>2, <2>3
<1>28. ASSUME NEW t \in Threads, Enqueue(t)
      PROVE  CountersAgree'
    <2>1. /\ at[t] = "enqueue" /\ UNCHANGED <<count, tasks, busy, asking>> /\ target[t] \in All
          /\ t \in Handers
          /\ HandedTo(t) = target[t] /\ job[t] \in Jobs
          /\ ring' = [ring EXCEPT ![target[t]] = Append(@, job[t])]
          /\ Goto(t, "idle") /\ target' = [target EXCEPT ![t] = "none"]
        BY <1>28, JobTyped, PoolAssumption DEF Enqueue, Finish, Base, CallsTyped, HandedTo, Calling,
               Threads, Handers
    <2>2. OnlyHands(t) /\ HandedTo(t)' \notin All
        BY <1>0, <2>1, HandsAlone DEF Base
    <2> QED
        BY <2>1, <2>2, EndsToHand
<1>29. ASSUME NEW t \in Threads, NEW x \in Tasks, Launch(t, x)
      PROVE  CountersAgree'
    <2>1. PICK l : Goto(t, l) /\ l \notin HandingAt /\ at[t] \notin HandingAt
        BY <1>29 DEF Launch, HandingAt
    <2>2. /\ UNCHANGED target \/ \E g : target' = [target EXCEPT ![t] = g]
          /\ UNCHANGED <<count, tasks, ring, busy, asking>>
        BY <1>29 DEF Launch, workVars
    <2> QED
        BY <1>0, <2>1, <2>2, QuietStep
<1>30. ASSUME NEW w \in Workers, Dequeue(w)
      PROVE  CountersAgree'
    <2>1. OnlyHands(Main) /\ HandedTo(Main)' = HandedTo(Main) /\ Main \in Handers
        BY <1>30, NoStep DEF Dequeue, callVars
    <2>2. /\ w \in All /\ ring[w] # <<>> /\ busy[w] = NoJob /\ UNCHANGED <<count, tasks>>
          /\ busy' = [busy EXCEPT ![w] = Head(ring[w])] /\ ring' = [ring EXCEPT ![w] = Tail(@)]
        BY <1>30 DEF Dequeue, All
    <2> QED
        BY <2>1, <2>2, WorkerTakes
<1>31. ASSUME NEW w \in Workers, Process(w)
      PROVE  CountersAgree'
    <2>1. OnlyHands(Main) /\ HandedTo(Main)' = HandedTo(Main) /\ Main \in Handers
        BY <1>31, NoStep DEF Process, callVars
    <2>2. /\ w \in All /\ busy[w] # NoJob /\ busy' = [busy EXCEPT ![w] = NoJob] /\ Dec(w)
          /\ UNCHANGED ring
        BY <1>31 DEF Process, All
    <2> QED
        BY <2>1, <2>2, WorkerIsDone
<1>32. ASSUME NEW w \in Workers, Asked(w)
      PROVE  CountersAgree'
    <2>1. PICK l : /\ asking' = [asking EXCEPT ![w] = l]
                   /\ \/ /\ l # "put" /\ asking[w] # "put" /\ UNCHANGED <<count, tasks, ring>>
                      \/ /\ l = "put" /\ asking[w] # "put" /\ Inc(Main) /\ UNCHANGED ring
                      \/ /\ l # "put" /\ asking[w] = "put" /\ UNCHANGED <<count, tasks>>
                         /\ ring' = [ring EXCEPT ![Main] = Append(@, ShrinkTask(w))]
        BY <1>32, AskedChoices
    <2>2. UNCHANGED <<at, target, busy>>
        BY <1>32, AskedChoices
    <2>3. asking'[w] = l /\ \A v \in Workers \ {w} : asking'[v] = asking[v]
        BY <2>1 DEF Base, AskingTyped
    <2>4. OnlyHands(w) /\ w \in Handers
        BY <2>2, <2>3 DEF OnlyHands, HandedTo, Handers
    <2>5. /\ HandedTo(w) = (IF asking[w] = "put" THEN Main ELSE "none")
          /\ HandedTo(w)' = (IF l = "put" THEN Main ELSE "none")
          /\ "none" \notin All
        BY <2>3, PoolAssumption DEF HandedTo, All
    <2>6. ShrinkTask(w) \in Jobs
        BY DEF ShrinkTask, Jobs, WorkJobs
    <2>7. CASE l # "put" /\ asking[w] # "put" /\ UNCHANGED <<count, tasks, ring>>
        BY <2>2, <2>4, <2>5, <2>7, NobodyHands
    <2>8. CASE l = "put" /\ asking[w] # "put" /\ Inc(Main) /\ UNCHANGED ring
        BY <1>0, <2>2, <2>4, <2>5, <2>8, BeginsToHand
    <2>9. CASE /\ l # "put" /\ asking[w] = "put" /\ UNCHANGED <<count, tasks>>
               /\ ring' = [ring EXCEPT ![Main] = Append(@, ShrinkTask(w))]
        BY <1>0, <2>2, <2>4, <2>5, <2>6, <2>9, EndsToHand
    <2> QED
        BY <2>1, <2>7, <2>8, <2>9
<1>33. CASE UNCHANGED vars
    BY <1>33, NoStep DEF vars, callVars, workVars
<1> QED
    BY <1>1, <1>2, <1>3, <1>4, <1>5, <1>6, <1>7, <1>8, <1>9, <1>10, <1>11, <1>12, <1>13,
       <1>14, <1>15, <1>16, <1>17, <1>18, <1>19, <1>20, <1>21, <1>22, <1>23, <1>24, <1>25,
       <1>26, <1>27, <1>28, <1>29, <1>30, <1>31, <1>32, <1>33
    DEF Next, MainStep, CallStep, WorkerStep, Asked

-----------------------------------------------------------------------------
(* The places of a task.                                                   *)

InHands(x) == {t \in Threads : job[t].of = x}
InWork(x) == {w \in All : busy[w].of = x}
InRings(x) == {s \in All \X (1..Size) : s[2] <= Len(ring[s[1]]) /\ ring[s[1]][s[2]].of = x}
Ends(x) == (IF x \in timers THEN 1 ELSE 0) + (IF x \in done THEN 1 ELSE 0)
           + (IF x \in dropped THEN 1 ELSE 0) + (IF x \in undefined THEN 1 ELSE 0)

LEMMA PlacesCount ==
    ASSUME NEW x
    PROVE  /\ Places(x) = Cardinality(InHands(x)) + Cardinality(InWork(x))
                          + Cardinality(InRings(x)) + Ends(x)
           /\ Places(x)' = Cardinality(InHands(x)') + Cardinality(InWork(x)')
                          + Cardinality(InRings(x)') + Ends(x)'
           /\ IsFiniteSet(All \X (1..Size))
           /\ Cardinality(InHands(x)) \in Nat /\ Cardinality(InHands(x)') \in Nat
           /\ Cardinality(InWork(x)) \in Nat /\ Cardinality(InWork(x)') \in Nat
           /\ Cardinality(InRings(x)) \in Nat /\ Cardinality(InRings(x)') \in Nat
           /\ Ends(x) \in 0..4 /\ Ends(x)' \in 0..4
<1>1. IsFiniteSet(1..Size)
    BY PoolAssumption, FS_Interval
<1>2. IsFiniteSet(All \X (1..Size))
    BY <1>1, Finiteness, FS_Product
<1>3. /\ InHands(x) \in SUBSET Threads /\ InHands(x)' \in SUBSET Threads
      /\ InWork(x) \in SUBSET All /\ InWork(x)' \in SUBSET All
      /\ InRings(x) \in SUBSET (All \X (1..Size)) /\ InRings(x)' \in SUBSET (All \X (1..Size))
    BY DEF InHands, InWork, InRings
<1>4. \A S, T : IsFiniteSet(S) /\ T \in SUBSET S => Cardinality(T) \in Nat
    BY FS_Subset, FS_CardinalityType
<1>5. /\ Cardinality(InHands(x)) \in Nat /\ Cardinality(InHands(x)') \in Nat
      /\ Cardinality(InWork(x)) \in Nat /\ Cardinality(InWork(x)') \in Nat
      /\ Cardinality(InRings(x)) \in Nat /\ Cardinality(InRings(x)') \in Nat
    BY <1>2, <1>3, <1>4, Finiteness
<1>6. Ends(x) \in 0..4 /\ Ends(x)' \in 0..4
    BY DEF Ends
<1>7. Places(x) = Cardinality(InHands(x)) + Cardinality(InWork(x))
                  + Cardinality(InRings(x)) + Ends(x)
    BY <1>5 DEF Places, InHands, InWork, InRings, Ends
<1>8. Places(x)' = Cardinality(InHands(x)') + Cardinality(InWork(x)')
                   + Cardinality(InRings(x)') + Ends(x)'
    BY <1>5, SMTT(30) DEF Places, InHands, InWork, InRings, Ends
<1> QED
    BY <1>2, <1>5, <1>6, <1>7, <1>8

\* What a step that changes one variable at one place does to the places.
LEMMA HandSwaps ==
    ASSUME NEW t \in Threads, \A u \in Threads \ {t} : job'[u] = job[u], NEW x
    PROVE  Cardinality(InHands(x)') = Cardinality(InHands(x))
               - (IF job[t].of = x THEN 1 ELSE 0) + (IF job'[t].of = x THEN 1 ELSE 0)
<1> DEFINE A == InHands(x)
           B == InHands(x)'
<1>1. /\ A \in SUBSET Threads /\ B \in SUBSET Threads /\ A \ {t} = B \ {t}
      /\ (t \in A <=> job[t].of = x) /\ (t \in B <=> job'[t].of = x)
    BY DEF InHands
<1> HIDE DEF A, B
<1>2. /\ Cardinality(A) \in Nat /\ Cardinality(B) \in Nat
      /\ Cardinality(B) = Cardinality(A) - (IF t \in A THEN 1 ELSE 0)
                                        + (IF t \in B THEN 1 ELSE 0)
    BY <1>1, OneDiffers, Finiteness
<1> QED
    BY <1>1, <1>2 DEF A, B

LEMMA WorkSwaps ==
    ASSUME NEW w \in All, \A v \in All \ {w} : busy'[v] = busy[v], NEW x
    PROVE  Cardinality(InWork(x)') = Cardinality(InWork(x))
               - (IF busy[w].of = x THEN 1 ELSE 0) + (IF busy'[w].of = x THEN 1 ELSE 0)
<1> DEFINE A == InWork(x)
           B == InWork(x)'
<1>1. /\ A \in SUBSET All /\ B \in SUBSET All /\ A \ {w} = B \ {w}
      /\ (w \in A <=> busy[w].of = x) /\ (w \in B <=> busy'[w].of = x)
    BY DEF InWork
<1> HIDE DEF A, B
<1>2. /\ Cardinality(A) \in Nat /\ Cardinality(B) \in Nat
      /\ Cardinality(B) = Cardinality(A) - (IF w \in A THEN 1 ELSE 0)
                                        + (IF w \in B THEN 1 ELSE 0)
    BY <1>1, OneDiffers, Finiteness
<1> QED
    BY <1>1, <1>2 DEF A, B

LEMMA RingGains ==
    ASSUME RingsTyped, NEW w \in All, NEW j \in Jobs, Len(ring[w]) < Size,
           ring' = [ring EXCEPT ![w] = Append(@, j)], NEW x
    PROVE  Cardinality(InRings(x)') = Cardinality(InRings(x)) + (IF j.of = x THEN 1 ELSE 0)
<1> DEFINE A == InRings(x)
           B == InRings(x)'
           n == Len(ring[w])
           s == <<w, n + 1>>
<1>1. n \in Nat /\ n + 1 \in 1..Size /\ s \in All \X (1..Size)
    BY LenProperties, PoolAssumption DEF RingsTyped
<1>2. /\ \A v \in All \ {w} : ring'[v] = ring[v]
      /\ ring'[w] = Append(ring[w], j)
    BY DEF RingsTyped
<1>3. /\ Len(ring'[w]) = n + 1 /\ ring'[w][n + 1] = j
      /\ \A i \in 1..n : ring'[w][i] = ring[w][i]
    BY <1>2, AppendProperties DEF RingsTyped
<1>4. s \notin A /\ (s \in B <=> j.of = x)
    BY <1>1, <1>3 DEF InRings
<1>5. ASSUME NEW p \in All \X (1..Size), p # s
      PROVE  p \in A <=> p \in B
    <2>1. CASE p[1] # w
        BY <1>2, <2>1 DEF InRings
    <2>2. CASE p[1] = w
        <3>1. p[2] # n + 1 /\ p[2] \in 1..Size
            BY <1>5, <2>2
        <3>2. p[2] <= n + 1 <=> p[2] <= n
            BY <1>1, <3>1
        <3>3. p[2] <= n => ring'[w][p[2]] = ring[w][p[2]]
            BY <1>1, <1>3, <3>1
        <3> QED
            BY <1>3, <2>2, <3>2, <3>3 DEF InRings
    <2> QED
        BY <2>1, <2>2
<1>6. A \in SUBSET (All \X (1..Size)) /\ B \in SUBSET (All \X (1..Size))
    BY DEF InRings
<1> HIDE DEF A, B, s
<1>7. A \ {s} = B \ {s}
    BY <1>5, <1>6
<1>8. IsFiniteSet(All \X (1..Size))
    BY PlacesCount
<1>9. /\ Cardinality(A) \in Nat /\ Cardinality(B) \in Nat
      /\ Cardinality(B) = Cardinality(A) - (IF s \in A THEN 1 ELSE 0)
                                        + (IF s \in B THEN 1 ELSE 0)
    BY <1>6, <1>7, <1>8, OneDiffers
<1> QED
    BY <1>4, <1>9 DEF A, B

LEMMA RingLoses ==
    ASSUME RingsTyped, NEW w \in All, ring[w] # <<>>,
           ring' = [ring EXCEPT ![w] = Tail(@)], NEW x
    PROVE  Cardinality(InRings(x)') = Cardinality(InRings(x))
               - (IF Head(ring[w]).of = x THEN 1 ELSE 0)
<1> DEFINE A == InRings(x)
           B == InRings(x)'
           s == <<w, 1>>
           n == Len(ring[w])
           Next1(p) == IF p[1] = w THEN <<w, p[2] + 1>> ELSE p
           f == [p \in B |-> Next1(p)]
<1>1. /\ n \in Nat /\ n # 0 /\ n <= Size /\ Size \in Nat /\ Head(ring[w]) = ring[w][1]
      /\ Len(Tail(ring[w])) = n - 1 /\ \A i \in 1..(n - 1) : Tail(ring[w])[i] = ring[w][i + 1]
    BY LenProperties, EmptySeq, HeadTailProperties, PoolAssumption DEF RingsTyped
<1>2. /\ \A v \in All \ {w} : ring'[v] = ring[v]
      /\ ring'[w] = Tail(ring[w])
    BY DEF RingsTyped
<1>3. A \in SUBSET (All \X (1..Size)) /\ B \in SUBSET (All \X (1..Size))
    BY DEF InRings
<1>4. s \in A <=> Head(ring[w]).of = x
    BY <1>1 DEF InRings
<1>5. ASSUME NEW p \in All \X (1..Size)
      PROVE  p \in B <=> Next1(p) \in A \ {s}
    <2>1. CASE p[1] # w
        BY <1>2, <2>1 DEF InRings
    <2>2. CASE p[1] = w
        <3>1. p = <<w, p[2]>> /\ p[2] \in 1..Size
            BY <2>2
        <3>2. Next1(p) = <<w, p[2] + 1>> /\ p[2] + 1 # 1
            BY <2>2, <3>1
        <3>3. p \in B <=> p[2] <= n - 1 /\ Tail(ring[w])[p[2]].of = x
            <4>1. p \in B <=> p[2] <= Len(ring'[w]) /\ ring'[w][p[2]].of = x
                BY <2>2 DEF InRings
            <4> QED
                BY <1>1, <1>2, <4>1
        <3>4. Next1(p) \in A <=> p[2] + 1 \in 1..Size /\ p[2] + 1 <= n /\ ring[w][p[2] + 1].of = x
            BY <3>1, <3>2 DEF InRings
        <3>5. p[2] <= n - 1 => Tail(ring[w])[p[2]] = ring[w][p[2] + 1]
            BY <1>1, <3>1
        <3> QED
            BY <1>1, <3>1, <3>2, <3>3, <3>4, <3>5
    <2> QED
        BY <2>1, <2>2
<1>6. ASSUME NEW q \in A \ {s}
      PROVE  \E p \in B : Next1(p) = q
    <2>1. CASE q[1] # w
        <3>1. Next1(q) = q /\ q \in All \X (1..Size)
            BY <1>3, <2>1
        <3> QED
            BY <1>5, <3>1
    <2>2. CASE q[1] = w
        <3> DEFINE p == <<w, q[2] - 1>>
        <3>1. q = <<w, q[2]>> /\ q[2] \in 1..Size /\ q[2] # 1
            BY <1>3, <2>2
        <3>2. q[2] - 1 \in 1..Size /\ (q[2] - 1) + 1 = q[2]
            BY <1>1, <3>1
        <3>3. p \in All \X (1..Size) /\ Next1(p) = q
            BY <3>1, <3>2
        <3> HIDE DEF p
        <3>4. p \in B
            BY <1>5, <3>3
        <3> QED
            BY <3>3, <3>4
    <2> QED
        BY <2>1, <2>2
<1>7. \A p, q \in B : Next1(p) = Next1(q) => p = q
    BY <1>3
<1>8. f \in [B -> A \ {s}]
    BY <1>3, <1>5
<1> HIDE DEF A, B, s, Next1
<1>9. f \in Bijection(B, A \ {s})
    BY <1>6, <1>7, <1>8 DEF Bijection, Injection, Surjection, IsInjective
<1>10. IsFiniteSet(A) /\ IsFiniteSet(B) /\ Cardinality(A) \in Nat
    BY <1>3, PlacesCount, FS_Subset, FS_CardinalityType
<1>11. Cardinality(A \ {s}) = Cardinality(B)
    BY <1>9, <1>10, FS_Bijection DEF ExistsBijection
<1>12. Cardinality(A \ {s}) = IF s \in A THEN Cardinality(A) - 1 ELSE Cardinality(A)
    BY <1>10, FS_RemoveElement
<1> QED
    BY <1>4, <1>10, <1>11, <1>12 DEF A, B

\* A task ends up among the timers, the tasks that ran or those that never will.
EndUp(y) ==
    \/ timers' = timers \cup {y} /\ UNCHANGED <<done, dropped, undefined>>
    \/ done' = done \cup {y} /\ UNCHANGED <<timers, dropped, undefined>>
    \/ dropped' = dropped \cup {y} /\ UNCHANGED <<timers, done, undefined>>
    \/ undefined' = undefined \cup {y} /\ UNCHANGED <<timers, done, dropped>>

LEMMA EndsGain ==
    ASSUME NEW x, NEW y, EndUp(y)
    PROVE  /\ x # y => Ends(x)' = Ends(x)
           /\ x = y /\ Ends(x) = 0 => Ends(x)' = 1
BY DEF EndUp, Ends

LEMMA NothingMoves ==
    ASSUME NEW x, UNCHANGED <<job, busy, ring, timers, done, dropped, undefined>>
    PROVE  Places(x)' = Places(x)
BY DEF Places

LEMMA Nobody ==
    ASSUME NEW x \in Tasks
    PROVE  NoJob.of # x
BY PoolAssumption DEF NoJob

\* What the ends of a task and its beginnings do to what has it.
LEMMA HandGoes ==
    ASSUME CallsTyped, NEW t \in Threads, job' = [job EXCEPT ![t] = NoJob], NEW x \in Tasks
    PROVE  Cardinality(InHands(x)') = Cardinality(InHands(x)) - (IF job[t].of = x THEN 1 ELSE 0)
<1>1. job'[t] = NoJob /\ \A u \in Threads \ {t} : job'[u] = job[u]
    BY DEF CallsTyped
<1>2. job'[t].of # x
    BY <1>1, Nobody
<1>3. Cardinality(InHands(x)') = Cardinality(InHands(x))
          - (IF job[t].of = x THEN 1 ELSE 0) + (IF job'[t].of = x THEN 1 ELSE 0)
    BY <1>1, HandSwaps
<1>4. Cardinality(InHands(x)) \in Nat
    BY PlacesCount
<1> QED
    BY <1>2, <1>3, <1>4

LEMMA WorkGoes ==
    ASSUME BusyTyped, NEW w \in All, busy' = [busy EXCEPT ![w] = NoJob], NEW x \in Tasks
    PROVE  Cardinality(InWork(x)') = Cardinality(InWork(x)) - (IF busy[w].of = x THEN 1 ELSE 0)
<1>1. busy'[w] = NoJob /\ \A v \in All \ {w} : busy'[v] = busy[v]
    BY DEF BusyTyped
<1>2. busy'[w].of # x
    BY <1>1, Nobody
<1>3. Cardinality(InWork(x)') = Cardinality(InWork(x))
          - (IF busy[w].of = x THEN 1 ELSE 0) + (IF busy'[w].of = x THEN 1 ELSE 0)
    BY <1>1, WorkSwaps
<1>4. Cardinality(InWork(x)) \in Nat
    BY PlacesCount
<1> QED
    BY <1>2, <1>3, <1>4

LEMMA HandEnds ==
    ASSUME CallsTyped, NEW t \in Threads, Finish(t), UNCHANGED <<busy, ring>>,
           EndUp(job[t].of), NEW x \in Tasks, Places(x) <= 1
    PROVE  Places(x)' = Places(x)
<1>1. job' = [job EXCEPT ![t] = NoJob]
    BY DEF Finish
<1>2. Cardinality(InHands(x)') = Cardinality(InHands(x)) - (IF job[t].of = x THEN 1 ELSE 0)
    BY <1>1, HandGoes
<1>3. InWork(x)' = InWork(x) /\ InRings(x)' = InRings(x)
    BY DEF InWork, InRings
<1>4. job[t].of = x => Ends(x) = 0 /\ Ends(x)' = 1
    <2> SUFFICES ASSUME job[t].of = x PROVE Ends(x) = 0
        BY EndsGain
    <2>1. Cardinality(InHands(x)) >= 1
        BY <1>2, PlacesCount
    <2> QED
        BY <2>1, PlacesCount
<1>5. job[t].of # x => Ends(x)' = Ends(x)
    BY EndsGain
<1> QED
    BY <1>2, <1>3, <1>4, <1>5, PlacesCount

LEMMA WorkEnds ==
    ASSUME BusyTyped, NEW w \in All, busy' = [busy EXCEPT ![w] = NoJob],
           UNCHANGED <<job, ring>>, EndUp(busy[w].of), NEW x \in Tasks, Places(x) <= 1
    PROVE  Places(x)' = Places(x)
<1>2. Cardinality(InWork(x)') = Cardinality(InWork(x)) - (IF busy[w].of = x THEN 1 ELSE 0)
    BY WorkGoes
<1>3. InHands(x)' = InHands(x) /\ InRings(x)' = InRings(x)
    BY DEF InHands, InRings
<1>4. busy[w].of = x => Ends(x) = 0 /\ Ends(x)' = 1
    <2> SUFFICES ASSUME busy[w].of = x PROVE Ends(x) = 0
        BY EndsGain
    <2>1. Cardinality(InWork(x)) >= 1
        BY <1>2, PlacesCount
    <2> QED
        BY <2>1, PlacesCount
<1>5. busy[w].of # x => Ends(x)' = Ends(x)
    BY EndsGain
<1> QED
    BY <1>2, <1>3, <1>4, <1>5, PlacesCount

\* A request to grow or to shrink is nobody's task.
LEMMA RequestEnds ==
    ASSUME BusyTyped, NEW w \in All, busy' = [busy EXCEPT ![w] = NoJob], busy[w].of \notin Tasks,
           UNCHANGED <<job, ring, timers, done, dropped, undefined>>, NEW x \in Tasks
    PROVE  Places(x)' = Places(x)
<1>1. busy[w].of # x
    OBVIOUS
<1>2. Cardinality(InWork(x)') = Cardinality(InWork(x)) - (IF busy[w].of = x THEN 1 ELSE 0)
    BY WorkGoes
<1>3. InHands(x)' = InHands(x) /\ InRings(x)' = InRings(x) /\ Ends(x)' = Ends(x)
    BY DEF InHands, InRings, Ends
<1> QED
    BY <1>1, <1>2, <1>3, PlacesCount

LEMMA RequestBegins ==
    ASSUME RingsTyped, NEW w \in All, NEW j \in Jobs, j.of \notin Tasks, Len(ring[w]) < Size,
           ring' = [ring EXCEPT ![w] = Append(@, j)],
           UNCHANGED <<job, busy, timers, done, dropped, undefined>>, NEW x \in Tasks
    PROVE  Places(x)' = Places(x)
<1>1. Cardinality(InRings(x)') = Cardinality(InRings(x)) + (IF j.of = x THEN 1 ELSE 0)
    BY RingGains
<1>2. InHands(x)' = InHands(x) /\ InWork(x)' = InWork(x) /\ Ends(x)' = Ends(x)
    BY DEF InHands, InWork, Ends
<1>3. j.of # x
    OBVIOUS
<1> QED
    BY <1>1, <1>2, <1>3, PlacesCount

LEMMA HandToRing ==
    ASSUME CallsTyped, RingsTyped, NEW t \in Threads, NEW w \in All, job[t] \in Jobs, Finish(t),
           Len(ring[w]) < Size, ring' = [ring EXCEPT ![w] = Append(@, job[t])],
           UNCHANGED <<busy, timers, done, dropped, undefined>>, NEW x \in Tasks
    PROVE  Places(x)' = Places(x)
<1>1. job' = [job EXCEPT ![t] = NoJob]
    BY DEF Finish
<1>2. Cardinality(InHands(x)') = Cardinality(InHands(x)) - (IF job[t].of = x THEN 1 ELSE 0)
    BY <1>1, HandGoes
<1>3. Cardinality(InRings(x)') = Cardinality(InRings(x)) + (IF job[t].of = x THEN 1 ELSE 0)
    BY RingGains
<1>4. InWork(x)' = InWork(x) /\ Ends(x)' = Ends(x)
    BY DEF InWork, Ends
<1> QED
    BY <1>2, <1>3, <1>4, PlacesCount

LEMMA RingToWork ==
    ASSUME RingsTyped, BusyTyped, NEW w \in All, ring[w] # <<>>, busy[w] = NoJob,
           busy' = [busy EXCEPT ![w] = Head(ring[w])], ring' = [ring EXCEPT ![w] = Tail(@)],
           UNCHANGED <<job, timers, done, dropped, undefined>>, NEW x \in Tasks
    PROVE  Places(x)' = Places(x)
<1>1. Cardinality(InWork(x)') = Cardinality(InWork(x)) - (IF NoJob.of = x THEN 1 ELSE 0)
                                + (IF Head(ring[w]).of = x THEN 1 ELSE 0)
    <2>1. PICK k : k = Head(ring[w])
        OBVIOUS
    <2>2. busy'[w] = k /\ \A v \in All \ {w} : busy'[v] = busy[v]
        BY <2>1 DEF BusyTyped
    <2>3. Cardinality(InWork(x)') = Cardinality(InWork(x)) - (IF busy[w].of = x THEN 1 ELSE 0)
                                    + (IF k.of = x THEN 1 ELSE 0)
        BY <2>2, WorkSwaps
    <2> QED
        BY <2>1, <2>3
<1>2. Cardinality(InWork(x)') = Cardinality(InWork(x))
                                + (IF Head(ring[w]).of = x THEN 1 ELSE 0)
    BY <1>1, Nobody, PlacesCount, SMTT(30)
<1>3. Cardinality(InRings(x)') = Cardinality(InRings(x))
                                 - (IF Head(ring[w]).of = x THEN 1 ELSE 0)
    BY RingLoses
<1>4. InHands(x)' = InHands(x) /\ Ends(x)' = Ends(x)
    BY DEF InHands, Ends
<1> QED
    BY <1>2, <1>3, <1>4, PlacesCount

\* A thread that had no task gets one, a new one or one whose time has come.
LEMMA HandBegins ==
    ASSUME CallsTyped, NEW t \in Threads, at[t] \notin Calling, NEW y,
           job' = [job EXCEPT ![t] = [kind |-> "task", of |-> y]],
           UNCHANGED <<busy, ring>>, NEW x \in Tasks
    PROVE  Places(x)' = Places(x) + (IF x = y THEN 1 ELSE 0) + Ends(x)' - Ends(x)
<1> DEFINE j == [kind |-> "task", of |-> y]
<1>1. job[t] = NoJob
    BY DEF CallsTyped
<1>2. Cardinality(InHands(x)') = Cardinality(InHands(x)) + (IF x = y THEN 1 ELSE 0)
    <2>1. job[t].of # x
        BY <1>1, Nobody
    <2>2. j.of = y
        OBVIOUS
    <2> HIDE DEF j
    <2>3. Cardinality(InHands(x)') = Cardinality(InHands(x))
              - (IF job[t].of = x THEN 1 ELSE 0) + (IF j.of = x THEN 1 ELSE 0)
        <3>1. PICK k : k = j
            OBVIOUS
        <3>2. job'[t] = k /\ \A u \in Threads \ {t} : job'[u] = job[u]
            BY <3>1 DEF j, CallsTyped
        <3>3. Cardinality(InHands(x)') = Cardinality(InHands(x))
                  - (IF job[t].of = x THEN 1 ELSE 0) + (IF k.of = x THEN 1 ELSE 0)
            BY <3>2, HandSwaps
        <3> QED
            BY <3>1, <3>3
    <2>4. Cardinality(InHands(x)) \in Nat
        BY PlacesCount
    <2> QED
        BY <2>1, <2>2, <2>3, <2>4
<1>3. InWork(x)' = InWork(x) /\ InRings(x)' = InRings(x)
    BY DEF InWork, InRings
<1> QED
    BY <1>2, <1>3, PlacesCount

\* What one step may do to the places of a task.
Accounted(x) == Places(x)' = Places(x) \/ (Places(x) = 0 /\ Places(x)' = 1)

LEMMA StepAccounts ==
    ASSUME CallsTyped, WorkersTyped, NEW x \in Tasks, Places(x) <= 1, [Next]_vars
    PROVE  Accounted(x)
<1> USE DEF Accounted, WorkersTyped
<1>0. Main \in Threads /\ Main \in All /\ Workers \subseteq All
    BY DEF Threads, All
<1>1. CASE Start
    BY <1>1, NothingMoves DEF Start, Fixed, endVars
<1>2. CASE Started
    BY <1>2, NothingMoves DEF Started, Fixed, workVars, endVars
<1>3. CASE Changed
    BY <1>3, NothingMoves DEF Changed, Fixed, workVars, endVars
<1>4. CASE StopSelf
    <2>1. /\ timers' = {} /\ dropped' = dropped \cup timers
          /\ UNCHANGED <<job, busy, ring, done, undefined>>
        BY <1>4 DEF StopSelf, Fixed
    <2>2. InHands(x)' = InHands(x) /\ InWork(x)' = InWork(x) /\ InRings(x)' = InRings(x)
        BY <2>1 DEF InHands, InWork, InRings
    <2>3. Ends(x) <= 1
        BY PlacesCount
    <2>4. Ends(x)' = Ends(x)
        BY <2>1, <2>3 DEF Ends
    <2> QED
        BY <2>2, <2>4, PlacesCount
<1>5. CASE Stopped
    BY <1>5, NothingMoves DEF Stopped, Fixed, endVars
<1>6. ASSUME NEW w \in Workers, StopOther(w)
      PROVE  Accounted(x)
    BY <1>6, NothingMoves DEF StopOther, Fixed, endVars
<1>7. CASE MainTake
    <2>1. busy[Main] = NoJob
        BY <1>7 DEF MainTake, BusyTyped
    <2> QED
        BY <1>0, <1>7, <2>1, RingToWork DEF MainTake, Fixed, endVars
<1>8. CASE MainGrow
    <2>1. busy[Main].of \notin Tasks
        <3>1. busy[Main] \in Jobs \cup {NoJob} /\ busy[Main].kind \in {"grow", "shrink"}
            BY <1>0, <1>8 DEF MainGrow, BusyTyped
        <3> QED
            BY <3>1, PoolAssumption DEF Jobs, TaskJobs, WorkJobs, NoJob
    <2> QED
        BY <1>0, <1>8, <2>1, RequestEnds DEF MainGrow, MainDone, Fixed, endVars
<1>9. CASE MainShrink
    <2>1. busy[Main].of \notin Tasks
        <3>1. busy[Main] \in Jobs \cup {NoJob} /\ busy[Main].kind \in {"grow", "shrink"}
            BY <1>0, <1>9 DEF MainShrink, BusyTyped
        <3> QED
            BY <3>1, PoolAssumption DEF Jobs, TaskJobs, WorkJobs, NoJob
    <2>2. CASE busy[Main].of \in list
        BY <1>9, <2>2, NothingMoves DEF MainShrink, Fixed, endVars
    <2>3. CASE busy[Main].of \notin list
        BY <1>0, <1>9, <2>1, <2>3, RequestEnds DEF MainShrink, MainDone, Fixed, endVars
    <2> QED
        BY <2>2, <2>3
<1>10. CASE ShrinkStop
    BY <1>10, NothingMoves DEF ShrinkStop, Fixed, endVars
<1>11. CASE MainDelay
    <2>1. /\ busy' = [busy EXCEPT ![Main] = NoJob] /\ UNCHANGED <<job, ring>>
          /\ EndUp(busy[Main].of)
        BY <1>11 DEF MainDelay, MainDone, Fixed, endVars, EndUp
    <2> QED
        BY <1>0, <2>1, WorkEnds
<1>12. ASSUME NEW y \in Tasks, Fire(y)
      PROVE  Accounted(x)
    <2>1. /\ y \in timers /\ at[Main] \notin Calling /\ timers' = timers \ {y}
          /\ job' = [job EXCEPT ![Main] = [kind |-> "task", of |-> y]]
          /\ UNCHANGED <<busy, ring, done, dropped, undefined>>
        BY <1>12 DEF Fire, Calling, endVars
    <2>2. Ends(x)' = Ends(x) - (IF x = y THEN 1 ELSE 0)
        BY <2>1 DEF Ends
    <2>3. Places(x)' = Places(x) + (IF x = y THEN 1 ELSE 0) + Ends(x)' - Ends(x)
        BY <1>0, <2>1, HandBegins
    <2> QED
        BY <2>2, <2>3, PlacesCount
<1>13. CASE Stop
    BY <1>13, NothingMoves DEF Stop, Fixed, workVars, endVars
<1>14. ASSUME NEW t \in Threads, Ensure(t)
      PROVE  Accounted(x)
    BY <1>14, NothingMoves DEF Ensure, Fixed, workVars, endVars
<1>15. ASSUME NEW t \in Threads, Await(t)
      PROVE  Accounted(x)
    BY <1>15, NothingMoves DEF Await, Fixed, workVars, endVars
<1>16. ASSUME NEW t \in Threads, Check(t)
      PROVE  Accounted(x)
    <2>1. CASE stopped
        <3>1. Finish(t) /\ UNCHANGED <<busy, ring>> /\ EndUp(job[t].of)
            BY <1>16, <2>1 DEF Check, Drop, workVars, EndUp
        <3> QED
            BY <3>1, HandEnds
    <2>2. CASE ~ stopped
        BY <1>16, <2>2, NothingMoves DEF Check, workVars
    <2> QED
        BY <2>1, <2>2
<1>17. ASSUME NEW t \in Threads, Schedule(t)
      PROVE  Accounted(x)
    <2>1. CASE halted
        <3>1. Finish(t) /\ UNCHANGED <<busy, ring>> /\ EndUp(job[t].of)
            BY <1>17, <2>1 DEF Schedule, Drop, workVars, EndUp
        <3> QED
            BY <3>1, HandEnds
    <2>2. CASE ~ halted
        BY <1>17, <2>2, NothingMoves DEF Schedule, workVars
    <2> QED
        BY <2>1, <2>2
<1>18. ASSUME NEW t \in Threads, Pick(t)
      PROVE  Accounted(x)
    BY <1>18, NothingMoves DEF Pick, workVars, endVars
<1>19. ASSUME NEW t \in Threads, Grow(t)
      PROVE  Accounted(x)
    BY <1>19, NothingMoves DEF Grow, Fixed, workVars, endVars
<1>20. ASSUME NEW t \in Threads, GrowPut(t)
      PROVE  Accounted(x)
    <2> DEFINE j == [kind |-> "grow", of |-> target[t]]
    <2>1. j \in Jobs /\ j.of \notin Tasks
        BY <1>20, PoolAssumption DEF GrowPut, CallsTyped, Jobs, WorkJobs
    <2> QED
        BY <1>0, <1>20, <2>1, RequestBegins DEF GrowPut, endVars
<1>21. ASSUME NEW t \in Threads, NEW w \in Workers, GrowTask(t, w)
      PROVE  Accounted(x)
    BY <1>21, NothingMoves DEF GrowTask, endVars
<1>22. ASSUME NEW w \in Workers, GrowSelf(w)
      PROVE  Accounted(x)
    BY <1>22, NothingMoves DEF GrowSelf, Fixed, endVars
<1>23. ASSUME NEW t \in Threads, Try(t)
      PROVE  Accounted(x)
    BY <1>23, NothingMoves DEF Try, Fixed, endVars
<1>24. ASSUME NEW t \in Threads, TryPut(t)
      PROVE  Accounted(x)
    <2>1. job[t] \in Jobs /\ target[t] \in All
        BY <1>24, JobTyped DEF TryPut, CallsTyped, Calling
    <2>2. CASE Len(ring[target[t]]) < Size
        <3>1. /\ ring' = [ring EXCEPT ![target[t]] = Append(@, job[t])] /\ Finish(t)
              /\ UNCHANGED <<busy, timers, done, dropped, undefined>>
            BY <1>24, <2>2 DEF TryPut, endVars
        <3> QED
            BY <2>1, <2>2, <3>1, HandToRing
    <2>3. CASE ~ (Len(ring[target[t]]) < Size)
        BY <1>24, <2>3, NothingMoves DEF TryPut, endVars
    <2> QED
        BY <2>2, <2>3
<1>25. ASSUME NEW t \in Threads, TrySelf(t)
      PROVE  Accounted(x)
    <2>1. CASE off[t]
        BY <1>25, <2>1, NothingMoves DEF TrySelf, endVars
    <2>2. CASE ~ off[t]
        <3>1. Finish(t) /\ UNCHANGED <<busy, ring>> /\ EndUp(job[t].of)
            BY <1>25, <2>2 DEF TrySelf, endVars, EndUp
        <3> QED
            BY <3>1, HandEnds
    <2> QED
        BY <2>1, <2>2
<1>26. ASSUME NEW t \in Threads, NEW p \in Policies, Reject(t, p)
      PROVE  Accounted(x)
    <2>1. at[t] \in Calling /\ UNCHANGED <<busy, ring, timers, done>>
        BY <1>26, RejectChoices DEF workVars, Calling
    <2>2. CASE Finish(t) /\ EndUp(job[t].of)
        BY <2>1, <2>2, HandEnds
    <2>3. CASE UNCHANGED <<job, dropped, undefined>>
        BY <2>1, <2>3, NothingMoves
    <2>4. CASE job' = [job EXCEPT ![t].kind = "later"] /\ UNCHANGED <<dropped, undefined>>
        <3>1. job' = [job EXCEPT ![t] = [job[t] EXCEPT !.kind = "later"]]
            BY <2>4 DEF CallsTyped
        <3>2. job[t] \in TaskJobs
            BY <2>1, JobTyped
        <3>3. [job[t] EXCEPT !.kind = "later"].of = job[t].of
            BY <3>2 DEF TaskJobs
        <3> DEFINE j == [job[t] EXCEPT !.kind = "later"]
        <3>4. Cardinality(InHands(x)') = Cardinality(InHands(x))
            <4> HIDE DEF j
            <4>1. Cardinality(InHands(x)') = Cardinality(InHands(x))
                      - (IF job[t].of = x THEN 1 ELSE 0) + (IF j.of = x THEN 1 ELSE 0)
                <5>1. PICK k : k = j
                    OBVIOUS
                <5>2. job'[t] = k /\ \A u \in Threads \ {t} : job'[u] = job[u]
                    BY <3>1, <5>1 DEF j, CallsTyped
                <5>3. Cardinality(InHands(x)') = Cardinality(InHands(x))
                          - (IF job[t].of = x THEN 1 ELSE 0) + (IF k.of = x THEN 1 ELSE 0)
                    BY <5>2, HandSwaps
                <5> QED
                    BY <5>1, <5>3
            <4>2. j.of = job[t].of /\ Cardinality(InHands(x)) \in Nat
                BY <3>3, PlacesCount DEF j
            <4> QED
                BY <4>1, <4>2
        <3>5. InWork(x)' = InWork(x) /\ InRings(x)' = InRings(x) /\ Ends(x)' = Ends(x)
            BY <2>1, <2>4 DEF InWork, InRings, Ends
        <3> QED
            BY <3>4, <3>5, PlacesCount
    <2> QED
        BY <1>26, <2>1, <2>2, <2>3, <2>4, RejectChoices DEF Drop, EndUp
<1>27. ASSUME NEW t \in Threads, Accept(t)
      PROVE  Accounted(x)
    <2>1. CASE off[target[t]] \/ target[t] = t
        <3>1. Finish(t) /\ UNCHANGED <<busy, ring>> /\ EndUp(job[t].of)
            BY <1>27, <2>1 DEF Accept, Drop, EndUp
        <3> QED
            BY <3>1, HandEnds
    <2>2. CASE ~ off[target[t]] /\ target[t] # t
        BY <1>27, <2>2, NothingMoves DEF Accept
    <2> QED
        BY <2>1, <2>2
<1>28. ASSUME NEW t \in Threads, Enqueue(t)
      PROVE  Accounted(x)
    <2>1. job[t] \in Jobs /\ target[t] \in All
        BY <1>28, JobTyped DEF Enqueue, CallsTyped, Calling
    <2>2. /\ ring' = [ring EXCEPT ![target[t]] = Append(@, job[t])] /\ Finish(t)
          /\ UNCHANGED <<busy, timers, done, dropped, undefined>> /\ Len(ring[target[t]]) < Size
        BY <1>28 DEF Enqueue, endVars
    <2> QED
        BY <2>1, <2>2, HandToRing
<1>29. ASSUME NEW t \in Threads, NEW y \in Tasks, Launch(t, y)
      PROVE  Accounted(x)
    <2>1. /\ Places(y) = 0 /\ at[t] \notin Calling
          /\ job' = [job EXCEPT ![t] = [kind |-> "task", of |-> y]]
          /\ UNCHANGED <<busy, ring, timers, done, dropped, undefined>>
        BY <1>29 DEF Launch, Calling, workVars, endVars
    <2>2. Ends(x)' = Ends(x)
        BY <2>1 DEF Ends
    <2>3. Places(x)' = Places(x) + (IF x = y THEN 1 ELSE 0) + Ends(x)' - Ends(x)
        BY <2>1, HandBegins
    <2>4. Places(x)' = Places(x) + (IF x = y THEN 1 ELSE 0)
        BY <2>2, <2>3, PlacesCount
    <2>5. x = y => Places(x) = 0
        BY <2>1
    <2> QED
        BY <2>4, <2>5, PlacesCount
<1>30. ASSUME NEW w \in Workers, Dequeue(w)
      PROVE  Accounted(x)
    <2>1. w \in All
        BY <1>0
    <2> QED
        BY <1>30, <2>1, RingToWork DEF Dequeue, callVars, endVars
<1>31. ASSUME NEW w \in Workers, Process(w)
      PROVE  Accounted(x)
    <2>1. /\ busy' = [busy EXCEPT ![w] = NoJob] /\ UNCHANGED <<job, ring>>
          /\ EndUp(busy[w].of)
        BY <1>31 DEF Process, callVars, EndUp
    <2> QED
        BY <1>0, <2>1, WorkEnds
<1>32. ASSUME NEW w \in Workers, Asked(w)
      PROVE  Accounted(x)
    <2>1. ShrinkTask(w) \in Jobs /\ ShrinkTask(w).of \notin Tasks
        BY PoolAssumption DEF ShrinkTask, Jobs, WorkJobs
    <2>2. UNCHANGED <<job, busy, timers, done, dropped, undefined>>
        BY <1>32, AskedChoices
    <2>3. CASE UNCHANGED ring
        <3>1. Places(x)' = Places(x)
            BY <2>2, <2>3, NothingMoves
        <3> QED
            BY <3>1
    <2>4. CASE /\ Len(ring[Main]) < Size
               /\ ring' = [ring EXCEPT ![Main] = Append(@, ShrinkTask(w))]
        <3>1. Places(x)' = Places(x)
            BY <1>0, <2>1, <2>2, <2>4, RequestBegins
        <3> QED
            BY <3>1
    <2> QED
        BY <1>32, <2>3, <2>4, AskedChoices
<1>33. CASE UNCHANGED vars
    BY <1>33, NothingMoves DEF vars, callVars, workVars, endVars
<1> QED
    BY <1>1, <1>2, <1>3, <1>4, <1>5, <1>6, <1>7, <1>8, <1>9, <1>10, <1>11, <1>12, <1>13,
       <1>14, <1>15, <1>16, <1>17, <1>18, <1>19, <1>20, <1>21, <1>22, <1>23, <1>24, <1>25,
       <1>26, <1>27, <1>28, <1>29, <1>30, <1>31, <1>32, <1>33
    DEF Next, MainStep, CallStep, WorkerStep, Asked


LEMMA OnceInitially ==
    ASSUME Init
    PROVE  Once
<1> SUFFICES ASSUME NEW x \in Tasks
             PROVE  Places(x) <= 1
    BY DEF Once
<1>1. NoJob.of # x
    BY Nobody
<1>2. InHands(x) = {} /\ InWork(x) = {}
    BY <1>1 DEF Init, InHands, InWork
<1>3. InRings(x) = {}
    <2> SUFFICES ASSUME NEW s \in InRings(x)
                 PROVE  FALSE
        OBVIOUS
    <2>1. s[1] \in All /\ s[2] \in 1..Size /\ s[2] <= Len(ring[s[1]])
        BY DEF InRings
    <2>2. ring[s[1]] = <<>>
        BY <2>1 DEF Init
    <2>3. Len(ring[s[1]]) = 0
        BY <2>2, EmptySeq
    <2> QED
        BY <2>1, <2>3
<1>4. Ends(x) = 0
    BY DEF Init, Ends
<1> QED
    BY <1>2, <1>3, <1>4, PlacesCount, FS_EmptySet

LEMMA OnceKeeps ==
    ASSUME CallsTyped, WorkersTyped, Once, [Next]_vars
    PROVE  Once' /\ \A x \in Tasks : Places(x)' = 1 \/ Places(x) + Places(x)' = 0
<1> SUFFICES ASSUME NEW x \in Tasks
             PROVE  Places(x)' <= 1 /\ (Places(x)' = 1 \/ Places(x) + Places(x)' = 0)
    BY DEF Once
<1>1. Places(x) \in Nat /\ Places(x)' \in Nat
    BY PlacesCount
<1>2. Places(x) <= 1
    BY DEF Once
<1>3. Accounted(x)
    BY <1>2, StepAccounts
<1> QED
    BY <1>1, <1>2, <1>3 DEF Accounted
-----------------------------------------------------------------------------
(* The theorems.                                                           *)

Invariant == CallsTyped /\ WorkersTyped /\ AskingTyped /\ Phases /\ WorkersListed /\ CountersAgree /\ Once

LEMMA InvariantInitially ==
    ASSUME Init
    PROVE  Invariant
<1> USE DEF Init
<1>1. CallsTyped
    BY PoolAssumption DEF CallsTyped, Calling, MainOnly, Threads, NoJob
<1>2. WorkersTyped
    <2>1. CountsTyped
        BY DEF CountsTyped
    <2>2. RingsTyped
        <3>1. <<>> \in Seq(Jobs) /\ <<>> \in Seq(TaskJobs) /\ Len(<<>>) = 0 /\ 0 <= Size
            BY EmptySeq, PoolAssumption
        <3> QED
            BY <3>1 DEF RingsTyped, All
    <2>3. BusyTyped
        BY DEF BusyTyped, All
    <2> QED
        BY <2>1, <2>2, <2>3 DEF WorkersTyped
<1>3. Phases /\ WorkersListed
    BY DEF Phases, WorkersListed, Threads
<1>4. CountersAgree
    <2>1. \A w \in All : Handing(w) = {}
        BY DEF Handing, Threads
    <2>2. Total(tasks, All) = 0
        BY Finiteness, TotalOfZeros
    <2>3. ASSUME NEW w \in All
          PROVE  Agrees(w)
        <3>1. tasks[w] = 0 /\ ring[w] = <<>> /\ Has(w) = 0
            BY DEF Has
        <3>2. Len(ring[w]) = 0 /\ Cardinality(Handing(w)) = 0
            BY <2>1, <3>1, FS_EmptySet, EmptySeq
        <3> QED
            BY <3>1, <3>2 DEF Agrees
    <2> QED
        BY <2>2, <2>3, CountersAreAgreement
<1>5. Once
    BY OnceInitially
<1>6. AskingTyped
    BY DEF AskingTyped
<1> QED
    BY <1>1, <1>2, <1>3, <1>4, <1>5, <1>6 DEF Invariant

LEMMA InvariantKeeps ==
    ASSUME Invariant, [Next]_vars
    PROVE  Invariant'
<1>1. CallsTyped'
    BY CallsKeep DEF Invariant
<1>2. WorkersTyped'
    BY WorkersKeep DEF Invariant
<1>3. Phases' /\ WorkersListed'
    BY PhasesKeep DEF Invariant, WorkersTyped
<1>4. CountersAgree'
    BY CountersKeep DEF Invariant, WorkersTyped, Base
<1>5. Once'
    BY OnceKeeps DEF Invariant
<1>6. AskingTyped'
    BY AskingKeeps DEF Invariant
<1> QED
    BY <1>1, <1>2, <1>3, <1>4, <1>5, <1>6 DEF Invariant

LEMMA InvariantHolds == Spec => []Invariant
BY InvariantInitially, InvariantKeeps, PTL DEF Spec

\* What the pool's decisions rest on is true in every state: the counters are the tasks that
\* are there, and the list is the workers that are started.
THEOREM BooksAreTrue == Spec => []Bookkeeping
<1>1. Invariant => Bookkeeping
    BY DEF Invariant, Bookkeeping
<1> QED
    BY <1>1, InvariantHolds, PTL


\* No task is lost or kept twice on its way: from the call that launches it on it is in exactly
\* one place, in the hands of a thread, in a ring, with a worker, among the timers, or ended.
THEOREM TasksAreAccounted == Spec => TasksAccounted
<1>1. Invariant /\ [Next]_vars
          => [\A x \in Tasks : Places(x)' = 1 \/ Places(x) + Places(x)' = 0]_vars
    BY OnceKeeps DEF Invariant
<1> QED
    BY <1>1, InvariantHolds, PTL DEF Spec, TasksAccounted
=============================================================================
