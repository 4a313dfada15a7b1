---------------------------- MODULE Signals_proofs ----------------------------
(***************************************************************************)
(* That listeners of a queued signal hear envelopes in order, and that     *)
(* muted and closed handles are obeyed, for any threads, handles,          *)
(* specifiers, flags and bounds.                                           *)
(***************************************************************************)
EXTENDS Signals, SequenceTheorems, FiniteSetTheorems, WellFoundedInduction, TLAPS

-----------------------------------------------------------------------------
(* Induction over a set of numbers, from the order on them.                *)

LEMMA Least ==
    ASSUME NEW T, T \subseteq Nat, T # {}
    PROVE  \E n \in T : \A m \in T : n <= m
<1>1. PICK n \in T : \A m \in T : ~ (<<m, n>> \in OpToRel(<, Nat))
    BY NatLessThanWellFounded, WFMin
<1>2. \A m \in T : ~ (m < n)
    BY <1>1 DEF OpToRel
<1> QED
    BY <1>2

LEMMA Induction ==
    ASSUME NEW S, 0 \in S, \A n \in Nat : n \in S => n + 1 \in S
    PROVE  Nat \subseteq S
<1>1. SUFFICES ASSUME Nat \ S # {} PROVE FALSE
    OBVIOUS
<1>2. PICK n \in Nat \ S : \A m \in Nat \ S : n <= m
    BY <1>1, Least
<1>3. n # 0 /\ n - 1 \in Nat /\ n - 1 \in S /\ (n - 1) + 1 = n
    BY <1>2
<1> QED
    BY <1>2, <1>3

-----------------------------------------------------------------------------
(* Lists: what Among takes out of one.                                     *)

Injective(s) == \A i, j \in 1..Len(s) : s[i] = s[j] => i = j
Elements(s) == {s[i] : i \in 1..Len(s)}

UpTo(list, S, n, f) ==
    f = [i \in 0..n |-> IF i = 0 THEN <<>>
                        ELSE IF list[i] \in S THEN Append(f[i - 1], list[i]) ELSE f[i - 1]]

LEMMA UpToExists ==
    ASSUME NEW list, NEW S
    PROVE  \A n \in Nat : \E f : UpTo(list, S, n, f)
<1> DEFINE T == {n \in Nat : \E f : UpTo(list, S, n, f)}
<1>1. 0 \in T
    <2>1. UpTo(list, S, 0, [i \in 0..0 |-> <<>>])
        BY DEF UpTo
    <2> QED
        BY <2>1
<1>2. ASSUME NEW n \in Nat, n \in T
      PROVE  n + 1 \in T
    <2>1. PICK f : UpTo(list, S, n, f)
        BY <1>2
    <2> DEFINE last == IF list[n + 1] \in S THEN Append(f[n], list[n + 1]) ELSE f[n]
               g == [i \in 0..(n + 1) |-> IF i = n + 1 THEN last ELSE f[i]]
    <2>2. g = [i \in 0..(n + 1) |-> g[i]] /\ g[n + 1] = last /\ \A i \in 0..n : g[i] = f[i]
        OBVIOUS
    <2> HIDE DEF g
    <2>3. ASSUME NEW i \in 0..(n + 1)
          PROVE  g[i] = IF i = 0 THEN <<>>
                        ELSE IF list[i] \in S THEN Append(g[i - 1], list[i]) ELSE g[i - 1]
        <3>1. CASE i = n + 1
            <4>1. i # 0 /\ i - 1 = n /\ g[i - 1] = f[n] /\ g[i] = last
                BY <2>2, <3>1
            <4>2. last = IF list[i] \in S THEN Append(g[i - 1], list[i]) ELSE g[i - 1]
                BY <3>1, <4>1
            <4> QED
                BY <4>1, <4>2
        <3>2. CASE i # n + 1
            <4>1. i \in 0..n /\ (i # 0 => i - 1 \in 0..n)
                BY <3>2
            <4>2. f[i] = IF i = 0 THEN <<>>
                         ELSE IF list[i] \in S THEN Append(f[i - 1], list[i]) ELSE f[i - 1]
                BY <2>1, <4>1 DEF UpTo
            <4> QED
                BY <2>2, <4>1, <4>2
        <3> QED
            BY <3>1, <3>2
    <2>4. UpTo(list, S, n + 1, g)
        BY <2>2, <2>3 DEF UpTo
    <2> QED
        BY <2>4
<1> HIDE DEF T
<1>3. Nat \subseteq T
    BY <1>1, <1>2, Induction
<1> QED
    BY <1>3 DEF T

\* What is taken is what is in S, in a list without repetitions each once.
LEMMA AmongProperties ==
    ASSUME NEW A, NEW list \in Seq(A), NEW S
    PROVE  /\ Among(list, S) \in Seq(A)
           /\ Elements(Among(list, S)) = Elements(list) \cap S
           /\ Injective(list) => Injective(Among(list, S))
<1> DEFINE f == CHOOSE f : UpTo(list, S, Len(list), f)
<1>1. Among(list, S) = f[Len(list)]
    BY DEF Among, UpTo
<1>2. Len(list) \in Nat /\ UpTo(list, S, Len(list), f)
    BY UpToExists, LenProperties
<1> HIDE DEF f
<1> DEFINE Holds(i) == /\ f[i] \in Seq(A)
                       /\ Elements(f[i]) = {list[j] : j \in 1..i} \cap S
                       /\ Injective(list) => Injective(f[i])
           T == {i \in Nat : i <= Len(list) => Holds(i)}
<1>3. 0 \in T
    <2>1. f[0] = <<>>
        BY <1>2 DEF UpTo
    <2>2. Holds(0)
        BY <2>1 DEF Elements, Injective
    <2> QED
        BY <2>2
<1>4. ASSUME NEW i \in Nat, i \in T
      PROVE  i + 1 \in T
    <2> SUFFICES ASSUME i + 1 <= Len(list) PROVE Holds(i + 1)
        BY <1>2
    <2>1. Holds(i) /\ i + 1 \in 1..Len(list) /\ list[i + 1] \in A
        BY <1>2, <1>4, ElementOfSeq
    <2>2. f[i + 1] = IF list[i + 1] \in S THEN Append(f[i], list[i + 1]) ELSE f[i]
        <3> HIDE DEF Holds
        <3>1. /\ i + 1 \in 0..Len(list) /\ i + 1 # 0 /\ (i + 1) - 1 = i
            BY <1>2, <2>1
        <3>0. f = [j \in 0..Len(list) |-> IF j = 0 THEN <<>>
                        ELSE IF list[j] \in S THEN Append(f[j - 1], list[j]) ELSE f[j - 1]]
            BY <1>2 DEF UpTo
        <3>2. f[i + 1] = IF list[i + 1] \in S THEN Append(f[(i + 1) - 1], list[i + 1])
                         ELSE f[(i + 1) - 1]
            BY <3>0, <3>1
        <3> QED
            BY <3>1, <3>2
    <2>3. {list[j] : j \in 1..(i + 1)} = {list[j] : j \in 1..i} \cup {list[i + 1]}
        BY <2>1
    <2>4. CASE list[i + 1] \notin S
        <3>1. f[i + 1] = f[i]
            BY <2>2, <2>4
        <3> QED
            BY <2>1, <2>3, <2>4, <3>1
    <2>5. CASE list[i + 1] \in S
        <3> DEFINE g == f[i + 1]
        <3>1. /\ g \in Seq(A) /\ Len(g) = Len(f[i]) + 1 /\ Len(f[i]) \in Nat
              /\ \A j \in 1..Len(f[i]) : g[j] = f[i][j]
              /\ g[Len(g)] = list[i + 1]
            BY <2>1, <2>2, <2>5, AppendProperties, LenProperties
        <3> HIDE DEF g
        <3>2. 1..Len(g) = 1..Len(f[i]) \cup {Len(g)}
            BY <3>1
        <3>3. Elements(g) = Elements(f[i]) \cup {list[i + 1]}
            BY <3>1, <3>2 DEF Elements
        <3>4. ASSUME Injective(list)
              PROVE  Injective(g)
            <4>1. list[i + 1] \notin Elements(f[i])
                <5>1. \A j \in 1..i : list[j] # list[i + 1]
                    BY <1>2, <2>1, <3>4 DEF Injective
                <5> QED
                    BY <2>1, <5>1
            <4>2. Injective(f[i])
                BY <2>1, <3>4
            <4> QED
                BY <3>1, <3>2, <4>1, <4>2 DEF Injective, Elements
        <3> QED
            BY <2>1, <2>3, <2>5, <3>1, <3>3, <3>4 DEF g
    <2> QED
        BY <2>4, <2>5
<1> HIDE DEF T
<1>5. Nat \subseteq T
    BY <1>3, <1>4, Induction
<1> HIDE DEF Holds
<1>6. Holds(Len(list))
    <2>1. Len(list) \in T
        BY <1>2, <1>5
    <2> QED
        BY <1>2, <2>1 DEF T
<1> USE DEF Holds
<1> QED
    BY <1>1, <1>6 DEF Elements

-----------------------------------------------------------------------------
(* The types, and how many threads and tasks are about.                    *)

Flags == {"Async", "Deferred", "Combine", "DropIfFull"}
Sent == [id : Nat, dispatch : Keys \cup {Generic}]
Applying == {"apply", "check", "invoke"}
Queuing == {"enqueue", "evict", "evicting", "release", "schedule"}
TriggerAt == {"idle"} \cup Applying \cup Queuing
DrainAt == {"idle", "launched", "pending", "dequeue", "take", "clear", "recheck", "retry"} \cup Applying

Typed ==
    /\ registered \in BOOLEAN /\ flags \subseteq Flags /\ isQueued \in BOOLEAN
    /\ listening \in Seq(Handles) /\ held \in [Handles -> BOOLEAN]
    /\ hstate \in [Handles -> {"none", "Active", "Muted", "Inactive"}]
    /\ queue \in Seq(Sent) /\ available \in Nat
    /\ pc \in [Runners -> TriggerAt \cup DrainAt]
    /\ \A t \in Triggers : pc[t] \in TriggerAt
    /\ \A d \in Drains : pc[d] \in DrainAt
    /\ env \in [Runners -> Sent] /\ todo \in [Runners -> Seq(Handles)]
    /\ \A r \in Runners : pc[r] = "invoke" => todo[r] # <<>>
    /\ sent \in 0..MaxTriggers /\ entered \in Nat
    /\ delivered \in [Handles -> Seq(Nat)] /\ failed \in BOOLEAN

\* A trigger that queues, or the drain it launched, stands for one call that was made.
Works(r, l) == IF r \in Triggers THEN l \in Queuing ELSE l # "idle"
Working == {r \in Runners : Works(r, pc[r])}
Counted == IsFiniteSet(Working) /\ Cardinality(Working) <= sent

Fresh == sent = 0 => /\ \A r \in Runners : pc[r] = "idle"
                     /\ queue = <<>> /\ entered = 0
                     /\ \A h \in Handles : delivered[h] = <<>>
Modes == \A t \in Triggers : IF Queued THEN pc[t] \notin Applying ELSE pc[t] \notin Queuing

Basics == Typed /\ Counted /\ Fresh /\ Modes

LEMMA Threads ==
    /\ Runners = Triggers \cup Drains /\ Triggers \cap Drains = {} /\ Drains = 1..MaxTriggers
    /\ MaxTriggers \in Nat
BY ThreadAssumption, BoundAssumption DEF Runners, Drains

\* What the next step may be.
LEMMA StepKinds ==
    ASSUME Next
    PROVE  \/ OwnerStep
           \/ \E t \in Triggers, d \in Keys \cup {Generic} : Trigger(t, d)
           \/ \E r \in Runners : Apply(r)
           \/ \E t \in Triggers : \/ Enqueue(t) \/ Refused(t) \/ Evict(t) \/ Evicted(t)
                                  \/ Published(t) \/ ScheduleDrain(t)
           \/ \E d \in Drains : \/ Start(d) \/ Pending(d) \/ Dequeue(d) \/ Take(d)
                                \/ Clear(d) \/ Recheck(d) \/ Retry(d)
<1>1. Specifiers \in [Triggers -> SUBSET (Keys \cup {Generic})]
    BY DispatchAssumption
<1> QED
    BY <1>1 DEF Next, TriggerStep, DrainStep, Runners

LEMMA GotoCounts ==
    ASSUME Basics, NEW r \in Runners, NEW l, Goto(r, l), sent' = sent,
           Works(r, l) => Works(r, pc[r])
    PROVE  Counted'
<1>1. Working' \subseteq Working
    BY DEF Working, Goto, Basics, Typed
<1> QED
    BY <1>1, FS_Subset, FS_CardinalityType DEF Counted, Basics, Typed

\* Who schedules finds a task that nobody uses.
LEMMA LaunchFinds ==
    ASSUME Basics, NEW t \in Triggers, pc[t] = "schedule"
    PROVE  \E d \in Drains : pc[d] = "idle"
<1>1. SUFFICES ASSUME \A d \in Drains : pc[d] # "idle" PROVE FALSE
    OBVIOUS
<1>2. Drains \cup {t} \subseteq Working
    BY <1>1, Threads DEF Working, Works, Queuing
<1>3. IsFiniteSet(Drains) /\ Cardinality(Drains) = MaxTriggers
    BY Threads, FS_Interval
<1>4. t \notin Drains
    BY Threads
<1>5. Cardinality(Drains \cup {t}) = MaxTriggers + 1 /\ IsFiniteSet(Drains \cup {t})
    BY <1>3, <1>4, FS_AddElement
<1>6. Cardinality(Drains \cup {t}) <= Cardinality(Working) /\ Cardinality(Working) \in Nat
    BY <1>2, FS_Subset, FS_CardinalityType DEF Basics, Counted
<1> QED
    BY <1>5, <1>6, Threads DEF Basics, Counted, Typed

LEMMA LaunchCounts ==
    ASSUME Basics, NEW t \in Triggers, pc[t] = "schedule", Launch(t), sent' = sent
    PROVE  \E d \in Drains : /\ pc[d] = "idle"
                             /\ pc' = [pc EXCEPT ![t] = "idle", ![d] = "launched"]
                             /\ Counted'
<1> DEFINE d == CHOOSE d \in Drains : pc[d] = "idle"
<1>1. d \in Drains /\ pc[d] = "idle"
    BY LaunchFinds
<1>2. pc' = [pc EXCEPT ![t] = "idle", ![d] = "launched"]
    BY DEF Launch
<1> HIDE DEF d
<1>3. d # t /\ d \in Runners /\ t \in Runners /\ d \notin Triggers
    BY <1>1, Threads
<1>4. Working' = (Working \ {t}) \cup {d} /\ t \in Working /\ d \notin Working
    BY <1>1, <1>2, <1>3 DEF Working, Works, Queuing, Basics, Typed
<1>5. IsFiniteSet(Working') /\ Cardinality(Working') = Cardinality(Working)
    <2>1. IsFiniteSet(Working \ {t}) /\ Cardinality(Working \ {t}) = Cardinality(Working) - 1
        BY <1>4, FS_RemoveElement DEF Basics, Counted
    <2> QED
        BY <1>4, <2>1, FS_AddElement, FS_CardinalityType DEF Basics, Counted
<1> QED
    BY <1>1, <1>2, <1>5 DEF Basics, Counted

LEMMA OwnerBasics ==
    ASSUME Basics, OwnerStep
    PROVE  Basics'
<1>1. UNCHANGED <<ringVars, isQueued, pc, runVars, logVars>>
    BY DEF OwnerStep, Register, Disconnect, Listen, SetState, Close, Release
<1>2. Typed'
    <2>1. ASSUME NEW f \in FlagSets, Register(f)
          PROVE  Typed'
        BY <2>1, FlagAssumption DEF Register, Basics, Typed, Flags, handleVars, ringVars, runVars, logVars
    <2>2. CASE Disconnect
        BY <2>2 DEF Disconnect, Basics, Typed, handleVars, ringVars, runVars, logVars
    <2>3. ASSUME NEW h \in Handles, Listen(h)
          PROVE  Typed'
        BY <2>3 DEF Listen, Basics, Typed, ringVars, runVars, logVars
    <2>4. ASSUME NEW h \in Handles, SetState(h, "Muted") \/ SetState(h, "Active") \/ Close(h) \/ Release(h)
          PROVE  Typed'
        BY <2>4 DEF SetState, Close, Release, Basics, Typed, ringVars, runVars, logVars
    <2> QED
        BY <2>1, <2>2, <2>3, <2>4 DEF OwnerStep
<1>3. Counted' /\ Fresh'
    BY <1>1 DEF Basics, Counted, Working, Fresh, ringVars, logVars
<1>4. Modes'
    <2>1. ASSUME NEW f \in FlagSets, Register(f)
          PROVE  Modes'
        BY <1>1, <2>1 DEF Register, Basics, Fresh, Modes, Queued, Applying, Queuing, Runners
    <2>2. CASE flags' = flags
        BY <1>1, <2>2 DEF Basics, Modes, Queued
    <2> QED
        BY <2>1, <2>2 DEF OwnerStep, Disconnect, Listen, SetState, Close, Release
<1> QED
    BY <1>2, <1>3, <1>4 DEF Basics

LEMMA ApplyBasics ==
    ASSUME Basics, NEW r \in Runners, Apply(r)
    PROVE  Basics'
<1> USE DEF Applying, Queuing, TriggerAt, DrainAt
<1>1. pc[r] \in Applying /\ sent # 0 /\ sent' = sent /\ flags' = flags
    BY DEF Apply, Collect, Check, Invoke, InvokeThrows, Applied, Basics, Fresh, logVars
<1>2. \E l \in TriggerAt \cup DrainAt :
          /\ pc' = [pc EXCEPT ![r] = l]
          /\ r \in Triggers => l \in {"idle"} \cup Applying
          /\ r \in Drains => l \in DrainAt
    BY Threads DEF Apply, Collect, Check, Invoke, InvokeThrows, Applied, Goto, Basics, Typed
<1>3. Typed'
    <2>1. CASE Collect(r)
        <3>1. listening' \in Seq(Handles) /\ todo' \in [Runners -> Seq(Handles)]
            BY <2>1, AmongProperties, ConcatProperties DEF Collect, Basics, Typed
        <3> QED
            BY <2>1, <3>1, <1>2, Threads DEF Collect, Basics, Typed, ringVars, logVars, Goto
    <2>2. CASE Check(r)
        <3>1. Tail(todo[r]) \in Seq(Handles)
            BY <2>2 DEF Check, Basics, Typed
        <3>2. todo' \in [Runners -> Seq(Handles)]
            BY <2>2, <3>1 DEF Check, Basics, Typed
        <3>3. \A q \in Runners : pc'[q] = "invoke" => todo'[q] # <<>>
            BY <2>2 DEF Check, Basics, Typed, Goto
        <3> QED
            BY <2>2, <3>2, <3>3, <1>2, Threads
               DEF Check, Basics, Typed, handleVars, ringVars, logVars
    <2>3. CASE Invoke(r)
        <3>1. Head(todo[r]) \in Handles /\ Tail(todo[r]) \in Seq(Handles) /\ env[r].id \in Nat
            BY <2>3 DEF Invoke, Basics, Typed, Sent
        <3> QED
            BY <2>3, <3>1, <1>2, Threads DEF Invoke, Basics, Typed, handleVars, ringVars, Goto
    <2>4. CASE InvokeThrows(r)
        BY <2>4, <1>2, Threads DEF InvokeThrows, Basics, Typed, handleVars, ringVars, Goto
    <2>5. CASE Applied(r)
        BY <2>5, <1>2, Threads DEF Applied, Basics, Typed, handleVars, ringVars, runVars, logVars, Goto
    <2> QED
        BY <2>1, <2>2, <2>3, <2>4, <2>5 DEF Apply
<1>4. Counted'
    BY <1>1, <1>2, GotoCounts, Threads DEF Works, Goto
<1>5. Fresh' /\ Modes'
    BY <1>1, <1>2, Threads DEF Basics, Fresh, Modes, Queued, Typed
<1> QED
    BY <1>3, <1>4, <1>5 DEF Basics

LEMMA TriggerBasics ==
    ASSUME Basics, NEW t \in Triggers, NEW d \in Keys \cup {Generic}, Trigger(t, d)
    PROVE  Basics'
<1> USE DEF Applying, Queuing, TriggerAt, DrainAt
<1>1. /\ pc[t] = "idle" /\ sent < MaxTriggers /\ sent' = sent + 1 /\ flags' = flags
      /\ pc' = [pc EXCEPT ![t] = IF Queued THEN "enqueue" ELSE "apply"] /\ t \in Runners
    BY Threads DEF Trigger, Goto
<1>2. Typed'
    <2>1. env' \in [Runners -> Sent]
        BY <1>1 DEF Trigger, Basics, Typed, Sent
    <2>2. /\ pc' \in [Runners -> TriggerAt \cup DrainAt]
          /\ \A u \in Triggers : pc'[u] \in TriggerAt
          /\ \A e \in Drains : pc'[e] \in DrainAt
          /\ \A r \in Runners : pc'[r] = "invoke" => pc[r] = "invoke"
        BY <1>1, Threads DEF Basics, Typed
    <2>3. sent' \in 0..MaxTriggers
        BY <1>1, Threads DEF Basics, Typed
    <2> QED
        BY <1>1, <2>1, <2>2, <2>3 DEF Trigger, Basics, Typed, handleVars, ringVars
<1>3. Counted'
    <2>1. Working' \subseteq Working \cup {t}
        BY <1>1 DEF Working, Basics, Typed
    <2>2. /\ IsFiniteSet(Working \cup {t}) /\ Cardinality(Working \cup {t}) <= Cardinality(Working) + 1
          /\ Cardinality(Working) \in Nat
        <3>1. IsFiniteSet(Working) /\ Cardinality(Working) \in Nat
            BY FS_CardinalityType DEF Basics, Counted
        <3>2. CASE t \in Working
            <4>1. Working \cup {t} = Working
                BY <3>2
            <4> QED
                BY <3>1, <4>1
        <3>3. CASE t \notin Working
            BY <3>1, <3>3, FS_AddElement
        <3> QED
            BY <3>2, <3>3
    <2>3. IsFiniteSet(Working') /\ Cardinality(Working') <= Cardinality(Working \cup {t})
        BY <2>1, <2>2, FS_Subset
    <2>4. Cardinality(Working') \in Nat /\ Cardinality(Working \cup {t}) \in Nat
        BY <2>2, <2>3, FS_CardinalityType
    <2> QED
        BY <1>1, <2>2, <2>3, <2>4 DEF Basics, Counted, Typed
<1>4. Fresh' /\ Modes'
    BY <1>1, Threads DEF Basics, Fresh, Modes, Queued, Typed
<1> QED
    BY <1>2, <1>3, <1>4 DEF Basics

LEMMA QueueBasics ==
    ASSUME Basics, NEW t \in Triggers,
           Enqueue(t) \/ Refused(t) \/ Evict(t) \/ Evicted(t) \/ Published(t) \/ ScheduleDrain(t)
    PROVE  Basics'
<1> USE DEF Applying, Queuing, TriggerAt, DrainAt
<1>1. /\ pc[t] \in Queuing /\ t \in Runners /\ sent # 0 /\ sent' = sent /\ flags' = flags
      /\ UNCHANGED <<registered, handleVars, env, todo, delivered, failed>>
    BY Threads DEF Enqueue, Refused, Evict, Evicted, Published, ScheduleDrain, Basics, Fresh,
                   runVars, logVars
<1>2. \/ \E l \in {"idle"} \cup Queuing : pc' = [pc EXCEPT ![t] = l]
      \/ ScheduleDrain(t) /\ ~ isQueued
    BY DEF Enqueue, Refused, Evict, Evicted, Published, ScheduleDrain, Goto
<1>3. \/ \E l \in {"idle"} \cup Queuing : pc' = [pc EXCEPT ![t] = l]
      \/ \E d \in Drains : pc' = [pc EXCEPT ![t] = "idle", ![d] = "launched"]
    BY <1>1, <1>2, LaunchCounts DEF ScheduleDrain
<1>4. Counted'
    <2>1. CASE \E l \in {"idle"} \cup Queuing : pc' = [pc EXCEPT ![t] = l]
        BY <1>1, <2>1, GotoCounts DEF Works, Goto
    <2>2. CASE ScheduleDrain(t) /\ ~ isQueued
        BY <1>1, <2>2, LaunchCounts DEF ScheduleDrain
    <2> QED
        BY <1>2, <2>1, <2>2
<1>5. /\ pc' \in [Runners -> TriggerAt \cup DrainAt]
      /\ \A u \in Triggers : pc'[u] \in TriggerAt /\ (pc'[u] = pc[u] \/ pc'[u] \in {"idle"} \cup Queuing)
      /\ \A d \in Drains : pc'[d] \in DrainAt
      /\ \A r \in Runners : pc'[r] = "invoke" => pc[r] = "invoke"
    <2>1. CASE \E l \in {"idle"} \cup Queuing : pc' = [pc EXCEPT ![t] = l]
        BY <1>1, <2>1, Threads DEF Basics, Typed
    <2>2. CASE \E d \in Drains : pc' = [pc EXCEPT ![t] = "idle", ![d] = "launched"]
        <3>1. PICK d \in Drains : pc' = [pc EXCEPT ![t] = "idle", ![d] = "launched"]
            BY <2>2
        <3>2. d # t /\ d \in Runners /\ d \notin Triggers
            BY <3>1, Threads
        <3>3. /\ pc'[t] = "idle" /\ pc'[d] = "launched" /\ DOMAIN pc' = Runners
              /\ \A r \in Runners \ {t, d} : pc'[r] = pc[r]
              /\ pc' \in [Runners -> TriggerAt \cup DrainAt]
            BY <1>1, <3>1, <3>2 DEF Basics, Typed
        <3> QED
            BY <3>2, <3>3, Threads DEF Basics, Typed
    <2> QED
        BY <1>3, <2>1, <2>2
<1>6. /\ queue' \in Seq(Sent) /\ available' \in Nat /\ isQueued' \in BOOLEAN /\ entered' \in Nat
    <2>1. CASE Enqueue(t)
        <3>0. env[t] \in Sent /\ entered + 1 \in Nat
            BY <1>1 DEF Basics, Typed
        <3>1. [env[t] EXCEPT !.id = entered + 1] \in Sent
            BY <3>0 DEF Sent
        <3> QED
            BY <2>1, <3>1 DEF Enqueue, Basics, Typed
    <2>2. CASE Refused(t) \/ Evict(t) \/ Evicted(t) \/ Published(t) \/ ScheduleDrain(t)
        <3>1. Tail(queue) \in Seq(Sent) \/ queue = <<>>
            BY DEF Basics, Typed
        <3>2. available + 1 \in Nat /\ (available > 0 => available - 1 \in Nat)
            BY DEF Basics, Typed
        <3> QED
            BY <2>2, <3>1, <3>2
               DEF Refused, Evict, Evicted, Published, ScheduleDrain, Basics, Typed, ringVars, logVars
    <2> QED
        BY <2>1, <2>2
<1>7. Typed'
    BY <1>1, <1>5, <1>6 DEF Basics, Typed, handleVars
<1>8. Fresh' /\ Modes'
    <2>1. sent \in Nat
        BY DEF Basics, Typed
    <2>2. ASSUME NEW u \in Triggers
          PROVE  IF Queued' THEN pc'[u] \notin Applying ELSE pc'[u] \notin Queuing
        <3>1. Queued' = Queued
            BY <1>1 DEF Queued
        <3>2. Queued
            BY <1>1 DEF Basics, Modes
        <3> QED
            BY <3>1, <3>2, <1>5 DEF Basics, Modes
    <2> QED
        BY <1>1, <2>1, <2>2 DEF Fresh, Modes
<1> QED
    BY <1>4, <1>7, <1>8 DEF Basics

LEMMA DrainBasics ==
    ASSUME Basics, NEW d \in Drains,
           Start(d) \/ Pending(d) \/ Dequeue(d) \/ Take(d) \/ Clear(d) \/ Recheck(d) \/ Retry(d)
    PROVE  Basics'
<1> USE DEF Applying, Queuing, TriggerAt, DrainAt
<1>1. /\ pc[d] # "idle" /\ d \in Runners /\ d \notin Triggers /\ sent # 0 /\ sent' = sent
      /\ flags' = flags /\ UNCHANGED <<registered, handleVars, todo, entered, delivered, failed>>
    BY Threads DEF Start, Pending, Dequeue, Take, Clear, Recheck, Retry, Basics, Fresh, runVars, logVars
<1>2. \E l \in DrainAt : l # "invoke" /\ pc' = [pc EXCEPT ![d] = l]
    BY DEF Start, Pending, Dequeue, Take, Clear, Recheck, Retry, Goto
<1>3. Counted'
    BY <1>1, <1>2, GotoCounts DEF Works, Goto
<1>4. /\ queue' \in Seq(Sent) /\ available' \in Nat /\ isQueued' \in BOOLEAN
      /\ env' \in [Runners -> Sent]
    <2>1. CASE Take(d)
        <3>1. Head(queue) \in Sent /\ Tail(queue) \in Seq(Sent)
            BY <2>1 DEF Take, Basics, Typed
        <3> QED
            BY <2>1, <3>1 DEF Take, Basics, Typed
    <2>2. CASE Start(d) \/ Pending(d) \/ Dequeue(d) \/ Clear(d) \/ Recheck(d) \/ Retry(d)
        <3>1. available > 0 => available - 1 \in Nat
            BY DEF Basics, Typed
        <3> QED
            BY <2>2, <3>1
               DEF Start, Pending, Dequeue, Clear, Recheck, Retry, Basics, Typed, ringVars, runVars
    <2> QED
        BY <2>1, <2>2
<1>5. Typed'
    BY <1>1, <1>2, <1>4, Threads DEF Basics, Typed, handleVars
<1>6. Fresh' /\ Modes'
    BY <1>1, <1>2, Threads DEF Basics, Fresh, Modes, Queued, Typed
<1> QED
    BY <1>3, <1>5, <1>6 DEF Basics

LEMMA BasicsKept ==
    ASSUME Basics, [Next]_vars
    PROVE  Basics'
<1>1. CASE Next
    BY <1>1, StepKinds, OwnerBasics, TriggerBasics, ApplyBasics, QueueBasics, DrainBasics
<1>2. CASE UNCHANGED vars
    BY <1>2 DEF vars, handleVars, ringVars, runVars, logVars, Basics, Typed, Counted, Working, Fresh,
                Modes, Queued
<1> QED
    BY <1>1, <1>2

LEMMA BasicsInit == Init => Basics
<1> SUFFICES ASSUME Init PROVE Basics
    OBVIOUS
<1>1. Typed
    <2>1. NoEnvelope \in Sent
        BY DEF NoEnvelope, Sent
    <2>2. <<>> \in Seq(Handles) /\ <<>> \in Seq(Sent) /\ <<>> \in Seq(Nat)
        BY EmptySeq
    <2>3. env \in [Runners -> Sent] /\ todo \in [Runners -> Seq(Handles)]
        BY <2>1, <2>2 DEF Init
    <2>4. delivered \in [Handles -> Seq(Nat)] /\ listening \in Seq(Handles) /\ queue \in Seq(Sent)
        BY <2>2 DEF Init
    <2>5. \A r \in Runners : pc[r] = "idle"
        BY DEF Init
    <2>6. pc \in [Runners -> TriggerAt \cup DrainAt]
        BY DEF Init, TriggerAt
    <2>7. /\ registered \in BOOLEAN /\ flags \subseteq Flags /\ isQueued \in BOOLEAN
          /\ held \in [Handles -> BOOLEAN] /\ hstate \in [Handles -> {"none", "Active", "Muted", "Inactive"}]
          /\ available \in Nat /\ entered \in Nat /\ failed \in BOOLEAN
        BY DEF Init
    <2>8. sent \in 0..MaxTriggers
        BY Threads DEF Init
    <2>9. \A r \in Runners : pc[r] \in TriggerAt /\ pc[r] \in DrainAt /\ pc[r] # "invoke"
        BY <2>5 DEF TriggerAt, DrainAt
    <2> QED
        BY <2>3, <2>4, <2>6, <2>7, <2>8, <2>9, Threads DEF Typed
<1>2. Working = {}
    BY DEF Init, Working, Works, Queuing
<1>3. Counted
    BY <1>1, <1>2, FS_EmptySet DEF Counted, Typed
<1>4. Fresh /\ Modes
    BY Threads DEF Init, Fresh, Modes, Applying, Queuing
<1> QED
    BY <1>1, <1>3, <1>4 DEF Basics

-----------------------------------------------------------------------------
(* Listeners and their lists.                                              *)

Listeners ==
    /\ Injective(listening)
    /\ \A h \in Handles : Kept(h) => hstate[h] # "none"
    /\ \A h \in Handles : held[h] => hstate[h] \in {"Active", "Muted"}
    /\ \A h \in Handles : hstate[h] \in {"Active", "Muted"} => Kept(h)

LEMMA KeptIsElement == \A h : Kept(h) <=> h \in Elements(listening)
BY DEF Kept, Elements

LEMMA ListenersKept ==
    ASSUME Basics, Listeners, [Next]_vars
    PROVE  Listeners'
<1> USE DEF Basics, Typed
<1>1. CASE UNCHANGED handleVars
    BY <1>1 DEF Listeners, Kept, handleVars
<1>2. ASSUME NEW h \in Handles, Listen(h)
      PROVE  Listeners'
    <2>1. /\ hstate[h] = "none" /\ hstate' = [hstate EXCEPT ![h] = "Active"]
          /\ held' = [held EXCEPT ![h] = TRUE] /\ listening' = Append(listening, h)
        BY <1>2 DEF Listen
    <2>2. ~ Kept(h)
        BY <2>1 DEF Listeners
    <2>3. /\ Len(listening') = Len(listening) + 1 /\ Len(listening) \in Nat
          /\ \A i \in 1..Len(listening) : listening'[i] = listening[i]
          /\ listening'[Len(listening')] = h
        BY <2>1, AppendProperties, LenProperties
    <2>4. 1..Len(listening') = 1..Len(listening) \cup {Len(listening')}
        BY <2>3
    <2>5. Injective(listening')
        <3>1. ASSUME NEW i \in 1..Len(listening'), NEW j \in 1..Len(listening'),
                     listening'[i] = listening'[j]
              PROVE  i = j
            <4>1. CASE i \in 1..Len(listening) /\ j \in 1..Len(listening)
                BY <2>3, <3>1, <4>1 DEF Listeners, Injective
            <4>2. CASE i = Len(listening') \/ j = Len(listening')
                <5>1. \A k \in 1..Len(listening) : listening'[k] # h
                    BY <2>2, <2>3 DEF Kept
                <5> QED
                    BY <2>3, <2>4, <3>1, <4>2, <5>1
            <4> QED
                BY <2>4, <4>1, <4>2
        <3> QED
            BY <3>1 DEF Injective
    <2>6. \A g \in Handles : Kept(g)' <=> Kept(g) \/ g = h
        BY <2>3, <2>4 DEF Kept
    <2> QED
        BY <2>1, <2>5, <2>6 DEF Listeners
<1>3. ASSUME NEW h \in Handles, SetState(h, "Muted") \/ SetState(h, "Active") \/ Close(h) \/ Release(h)
      PROVE  Listeners'
    <2>1. held[h] /\ listening' = listening
        BY <1>3 DEF SetState, Close, Release
    <2>2. \A g : Kept(g)' <=> Kept(g)
        BY <2>1 DEF Kept
    <2>3. Kept(h) /\ hstate[h] \in {"Active", "Muted"}
        BY <2>1 DEF Listeners
    <2> QED
        BY <1>3, <2>1, <2>2, <2>3 DEF SetState, Close, Release, Listeners
<1>4. ASSUME NEW r \in Runners, Collect(r)
      PROVE  Listeners'
    <2> DEFINE d == env[r].dispatch
               S == {h \in Handles : ~ (Sees(h, d) /\ hstate[h] = "Inactive")}
    <2>1. listening' = Among(listening, S) /\ UNCHANGED <<hstate, held>>
        BY <1>4 DEF Collect
    <2>2. Elements(listening') = Elements(listening) \cap S /\ Injective(listening')
        BY <2>1, AmongProperties DEF Listeners
    <2>3. \A h \in Handles : Kept(h)' <=> Kept(h) /\ h \in S
        <3>1. \A h : Kept(h)' <=> h \in Elements(listening')
            BY DEF Kept, Elements
        <3> QED
            BY <2>2, <3>1, KeptIsElement
    <2> QED
        BY <2>1, <2>2, <2>3 DEF Listeners
<1>5. Next => \/ UNCHANGED handleVars
              \/ \E h \in Handles : Listen(h)
              \/ \E h \in Handles : SetState(h, "Muted") \/ SetState(h, "Active") \/ Close(h) \/ Release(h)
              \/ \E r \in Runners : Collect(r)
    BY StepKinds DEF OwnerStep, Register, Disconnect, Trigger, Apply, Check, Invoke, InvokeThrows,
           Applied, Enqueue, Refused, Evict, Evicted, Published, ScheduleDrain, Start, Pending,
           Dequeue, Take, Clear, Recheck, Retry
<1> QED
    BY <1>1, <1>2, <1>3, <1>4, <1>5 DEF vars

LEMMA ListenersInvariant == Spec => [](Basics /\ Listeners)
<1>1. Init => Basics /\ Listeners
    <2>1. Init => Listeners
        BY DEF Init, Listeners, Injective, Kept
    <2> QED
        BY <2>1, BasicsInit
<1>2. Basics /\ Listeners /\ [Next]_vars => (Basics /\ Listeners)'
    BY BasicsKept, ListenersKept
<1> QED
    BY <1>1, <1>2, PTL DEF Spec

\* A callback begins only for a listener that was active when it was looked at last.
LEMMA CallsObey ==
    ASSUME Basics, [Next]_vars, NEW h \in Handles, hstate[h] # "Active", ~ Calling(h)
    PROVE  ~ Calling(h)'
<1> USE DEF Basics, Typed
<1>1. ASSUME NEW r \in Runners, pc'[r] = "invoke"
      PROVE  Head(todo'[r]) # h
    <2>1. CASE UNCHANGED vars
        BY <1>1, <2>1 DEF vars, runVars, Calling
    <2>2. CASE OwnerStep
        BY <1>1, <2>2 DEF OwnerStep, Register, Disconnect, Listen, SetState, Close, Release, runVars,
                          Calling
    <2>3. ASSUME NEW t \in Triggers, NEW d \in Keys \cup {Generic}, Trigger(t, d)
          PROVE  Head(todo'[r]) # h
        BY <1>1, <2>3 DEF Trigger, Goto, Calling
    <2>4. ASSUME NEW q \in Runners, Apply(q)
          PROVE  Head(todo'[r]) # h
        <3>1. CASE q # r
            BY <1>1, <2>4, <3>1 DEF Apply, Collect, Check, Invoke, InvokeThrows, Applied, Goto, Calling,
                                    runVars
        <3>2. CASE q = r
            <4>1. Check(r) /\ todo' = todo /\ hstate[Head(todo[r])] = "Active"
                BY <1>1, <2>4, <3>2
                   DEF Apply, Collect, Check, Invoke, InvokeThrows, Applied, Goto
            <4> QED
                BY <4>1
        <3> QED
            BY <3>1, <3>2
    <2>5. ASSUME NEW t \in Triggers, \/ Enqueue(t) \/ Refused(t) \/ Evict(t) \/ Evicted(t)
                                     \/ Published(t) \/ ScheduleDrain(t)
          PROVE  Head(todo'[r]) # h
        <3>1. todo' = todo
            BY <2>5 DEF Enqueue, Refused, Evict, Evicted, Published, ScheduleDrain, runVars
        <3>2. pc[r] = "invoke"
            BY <1>1, <2>5 DEF Enqueue, Refused, Evict, Evicted, Published, ScheduleDrain, Goto, Launch
        <3> QED
            BY <3>1, <3>2 DEF Calling
    <2>6. ASSUME NEW d \in Drains, \/ Start(d) \/ Pending(d) \/ Dequeue(d) \/ Take(d)
                                   \/ Clear(d) \/ Recheck(d) \/ Retry(d)
          PROVE  Head(todo'[r]) # h
        BY <1>1, <2>6 DEF Start, Pending, Dequeue, Take, Clear, Recheck, Retry, Goto, Calling, runVars
    <2> QED
        BY <2>1, <2>2, <2>3, <2>4, <2>5, <2>6, StepKinds
<1> QED
    BY <1>1 DEF Calling

\* Once a handle is muted or closed and no thread is past its second look at the state, the
\* callback does not start again, and a listener that is not closed keeps its place in the
\* lists (d2_signal_handler.cpp:452, 499).
THEOREM HandlesObeyed == Spec => StatesObeyed
<1>1. Basics /\ [Next]_vars => [\A h \in Handles : hstate[h] # "Active" /\ ~ Calling(h)
                                                     => ~ Calling(h)']_vars
    BY CallsObey
<1>2. Basics /\ Listeners => \A h \in Handles : hstate[h] \in {"Active", "Muted"} => Kept(h)
    BY DEF Listeners
<1> QED
    BY <1>1, <1>2, ListenersInvariant, PTL DEF Spec, StatesObeyed

-----------------------------------------------------------------------------
(* One drain at a time, and the order of the envelopes.                    *)

Draining(d) == pc[d] \in {"launched", "pending", "dequeue", "take", "clear"} \cup Applying
OneDrain == /\ \A d, e \in Drains : Draining(d) /\ Draining(e) => d = e
            /\ (\E d \in Drains : Draining(d)) => isQueued

LEMMA OneDrainKept ==
    ASSUME Basics, OneDrain, [Next]_vars
    PROVE  OneDrain'
<1> USE DEF Basics, Typed
<1>1. ASSUME \A d \in Drains : Draining(d)' => Draining(d), isQueued' = isQueued
      PROVE  OneDrain'
    BY <1>1 DEF OneDrain
<1>2. CASE UNCHANGED vars \/ OwnerStep
    <2>1. pc' = pc /\ isQueued' = isQueued
        BY <1>2 DEF vars, OwnerStep, Register, Disconnect, Listen, SetState, Close, Release
    <2> QED
        BY <1>1, <2>1 DEF Draining
<1>3. ASSUME NEW t \in Triggers, NEW d \in Keys \cup {Generic}, Trigger(t, d)
      PROVE  OneDrain'
    <2>1. \A e \in Drains : pc'[e] = pc[e]
        BY <1>3, Threads DEF Trigger, Goto
    <2> QED
        BY <1>1, <1>3, <2>1 DEF Draining, Trigger
<1>4. ASSUME NEW r \in Runners, Apply(r)
      PROVE  OneDrain'
    <2>1. pc[r] \in Applying /\ isQueued' = isQueued /\ \A e \in Drains \ {r} : pc'[e] = pc[e]
        BY <1>4, Threads DEF Apply, Collect, Check, Invoke, InvokeThrows, Applied, Goto, Applying
    <2> QED
        BY <1>1, <2>1 DEF Draining
<1>5. ASSUME NEW t \in Triggers, \/ Enqueue(t) \/ Refused(t) \/ Evict(t) \/ Evicted(t)
                                 \/ Published(t) \/ ScheduleDrain(t)
      PROVE  OneDrain'
    <2>1. CASE ~ ScheduleDrain(t) \/ isQueued
        <3>1. isQueued' = isQueued /\ \A e \in Drains : pc'[e] = pc[e]
            BY <1>5, <2>1, Threads DEF Enqueue, Refused, Evict, Evicted, Published, ScheduleDrain, Goto
        <3> QED
            BY <1>1, <3>1 DEF Draining
    <2>2. CASE ScheduleDrain(t) /\ ~ isQueued
        <3>1. PICK d \in Drains : pc' = [pc EXCEPT ![t] = "idle", ![d] = "launched"]
            BY <2>2, LaunchCounts DEF ScheduleDrain, logVars
        <3>2. \A e \in Drains \ {d} : pc'[e] = pc[e]
            BY <3>1, Threads
        <3>3. \A e \in Drains : ~ Draining(e)
            BY <2>2 DEF OneDrain
        <3> QED
            BY <2>2, <3>2, <3>3 DEF OneDrain, Draining, ScheduleDrain
    <2> QED
        BY <2>1, <2>2
<1>6. ASSUME NEW d \in Drains, Start(d) \/ Pending(d) \/ Dequeue(d) \/ Take(d) \/ Recheck(d)
      PROVE  OneDrain'
    <2>1. isQueued' = isQueued /\ \A e \in Drains \ {d} : pc'[e] = pc[e]
        BY <1>6, Threads DEF Start, Pending, Dequeue, Take, Recheck, Goto
    <2>2. Draining(d)' => Draining(d)
        BY <1>6, Threads DEF Start, Pending, Dequeue, Take, Recheck, Goto, Draining, Applying
    <2> QED
        BY <1>1, <2>1, <2>2 DEF Draining
<1>7. ASSUME NEW d \in Drains, Clear(d)
      PROVE  OneDrain'
    <2>1. \A e \in Drains : ~ Draining(e)'
        BY <1>7, Threads DEF Clear, Goto, OneDrain, Draining, Applying
    <2> QED
        BY <2>1 DEF OneDrain
<1>8. ASSUME NEW d \in Drains, Retry(d)
      PROVE  OneDrain'
    <2>1. isQueued' /\ \A e \in Drains \ {d} : pc'[e] = pc[e]
        BY <1>8 DEF Retry, Goto
    <2>2. Draining(d)' => ~ isQueued
        BY <1>8, Threads DEF Retry, Goto, Draining, Applying
    <2> QED
        BY <2>1, <2>2 DEF OneDrain, Draining
<1> QED
    BY <1>2, <1>3, <1>4, <1>5, <1>6, <1>7, <1>8, StepKinds

Sorted(q) == /\ \A i, j \in 1..Len(q) : i < j => q[i].id < q[j].id
             /\ \A i \in 1..Len(q) : q[i].id <= entered
\* Number k came before what is in the ring, and what has been heard before k.
Before(k) == k <= entered /\ \A i \in 1..Len(queue) : k < queue[i].id
Heard(h, k) == \A i \in 1..Len(delivered[h]) : delivered[h][i] < k
Rising(s) == \A i, j \in 1..Len(s) : i < j => s[i] < s[j]

\* A drain has taken the oldest envelope, and has yet to call some of the listeners with it.
Taken(d) == /\ Before(env[d].id)
            /\ pc[d] = "apply" => \A h \in Handles : Heard(h, env[d].id)
            /\ pc[d] # "apply" => /\ Injective(todo[d])
                                  /\ \A h \in Elements(todo[d]) : Heard(h, env[d].id)
Ordered == /\ Sorted(queue)
           /\ \A h \in Handles : /\ Rising(delivered[h])
                                 /\ \A i \in 1..Len(delivered[h]) : Before(delivered[h][i])
           /\ \A d \in Drains : pc[d] \in Applying => Taken(d)
OrderInv == Queued => Ordered

LEMMA InjectiveConcat ==
    ASSUME NEW A, NEW s \in Seq(A), NEW u \in Seq(A), Injective(s), Injective(u),
           NEW S, NEW U, Elements(s) \subseteq S, Elements(u) \subseteq U, S \cap U = {}
    PROVE  s \o u \in Seq(A) /\ Injective(s \o u)
<1>1. /\ s \o u \in Seq(A) /\ Len(s \o u) = Len(s) + Len(u) /\ Len(s) \in Nat /\ Len(u) \in Nat
      /\ \A i \in 1..Len(s \o u) : (s \o u)[i] = IF i <= Len(s) THEN s[i] ELSE u[i - Len(s)]
    BY ConcatProperties, LenProperties
<1> DEFINE c == s \o u
<1> HIDE DEF c
<1>2. ASSUME NEW i \in 1..Len(c), NEW j \in 1..Len(c), c[i] = c[j]
      PROVE  i = j
    <2>1. CASE i <= Len(s) /\ j <= Len(s)
        BY <1>1, <1>2, <2>1 DEF Injective, c
    <2>2. CASE i > Len(s) /\ j > Len(s)
        <3>1. i - Len(s) \in 1..Len(u) /\ j - Len(s) \in 1..Len(u)
            BY <1>1, <2>2 DEF c
        <3>2. u[i - Len(s)] = u[j - Len(s)]
            BY <1>1, <1>2, <2>2 DEF c
        <3>3. i - Len(s) = j - Len(s)
            BY <3>1, <3>2 DEF Injective
        <3> QED
            BY <1>1, <3>3
    <2>3. \A k, l \in 1..Len(c) : k <= Len(s) /\ l > Len(s) => c[k] # c[l]
        <3> SUFFICES ASSUME NEW k \in 1..Len(c), NEW l \in 1..Len(c), k <= Len(s), l > Len(s)
                     PROVE  c[k] # c[l]
            OBVIOUS
        <3>1. k \in 1..Len(s) /\ l - Len(s) \in 1..Len(u) /\ c[k] = s[k] /\ c[l] = u[l - Len(s)]
            BY <1>1 DEF c
        <3> QED
            BY <3>1 DEF Elements
    <2> QED
        BY <1>1, <1>2, <2>1, <2>2, <2>3
<1> QED
    BY <1>1, <1>2 DEF c, Injective

LEMMA InjectiveTail ==
    ASSUME NEW A, NEW s \in Seq(A), s # <<>>, Injective(s)
    PROVE  /\ Head(s) \in Elements(s) /\ Head(s) \notin Elements(Tail(s))
           /\ Injective(Tail(s)) /\ Elements(Tail(s)) \subseteq Elements(s)
<1> DEFINE q == Tail(s)
<1>1. /\ Len(s) \in Nat /\ 1 \in 1..Len(s) /\ Head(s) = s[1]
      /\ Len(q) = Len(s) - 1
      /\ \A i \in 1..Len(q) : q[i] = s[i + 1] /\ i + 1 \in 1..Len(s)
    BY HeadTailProperties, LenProperties
<1> HIDE DEF q
<1>2. \A i, j \in 1..Len(q) : i + 1 = j + 1 => i = j
    BY <1>1
<1>3. \A i \in 1..Len(q) : i + 1 # 1
    BY <1>1
<1> QED
    BY <1>1, <1>2, <1>3 DEF q, Injective, Elements

LEMMA RisingAppend ==
    ASSUME NEW s \in Seq(Nat), NEW n \in Nat, Rising(s), \A i \in 1..Len(s) : s[i] < n
    PROVE  /\ Rising(Append(s, n))
           /\ \A i \in 1..Len(Append(s, n)) : Append(s, n)[i] = n \/ \E j \in 1..Len(s) : Append(s, n)[i] = s[j]
<1> DEFINE q == Append(s, n)
<1>1. /\ Len(q) = Len(s) + 1 /\ Len(s) \in Nat /\ q[Len(q)] = n
      /\ \A i \in 1..Len(s) : q[i] = s[i]
    BY AppendProperties, LenProperties
<1> HIDE DEF q
<1>2. 1..Len(q) = 1..Len(s) \cup {Len(q)}
    BY <1>1
<1>3. ASSUME NEW i \in 1..Len(q), NEW j \in 1..Len(q), i < j
      PROVE  q[i] < q[j]
    <2>1. i \in 1..Len(s)
        BY <1>1, <1>3
    <2>2. CASE j \in 1..Len(s)
        BY <1>1, <1>3, <2>1, <2>2 DEF Rising
    <2>3. CASE j = Len(q)
        BY <1>1, <2>1, <2>3
    <2> QED
        BY <1>2, <2>2, <2>3
<1> QED
    BY <1>1, <1>2, <1>3 DEF q, Rising

LEMMA TailSorted ==
    ASSUME Basics, Sorted(queue), queue # <<>>
    PROVE  /\ Head(queue).id \in Nat /\ Head(queue).id <= entered
           /\ Sorted(Tail(queue))
           /\ \A i \in 1..Len(Tail(queue)) : Head(queue).id < Tail(queue)[i].id
           /\ \A k : (\A i \in 1..Len(queue) : k < queue[i].id)
                     => k < Head(queue).id /\ \A i \in 1..Len(Tail(queue)) : k < Tail(queue)[i].id
<1> DEFINE q == Tail(queue)
<1>1. /\ Len(queue) \in Nat /\ 1 \in 1..Len(queue) /\ Head(queue) = queue[1] /\ queue[1] \in Sent
      /\ Len(q) = Len(queue) - 1
      /\ \A i \in 1..Len(q) : q[i] = queue[i + 1] /\ i + 1 \in 1..Len(queue)
    BY HeadTailProperties, LenProperties, ElementOfSeq DEF Basics, Typed
<1> HIDE DEF q
<1>2. \A i, j \in 1..Len(q) : i < j => i + 1 < j + 1
    BY <1>1
<1>3. Sorted(q)
    BY <1>1, <1>2 DEF Sorted
<1>4. \A i \in 1..Len(q) : 1 < i + 1
    BY <1>1
<1> QED
    BY <1>1, <1>3, <1>4 DEF Sorted, q, Sent

LEMMA OrderedKeptEnqueue ==
    ASSUME Basics, Ordered, NEW t \in Triggers, Enqueue(t)
    PROVE  Ordered'
<1> DEFINE e == [env[t] EXCEPT !.id = entered + 1]
<1>1. /\ queue' = Append(queue, e) /\ entered' = entered + 1 /\ t \in Runners /\ entered \in Nat
      /\ UNCHANGED <<env, todo, delivered>> /\ \A d \in Drains : pc'[d] = pc[d]
    BY Threads DEF Enqueue, Goto, runVars, Basics, Typed
<1>2. e.id = entered + 1
    BY <1>1 DEF Basics, Typed, Sent
<1>3. e \in Sent
    <2>1. env[t] \in Sent /\ entered + 1 \in Nat
        BY <1>1 DEF Basics, Typed
    <2> QED
        BY <2>1 DEF Sent
<1> HIDE DEF e
<1>4. /\ Len(queue') = Len(queue) + 1 /\ Len(queue) \in Nat
      /\ \A i \in 1..Len(queue) : queue'[i] = queue[i]
      /\ queue'[Len(queue')] = e
    BY <1>1, <1>3, AppendProperties, LenProperties DEF Basics, Typed
<1>5. 1..Len(queue') = 1..Len(queue) \cup {Len(queue')}
    BY <1>4
<1>6. \A i \in 1..Len(queue) : queue[i].id \in Nat /\ queue[i].id <= entered
    <2>1. \A i \in 1..Len(queue) : queue[i] \in Sent
        BY ElementOfSeq DEF Basics, Typed
    <2> QED
        BY <2>1 DEF Ordered, Sorted, Sent
<1>7. Sorted(queue)'
    <2>1. ASSUME NEW i \in 1..Len(queue'), NEW j \in 1..Len(queue'), i < j
          PROVE  queue'[i].id < queue'[j].id
        <3>1. i \in 1..Len(queue)
            BY <1>4, <2>1
        <3>2. CASE j \in 1..Len(queue)
            BY <1>4, <2>1, <3>1, <3>2 DEF Ordered, Sorted
        <3>3. CASE j = Len(queue')
            BY <1>1, <1>2, <1>4, <1>6, <3>1, <3>3
        <3> QED
            BY <1>5, <3>2, <3>3
    <2>2. \A i \in 1..Len(queue') : queue'[i].id <= entered'
        BY <1>1, <1>2, <1>4, <1>5, <1>6
    <2> QED
        BY <2>1, <2>2 DEF Sorted
<1>8. ASSUME NEW k \in Nat, Before(k)
      PROVE  Before(k)'
    BY <1>1, <1>2, <1>4, <1>5, <1>8 DEF Before
<1>9. \A h \in Handles : /\ Rising(delivered[h])'
                         /\ \A i \in 1..Len(delivered'[h]) : Before(delivered[h][i])'
    <2>1. \A h \in Handles : \A i \in 1..Len(delivered[h]) : delivered[h][i] \in Nat
        BY ElementOfSeq DEF Basics, Typed
    <2> QED
        BY <1>1, <1>8, <2>1 DEF Ordered
<1>10. ASSUME NEW d \in Drains, pc'[d] \in Applying
       PROVE  Taken(d)'
    <2>1. Taken(d) /\ env[d].id \in Nat
        BY <1>1, <1>10, Threads DEF Ordered, Basics, Typed, Sent
    <2> QED
        BY <1>1, <1>8, <2>1 DEF Taken, Heard
<1> QED
    BY <1>7, <1>9, <1>10 DEF Ordered

LEMMA OrderedKeptEvicted ==
    ASSUME Basics, Ordered, NEW t \in Triggers, Evicted(t)
    PROVE  Ordered'
<1>1. /\ queue # <<>> /\ queue' = Tail(queue)
      /\ UNCHANGED <<env, todo, delivered, entered>> /\ \A d \in Drains : pc'[d] = pc[d]
    BY Threads DEF Evicted, Goto, runVars, logVars, Basics, Typed
<1>2. Sorted(queue)'
    BY <1>1, TailSorted DEF Ordered, Sorted
<1>3. \A k : Before(k) => Before(k)'
    BY <1>1, TailSorted DEF Ordered, Before
<1> QED
    BY <1>1, <1>2, <1>3 DEF Ordered, Taken, Heard

LEMMA OrderedKeptTake ==
    ASSUME Basics, OneDrain, Ordered, NEW d \in Drains, Take(d)
    PROVE  Ordered'
<1>0. PICK n : n = Head(queue).id
    OBVIOUS
<1>1. /\ pc[d] = "take" /\ queue # <<>> /\ queue' = Tail(queue) /\ d \in Runners
      /\ env' = [env EXCEPT ![d] = Head(queue)] /\ pc' = [pc EXCEPT ![d] = "apply"]
      /\ UNCHANGED <<todo, delivered, entered>>
    BY Threads DEF Take, Goto, logVars
<1>2. Sorted(queue)'
    BY <1>1, TailSorted DEF Ordered, Sorted
<1>3. \A k : Before(k) => Before(k)' /\ k < n
    BY <1>0, <1>1, TailSorted DEF Ordered, Before
<1>4. env'[d].id = n /\ pc'[d] = "apply"
    BY <1>0, <1>1 DEF Basics, Typed
<1>5. Taken(d)'
    <2>1. Before(n)'
        BY <1>0, <1>1, TailSorted DEF Ordered, Before
    <2>2. \A h \in Handles : Heard(h, n)'
        BY <1>1, <1>3 DEF Ordered, Heard
    <2> QED
        BY <1>4, <2>1, <2>2 DEF Taken, Heard
<1>6. \A e \in Drains \ {d} : pc'[e] \notin Applying
    BY <1>1, Threads DEF OneDrain, Draining, Basics, Typed
<1> QED
    BY <1>1, <1>2, <1>3, <1>5, <1>6 DEF Ordered

LEMMA OrderedKeptApply ==
    ASSUME Basics, Listeners, OneDrain, Ordered, Queued, NEW d \in Drains, Apply(d)
    PROVE  Ordered'
<1>1. /\ pc[d] \in Applying /\ d \in Runners
      /\ UNCHANGED <<queue, entered, env>>
      /\ \A e \in Drains \ {d} : pc'[e] \notin Applying
    BY Threads DEF Apply, Collect, Check, Invoke, InvokeThrows, Applied, Goto, Applying, runVars, logVars,
                   ringVars, OneDrain, Draining, Basics, Typed
<1>2. Taken(d) /\ Sorted(queue)' /\ \A k : Before(k)' <=> Before(k)
    BY <1>1 DEF Ordered, Before, Sorted
<1>3. SUFFICES /\ \A h \in Handles : /\ Rising(delivered'[h])
                                     /\ \A i \in 1..Len(delivered'[h]) : Before(delivered'[h][i])
               /\ pc'[d] \in Applying => Taken(d)'
    BY <1>1, <1>2 DEF Ordered
<1>4. CASE Collect(d)
    <2> DEFINE k == env[d].dispatch
               Active(key) == {h \in Handles : Dispatch[h] = key /\ hstate[h] = "Active"}
               G == Among(listening, Active(Generic))
               K == Among(listening, Active(k))
    <2>1. /\ pc[d] = "apply" /\ pc'[d] = "check" /\ delivered' = delivered
          /\ todo'[d] = IF k = Generic THEN G ELSE G \o K
        BY <1>1, <1>4 DEF Collect, Goto, logVars, Basics, Typed
    <2>2. /\ G \in Seq(Handles) /\ Injective(G) /\ Elements(G) \subseteq Active(Generic)
          /\ K \in Seq(Handles) /\ Injective(K) /\ Elements(K) \subseteq Active(k)
        BY AmongProperties DEF Listeners, Basics, Typed
    <2>3. k # Generic => Active(Generic) \cap Active(k) = {}
        OBVIOUS
    <2> HIDE DEF G, K, Active
    <2>4. todo'[d] \in Seq(Handles) /\ Injective(todo'[d])
        <3>1. CASE k = Generic
            BY <2>1, <2>2, <3>1
        <3>2. CASE k # Generic
            BY <2>1, <2>2, <2>3, <3>2, InjectiveConcat
        <3> QED
            BY <3>1, <3>2
    <2>5. Elements(todo'[d]) \subseteq Handles
        BY <2>4, ElementOfSeq DEF Elements
    <2> QED
        BY <1>1, <1>2, <2>1, <2>4, <2>5 DEF Ordered, Taken, Heard
<1>5. CASE Check(d)
    <2>1. /\ pc[d] = "check" /\ delivered' = delivered /\ todo[d] # <<>> /\ pc'[d] # "apply"
          /\ todo'[d] \in {todo[d], Tail(todo[d])}
        BY <1>1, <1>5 DEF Check, Goto, logVars, Basics, Typed
    <2>2. Injective(todo'[d]) /\ Elements(todo'[d]) \subseteq Elements(todo[d])
        BY <1>1, <1>2, <2>1, InjectiveTail DEF Taken, Basics, Typed
    <2> QED
        BY <1>1, <1>2, <2>1, <2>2 DEF Ordered, Taken, Heard
<1>6. CASE Invoke(d)
    <2> DEFINE h == Head(todo[d])
               n == env[d].id
    <2>1. /\ pc[d] = "invoke" /\ todo[d] # <<>> /\ pc'[d] = "check" /\ todo[d] \in Seq(Handles)
          /\ todo'[d] = Tail(todo[d]) /\ delivered' = [delivered EXCEPT ![h] = Append(@, n)]
        BY <1>1, <1>6 DEF Invoke, Goto, Basics, Typed
    <2>2. /\ h \in Handles /\ h \in Elements(todo[d]) /\ h \notin Elements(todo'[d])
          /\ Injective(todo'[d]) /\ Elements(todo'[d]) \subseteq Elements(todo[d])
        BY <1>2, <2>1, InjectiveTail DEF Taken
    <2>3. Heard(h, n) /\ Before(n) /\ n \in Nat /\ delivered[h] \in Seq(Nat)
        BY <1>1, <1>2, <2>1, <2>2 DEF Taken, Basics, Typed, Sent
    <2> HIDE DEF h, n
    <2>4. \A g \in Handles : delivered'[g] = IF g = h THEN Append(delivered[h], n) ELSE delivered[g]
        BY <2>1, <2>2 DEF Basics, Typed
    <2>5. /\ Rising(delivered'[h])
          /\ \A i \in 1..Len(delivered'[h]) : Before(delivered'[h][i])
        <3>1. Rising(delivered[h]) /\ \A i \in 1..Len(delivered[h]) : Before(delivered[h][i])
            BY <2>2 DEF Ordered
        <3>2. delivered'[h] = Append(delivered[h], n)
            BY <2>2, <2>4
        <3>3. \A i \in 1..Len(delivered[h]) : delivered[h][i] < n
            BY <2>3 DEF Heard
        <3>4. /\ Rising(delivered'[h])
              /\ \A i \in 1..Len(delivered'[h]) : \/ delivered'[h][i] = n
                                                  \/ \E j \in 1..Len(delivered[h]) :
                                                         delivered'[h][i] = delivered[h][j]
            BY <2>3, <3>1, <3>2, <3>3, RisingAppend
        <3> QED
            BY <2>3, <3>1, <3>4
    <2>6. \A g \in Elements(todo'[d]) : Heard(g, n)'
        <3>1. Elements(todo'[d]) \subseteq Handles \ {h}
            BY <2>1, <2>2, ElementOfSeq DEF Elements
        <3>2. \A g \in Elements(todo[d]) : Heard(g, n)
            BY <1>2, <2>1 DEF Taken, n
        <3>3. n' = n
            BY <1>1 DEF n
        <3> QED
            BY <2>2, <2>4, <3>1, <3>2, <3>3 DEF Heard
    <2> QED
        BY <1>1, <1>2, <2>1, <2>2, <2>3, <2>4, <2>5, <2>6 DEF Ordered, Taken, n
<1>7. CASE InvokeThrows(d)
    BY <1>1, <1>7 DEF InvokeThrows, Goto, Ordered, Basics, Typed, Applying
<1>8. CASE Applied(d)
    BY <1>1, <1>8, Threads DEF Applied, Goto, Ordered, Basics, Typed, Applying, logVars
<1> QED
    BY <1>4, <1>5, <1>6, <1>7, <1>8 DEF Apply

\* The steps that touch neither envelopes nor what drains do with them.
LEMMA OrderedStays ==
    ASSUME Basics, Ordered, UNCHANGED <<queue, entered, env, todo, delivered>>,
           \A d \in Drains : pc'[d] \in Applying => pc'[d] = pc[d]
    PROVE  Ordered'
<1>1. Sorted(queue)' /\ \A k : Before(k) <=> Before(k)'
    BY DEF Ordered, Sorted, Before
<1> QED
    BY <1>1 DEF Ordered, Taken, Heard

LEMMA OrderKept ==
    ASSUME Basics, Listeners, OneDrain, OrderInv, [Next]_vars
    PROVE  OrderInv'
<1> SUFFICES ASSUME Queued' PROVE Ordered'
    BY DEF OrderInv
<1>1. ASSUME NEW f \in FlagSets, Register(f)
      PROVE  Ordered'
    <2>1. /\ sent = 0 /\ UNCHANGED <<queue, entered, env, todo, delivered, pc>>
        BY <1>1 DEF Register, ringVars, runVars, logVars
    <2>2. /\ \A r \in Runners : pc'[r] = "idle"
          /\ queue' = <<>> /\ entered' = 0 /\ \A h \in Handles : delivered'[h] = <<>>
        BY <2>1 DEF Basics, Fresh
    <2> QED
        BY <2>2, Threads DEF Ordered, Sorted, Rising, Applying
<1>2. CASE ~ \E f \in FlagSets : Register(f)
    <2>1. flags' = flags
        BY <1>2, StepKinds
           DEF vars, OwnerStep, Disconnect, Listen, SetState, Close, Release, Trigger, Apply, Collect, Check,
               Invoke, InvokeThrows, Applied, Enqueue, Refused, Evict, Evicted, Published, ScheduleDrain,
               Start, Pending, Dequeue, Take, Clear, Recheck, Retry
    <2>2. Queued /\ Ordered
        BY <2>1 DEF OrderInv, Queued
    <2>3. CASE UNCHANGED vars \/ OwnerStep
        <3>1. UNCHANGED <<queue, entered, env, todo, delivered, pc>>
            BY <1>2, <2>3 DEF vars, OwnerStep, Disconnect, Listen, SetState, Close, Release, ringVars,
                              runVars, logVars
        <3> QED
            BY <2>2, <3>1, OrderedStays
    <2>4. ASSUME NEW t \in Triggers, NEW d \in Keys \cup {Generic}, Trigger(t, d)
          PROVE  Ordered'
        <3>1. /\ UNCHANGED <<queue, entered, todo, delivered>> /\ t \in Runners
              /\ \A e \in Drains : e \in Runners /\ e # t /\ pc'[e] = pc[e] /\ env'[e] = env[e]
            BY <2>4, Threads DEF Trigger, Goto, ringVars, Basics, Typed
        <3>2. Sorted(queue)' /\ \A k : Before(k) <=> Before(k)'
            BY <2>2, <3>1 DEF Ordered, Sorted, Before
        <3> QED
            BY <2>2, <3>1, <3>2 DEF Ordered, Taken, Heard
    <2>5. ASSUME NEW r \in Runners, Apply(r)
          PROVE  Ordered'
        <3>1. pc[r] \in Applying
            BY <2>5 DEF Apply, Collect, Check, Invoke, InvokeThrows, Applied, Applying
        <3>2. r \in Drains
            BY <2>2, <3>1, Threads DEF Basics, Modes
        <3> QED
            BY <2>2, <2>5, <3>2, OrderedKeptApply
    <2>6. ASSUME NEW t \in Triggers, Refused(t) \/ Evict(t) \/ Published(t) \/ ScheduleDrain(t)
          PROVE  Ordered'
        <3>1. UNCHANGED <<queue, entered, env, todo, delivered>>
            BY <2>6 DEF Refused, Evict, Published, ScheduleDrain, ringVars, runVars, logVars
        <3>2. \/ \E l : pc' = [pc EXCEPT ![t] = l]
              \/ \E d \in Drains : pc' = [pc EXCEPT ![t] = "idle", ![d] = "launched"]
            BY <2>6, LaunchCounts DEF Refused, Evict, Published, ScheduleDrain, Goto, logVars
        <3>3. \A d \in Drains : pc'[d] \in Applying => pc'[d] = pc[d]
            BY <3>2, Threads DEF Basics, Typed, Applying
        <3> QED
            BY <2>2, <3>1, <3>3, OrderedStays
    <2>7. ASSUME NEW d \in Drains, \/ Start(d) \/ Pending(d) \/ Dequeue(d)
                                   \/ Clear(d) \/ Recheck(d) \/ Retry(d)
          PROVE  Ordered'
        <3>1. UNCHANGED <<queue, entered, env, todo, delivered>>
            BY <2>7 DEF Start, Pending, Dequeue, Clear, Recheck, Retry, ringVars, runVars, logVars
        <3>2. \E l : l \notin Applying /\ pc' = [pc EXCEPT ![d] = l]
            BY <2>7 DEF Start, Pending, Dequeue, Clear, Recheck, Retry, Goto, Applying
        <3>3. \A e \in Drains : pc'[e] \in Applying => pc'[e] = pc[e]
            BY <3>2, Threads DEF Basics, Typed
        <3> QED
            BY <2>2, <3>1, <3>3, OrderedStays
    <2> QED
        BY <2>2, <2>3, <2>4, <2>5, <2>6, <2>7, StepKinds, OrderedKeptEnqueue, OrderedKeptEvicted,
           OrderedKeptTake
<1> QED
    BY <1>1, <1>2

\* A listener of a queued signal hears envelopes in the order in which they entered the ring,
\* and each at most once: there is one drain at a time (d2_signal_handler.cpp:552), which calls
\* the listeners of an envelope before it takes the next one, whatever is evicted meanwhile.
THEOREM HeardInOrder == Spec => []InOrder
<1> DEFINE Inv == Basics /\ Listeners /\ OneDrain /\ OrderInv
<1>1. Init => Inv
    <2>1. Init => OneDrain /\ Listeners
        BY Threads DEF Init, OneDrain, Draining, Applying, Listeners, Injective, Kept
    <2>2. Init => ~ Queued
        BY DEF Init, Queued
    <2> QED
        BY <2>1, <2>2, BasicsInit DEF OrderInv
<1>2. Inv /\ [Next]_vars => Inv'
    BY BasicsKept, ListenersKept, OneDrainKept, OrderKept
<1>3. Inv => InOrder
    BY DEF OrderInv, Ordered, Rising, InOrder
<1> QED
    BY <1>1, <1>2, <1>3, PTL DEF Spec

\* There is never more than one drain that takes envelopes out of the ring, and none that
\* nobody knows of (d2_signal_handler.cpp:555, 540).
THEOREM DrainsAlone == Spec => []OneDrain
<1>1. Init => OneDrain
    BY Threads DEF Init, OneDrain, Draining, Applying
<1>2. Basics /\ OneDrain /\ [Next]_vars => OneDrain'
    BY OneDrainKept
<1> QED
    BY <1>1, <1>2, BasicsInit, BasicsKept, PTL DEF Spec
=============================================================================
