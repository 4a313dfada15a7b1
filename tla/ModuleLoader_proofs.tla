------------------------- MODULE ModuleLoader_proofs -------------------------
(***************************************************************************)
(* That what has loaded stays loaded and is all that queries return        *)
(* (LoadedKept), and that loads exclude each other and follow the          *)
(* dependencies (LoadOrder), for any modules, dependencies, lists and      *)
(* outcomes of loads, and any number of threads that query.                *)
(***************************************************************************)
EXTENDS ModuleLoader, FiniteSetTheorems, SequenceTheorems, WellFoundedInduction, TLAPS

Statuses == {"Offline", "Loading", "Ok", "Degraded", "Failure"}
Labels == {"idle", "find", "commit", "status", "usable", "load", "callback", "failed",
           "next", "visit", "deps", "recommit", "make", "returned", "refused"} \cup Outcomes

\* Where a thread has an instance.
Holding == {"load", "callback", "failed", "status", "usable"} \cup Outcomes

Frames == [of : Modules, next : Nat \ {0}]

LoaderTypeOK ==
    /\ deps \in [Modules -> Seq(Modules)]
    /\ present \subseteq Modules
    /\ stub \in [Modules -> 0..2] /\ made \in [Modules -> 0..2]
    /\ status \in [Instance -> Statuses]
    /\ pc \in [Threads -> Labels]
    /\ ref \in [Threads -> Reference \cup {None}]
    /\ rest \in Seq(Modules)
    /\ stack \in Seq(Frames)

Referring == \A t \in Threads : /\ pc[t] \in {"find", "commit", "visit"} => ref[t] \in Reference
                                /\ pc[t] \in Holding => ref[t] \in Instance

\* The recursion is in progress while the main thread works on its top.
Recursion == /\ pc[Main] = "idle" => rest = <<>>
             /\ pc[Main] \notin {"idle", "next"} => rest # <<>>
             /\ pc[Main] \in {"idle", "next"} => stack = <<>>
             /\ pc[Main] \in {"deps", "recommit", "make", "load", "callback", "failed"} \cup Outcomes
                   => stack # <<>>

\* No module that is being loaded is removed.
Staying == /\ present \cap removed = {}
           /\ \A i \in 1..Len(rest) : rest[i] \in present
           /\ \A i \in 1..Len(stack) : stack[i].of \in present

\* An instance is made for a stub that has none, unless Recommit has looked before a
\* query made one: no module has more than two.
Makes == /\ \A m \in Modules \ removed : stub[m] = 0 => made[m] = 0
         /\ pc[Main] = "make" => made[stack[Len(stack)].of] <= 1

LoaderInv == LoaderTypeOK /\ Referring /\ Recursion /\ Staying /\ Makes

\* Whoever is in the load of an instance has it marked as loading, and alone, until a
\* load of it throws.
Marked == \A t \in Threads : /\ InLoad(t) => status[ref[t]] = "Loading" \/ ref[t] \in threw
                             /\ pc[t] = "failed" => ref[t] \in threw

IInv == LoaderInv /\ Marked /\ LoadsExclude

\* The stack without its top, and with its top moved on.
LEMMA FrontOfStack ==
    ASSUME LoaderInv, stack # <<>>
    PROVE  /\ Front(stack) \in Seq(Frames) /\ Len(Front(stack)) = Len(stack) - 1
           /\ \A i \in 1..Len(Front(stack)) : i \in 1..Len(stack) /\ Front(stack)[i] = stack[i]
<1>1. stack \in Seq(Frames) /\ Len(stack) \in Nat \ {0}
    BY LenProperties DEF LoaderInv, LoaderTypeOK
<1> QED
    BY <1>1, SubSeqProperties DEF Front

LEMMA TopOfStack ==
    ASSUME LoaderInv, stack # <<>>
    PROVE  Len(stack) \in 1..Len(stack) /\ Last(stack) = stack[Len(stack)]
           /\ Last(stack).of \in present /\ Last(stack).of \in Modules \ removed
           /\ Last(stack) \in Frames
<1>1. stack \in Seq(Frames) /\ Len(stack) \in Nat \ {0}
    BY LenProperties DEF LoaderInv, LoaderTypeOK
<1> QED
    BY <1>1, ElementOfSeq DEF Last, LoaderInv, LoaderTypeOK, Staying

-----------------------------------------------------------------------------
(* SystemModule::load by any thread.                                       *)

\* What load() does when it is over.
LEMMA LoadedKeeps ==
    ASSUME LoaderInv, NEW t \in Threads, pc[t] \in {"load", "failed"} \cup Outcomes, Loaded(t),
           UNCHANGED <<registry, instances>>, status' \in [Instance -> Statuses]
    PROVE  LoaderInv' /\ pc' = [pc EXCEPT ![t] = IF t = Main THEN "returned" ELSE "idle"]
           /\ \A u \in Threads : u # t => ref'[u] = ref[u]
<1> USE DEF LoaderInv, LoaderTypeOK, Referring, Recursion, Staying, Makes, Loaded, Goto, Refer,
            registry, instances, loader, Labels, Outcomes, Holding, Reference, None
<1>1. CASE t = Main
    <2>1. stack # <<>>
        BY <1>1
    <2>2. Front(stack) \in Seq(Frames) /\ \A i \in 1..Len(Front(stack)) : Front(stack)[i].of \in present
        BY <2>1, FrontOfStack
    <2>3. /\ pc' = [pc EXCEPT ![t] = "returned"] /\ pc'[Main] = "returned" /\ rest # <<>>
          /\ ref' = [ref EXCEPT ![t] = None] /\ stack' = Front(stack)
          /\ UNCHANGED <<rest, deps, present, removed, stub, made>>
        BY <1>1 DEF Threads
    <2>4. LoaderTypeOK'
        BY <1>1, <2>2, <2>3
    <2>5. Recursion' /\ Staying' /\ Makes'
        BY <2>2, <2>3
    <2>6. Referring'
        BY <2>3
    <2> QED
        BY <1>1, <2>3, <2>4, <2>5, <2>6
<1>2. CASE t # Main
    <2>1. pc' = [pc EXCEPT ![t] = "idle"] /\ pc'[Main] = pc[Main]
          /\ pc' \in [Threads -> Labels]
          /\ UNCHANGED <<ref, rest, stack, deps, present, removed, stub, made>>
        BY <1>2 DEF Threads
    <2>2. LoaderTypeOK' /\ Staying' /\ Makes'
        BY <2>1
    <2>3. Referring' /\ Recursion'
        BY <2>1
    <2> QED
        BY <1>2, <2>1, <2>2, <2>3
<1> QED
    BY <1>1, <1>2

LEMMA LoadKeeps == ASSUME IInv, NEW t \in Threads, LoadStep(t) PROVE IInv'
<1> USE DEF IInv, Marked, LoadsExclude, InLoad, Outcomes
<1>0. /\ pc \in [Threads -> Labels] /\ ref \in [Threads -> Reference \cup {None}]
      /\ status \in [Instance -> Statuses]
      /\ pc[t] \in Holding => ref[t] \in Instance
    BY DEF LoaderInv, LoaderTypeOK, Referring
<1>1. ASSUME Ensure(t) PROVE IInv'
    <2>1. CASE status[ref[t]] = "Ok" /\ Loaded(t) /\ UNCHANGED status
        <3>1. pc[t] = "load" /\ UNCHANGED <<registry, instances, threw>>
            BY <1>1 DEF Ensure
        <3>2. LoaderInv' /\ pc' = [pc EXCEPT ![t] = IF t = Main THEN "returned" ELSE "idle"]
              /\ \A u \in Threads : u # t => ref'[u] = ref[u]
            BY <1>0, <2>1, <3>1, LoadedKeeps
        <3> QED
            BY <1>0, <2>1, <3>1, <3>2
    <2>2. CASE /\ status[ref[t]] \notin {"Ok", "Loading"} /\ Goto(t, "callback")
               /\ status' = [status EXCEPT ![ref[t]] = "Loading"] /\ UNCHANGED <<ref, loader>>
        <3>1. pc[t] = "load" /\ UNCHANGED <<registry, instances, threw>>
            BY <1>1 DEF Ensure
        <3>2. LoaderInv'
            BY <1>0, <2>2, <3>1 DEF LoaderInv, LoaderTypeOK, Referring, Recursion, Staying, Makes, Goto,
                registry, instances, loader, Labels, Holding, Statuses
        <3> QED
            BY <1>0, <2>2, <3>1, <3>2 DEF Goto, Holding
    <2> QED
        BY <1>1, <2>1, <2>2 DEF Ensure
<1>2. ASSUME NEW s \in Outcomes, Finish(t, s) PROVE IInv'
    <2>1. LoaderInv'
        BY <1>0, <1>2 DEF Finish, LoaderInv, LoaderTypeOK, Referring, Recursion, Staying, Makes, Goto,
            registry, instances, loader, Labels, Holding
    <2> QED
        BY <1>0, <1>2, <2>1 DEF Finish, Goto
<1>3. ASSUME Degrade(t) PROVE IInv'
    <2>1. LoaderInv'
        BY <1>0, <1>3 DEF Degrade, LoaderInv, LoaderTypeOK, Referring, Recursion, Staying, Makes, Goto,
            registry, instances, loader, Labels, Holding
    <2> QED
        BY <1>0, <1>3, <2>1 DEF Degrade, Goto
<1>4. ASSUME Store(t) PROVE IInv'
    <2>1. pc[t] \in Outcomes /\ Loaded(t) /\ UNCHANGED <<registry, instances, threw>>
          /\ status' = [status EXCEPT ![ref[t]] = pc[t]]
        BY <1>4 DEF Store
    <2>2. LoaderInv' /\ pc' = [pc EXCEPT ![t] = IF t = Main THEN "returned" ELSE "idle"]
          /\ \A u \in Threads : u # t => ref'[u] = ref[u]
        BY <1>0, <2>1, LoadedKeeps DEF Statuses, Holding
    <2> QED
        BY <1>0, <2>1, <2>2 DEF Holding
<1>5. ASSUME Throw(t) PROVE IInv'
    <2>1. LoaderInv'
        BY <1>0, <1>5 DEF Throw, LoaderInv, LoaderTypeOK, Referring, Recursion, Staying, Makes, Goto,
            registry, instances, loader, Labels, Holding, Statuses
    <2> QED
        BY <1>0, <1>5, <2>1 DEF Throw, Goto, Holding
<1>6. ASSUME Thrown(t) PROVE IInv'
    <2>1. pc[t] = "failed" /\ Loaded(t) /\ UNCHANGED <<registry, instances, threw>>
          /\ status' = [status EXCEPT ![ref[t]] = "Offline"]
        BY <1>6 DEF Thrown
    <2>2. LoaderInv' /\ pc' = [pc EXCEPT ![t] = IF t = Main THEN "returned" ELSE "idle"]
          /\ \A u \in Threads : u # t => ref'[u] = ref[u]
        BY <1>0, <2>1, LoadedKeeps DEF Statuses, Holding
    <2> QED
        BY <1>0, <2>1, <2>2 DEF Holding
<1> QED
    BY <1>1, <1>2, <1>3, <1>4, <1>5, <1>6 DEF LoadStep

-----------------------------------------------------------------------------
(* The steps outside of a load: queries, the recursion, removal.           *)

\* A step of thread t that neither changes the status of an instance nor ends in a load.
LEMMA QuietKeeps ==
    ASSUME IInv, LoaderInv', NEW t \in Threads, UNCHANGED <<status, threw>>,
           \A u \in Threads \ {t} : pc'[u] = pc[u] /\ ref'[u] = ref[u],
           pc'[t] \notin Outcomes \cup {"callback", "failed"}
    PROVE  IInv'
BY DEF IInv, Marked, LoadsExclude, InLoad

\* ModuleStub::commit on the stub of m.
LEMMA MakeTyped ==
    ASSUME LoaderInv, NEW t \in Threads, NEW m \in Modules, made[m] <= 1, Make(t, m)
    PROVE  /\ stub' \in [Modules -> 0..2] /\ made' \in [Modules -> 0..2]
           /\ stub'[m] # 0 /\ \A d \in Modules : d # m => stub'[d] = stub[d] /\ made'[d] = made[d]
           /\ ref' = [ref EXCEPT ![t] = <<m, made[m] + 1>>] /\ <<m, made[m] + 1>> \in Instance
<1>0. made[m] \in 0..2 /\ made[m] <= 1
    BY DEF LoaderInv, LoaderTypeOK
<1>1. made[m] + 1 \in 1..2 /\ made[m] + 1 \in 0..2 /\ made[m] + 1 # 0
    BY <1>0
<1>2. /\ stub' = [stub EXCEPT ![m] = made[m] + 1] /\ made' = [made EXCEPT ![m] = made[m] + 1]
      /\ ref' = [ref EXCEPT ![t] = <<m, made[m] + 1>>]
    BY DEF Make, Refer
<1> QED
    BY <1>1, <1>2 DEF LoaderInv, LoaderTypeOK, Instance

\* A step of a thread that queries, other than a commit.
LEMMA SearchKeeps ==
    ASSUME LoaderInv, NEW t \in Threads, t # Main,
           UNCHANGED <<registry, instances, loader>>, status' \in [Instance -> Statuses],
           NEW l \in Labels, Goto(t, l), NEW r \in Reference \cup {None}, Refer(t, r),
           l \in {"find", "commit", "visit"} => r \in Reference, l \in Holding => r \in Instance
    PROVE  LoaderInv'
<1>1. /\ pc' \in [Threads -> Labels] /\ ref' \in [Threads -> Reference \cup {None}]
      /\ pc'[Main] = pc[Main]
      /\ UNCHANGED <<deps, present, removed, stub, made, rest, stack>>
    BY DEF LoaderInv, LoaderTypeOK, Goto, Refer, registry, instances, loader
<1>2. LoaderTypeOK' /\ Recursion' /\ Staying' /\ Makes'
    BY <1>1 DEF LoaderInv, LoaderTypeOK, Recursion, Staying, Makes
<1>3. Referring'
    BY DEF LoaderInv, LoaderTypeOK, Referring, Goto, Refer
<1> QED
    BY <1>2, <1>3 DEF LoaderInv

LEMMA QueryKeeps ==
    ASSUME IInv, NEW t \in Queriers, QueryStep(t) \/ \E m \in Modules : Query(t, m)
    PROVE  IInv'
<1>0. /\ t \in Threads /\ t # Main /\ pc \in [Threads -> Labels]
      /\ ref \in [Threads -> Reference \cup {None}] /\ LoaderInv
      /\ (pc[t] \in {"find", "commit"} => ref[t] \in Reference)
      /\ (pc[t] \in Holding => ref[t] \in Instance)
    BY MainAssumption DEF Threads, IInv, LoaderInv, LoaderTypeOK, Referring
<1>l. /\ {"idle", "find", "commit", "status", "usable", "load"} \subseteq Labels
      /\ "status" \in Holding /\ "usable" \in Holding /\ "load" \in Holding
      /\ "idle" \notin Holding /\ "find" \notin Holding /\ "commit" \notin Holding
      /\ None \in Reference \cup {None}
    BY DEF Labels, Holding, Outcomes
<1>q. ASSUME NEW l \in {"idle", "find", "commit", "status", "usable", "load"}, Goto(t, l), LoaderInv',
             UNCHANGED <<status, threw>>, \A u \in Threads \ {t} : ref'[u] = ref[u]
      PROVE  IInv'
    <2>1. pc'[t] = l /\ \A u \in Threads \ {t} : pc'[u] = pc[u]
        BY <1>0, <1>q DEF Goto
    <2>2. l \notin Outcomes \cup {"callback", "failed"}
        BY <1>q DEF Outcomes
    <2> QED
        BY <1>0, <1>q, <2>1, <2>2, QuietKeeps
<1>1. ASSUME NEW m \in Modules, Query(t, m) PROVE IInv'
    <2>0. <<m, 0>> \in Reference /\ status' \in [Instance -> Statuses]
        BY <1>0, <1>1 DEF Query, Reference, LoaderInv, LoaderTypeOK
    <2>1. LoaderInv'
        BY <1>0, <1>1, <2>0, <1>l, SearchKeeps DEF Query
    <2> QED
        BY <1>0, <1>1, <2>1, <1>q DEF Query, Refer
<1>2. ASSUME Find(t) PROVE IInv'
    <2>1. ref[t][1] \in present /\ StubStatus(ref[t][1]) # "Offline"
             => <<ref[t][1], stub[ref[t][1]]>> \in Instance
        <3>1. pc[t] = "find" /\ ref[t][1] \in Modules
            BY <1>0, <1>2 DEF Find, Reference
        <3> QED
            BY <1>0, <3>1 DEF StubStatus, LoaderInv, LoaderTypeOK, Instance
    <2>2. UNCHANGED <<registry, instances, loader>> /\ status' \in [Instance -> Statuses]
        BY <1>0, <1>2 DEF Find, LoaderInv, LoaderTypeOK
    <2>3. LoaderInv'
        <3>1. CASE Null(t)
            BY <1>0, <2>2, <3>1, <1>l, SearchKeeps DEF Null
        <3>2. CASE Goto(t, "commit") /\ UNCHANGED ref
            <4>1. ref[t] \in Reference /\ Refer(t, ref[t])
                BY <1>0, <1>2, <3>2 DEF Find, Refer, Goto
            <4> QED
                BY <1>0, <2>2, <3>2, <4>1, <1>l, SearchKeeps
        <3>3. CASE /\ ref[t][1] \in present /\ StubStatus(ref[t][1]) # "Offline"
                   /\ Refer(t, <<ref[t][1], stub[ref[t][1]]>>) /\ Goto(t, "status")
            <4>1. <<ref[t][1], stub[ref[t][1]]>> \in Instance \cap Reference
                BY <2>1, <3>3 DEF Instance, Reference
            <4> QED
                BY <1>0, <2>2, <3>3, <4>1, <1>l, SearchKeeps
        <3> QED
            BY <1>2, <3>1, <3>2, <3>3 DEF Find
    <2> QED
        BY <1>0, <1>2, <2>3, <1>q DEF Find, Null, Refer
<1>3. ASSUME Commit(t) PROVE IInv'
    <2> DEFINE m == ref[t][1]
    <2>0. m \in Modules /\ pc[t] = "commit" /\ UNCHANGED <<registry, end, status, threw, loader>>
        BY <1>0, <1>3 DEF Commit, Reference
    <2>1. CASE Null(t) /\ UNCHANGED instances
        <3>1. LoaderInv'
            BY <1>0, <2>0, <2>1, <1>l, SearchKeeps DEF LoaderInv, LoaderTypeOK, Null
        <3> QED
            BY <1>0, <2>0, <2>1, <3>1, <1>q DEF Null, Refer
    <2>2. CASE m \in present /\ stub[m] = 0 /\ Make(t, m) /\ Goto(t, "status")
        <3>1. made[m] = 0 /\ m \notin removed
            BY <1>0, <2>0, <2>2 DEF LoaderInv, Staying, Makes
        <3>2. /\ stub' \in [Modules -> 0..2] /\ made' \in [Modules -> 0..2]
              /\ stub'[m] # 0 /\ \A d \in Modules : d # m => stub'[d] = stub[d] /\ made'[d] = made[d]
              /\ ref' = [ref EXCEPT ![t] = <<m, made[m] + 1>>] /\ <<m, made[m] + 1>> \in Instance
            BY <1>0, <2>0, <2>2, <3>1, MakeTyped
        <3>3. made'[m] = 1
            BY <2>0, <2>2, <3>1, <1>0 DEF Make, LoaderInv, LoaderTypeOK
        <3>4. Makes'
            <4>1. \A d \in Modules \ removed : stub'[d] = 0 => made'[d] = 0
                BY <1>0, <3>2 DEF LoaderInv, Makes
            <4>2. pc[Main] = "make" => stack[Len(stack)].of \in Modules /\ made'[stack[Len(stack)].of] <= 1
                BY <1>0, <3>2, <3>3, TopOfStack DEF LoaderInv, Makes, Recursion
            <4> QED
                <5>1. removed' = removed /\ stack' = stack /\ pc'[Main] = pc[Main]
                    BY <1>0, <2>0, <2>2 DEF registry, loader, Goto
                <5> QED
                    BY <4>1, <4>2, <5>1 DEF Makes
        <3>5. LoaderInv'
            <4>1. /\ UNCHANGED <<deps, present, removed, rest, stack>>
                  /\ pc' = [pc EXCEPT ![t] = "status"] /\ pc'[Main] = pc[Main]
                  /\ status' \in [Instance -> Statuses]
                BY <1>0, <2>0, <2>2 DEF registry, loader, Goto, LoaderInv, LoaderTypeOK
            <4>2. pc' \in [Threads -> Labels] /\ ref' \in [Threads -> Reference \cup {None}]
                BY <1>0, <1>l, <3>2, <4>1 DEF Reference, Instance
            <4>3. LoaderTypeOK' /\ Recursion' /\ Staying'
                BY <1>0, <3>2, <4>1, <4>2 DEF LoaderInv, LoaderTypeOK, Recursion, Staying
            <4>4. Referring'
                BY <1>0, <3>2, <4>1 DEF LoaderInv, Referring
            <4> QED
                BY <3>4, <4>3, <4>4 DEF LoaderInv
        <3> QED
            BY <1>0, <2>0, <2>2, <3>2, <3>5, <1>q
    <2>3. CASE m \in present /\ stub[m] # 0 /\ Keep(t, m) /\ Goto(t, "status")
        <3>1. <<m, stub[m]>> \in Instance \cap Reference
            BY <1>0, <2>0, <2>3 DEF LoaderInv, LoaderTypeOK, Instance, Reference
        <3>2. LoaderInv'
            BY <1>0, <2>0, <2>3, <3>1, <1>l, SearchKeeps DEF Keep, LoaderInv, LoaderTypeOK
        <3> QED
            BY <1>0, <2>0, <2>3, <3>2, <1>q DEF Keep, Refer
    <2> QED
        BY <1>3, <2>1, <2>2, <2>3 DEF Commit
<1>4. ASSUME Status(t) PROVE IInv'
    <2>1. LoaderInv'
        <3>1. ref[t] \in Instance /\ ref[t] \in Reference \cup {None} /\ Refer(t, ref[t])
            BY <1>0, <1>4, <1>l DEF Status, Refer
        <3>2. status' \in [Instance -> Statuses] /\ UNCHANGED <<registry, instances, loader>>
            BY <1>0, <1>4 DEF Status, LoaderInv, LoaderTypeOK
        <3>3. PICK l \in {"load", "usable"} : Goto(t, l)
            BY <1>4 DEF Status
        <3> QED
            BY <1>0, <3>1, <3>2, <3>3, <1>l, SearchKeeps
    <2> QED
        BY <1>0, <1>4, <2>1, <1>q DEF Status
<1>5. ASSUME Usable(t) PROVE IInv'
    <2>1. LoaderInv'
        <3>1. ref[t] \in Reference \cup {None} /\ (UNCHANGED ref => Refer(t, ref[t]))
            BY <1>0, <1>5, <1>l DEF Usable, Refer
        <3>2. status' \in [Instance -> Statuses] /\ UNCHANGED <<registry, instances, loader>>
            BY <1>0, <1>5 DEF Usable, LoaderInv, LoaderTypeOK
        <3>3. Goto(t, "idle") /\ \E r \in {ref[t], None} : Refer(t, r)
            BY <1>5, <3>1 DEF Usable, Null
        <3> QED
            BY <1>0, <3>1, <3>2, <3>3, <1>l, SearchKeeps
    <2> QED
        BY <1>0, <1>5, <2>1, <1>q DEF Usable, Null, Refer
<1> QED
    BY <1>1, <1>2, <1>3, <1>4, <1>5 DEF QueryStep

\* A step of the main thread that makes no instance.
LEMMA MainMoves ==
    ASSUME LoaderInv, UNCHANGED <<deps, present, removed, instances, status>>,
           NEW l \in Labels, Goto(Main, l), NEW r \in Reference \cup {None}, Refer(Main, r),
           l \in {"find", "commit", "visit"} => r \in Reference, l \in Holding => r \in Instance,
           rest' \in Seq(Modules), \A i \in 1..Len(rest') : rest'[i] \in present,
           stack' \in Seq(Frames), \A i \in 1..Len(stack') : stack'[i].of \in present,
           l = "idle" => rest' = <<>>, l \notin {"idle", "next"} => rest' # <<>>,
           l \in {"idle", "next"} => stack' = <<>>,
           l \in {"deps", "recommit", "make", "load", "callback", "failed"} \cup Outcomes
               => stack' # <<>>,
           l = "make" => made[stack'[Len(stack')].of] <= 1
    PROVE  LoaderInv'
<1>1. Main \in Threads
    BY DEF Threads
<1>2. pc' \in [Threads -> Labels] /\ ref' \in [Threads -> Reference \cup {None}] /\ pc'[Main] = l
    BY <1>1 DEF LoaderInv, LoaderTypeOK, Goto, Refer
<1>3. UNCHANGED <<stub, made>>
    BY DEF instances
<1>4. LoaderTypeOK'
    BY <1>2, <1>3 DEF LoaderInv, LoaderTypeOK
<1>5. Referring'
    BY <1>1 DEF LoaderInv, LoaderTypeOK, Referring, Goto, Refer
<1>6. Recursion' /\ Staying' /\ Makes'
    BY <1>2, <1>3 DEF LoaderInv, Recursion, Staying, Makes
<1> QED
    BY <1>4, <1>5, <1>6 DEF LoaderInv

\* A frame on top of the stack.
LEMMA PushTyped ==
    ASSUME LoaderInv, NEW m \in present
    PROVE  LET pushed == Append(stack, [of |-> m, next |-> 1])
           IN  /\ pushed \in Seq(Frames) /\ pushed # <<>>
               /\ \A i \in 1..Len(pushed) : pushed[i].of \in present
<1>1. stack \in Seq(Frames) /\ m \in Modules /\ [of |-> m, next |-> 1] \in Frames
      /\ \A i \in 1..Len(stack) : stack[i].of \in present
    BY DEF LoaderInv, LoaderTypeOK, Staying, Frames
<1> QED
    BY <1>1, AppendProperties

\* The top of the stack goes on to its next dependency.
LEMMA NextTyped ==
    ASSUME LoaderInv, stack # <<>>
    PROVE  LET moved == [stack EXCEPT ![Len(stack)].next = @ + 1]
           IN  /\ moved \in Seq(Frames) /\ moved # <<>>
               /\ \A i \in 1..Len(moved) : moved[i].of \in present
<1> DEFINE n == Len(stack)
           top == [stack[n] EXCEPT !.next = @ + 1]
           moved == [stack EXCEPT ![n] = top]
<1>1. stack \in Seq(Frames) /\ n \in 1..n /\ stack[n] \in Frames
      /\ \A i \in 1..n : stack[i].of \in present
    BY TopOfStack DEF LoaderInv, LoaderTypeOK, Staying
<1>2. top \in Frames /\ top.of = stack[n].of
    BY <1>1 DEF Frames
<1>3. moved \in Seq(Frames) /\ Len(moved) = n /\ \A i \in 1..n : moved[i] = IF i = n THEN top ELSE stack[i]
    BY <1>1, <1>2, ExceptSeq
<1>4. moved # <<>> /\ \A i \in 1..Len(moved) : moved[i].of \in present
    BY <1>1, <1>2, <1>3
<1> QED
    BY <1>3, <1>4

LEMMA MainMakes ==
    ASSUME LoaderInv, stack # <<>>, made[Last(stack).of] <= 1, Make(Main, Last(stack).of),
           Goto(Main, "load"), UNCHANGED <<registry, status, loader>>
    PROVE  LoaderInv'
<1> DEFINE m == Last(stack).of
<1>1. Main \in Threads /\ m \in Modules \ removed /\ m \in Modules
    BY TopOfStack DEF Threads
<1>2. /\ stub' \in [Modules -> 0..2] /\ made' \in [Modules -> 0..2]
      /\ stub'[m] # 0 /\ \A d \in Modules : d # m => stub'[d] = stub[d] /\ made'[d] = made[d]
      /\ ref' = [ref EXCEPT ![Main] = <<m, made[m] + 1>>] /\ <<m, made[m] + 1>> \in Instance
    BY <1>1, MakeTyped
<1>3. UNCHANGED <<deps, present, removed, rest, stack, status>> /\ pc' = [pc EXCEPT ![Main] = "load"]
    BY DEF registry, loader, Goto
<1>4. pc' \in [Threads -> Labels] /\ pc'[Main] = "load" /\ ref' \in [Threads -> Reference \cup {None}]
    BY <1>1, <1>2, <1>3 DEF LoaderInv, LoaderTypeOK, Labels, Instance, Reference
<1>5. LoaderTypeOK' /\ Recursion' /\ Staying' /\ Makes'
    BY <1>2, <1>3, <1>4 DEF LoaderInv, LoaderTypeOK, Recursion, Staying, Makes, Outcomes
<1>6. Referring'
    BY <1>1, <1>2, <1>3 DEF LoaderInv, LoaderTypeOK, Referring
<1> QED
    BY <1>5, <1>6 DEF LoaderInv

LEMMA MainTyped ==
    ASSUME LoaderInv
    PROVE  /\ ref[Main] \in Reference \cup {None} /\ Refer(Main, ref[Main]) = UNCHANGED ref
           /\ rest \in Seq(Modules) /\ \A i \in 1..Len(rest) : rest[i] \in present
           /\ stack \in Seq(Frames) /\ \A i \in 1..Len(stack) : stack[i].of \in present
           /\ pc[Main] \notin {"idle", "next"} => rest # <<>>
BY DEF LoaderInv, LoaderTypeOK, Recursion, Staying, Refer, Threads

LEMMA RestTyped ==
    ASSUME LoaderInv, rest # <<>>
    PROVE  /\ Head(rest) \in present /\ Head(rest) \in Modules
           /\ Tail(rest) \in Seq(Modules) /\ \A i \in 1..Len(Tail(rest)) : Tail(rest)[i] \in present
<1>1. rest \in Seq(Modules) /\ Len(rest) \in Nat \ {0} /\ \A i \in 1..Len(rest) : rest[i] \in present
    BY EmptySeq DEF LoaderInv, LoaderTypeOK, Staying
<1>2. Head(rest) = rest[1] /\ 1 \in 1..Len(rest)
    BY <1>1
<1> QED
    BY <1>1, <1>2, HeadTailProperties

\* Where the main thread goes, and which of these places ask for something.
Places == {"idle", "next", "visit", "deps", "recommit", "make", "load", "returned", "refused"}
LEMMA PlacesTyped ==
    /\ Places \subseteq Labels
    /\ \A l \in Places : /\ l \in Holding => l = "load"
                         /\ l \in {"find", "commit", "visit"} => l = "visit"
                         /\ l \in {"deps", "recommit", "make", "load", "callback", "failed"} \cup Outcomes
                               => l \in {"deps", "recommit", "make", "load"}
                         /\ l \notin Outcomes \cup {"callback", "failed"}
BY DEF Places, Labels, Holding, Outcomes

\* MainMoves and QuietKeeps, for a step of the main thread to l.
LEMMA MainKeeps ==
    ASSUME IInv, UNCHANGED <<deps, present, removed, instances, status, threw>>,
           NEW l \in Places, Goto(Main, l), NEW r \in Reference \cup {None}, Refer(Main, r),
           l = "visit" => r \in Reference, l = "load" => r \in Instance,
           rest' \in Seq(Modules), \A i \in 1..Len(rest') : rest'[i] \in present,
           stack' \in Seq(Frames), \A i \in 1..Len(stack') : stack'[i].of \in present,
           l = "idle" => rest' = <<>>, l \notin {"idle", "next"} => rest' # <<>>,
           l \in {"idle", "next"} => stack' = <<>>,
           l \in {"deps", "recommit", "make", "load"} => stack' # <<>>,
           l = "make" => made[stack'[Len(stack')].of] <= 1
    PROVE  IInv'
<1>1. LoaderInv /\ Main \in Threads /\ pc \in [Threads -> Labels]
      /\ ref \in [Threads -> Reference \cup {None}]
    BY DEF IInv, LoaderInv, LoaderTypeOK, Threads
<1>2. LoaderInv'
    BY <1>1, MainMoves, PlacesTyped
<1>3. pc'[Main] = l /\ \A u \in Threads \ {Main} : pc'[u] = pc[u] /\ ref'[u] = ref[u]
    BY <1>1 DEF Goto, Refer
<1> QED
    BY <1>1, <1>2, <1>3, QuietKeeps, PlacesTyped

LEMMA MainStepKeeps == ASSUME IInv, MainStep PROVE IInv'
<1>0. LoaderInv /\ Main \in Threads /\ pc \in [Threads -> Labels]
      /\ ref \in [Threads -> Reference \cup {None}] /\ None \in Reference \cup {None}
      /\ <<>> \in Seq(Modules) /\ Len(<<>>) = 0
    BY DEF IInv, LoaderInv, LoaderTypeOK, Threads
<1>p. {"idle", "next", "visit", "deps", "recommit", "make", "load", "returned", "refused"} = Places
    BY DEF Places
<1>1. ASSUME NextModule PROVE IInv'
    <2>1. UNCHANGED <<deps, present, removed, instances, status, threw>> /\ pc[Main] = "next"
          /\ stack = <<>>
        BY <1>0, <1>1 DEF NextModule, registry, LoaderInv, Recursion
    <2>2. CASE rest = <<>> /\ Goto(Main, "idle") /\ UNCHANGED <<ref, visited, stack, rest>>
        BY <1>0, <1>p, <2>1, <2>2, MainTyped, MainKeeps
    <2>3. CASE rest # <<>> /\ rest' = Tail(rest) /\ UNCHANGED <<ref, visited, stack, pc>>
        <3>1. Goto(Main, "next")
            BY <1>0, <2>1, <2>3 DEF Goto
        <3> QED
            BY <1>0, <1>p, <2>1, <2>3, <3>1, RestTyped, MainTyped, MainKeeps
    <2>4. CASE /\ rest # <<>> /\ Refer(Main, <<Head(rest), 0>>) /\ Goto(Main, "visit")
               /\ UNCHANGED <<visited, stack, rest>>
        <3>1. <<Head(rest), 0>> \in Reference
            BY <1>0, <2>4, RestTyped DEF Reference
        <3> QED
            BY <1>0, <1>p, <2>1, <2>4, <3>1, MainTyped, MainKeeps
    <2>5. CASE rest # <<>> /\ Enter(Head(rest)) /\ UNCHANGED <<ref, rest>>
        <3>1. /\ stack' \in Seq(Frames) /\ stack' # <<>> /\ Goto(Main, "deps")
              /\ \A i \in 1..Len(stack') : stack'[i].of \in present
            BY <1>0, <2>5, RestTyped, PushTyped DEF Enter
        <3> QED
            BY <1>0, <1>p, <2>1, <2>5, <3>1, MainTyped, MainKeeps
    <2> QED
        BY <1>1, <2>2, <2>3, <2>4, <2>5 DEF NextModule
<1>2. ASSUME Visit PROVE IInv'
    <2>1. UNCHANGED <<deps, present, removed, instances, status, threw, rest>> /\ Refer(Main, None)
          /\ pc[Main] = "visit"
        BY <1>2 DEF Visit, registry
    <2>2. CASE UNCHANGED <<visited, stack>> /\ Goto(Main, "refused")
        BY <1>0, <1>p, <2>1, <2>2, MainTyped, MainKeeps
    <2>3. CASE UNCHANGED <<visited, stack>> /\ Goto(Main, "returned")
        BY <1>0, <1>p, <2>1, <2>3, MainTyped, MainKeeps
    <2>4. CASE ref[Main][1] \in present /\ Enter(ref[Main][1])
        <3>1. /\ stack' \in Seq(Frames) /\ stack' # <<>> /\ Goto(Main, "deps")
              /\ \A i \in 1..Len(stack') : stack'[i].of \in present
            BY <1>0, <2>4, PushTyped DEF Enter
        <3> QED
            BY <1>0, <1>p, <2>1, <3>1, MainTyped, MainKeeps
    <2> QED
        BY <1>2, <2>2, <2>3, <2>4 DEF Visit
<1>3. ASSUME Descend PROVE IInv'
    <2>1. UNCHANGED <<deps, present, removed, instances, status, threw, rest, stack>> /\ stack # <<>>
          /\ pc[Main] = "deps"
        BY <1>0, <1>3 DEF Descend, registry, loader, LoaderInv, Recursion
    <2>2. Top \in Frames /\ Top.of \in Modules /\ Top.next \in Nat \ {0}
          /\ <<Top.of, 0>> \in Reference
        BY <1>0, <2>1, TopOfStack DEF Top, Frames, Reference
    <2>3. CASE Top.next <= Len(deps[Top.of])
        <3>1. deps[Top.of] \in Seq(Modules)
            BY <1>0, <2>2 DEF LoaderInv, LoaderTypeOK
        <3>2. deps[Top.of][Top.next] \in Modules
            BY <2>2, <2>3, <3>1, LenProperties
        <3>3. <<deps[Top.of][Top.next], 0>> \in Reference
            BY <3>2 DEF Reference
        <3> QED
            BY <1>0, <1>3, <1>p, <2>1, <2>3, <3>3, MainTyped, MainKeeps DEF Descend
    <2>4. CASE ~ (Top.next <= Len(deps[Top.of]))
        BY <1>0, <1>3, <1>p, <2>1, <2>2, <2>4, MainTyped, MainKeeps DEF Descend
    <2> QED
        BY <2>3, <2>4
<1>4. ASSUME pc[Main] = "recommit", UNCHANGED <<registry, end, status, threw, loader>>,
             Keep(Main, Top.of), stub[Top.of] # 0, Goto(Main, "load")
      PROVE  IInv'
    <2>1. UNCHANGED <<deps, present, removed, instances, rest, stack>> /\ stack # <<>>
        BY <1>0, <1>4 DEF Keep, registry, loader, LoaderInv, Recursion
    <2>2. Top.of \in Modules
        BY <1>0, <2>1, TopOfStack DEF Top
    <2>3. <<Top.of, stub[Top.of]>> \in Instance \cap Reference
        BY <1>0, <1>4, <2>2 DEF LoaderInv, LoaderTypeOK, Instance, Reference
    <2> QED
        BY <1>0, <1>4, <1>p, <2>1, <2>3, MainTyped, MainKeeps DEF Keep
<1>5. ASSUME stack # <<>>, made[Top.of] <= 1, Make(Main, Top.of), Goto(Main, "load"),
             UNCHANGED <<registry, end, status, threw, loader>>
      PROVE  IInv'
    <2>1. LoaderInv'
        BY <1>0, <1>5, MainMakes DEF Top
    <2>2. pc'[Main] = "load" /\ \A u \in Threads \ {Main} : pc'[u] = pc[u] /\ ref'[u] = ref[u]
        BY <1>0, <1>5 DEF Goto, Make, Refer
    <2> QED
        BY <1>0, <1>5, <2>1, <2>2, QuietKeeps DEF Outcomes
<1>6. pc[Main] = "recommit" => stack # <<>> /\ (stub[Top.of] = 0 => made[Top.of] = 0)
    BY <1>0, TopOfStack DEF LoaderInv, Recursion, Makes, Top
<1>7. ASSUME Recommit PROVE IInv'
    <2>1. CASE stub[Top.of] = 0
        <3>1. UNCHANGED <<deps, present, removed, instances, status, threw, ref, rest, stack>>
              /\ stack # <<>> /\ pc[Main] = "recommit" /\ Goto(Main, "make") /\ made[stack[Len(stack)].of] <= 1
            BY <1>0, <1>6, <1>7, <2>1, TopOfStack DEF Recommit, registry, loader, Top
        <3> QED
            BY <1>0, <1>p, <3>1, MainTyped, MainKeeps
    <2>2. CASE stub[Top.of] # 0
        BY <1>4, <1>7, <2>2 DEF Recommit
    <2> QED
        BY <2>1, <2>2
<1>8. ASSUME CommitNamed PROVE IInv'
    BY <1>4, <1>5, <1>6, <1>8 DEF CommitNamed
<1>9. ASSUME Assign PROVE IInv'
    <2>1. stack # <<>> /\ made[Top.of] <= 1
        BY <1>0, <1>9, TopOfStack DEF Assign, Top, LoaderInv, Recursion, Makes
    <2> QED
        BY <1>5, <1>9, <2>1 DEF Assign
<1>10. ASSUME Returned PROVE IInv'
    <2>1. UNCHANGED <<deps, present, removed, instances, status, threw, ref>>
          /\ pc[Main] = "returned"
        BY <1>10 DEF Returned, registry
    <2>2. CASE stack = <<>> /\ rest' = Tail(rest) /\ Goto(Main, "next") /\ UNCHANGED stack
        BY <1>0, <1>p, <2>1, <2>2, RestTyped, MainTyped, MainKeeps
    <2>3. CASE stack # <<>> /\ stack' = [stack EXCEPT ![Len(stack)].next = @ + 1]
               /\ Goto(Main, "deps") /\ UNCHANGED rest
        BY <1>0, <1>p, <2>1, <2>3, NextTyped, MainTyped, MainKeeps
    <2> QED
        BY <1>10, <2>2, <2>3 DEF Returned
<1>11. ASSUME Refused PROVE IInv'
    <2>1. UNCHANGED <<deps, present, removed, instances, status, threw, ref>> /\ pc[Main] = "refused"
        BY <1>11 DEF Refused, registry
    <2>2. CASE stack = <<>> /\ rest' = <<>> /\ Goto(Main, "idle") /\ UNCHANGED stack
        <3>1. rest' \in Seq(Modules) /\ Len(rest') = 0
            BY <1>0, <2>2
        <3>2. \A i \in 1..Len(rest') : rest'[i] \in present
            BY <3>1
        <3> QED
            BY <1>0, <1>p, <2>1, <2>2, <3>1, <3>2, MainTyped, MainKeeps
    <2>3. CASE stack # <<>> /\ stack' = Front(stack) /\ UNCHANGED <<rest, pc>>
        <3>1. Goto(Main, "refused")
            BY <1>0, <2>1, <2>3 DEF Goto
        <3>2. stack' \in Seq(Frames) /\ \A i \in 1..Len(stack') : stack'[i].of \in present
            BY <1>0, <2>3, FrontOfStack, MainTyped
        <3> QED
            BY <1>0, <1>p, <2>1, <2>3, <3>1, <3>2, MainTyped, MainKeeps
    <2> QED
        BY <1>11, <2>2, <2>3 DEF Refused
<1> QED
    BY <1>1, <1>2, <1>3, <1>7, <1>8, <1>9, <1>10, <1>11 DEF MainStep

-----------------------------------------------------------------------------
(* Insertion, removal, the end, and the theorems.                          *)

\* _insert_module of a list: nothing of it was removed before.
LEMMA InsertKeeps == ASSUME IInv, NEW list \in Lists, LoadModules(list) PROVE IInv'
<1>0. LoaderInv /\ Main \in Threads /\ list \in Seq(Modules) /\ Len(list) \in Nat
    BY ListAssumption, LenProperties DEF IInv, Threads
<1>1. PICK n \in 0..Len(list) :
          /\ pc[Main] = "idle" /\ ToSet(list) \cap removed = {}
          /\ present' = present \cup {list[i] : i \in 1..n}
          /\ IF n = Len(list) THEN rest' = list /\ Goto(Main, "next") ELSE UNCHANGED <<rest, pc>>
          /\ UNCHANGED <<deps, removed, instances, status, threw, ref, stack>>
    BY DEF LoadModules
<1>2. \A i \in 1..n : list[i] \in Modules /\ list[i] \notin removed
    <2> SUFFICES ASSUME NEW i \in 1..n PROVE list[i] \in Modules /\ list[i] \notin removed
        OBVIOUS
    <2>1. i \in 1..Len(list) /\ i \in DOMAIN list
        BY <1>0, LenProperties
    <2> QED
        BY <1>0, <1>1, <2>1, ElementOfSeq DEF ToSet
<1>3. present' \subseteq Modules /\ present \subseteq present' /\ present' \cap removed' = {}
    BY <1>0, <1>1, <1>2 DEF LoaderInv, LoaderTypeOK, Staying
<1>4. /\ rest' \in Seq(Modules) /\ \A i \in 1..Len(rest') : rest'[i] \in present'
      /\ pc' \in [Threads -> Labels] /\ (\A u \in Threads \ {Main} : pc'[u] = pc[u])
      /\ (pc'[Main] = "next" \/ (pc'[Main] = "idle" /\ rest' = rest))
    BY <1>0, <1>1, <1>3 DEF LoaderInv, LoaderTypeOK, Staying, Goto, Labels
<1>5. UNCHANGED <<stub, made>>
    BY <1>1 DEF instances
<1>6. LoaderTypeOK' /\ Recursion' /\ Staying'
    BY <1>0, <1>1, <1>3, <1>4, <1>5 DEF LoaderInv, LoaderTypeOK, Recursion, Staying, Outcomes
<1>7. Referring' /\ Makes'
    BY <1>0, <1>1, <1>4, <1>5 DEF LoaderInv, Referring, Makes, Holding, Outcomes
<1>8. LoaderInv'
    BY <1>6, <1>7 DEF LoaderInv
<1> QED
    BY <1>0, <1>1, <1>4, <1>8, QuietKeeps DEF Outcomes

LEMMA RemoveKeeps == ASSUME IInv, NEW m \in Modules, RemoveModule(m) PROVE IInv'
<1>0. LoaderInv /\ Main \in Threads
    BY DEF IInv, Threads
<1>1. /\ pc[Main] = "idle" /\ present' = present \ {m} /\ removed' = removed \cup {m}
      /\ stub' = [stub EXCEPT ![m] = 0]
      /\ UNCHANGED <<deps, made, status, threw, pc, ref, rest, stack>>
    BY DEF RemoveModule, loader
<1>2. rest = <<>> /\ stack = <<>>
    BY <1>0, <1>1 DEF LoaderInv, Recursion
<1>3. LoaderTypeOK' /\ Referring' /\ Recursion' /\ Makes'
    BY <1>0, <1>1, <1>2 DEF LoaderInv, LoaderTypeOK, Referring, Recursion, Makes
<1>4. Staying'
    BY <1>0, <1>1, <1>2 DEF LoaderInv, Staying
<1>5. LoaderInv'
    BY <1>3, <1>4 DEF LoaderInv
<1> QED
    BY <1>0, <1>1, <1>5, QuietKeeps DEF Outcomes

\* ~IOContext: nobody is in a load.
LEMMA DestroyKeeps == ASSUME IInv, Destroy PROVE IInv'
<1>1. /\ \A t \in Threads : pc[t] = "idle"
      /\ UNCHANGED <<deps, present, removed, stub, made, threw, pc, ref, rest, stack>>
      /\ \E unload \in SUBSET Instance :
             status' = [x \in Instance |-> IF x \in unload THEN "Offline" ELSE status[x]]
    <2> DEFINE unload == {x \in {<<m, stub[m]>> : m \in {d \in present : stub[d] # 0}} : Unloads(x)}
    <2>1. status' = [x \in Instance |-> IF x \in unload \cap Instance THEN "Offline" ELSE status[x]]
        BY DEF Destroy
    <2> QED
        BY <2>1 DEF Destroy, registry, instances, loader
<1>2. LoaderTypeOK'
    BY <1>1 DEF IInv, LoaderInv, LoaderTypeOK, Statuses
<1>3. LoaderInv'
    BY <1>1, <1>2 DEF IInv, LoaderInv, Referring, Recursion, Staying, Makes
<1> QED
    BY <1>1, <1>3 DEF IInv, Marked, LoadsExclude, InLoad, Outcomes

LEMMA NextKeeps == IInv /\ [Next]_vars => IInv'
<1> SUFFICES ASSUME IInv, [Next]_vars PROVE IInv'
    OBVIOUS
<1>1. CASE \E t \in Threads : ThreadStep(t)
    BY <1>1, LoadKeeps, MainStepKeeps, QueryKeeps DEF ThreadStep, Threads
<1>2. CASE \E t \in Queriers, m \in Modules : Query(t, m)
    BY <1>2, QueryKeeps
<1>3. CASE \E list \in Lists : LoadModules(list)
    BY <1>3, InsertKeeps
<1>4. CASE \E m \in Modules : RemoveModule(m)
    BY <1>4, RemoveKeeps
<1>5. CASE Destroy
    BY <1>5, DestroyKeeps
<1>6. CASE UNCHANGED vars
    BY <1>6 DEF vars, registry, instances, loader, IInv, LoaderInv, LoaderTypeOK, Referring,
        Recursion, Staying, Makes, Marked, LoadsExclude, InLoad, Outcomes
<1> QED
    BY <1>1, <1>2, <1>3, <1>4, <1>5, <1>6 DEF Next

LEMMA InitIInv == Init => IInv
<1> SUFFICES ASSUME Init PROVE IInv
    OBVIOUS
<1>1. <<>> \in Seq(Modules) /\ <<>> \in Seq(Frames) /\ Len(<<>>) = 0 /\ Main \in Threads
    BY DEF Threads
<1>2. deps \in [Modules -> Seq(Modules)]
    BY GraphAssumption DEF Init
<1>3. LoaderTypeOK
    BY <1>1, <1>2 DEF Init, LoaderTypeOK, Statuses, Labels, None
<1> QED
    BY <1>1, <1>3 DEF Init, IInv, LoaderInv, Referring, Recursion, Staying, Makes, Marked, LoadsExclude,
        InLoad, Outcomes, Holding

\* The inductive invariant holds in every reachable state.
THEOREM LoaderInductive == Spec => []IInv
BY InitIInv, NextKeeps, PTL DEF Spec

\* One thread at a time loads an instance, unless a load of it has thrown: a part of
\* LoadOrder (SystemModule::_ensure_loaded, src/core/io/d2_module.cpp).
THEOREM LoadsAreExclusive == Spec => []LoadsExclude
<1>1. IInv => LoadsExclude
    BY DEF IInv
<1> QED
    BY <1>1, LoaderInductive, PTL

\* The steps of a load are the only ones that change a status, but for the end.
LEMMA OkStays ==
    ASSUME IInv, Next, NEW x \in Instance, status[x] = "Ok", x \notin threw
    PROVE  status'[x] = "Ok"
<1>0. /\ status \in [Instance -> Statuses]
      /\ \A t \in Threads : pc[t] \in Holding => ref[t] \in Instance
    BY DEF IInv, LoaderInv, LoaderTypeOK, Referring
<1>1. ASSUME NEW t \in Threads, LoadStep(t) PROVE status'[x] = "Ok"
    <2>1. CASE Ensure(t)
        BY <1>0, <2>1 DEF Ensure, Holding
    <2>2. CASE (\E s \in Outcomes : Finish(t, s)) \/ Degrade(t)
        BY <2>2 DEF Finish, Degrade
    <2>3. CASE Store(t)
        <3>1. ref[t] # x
            BY <2>3 DEF Store, IInv, Marked, InLoad
        <3> QED
            BY <1>0, <2>3, <3>1 DEF Store
    <2>4. CASE Throw(t)
        <3>1. ref[t] # x
            BY <2>4 DEF Throw, IInv, Marked, InLoad
        <3> QED
            BY <1>0, <2>4, <3>1 DEF Throw
    <2>5. CASE Thrown(t)
        <3>1. ref[t] # x
            BY <2>5 DEF Thrown, IInv, Marked
        <3> QED
            BY <1>0, <2>5, <3>1 DEF Thrown
    <2> QED
        BY <1>1, <2>1, <2>2, <2>3, <2>4, <2>5 DEF LoadStep
<1>2. ASSUME MainStep PROVE status'[x] = "Ok"
    BY <1>2 DEF MainStep, NextModule, Visit, Descend, Recommit, CommitNamed, Assign, Returned, Refused
<1>3. ASSUME NEW t \in Queriers, QueryStep(t) PROVE status'[x] = "Ok"
    BY <1>3 DEF QueryStep, Find, Commit, Status, Usable
<1>4. CASE \E t \in Threads : ThreadStep(t)
    BY <1>1, <1>2, <1>3, <1>4 DEF ThreadStep, Threads
<1>5. CASE (\E t \in Queriers, m \in Modules : Query(t, m)) \/ (\E list \in Lists : LoadModules(list))
           \/ (\E m \in Modules : RemoveModule(m))
    BY <1>5 DEF Query, LoadModules, RemoveModule
<1>6. CASE Destroy
    <2>1. \A y \in Instance : status'[y] = "Offline" => Unloads(y) \/ status[y] = "Offline"
        BY <1>6 DEF Destroy
    <2>2. status'[x] \in {"Offline", status[x]}
        BY <1>6 DEF Destroy
    <2> QED
        BY <2>1, <2>2 DEF Unloads
<1> QED
    BY <1>4, <1>5, <1>6 DEF Next

\* How a call of a thread that queries ends.
LEMMA QueryEnds ==
    ASSUME IInv, Next, NEW t \in Queriers, pc[t] # "idle", pc'[t] = "idle", ref'[t] # None
    PROVE  \/ status'[ref'[t]] = "Ok"
           \/ status'[ref'[t]] = pc[t] /\ pc[t] \in {"Failure", "Degraded"}
           \/ ref'[t] \in threw'
<1> DEFINE Ended == \/ status'[ref'[t]] = "Ok"
                    \/ status'[ref'[t]] = pc[t] /\ pc[t] \in {"Failure", "Degraded"}
                    \/ ref'[t] \in threw'
<1>0. /\ t \in Threads /\ t # Main /\ Main \in Threads /\ pc \in [Threads -> Labels]
      /\ ref \in [Threads -> Reference \cup {None}] /\ status \in [Instance -> Statuses]
      /\ (pc[t] \in Holding => ref[t] \in Instance)
    BY MainAssumption DEF Threads, IInv, LoaderInv, LoaderTypeOK, Referring
<1>1. ASSUME LoadStep(t) PROVE Ended
    <2>1. CASE Ensure(t)
        BY <1>0, <2>1 DEF Ensure, Loaded, Goto
    <2>2. CASE (\E s \in Outcomes : Finish(t, s)) \/ Degrade(t) \/ Throw(t)
        BY <1>0, <2>2 DEF Finish, Degrade, Throw, Goto, Outcomes
    <2>3. CASE Store(t)
        BY <1>0, <2>3 DEF Store, Loaded, Holding, Outcomes
    <2>4. CASE Thrown(t)
        BY <1>0, <2>4 DEF Thrown, Loaded, IInv, Marked
    <2> QED
        BY <1>1, <2>1, <2>2, <2>3, <2>4 DEF LoadStep
<1>2. ASSUME QueryStep(t) PROVE Ended
    <2>1. CASE Find(t)
        BY <1>0, <2>1 DEF Find, Null, Goto, Refer
    <2>2. CASE Commit(t)
        BY <1>0, <2>2 DEF Commit, Null, Goto, Refer
    <2>3. CASE Status(t)
        BY <1>0, <2>3 DEF Status, Goto
    <2>4. CASE Usable(t)
        BY <1>0, <2>4 DEF Usable, Null, Refer
    <2> QED
        BY <1>2, <2>1, <2>2, <2>3, <2>4 DEF QueryStep
<1>3. CASE \E u \in Threads : u # t /\ ThreadStep(u)
    <2>1. PICK u \in Threads : u # t /\ ThreadStep(u)
        BY <1>3
    <2>2. ASSUME LoadStep(u) PROVE pc'[t] = pc[t]
        BY <1>0, <2>1, <2>2 DEF LoadStep, Ensure, Finish, Degrade, Store, Throw, Thrown, Loaded, Goto
    <2>3. ASSUME u = Main, MainStep PROVE pc'[t] = pc[t]
        BY <1>0, <2>3 DEF MainStep, NextModule, Visit, Descend, Recommit, CommitNamed, Assign,
            Returned, Refused, Enter, Goto
    <2>4. ASSUME QueryStep(u) PROVE pc'[t] = pc[t]
        BY <1>0, <2>1, <2>4 DEF QueryStep, Find, Commit, Status, Usable, Null, Goto
    <2> QED
        BY <2>1, <2>2, <2>3, <2>4 DEF ThreadStep
<1>4. CASE ThreadStep(t)
    BY <1>0, <1>1, <1>2, <1>4 DEF ThreadStep
<1>5. CASE \E u \in Queriers, m \in Modules : Query(u, m)
    BY <1>0, <1>5 DEF Query, Goto, Threads
<1>6. CASE (\E list \in Lists : LoadModules(list)) \/ (\E m \in Modules : RemoveModule(m)) \/ Destroy
    BY <1>0, <1>6 DEF LoadModules, RemoveModule, Destroy, Goto
<1> QED
    BY <1>3, <1>4, <1>5, <1>6 DEF Next

\* What has loaded stays loaded and is all that queries return, however loads, queries
\* and removals interleave (SystemModule::load, IOContext::_get_module_if_uc).
THEOREM LoadedIsKept == Spec => LoadedKept
<1>1. IInv /\ [Next]_vars =>
          [\A x \in Instance : status[x] = "Ok" /\ x \notin threw => status'[x] = "Ok"]_vars
    BY OkStays
<1>2. IInv /\ [Next]_vars =>
          [\A t \in Queriers : pc[t] # "idle" /\ pc'[t] = "idle" /\ ref'[t] # None =>
              \/ status'[ref'[t]] = "Ok"
              \/ status'[ref'[t]] = pc[t] /\ pc[t] \in {"Failure", "Degraded"}
              \/ ref'[t] \in threw']_vars
    BY QueryEnds
<1>3. Spec => LoadedStays
    BY <1>1, LoaderInductive, PTL DEF Spec, LoadedStays
<1>4. Spec => QueriesGetLoaded
    BY <1>2, LoaderInductive, PTL DEF Spec, QueriesGetLoaded
<1> QED
    BY <1>3, <1>4 DEF LoadedKept

-----------------------------------------------------------------------------
(* The order of loads: the stack is a path along the dependencies, and     *)
(* what its modules have gone past is loaded.                              *)

\* There is an instance of d whose load has begun: it stays so until d is removed.
Begun(d) == /\ d \in present /\ stub[d] # 0
            /\ status[<<d, stub[d]>>] # "Offline" \/ <<d, stub[d]>> \in threw

\* The dependencies that a frame has gone past, and that it is at.
Behind(f) == {deps[f.of][i] : i \in 1..(f.next - 1)}
AtDependency(f, d) == f.next <= Len(deps[f.of]) /\ deps[f.of][f.next] = d

Path == /\ \A j, k \in 1..Len(stack) : j < k => Index(stack[j].of) # Index(stack[k].of)
        /\ \A k \in 1..Len(stack) : Index(stack[k].of) \in visited
        /\ \A j, k \in 1..Len(stack) : k = j + 1 => AtDependency(stack[j], stack[k].of)

Past == \A k \in 1..Len(stack) : \A d \in Behind(stack[k]) : Begun(d) /\ d # stack[k].of

\* What the top of the stack is at, where the main thread is.
AtTop ==
    LET top == stack[Len(stack)]
    IN  stack # <<>> =>
        /\ pc[Main] = "visit" => AtDependency(top, ref[Main][1])
        /\ pc[Main] = "returned" =>
               \E d \in Modules : AtDependency(top, d) /\ Begun(d) /\ d # top.of
        /\ Recursing => top.next > Len(deps[top.of])
        /\ pc[Main] = "make" => \A k \in 1..Len(stack) : top.of \notin Behind(stack[k])
        /\ Recursing /\ pc[Main] \notin {"recommit", "make"} =>
               ref[Main] = <<top.of, stub[top.of]>> /\ stub[top.of] # 0

Presets == /\ deps \in [Modules -> Seq(Modules \ Named)]
           /\ pc[Main] = "visit" => ref[Main][1] \notin Named
           /\ \A m \in Modules : stub[m] # 0 => made[m] # 0

OrderInv == Presets /\ Path /\ Past /\ AtTop

\* What a step leaves of a stub with an instance, and of a load that has begun.
LEMMA StubStays ==
    ASSUME IInv, Next, pc[Main] # "idle", NEW m \in Modules, stub[m] # 0,
           pc[Main] = "make" => m # Top.of
    PROVE  stub'[m] = stub[m] /\ UNCHANGED <<deps, present>>
<1>0. stub \in [Modules -> 0..2] /\ Main \in Threads
    BY DEF IInv, LoaderInv, LoaderTypeOK, Threads
<1>1. ASSUME NEW t \in Threads, NEW n \in Modules, Make(t, n), stub[n] = 0 \/ n # m
      PROVE  stub'[m] = stub[m]
    BY <1>0, <1>1 DEF Make
<1>2. ASSUME NEW t \in Threads, LoadStep(t)
      PROVE  UNCHANGED <<stub, deps, present>>
    BY <1>2 DEF LoadStep, Ensure, Finish, Degrade, Store, Throw, Thrown, registry, instances
<1>3. ASSUME MainStep
      PROVE  stub'[m] = stub[m] /\ UNCHANGED <<deps, present>>
    <2>1. CASE NextModule \/ Visit \/ Descend \/ Returned \/ Refused
        BY <2>1 DEF NextModule, Visit, Descend, Returned, Refused, registry, instances
    <2>2. CASE Recommit
        BY <2>2 DEF Recommit, Keep, registry, instances
    <2>3. CASE CommitNamed
        BY <1>0, <2>3 DEF CommitNamed, Keep, Make, registry, instances
    <2>4. CASE Assign
        BY <1>0, <2>4 DEF Assign, Make, registry
    <2> QED
        BY <1>3, <2>1, <2>2, <2>3, <2>4 DEF MainStep
<1>4. ASSUME NEW t \in Queriers, QueryStep(t) \/ \E n \in Modules : Query(t, n)
      PROVE  stub'[m] = stub[m] /\ UNCHANGED <<deps, present>>
    <2>1. CASE Commit(t)
        BY <1>0, <2>1 DEF Commit, Keep, Make, registry, instances
    <2> QED
        BY <1>4, <2>1 DEF QueryStep, Find, Status, Usable, Query, registry, instances
<1>5. ~ (\E list \in Lists : LoadModules(list)) /\ ~ (\E n \in Modules : RemoveModule(n)) /\ ~ Destroy
    BY <1>0 DEF LoadModules, RemoveModule, Destroy
<1> QED
    BY <1>2, <1>3, <1>4, <1>5 DEF Next, ThreadStep, Threads

LEMMA BegunStays ==
    ASSUME IInv, Next, pc[Main] # "idle", NEW m \in Modules, Begun(m),
           pc[Main] = "make" => m # Top.of
    PROVE  Begun(m)'
<1> DEFINE x == <<m, stub[m]>>
<1>0. /\ status \in [Instance -> Statuses] /\ Main \in Threads /\ x \in Instance
      /\ \A t \in Threads : pc[t] \in Holding => ref[t] \in Instance
    BY DEF IInv, LoaderInv, LoaderTypeOK, Referring, Begun, Instance, Threads
<1>1. stub'[m] = stub[m] /\ UNCHANGED <<deps, present>>
    BY StubStays DEF Begun
<1>2. status[x] # "Offline" \/ x \in threw
    BY DEF Begun
<1> HIDE DEF x
<1>3. ASSUME NEW t \in Threads, LoadStep(t)
      PROVE  status'[x] # "Offline" \/ x \in threw'
    <2>1. CASE Ensure(t)
        BY <1>0, <1>2, <2>1 DEF Ensure, Holding
    <2>2. CASE (\E s \in Outcomes : Finish(t, s)) \/ Degrade(t)
        BY <1>2, <2>2 DEF Finish, Degrade
    <2>3. CASE Store(t)
        BY <1>0, <1>2, <2>3 DEF Store, Holding, Outcomes
    <2>4. CASE Throw(t)
        BY <1>0, <1>2, <2>4 DEF Throw, Holding
    <2>5. CASE Thrown(t)
        BY <1>0, <1>2, <2>5 DEF Thrown, Holding, IInv, Marked
    <2> QED
        BY <1>3, <2>1, <2>2, <2>3, <2>4, <2>5 DEF LoadStep
<1>4. ASSUME UNCHANGED <<status, threw>>
      PROVE  status'[x] # "Offline" \/ x \in threw'
    BY <1>2, <1>4
<1>5. ASSUME MainStep \/ \E t \in Queriers : QueryStep(t) \/ \E n \in Modules : Query(t, n)
      PROVE  UNCHANGED <<status, threw>>
    BY <1>5 DEF MainStep, NextModule, Visit, Descend, Recommit, CommitNamed, Assign, Returned, Refused,
        QueryStep, Find, Commit, Status, Usable, Query
<1>6. ~ (\E list \in Lists : LoadModules(list)) /\ ~ (\E n \in Modules : RemoveModule(n)) /\ ~ Destroy
    BY <1>0 DEF LoadModules, RemoveModule, Destroy
<1>7. status'[x] # "Offline" \/ x \in threw'
    BY <1>3, <1>4, <1>5, <1>6 DEF Next, ThreadStep, Threads
<1> QED
    BY <1>1, <1>7 DEF Begun, x

LEMMA PresetsKeep ==
    ASSUME IInv, Presets, Next
    PROVE  Presets'
<1>0. /\ stub \in [Modules -> 0..2] /\ made \in [Modules -> 0..2] /\ Main \in Threads
      /\ pc \in [Threads -> Labels] /\ ref \in [Threads -> Reference \cup {None}]
    BY DEF IInv, LoaderInv, LoaderTypeOK, Threads
<1>1. UNCHANGED deps
    BY DEF Next, ThreadStep, LoadStep, MainStep, QueryStep, Ensure, Finish, Degrade, Store, Throw, Thrown,
        NextModule, Visit, Descend, Recommit, CommitNamed, Assign, Returned, Refused, Find, Commit, Status,
        Usable, Query, LoadModules, RemoveModule, Destroy, registry
<1>2. \A m \in Modules : stub'[m] # 0 => made'[m] # 0
    <2>1. ASSUME NEW t \in Threads, NEW n \in Modules, Make(t, n)
          PROVE  \A m \in Modules : stub'[m] # 0 => made'[m] # 0
        <3>1. made[n] + 1 # 0
            BY <1>0
        <3> QED
            BY <1>0, <2>1, <3>1 DEF Make, Presets
    <2>2. ASSUME UNCHANGED instances
          PROVE  \A m \in Modules : stub'[m] # 0 => made'[m] # 0
        BY <2>2 DEF instances, Presets
    <2>3. pc[Main] \in {"recommit", "make"} => Top.of \in Modules
        BY TopOfStack DEF IInv, LoaderInv, Recursion, Top
    <2>4. ASSUME NEW t \in Queriers, Commit(t)
          PROVE  ref[t][1] \in Modules /\ t \in Threads
        BY <2>4 DEF Commit, IInv, LoaderInv, Referring, Reference, Threads
    <2>5. CASE MainStep
        BY <1>0, <2>1, <2>2, <2>3, <2>5 DEF MainStep, NextModule, Visit, Descend, Recommit, CommitNamed,
            Assign, Returned, Refused, Keep
    <2>6. CASE \E t \in Queriers : QueryStep(t) \/ \E m \in Modules : Query(t, m)
        BY <2>1, <2>2, <2>4, <2>6 DEF QueryStep, Find, Commit, Status, Usable, Query, Keep
    <2>7. CASE \E t \in Threads : LoadStep(t)
        BY <2>2, <2>7 DEF LoadStep, Ensure, Finish, Degrade, Store, Throw, Thrown
    <2>8. CASE (\E list \in Lists : LoadModules(list)) \/ Destroy
        BY <2>2, <2>8 DEF LoadModules, Destroy
    <2>9. CASE \E m \in Modules : RemoveModule(m)
        BY <1>0, <2>9 DEF RemoveModule, Presets
    <2> QED
        BY <2>5, <2>6, <2>7, <2>8, <2>9 DEF Next, ThreadStep, Threads
<1>3. ASSUME pc'[Main] = "visit" PROVE ref'[Main][1] \notin Named
    <2>1. CASE NextModule
        BY <1>0, <1>3, <2>1 DEF NextModule, Goto, Refer, Enter, Labels
    <2>2. CASE Descend
        <3>1. Top.next <= Len(deps[Top.of]) /\ ref' = [ref EXCEPT ![Main] = <<deps[Top.of][Top.next], 0>>]
            BY <1>0, <1>3, <2>2 DEF Descend, Goto, Refer
        <3>2. Top.of \in Modules /\ Top.next \in Nat \ {0}
            BY <2>2, TopOfStack DEF Descend, IInv, LoaderInv, Recursion, Top, Frames
        <3>3. deps[Top.of] \in Seq(Modules \ Named)
            BY <3>2 DEF Presets
        <3>4. deps[Top.of][Top.next] \in Modules \ Named
            BY <3>1, <3>2, <3>3, LenProperties
        <3> QED
            BY <1>0, <3>1, <3>4
    <2>3. CASE MainStep /\ ~ NextModule /\ ~ Descend
        <3>1. pc'[Main] # "visit"
            BY <1>0, <2>3 DEF MainStep, Visit, Recommit, CommitNamed, Assign, Returned, Refused, Goto, Enter
        <3> QED
            BY <1>3, <3>1
    <2>4. CASE pc'[Main] = pc[Main] /\ ref'[Main] = ref[Main]
        BY <1>3, <2>4 DEF Presets
    <2>5. ASSUME NEW t \in Threads, LoadStep(t), t = Main \/ t \in Queriers
          PROVE  (pc'[Main] = pc[Main] /\ ref'[Main] = ref[Main]) \/ pc'[Main] # "visit"
        BY <1>0, <2>5 DEF LoadStep, Ensure, Finish, Degrade, Store, Throw, Thrown, Loaded, Goto, Refer,
            Outcomes
    <2>6. ASSUME NEW t \in Queriers, QueryStep(t) \/ \E m \in Modules : Query(t, m)
          PROVE  pc'[Main] = pc[Main] /\ ref'[Main] = ref[Main]
        BY <1>0, <2>6, MainAssumption DEF QueryStep, Find, Commit, Status, Usable, Query, Null, Keep, Make,
            Goto, Refer, Threads
    <2>7. CASE (\E list \in Lists : LoadModules(list)) \/ Destroy \/ \E m \in Modules : RemoveModule(m)
        <3>1. ref'[Main] = ref[Main] /\ (pc'[Main] = pc[Main] \/ pc'[Main] = "next")
            BY <1>0, <2>7 DEF LoadModules, Destroy, RemoveModule, Goto
        <3> QED
            BY <1>3, <2>4, <3>1
    <2> QED
        BY <1>3, <2>1, <2>2, <2>3, <2>4, <2>5, <2>6, <2>7 DEF Next, ThreadStep, Threads
<1> QED
    BY <1>1, <1>2, <1>3 DEF Presets

\* The main thread, while it works on the stack.
LEMMA OnStack ==
    ASSUME IInv
    PROVE  /\ stack \in Seq(Frames) /\ Len(stack) \in Nat /\ (stack # <<>> => Len(stack) \in 1..Len(stack))
           /\ \A k \in 1..Len(stack) : /\ stack[k] \in Frames /\ stack[k].of \in Modules
                                       /\ stack[k].next \in Nat \ {0}
           /\ stack # <<>> => pc[Main] # "idle" /\ Top = stack[Len(stack)]
           /\ Recursing => stack # <<>>
           /\ Main \in Threads /\ pc \in [Threads -> Labels] /\ ref \in [Threads -> Reference \cup {None}]
<1>1. stack \in Seq(Frames) /\ Len(stack) \in Nat
    BY LenProperties DEF IInv, LoaderInv, LoaderTypeOK
<1>2. stack # <<>> => Len(stack) \in 1..Len(stack)
    BY <1>1, EmptySeq
<1>3. \A k \in 1..Len(stack) : /\ stack[k] \in Frames /\ stack[k].of \in Modules
                               /\ stack[k].next \in Nat \ {0}
    <2> SUFFICES ASSUME NEW k \in 1..Len(stack)
                 PROVE  stack[k] \in Frames
        BY DEF Frames
    <2> QED
        BY <1>1, ElementOfSeq
<1>4. Main \in Threads /\ pc \in [Threads -> Labels] /\ ref \in [Threads -> Reference \cup {None}]
    BY DEF IInv, LoaderInv, LoaderTypeOK, Threads
<1>5. stack # <<>> => pc[Main] # "idle" /\ Top = stack[Len(stack)]
    BY DEF IInv, LoaderInv, Recursion, Top, Last
<1>6. Recursing => stack # <<>>
    BY DEF Recursing, InLoad, IInv, LoaderInv, Recursion
<1> QED
    BY <1>1, <1>2, <1>3, <1>4, <1>5, <1>6

\* What was gone past stays begun.
LEMMA BehindStays ==
    ASSUME IInv, OrderInv, Next, NEW k \in 1..Len(stack), NEW d \in Behind(stack[k])
    PROVE  Begun(d)' /\ d # stack[k].of
<1>1. stack # <<>> /\ pc[Main] # "idle" /\ Top = stack[Len(stack)]
    BY OnStack, EmptySeq
<1>2. Begun(d) /\ d # stack[k].of
    BY DEF OrderInv, Past
<1>3. d \in Modules
    BY <1>2 DEF Begun, IInv, LoaderInv, LoaderTypeOK
<1>4. pc[Main] = "make" => d # Top.of
    BY <1>1 DEF OrderInv, AtTop
<1>5. Begun(d)' /\ UNCHANGED deps
    BY <1>1, <1>2, <1>3, <1>4, BegunStays, StubStays DEF Begun
<1> QED
    BY <1>2, <1>5

LEMMA SameStack ==
    ASSUME IInv, OrderInv, Next, UNCHANGED <<stack, deps>>,
           \A k \in 1..Len(stack) : Index(stack[k].of) \in visited'
    PROVE  Path' /\ Past'
<1>1. Path'
    BY DEF OrderInv, Path, AtDependency
<1>2. Past'
    <2> SUFFICES ASSUME NEW k \in 1..Len(stack), NEW d \in Behind(stack[k])
                 PROVE  Begun(d)' /\ d # stack[k].of
        BY DEF Past, Behind
    <2> QED
        BY BehindStays
<1> QED
    BY <1>1, <1>2

LEMMA DepsStay ==
    ASSUME Next
    PROVE  UNCHANGED deps
BY DEF Next, ThreadStep, LoadStep, MainStep, QueryStep, Ensure, Finish, Degrade, Store, Throw, Thrown,
    NextModule, Visit, Descend, Recommit, CommitNamed, Assign, Returned, Refused, Find, Commit, Status,
    Usable, Query, LoadModules, RemoveModule, Destroy, registry

\* A step of another thread.
LEMMA OthersKeep ==
    ASSUME IInv, OrderInv, Next, UNCHANGED loader, pc'[Main] = pc[Main], ref'[Main] = ref[Main]
    PROVE  Path' /\ Past' /\ AtTop'
<1>0. UNCHANGED <<stack, visited, deps>>
    BY DepsStay DEF loader
<1>1. Path' /\ Past'
    BY <1>0, SameStack DEF OrderInv, Path
<1>2. AtTop'
    <2> DEFINE top == stack[Len(stack)]
    <2> SUFFICES ASSUME stack # <<>> PROVE AtTop'
        BY <1>0 DEF AtTop
    <2>1. top \in Frames /\ top.of \in Modules /\ pc[Main] # "idle" /\ Top = top /\ Len(stack) \in 1..Len(stack)
        BY OnStack
    <2>2. pc[Main] = "visit" => AtDependency(top, ref[Main][1])'
        BY <1>0 DEF OrderInv, AtTop, AtDependency
    <2>3. ASSUME pc[Main] = "returned"
          PROVE  \E d \in Modules : AtDependency(top, d)' /\ Begun(d)' /\ d # top.of
        <3>1. PICK d \in Modules : AtDependency(top, d) /\ Begun(d) /\ d # top.of
            BY <2>3 DEF OrderInv, AtTop
        <3>2. Begun(d)'
            BY <2>1, <2>3, <3>1, BegunStays
        <3> QED
            BY <1>0, <3>1, <3>2 DEF AtDependency
    <2>4. Recursing' = Recursing
        BY DEF Recursing, InLoad
    <2>5. Recursing => top.next > Len(deps[top.of])
        BY DEF OrderInv, AtTop
    <2>6. pc[Main] = "make" => \A k \in 1..Len(stack) : top.of \notin Behind(stack[k])'
        BY <1>0 DEF OrderInv, AtTop, Behind
    <2>7. ASSUME Recursing, pc[Main] \notin {"recommit", "make"}
          PROVE  ref[Main] = <<top.of, stub'[top.of]>> /\ stub'[top.of] # 0
        <3>1. ref[Main] = <<top.of, stub[top.of]>> /\ stub[top.of] # 0
            BY <2>7 DEF OrderInv, AtTop
        <3> QED
            BY <2>1, <2>7, <3>1, StubStays
    <2> QED
        BY <1>0, <2>2, <2>3, <2>4, <2>5, <2>6, <2>7 DEF AtTop
<1> QED
    BY <1>1, <1>2

\* The main thread goes on with the same stack.
LEMMA TopMoves ==
    ASSUME IInv, OrderInv, Next, UNCHANGED <<stack, visited>>,
           stack # <<>> =>
              LET top == stack[Len(stack)]
              IN  /\ pc'[Main] = "visit" => AtDependency(top, ref'[Main][1])
                  /\ pc'[Main] = "returned" =>
                         \E d \in Modules : AtDependency(top, d) /\ Begun(d)' /\ d # top.of
                  /\ Recursing' => top.next > Len(deps[top.of])
                  /\ pc'[Main] = "make" => \A k \in 1..Len(stack) : top.of \notin Behind(stack[k])
                  /\ Recursing' /\ pc'[Main] \notin {"recommit", "make"} =>
                         ref'[Main] = <<top.of, stub'[top.of]>> /\ stub'[top.of] # 0
    PROVE  Path' /\ Past' /\ AtTop'
<1>0. UNCHANGED deps
    BY DepsStay
<1>1. Path' /\ Past'
    BY <1>0, SameStack DEF OrderInv, Path
<1>2. /\ \A d : AtDependency(stack[Len(stack)], d)' = AtDependency(stack[Len(stack)], d)
      /\ \A k \in 1..Len(stack) : Behind(stack[k])' = Behind(stack[k])
    BY <1>0 DEF AtDependency, Behind
<1>3. AtTop'
    BY <1>0, <1>2 DEF AtTop
<1> QED
    BY <1>1, <1>3

\* The stack gets the module that the thread visits, or the first one.
LEMMA StackGrows ==
    ASSUME IInv, OrderInv, Next, NEW m \in Modules, Enter(m), Index(m) \notin visited \/ stack = <<>>,
           stack # <<>> => AtDependency(stack[Len(stack)], m)
    PROVE  Path' /\ Past' /\ AtTop'
<1> DEFINE f == [of |-> m, next |-> 1]
           n == Len(stack)
<1>0. UNCHANGED deps
    BY DepsStay
<1>1. /\ n \in Nat /\ Len(stack') = n + 1 /\ stack'[n + 1] = f /\ stack' # <<>>
      /\ \A k \in 1..n : stack'[k] = stack[k]
    <2>1. f \in Frames /\ stack \in Seq(Frames) /\ n \in Nat /\ stack' = Append(stack, f)
        BY OnStack DEF Frames, Enter
    <2> HIDE DEF f
    <2> QED
        BY <2>1, AppendProperties
<1>2. visited' = visited \cup {Index(m)} /\ pc'[Main] = "deps"
    BY OnStack DEF Enter, Goto
<1>3. Path'
    <2>1. ASSUME NEW j \in 1..(n + 1), NEW k \in 1..(n + 1), j < k
          PROVE  Index(stack'[j].of) # Index(stack'[k].of)
        <3>1. j \in 1..n /\ stack'[j] = stack[j] /\ Index(stack[j].of) \in visited
            BY <1>1, <2>1 DEF OrderInv, Path
        <3>2. CASE k = n + 1
            <4>1. stack # <<>>
                BY <1>1, <3>1, EmptySeq
            <4> QED
                BY <1>1, <3>1, <3>2, <4>1
        <3>3. CASE k # n + 1
            <4>1. k \in 1..n /\ stack'[k] = stack[k]
                BY <1>1, <2>1, <3>3
            <4> QED
                BY <2>1, <3>1, <4>1 DEF OrderInv, Path
        <3> QED
            BY <3>2, <3>3
    <2>2. \A k \in 1..(n + 1) : Index(stack'[k].of) \in visited'
        BY <1>1, <1>2 DEF OrderInv, Path
    <2>3. ASSUME NEW j \in 1..(n + 1), NEW k \in 1..(n + 1), k = j + 1
          PROVE  AtDependency(stack'[j], stack'[k].of)
        <3>1. j \in 1..n /\ stack'[j] = stack[j]
            BY <1>1, <2>3
        <3>2. CASE k = n + 1
            <4>1. stack # <<>> /\ j = n
                BY <1>1, <2>3, <3>1, <3>2, EmptySeq
            <4> QED
                BY <1>1, <3>1, <3>2, <4>1
        <3>3. CASE k # n + 1
            BY <1>1, <2>3, <3>1, <3>3 DEF OrderInv, Path
        <3> QED
            BY <3>2, <3>3
    <2> QED
        BY <1>0, <1>1, <2>1, <2>2, <2>3 DEF Path, AtDependency
<1>4. Past'
    <2> SUFFICES ASSUME NEW k \in 1..(n + 1), NEW d \in Behind(stack'[k])
                 PROVE  Begun(d)' /\ d # stack'[k].of
        BY <1>0, <1>1 DEF Past, Behind
    <2>1. k # n + 1
        BY <1>1 DEF Behind
    <2>2. k \in 1..n /\ stack'[k] = stack[k]
        BY <1>1, <2>1
    <2> QED
        BY <2>2, BehindStays
<1>5. AtTop'
    BY <1>2 DEF AtTop, Recursing, InLoad, Outcomes
<1> QED
    BY <1>3, <1>4, <1>5

\* The load of the top is over, and the module below it goes past its dependency.
LEMMA StackShrinks ==
    ASSUME IInv, OrderInv, Next, stack # <<>>, stack' = Front(stack),
           \A k \in 1..(Len(stack) - 1) : Index(stack[k].of) \in visited'
    PROVE  Path' /\ Past' /\ Len(stack') = Len(stack) - 1 /\ \A k \in 1..Len(stack') : stack'[k] = stack[k]
<1> DEFINE n == Len(stack)
<1>0. UNCHANGED deps
    BY DepsStay
<1>1. /\ n \in Nat /\ Len(stack') = n - 1 /\ \A k \in 1..(n - 1) : k \in 1..n /\ stack'[k] = stack[k]
    BY FrontOfStack, OnStack DEF IInv
<1> DEFINE S == 1..Len(stack')
<1>a. \A k \in S : k \in 1..n /\ k \in 1..(n - 1) /\ stack'[k] = stack[k]
    BY <1>1
<1> HIDE DEF S
<1>2. Path'
    <2>1. \A j, k \in S : j < k => Index(stack'[j].of) # Index(stack'[k].of)
        BY <1>a DEF OrderInv, Path
    <2>2. \A k \in S : Index(stack'[k].of) \in visited'
        BY <1>a
    <2>3. \A j, k \in S : k = j + 1 => AtDependency(stack'[j], stack'[k].of)
        BY <1>a DEF OrderInv, Path
    <2> QED
        BY <1>0, <2>1, <2>2, <2>3 DEF Path, AtDependency, S
<1>3. Past'
    <2> SUFFICES ASSUME NEW k \in S, NEW d \in Behind(stack'[k])
                 PROVE  Begun(d)' /\ d # stack'[k].of
        BY <1>0 DEF Past, Behind, S
    <2>1. k \in 1..n /\ stack'[k] = stack[k]
        BY <1>a
    <2> QED
        BY <2>1, BehindStays
<1> QED
    BY <1>1, <1>2, <1>3

\* load() on the main thread returns.
LEMMA LoadReturns ==
    ASSUME IInv, OrderInv, Next, Recursing, pc[Main] \notin {"recommit", "make"}, Loaded(Main),
           NEW m, m = stack[Len(stack)].of, Begun(m)'
    PROVE  Path' /\ Past' /\ AtTop'
<1> DEFINE n == Len(stack)
<1>0. UNCHANGED deps /\ stack # <<>> /\ n \in 1..n /\ m \in Modules /\ n \in Nat
    BY DepsStay, OnStack
<1>1. ref[Main][1] = m
    BY <1>0 DEF OrderInv, AtTop
<1>2. visited' = visited \ {Index(m)} /\ stack' = Front(stack) /\ pc'[Main] = "returned"
    BY <1>1, OnStack DEF Loaded, Goto
<1>3. \A k \in 1..(n - 1) : Index(stack[k].of) # Index(m) /\ Index(stack[k].of) \in visited'
    BY <1>0, <1>2 DEF OrderInv, Path
<1>4. Path' /\ Past' /\ Len(stack') = n - 1 /\ \A k \in 1..Len(stack') : stack'[k] = stack[k]
    BY <1>0, <1>2, <1>3, StackShrinks
<1>5. ASSUME stack' # <<>>
      PROVE  AtDependency(stack'[Len(stack')], m) /\ m # stack'[Len(stack')].of
    <2>1. n - 1 \in 1..n /\ n - 1 \in 1..(n - 1) /\ stack'[Len(stack')] = stack[n - 1] /\ n = (n - 1) + 1
        <3>1. stack' \in Seq(Frames)
            BY <1>0, <1>2, FrontOfStack DEF IInv
        <3>2. Len(stack') # 0
            BY <1>5, <3>1, EmptySeq
        <3> QED
            BY <1>0, <1>4, <3>2
    <2>2. AtDependency(stack[n - 1], m)
        BY <1>0, <2>1 DEF OrderInv, Path
    <2>3. stack[n - 1].of # m
        BY <1>3, <2>1
    <2> QED
        BY <1>0, <2>1, <2>2, <2>3 DEF AtDependency
<1>6. AtTop'
    <2>1. ~ Recursing'
        BY <1>2 DEF Recursing, InLoad, Outcomes
    <2> QED
        BY <1>0, <1>2, <1>5, <2>1 DEF AtTop, AtDependency
<1> QED
    BY <1>4, <1>6

LEMMA OwnLoadKeeps ==
    ASSUME IInv, OrderInv, Next, LoadStep(Main)
    PROVE  Path' /\ Past' /\ AtTop'
<1>m. PICK m : m = stack[Len(stack)].of
    OBVIOUS
<1>0. /\ Recursing /\ pc[Main] \notin {"recommit", "make"} /\ stack # <<>> /\ m \in Modules
      /\ pc[Main] # "idle" /\ stack \in Seq(Frames) /\ pc \in [Threads -> Labels] /\ Main \in Threads
    <2>1. pc[Main] \in {"load", "callback", "failed"} \cup Outcomes
        BY DEF LoadStep, Ensure, Finish, Degrade, Store, Throw, Thrown
    <2>2. Recursing /\ pc[Main] \notin {"recommit", "make"}
        BY <2>1 DEF Recursing, InLoad, Outcomes
    <2> QED
        BY <1>m, <2>2, OnStack
<1>1. /\ ref[Main] = <<m, stub[m]>> /\ stub[m] # 0 /\ ref[Main] \in Instance
      /\ m \in present /\ stack[Len(stack)].next > Len(deps[m])
    <2>1. pc[Main] \in Holding
        BY <1>0 DEF Recursing, InLoad, Holding
    <2>2. m \in present
        BY <1>0, <1>m, OnStack DEF IInv, LoaderInv, Staying
    <2> QED
        BY <1>0, <1>m, <2>1, <2>2 DEF OrderInv, AtTop, IInv, LoaderInv, Referring
<1>2. stub'[m] = stub[m] /\ UNCHANGED <<deps, present>>
    BY <1>0, <1>1, <1>m, OnStack, StubStays
<1>3. ASSUME UNCHANGED <<stack, visited, ref>>, Recursing', pc'[Main] \notin {"visit", "returned", "make"}
      PROVE  Path' /\ Past' /\ AtTop'
    BY <1>1, <1>2, <1>3, <1>m, TopMoves
<1>4. ASSUME Loaded(Main), status'[ref[Main]] # "Offline" \/ ref[Main] \in threw'
      PROVE  Path' /\ Past' /\ AtTop'
    <2>1. Begun(m)'
        BY <1>1, <1>2, <1>4 DEF Begun
    <2> QED
        BY <1>0, <1>4, <1>m, <2>1, LoadReturns
<1>5. CASE Ensure(Main)
    <2>1. CASE status[ref[Main]] = "Ok" /\ Loaded(Main) /\ UNCHANGED status
        BY <1>4, <2>1
    <2>2. CASE Goto(Main, "callback") /\ UNCHANGED <<ref, loader>>
        BY <1>0, <1>3, <2>2 DEF Goto, loader, Recursing, InLoad
    <2> QED
        BY <1>5, <2>1, <2>2 DEF Ensure
<1>6. CASE \E s \in Outcomes : Finish(Main, s)
    BY <1>0, <1>3, <1>6 DEF Finish, Goto, loader, Recursing, InLoad, Outcomes
<1>7. CASE Degrade(Main)
    BY <1>0, <1>3, <1>7 DEF Degrade, Goto, loader, Recursing, InLoad, Outcomes
<1>8. CASE Store(Main)
    <2>1. Loaded(Main) /\ status'[ref[Main]] = pc[Main] /\ pc[Main] # "Offline"
        BY <1>1, <1>8 DEF Store, Outcomes, IInv, LoaderInv, LoaderTypeOK
    <2> QED
        BY <1>4, <2>1
<1>9. CASE Throw(Main)
    BY <1>0, <1>3, <1>9 DEF Throw, Goto, loader, Recursing, InLoad
<1>10. CASE Thrown(Main)
    <2>1. Loaded(Main) /\ ref[Main] \in threw'
        BY <1>0, <1>10 DEF Thrown, IInv, Marked
    <2> QED
        BY <1>4, <2>1
<1> QED
    BY <1>5, <1>6, <1>7, <1>8, <1>9, <1>10 DEF LoadStep

\* A call has returned true: the top goes past the dependency it was at.
LEMMA GoesPast ==
    ASSUME IInv, OrderInv, Next, Returned, stack # <<>>
    PROVE  Path' /\ Past' /\ AtTop'
<1> DEFINE n == Len(stack)
           top == stack[n]
           f == [top EXCEPT !.next = @ + 1]
<1>0. /\ UNCHANGED deps /\ stack \in Seq(Frames) /\ n \in 1..n /\ n \in Nat
      /\ top \in Frames /\ top.of \in Modules /\ top.next \in Nat \ {0} /\ pc[Main] = "returned"
    BY DepsStay, OnStack DEF Returned
<1>1. f.of = top.of /\ f.next = top.next + 1 /\ f \in Frames
    BY <1>0 DEF Frames
<1>2. stack' = [stack EXCEPT ![n] = f] /\ visited' = visited /\ pc'[Main] = "deps"
    BY OnStack DEF Returned, Goto
<1> HIDE DEF f
<1>3. Len(stack') = n /\ \A k \in 1..n : stack'[k] = IF k = n THEN f ELSE stack[k]
    BY <1>0, <1>1, <1>2, ExceptSeq
<1>4. \A k \in 1..n : stack'[k].of = stack[k].of
    BY <1>1, <1>3
<1>5. \A j \in 1..(n - 1) : stack'[j] = stack[j] /\ j \in 1..n
    BY <1>0, <1>3
<1>6. Path'
    <2>1. \A j, k \in 1..n : j < k => Index(stack'[j].of) # Index(stack'[k].of)
        BY <1>4 DEF OrderInv, Path
    <2>2. \A k \in 1..n : Index(stack'[k].of) \in visited'
        BY <1>2, <1>4 DEF OrderInv, Path
    <2>3. ASSUME NEW j \in 1..n, NEW k \in 1..n, k = j + 1
          PROVE  AtDependency(stack'[j], stack'[k].of)
        <3>1. j \in 1..(n - 1)
            BY <1>0, <2>3
        <3> QED
            BY <1>4, <1>5, <2>3, <3>1 DEF OrderInv, Path
    <2> QED
        BY <1>0, <1>3, <2>1, <2>2, <2>3 DEF Path, AtDependency
<1>7. Past'
    <2> SUFFICES ASSUME NEW k \in 1..n, NEW d \in Behind(stack'[k])
                 PROVE  Begun(d)' /\ d # stack[k].of
        <3>1. \A k \in 1..n : Behind(stack[k])' = Behind(stack'[k])
            BY <1>0 DEF Behind
        <3> QED
            BY <1>3, <1>4, <3>1 DEF Past
    <2>1. CASE d \in Behind(stack[k])
        BY <2>1, BehindStays
    <2>2. CASE d \notin Behind(stack[k])
        <3>1. k = n
            BY <1>3, <2>2
        <3>2. d = deps[top.of][top.next]
            <4>1. PICK i \in 1..(f.next - 1) : d = deps[f.of][i]
                BY <1>3, <3>1 DEF Behind
            <4>2. i \notin 1..(top.next - 1)
                BY <1>1, <2>2, <3>1, <4>1 DEF Behind
            <4>3. i = top.next
                BY <1>0, <1>1, <4>1, <4>2
            <4> QED
                BY <1>1, <4>1, <4>3
        <3>3. d \in Modules /\ Begun(d) /\ d # top.of
            BY <1>0, <3>2 DEF OrderInv, AtTop, AtDependency
        <3>4. Begun(d)'
            BY <1>0, <3>3, BegunStays
        <3> QED
            BY <3>1, <3>3, <3>4
    <2> QED
        BY <2>1, <2>2
<1>8. AtTop'
    BY <1>2 DEF AtTop, Recursing, InLoad, Outcomes
<1> QED
    BY <1>6, <1>7, <1>8

LEMMA OwnStepKeeps ==
    ASSUME IInv, OrderInv, Next, MainStep
    PROVE  Path' /\ Past' /\ AtTop'
<1> DEFINE n == Len(stack)
           top == stack[n]
<1>0. /\ Main \in Threads /\ pc \in [Threads -> Labels] /\ ref \in [Threads -> Reference \cup {None}]
      /\ stack \in Seq(Frames) /\ n \in Nat
      /\ stack # <<>> => Top = top /\ pc[Main] # "idle" /\ n \in 1..n
      /\ stack # <<>> => top.of \in Modules /\ top.next \in Nat \ {0}
    BY OnStack
<1>1. CASE NextModule
    <2>0. stack = <<>>
        BY <1>1 DEF NextModule, IInv, LoaderInv, Recursion
    <2>1. CASE UNCHANGED <<stack, visited>>
        BY <2>0, <2>1, TopMoves
    <2>2. CASE rest # <<>> /\ Enter(Head(rest))
        <3>1. Head(rest) \in Modules
            BY <2>2, RestTyped DEF IInv
        <3> QED
            BY <2>0, <2>2, <3>1, StackGrows
    <2> QED
        BY <1>1, <2>1, <2>2 DEF NextModule
<1>2. CASE Visit
    <2>m. PICK m : m = ref[Main][1]
        OBVIOUS
    <2>0. pc[Main] = "visit" /\ m \in Modules /\ Index(m) = m
        BY <1>2, <2>m DEF Visit, IInv, LoaderInv, Referring, Reference, Threads, OrderInv, Presets, Index
    <2>1. stack # <<>> => AtDependency(top, m)
        BY <2>0, <2>m DEF OrderInv, AtTop
    <2>2. CASE UNCHANGED <<visited, stack>> /\ Goto(Main, "refused")
        <3>1. pc'[Main] = "refused"
            BY <1>0, <2>2 DEF Goto
        <3> QED
            BY <2>2, <3>1, TopMoves DEF Recursing, InLoad, Outcomes
    <2>3. CASE /\ m \notin visited /\ m \in present /\ StubStatus(m) # "Offline"
               /\ Goto(Main, "returned") /\ UNCHANGED <<visited, stack>>
        <3>1. pc'[Main] = "returned"
            BY <1>0, <2>3 DEF Goto
        <3>2. Begun(m)
            BY <2>3 DEF Begun, StubStatus
        <3>3. Begun(m)'
            BY <2>0, <3>2, BegunStays
        <3>4. stack # <<>> => m # top.of
            <4>1. stack # <<>> => Index(top.of) \in visited
                BY <1>0 DEF OrderInv, Path
            <4> QED
                BY <2>0, <2>3, <4>1
        <3>5. ~ Recursing'
            BY <3>1 DEF Recursing, InLoad, Outcomes
        <3> QED
            BY <2>0, <2>1, <2>3, <3>1, <3>3, <3>4, <3>5, TopMoves
    <2>4. CASE m \notin visited /\ Enter(m)
        BY <2>0, <2>1, <2>4, StackGrows
    <2> QED
        BY <1>2, <2>m, <2>2, <2>3, <2>4 DEF Visit
<1>3. CASE Descend
    <2>0. stack # <<>> /\ UNCHANGED <<stack, visited>>
        BY <1>3 DEF Descend, loader, IInv, LoaderInv, Recursion
    <2>1. CASE Top.next <= Len(deps[Top.of])
        <3>1. pc'[Main] = "visit" /\ ref'[Main] = <<deps[Top.of][Top.next], 0>>
            BY <1>0, <1>3, <2>1 DEF Descend, Goto, Refer
        <3>2. AtDependency(top, ref'[Main][1])
            BY <1>0, <2>0, <2>1, <3>1 DEF AtDependency
        <3>3. ~ Recursing'
            BY <3>1 DEF Recursing, InLoad, Outcomes
        <3> QED
            BY <2>0, <3>1, <3>2, <3>3, TopMoves
    <2>2. CASE ~ (Top.next <= Len(deps[Top.of]))
        <3>1. pc'[Main] = "recommit"
            BY <1>0, <1>3, <2>2 DEF Descend, Goto
        <3>2. Len(deps[top.of]) \in Nat
            BY <1>0, <2>0, LenProperties DEF IInv, LoaderInv, LoaderTypeOK
        <3>3. top.next > Len(deps[top.of])
            BY <1>0, <2>0, <2>2, <3>2
        <3> QED
            BY <2>0, <3>1, <3>3, TopMoves
    <2> QED
        BY <2>1, <2>2
<1>4. ASSUME pc[Main] \in {"recommit", "make"}, UNCHANGED <<stack, visited>>, pc'[Main] = "load",
             ref'[Main] = <<top.of, stub'[top.of]>>, stub'[top.of] # 0
      PROVE  Path' /\ Past' /\ AtTop'
    <2>1. top.next > Len(deps[top.of])
        <3>1. Recursing
            BY <1>4 DEF Recursing
        <3> QED
            BY <3>1, OnStack DEF OrderInv, AtTop
    <2> QED
        BY <1>4, <2>1, TopMoves
<1>5. ASSUME pc[Main] \in {"recommit", "make"}
      PROVE  stack # <<>> /\ Top.of = top.of /\ Top.of \in Modules
             /\ stub \in [Modules -> 0..2] /\ made \in [Modules -> 0..2]
    BY <1>0, <1>5 DEF IInv, LoaderInv, LoaderTypeOK, Recursion
<1>6. ASSUME pc[Main] \in {"recommit", "make"}, Make(Main, Top.of)
      PROVE  ref'[Main] = <<top.of, stub'[top.of]>> /\ stub'[top.of] # 0
    <2>1. made[Top.of] + 1 # 0
        BY <1>5, <1>6
    <2>2. /\ stub' = [stub EXCEPT ![Top.of] = made[Top.of] + 1]
          /\ ref' = [ref EXCEPT ![Main] = <<Top.of, made[Top.of] + 1>>]
        BY <1>6 DEF Make, Refer
    <2>3. stub'[Top.of] = made[Top.of] + 1 /\ ref'[Main] = <<Top.of, made[Top.of] + 1>>
        BY <1>0, <1>5, <1>6, <2>2
    <2> QED
        BY <1>5, <1>6, <2>1, <2>3
<1>7. ASSUME pc[Main] \in {"recommit", "make"}, Keep(Main, Top.of), stub[Top.of] # 0
      PROVE  ref'[Main] = <<top.of, stub'[top.of]>> /\ stub'[top.of] # 0
    BY <1>0, <1>5, <1>7 DEF Keep, Refer, instances
<1>8. CASE Recommit
    <2>1. CASE stub[Top.of] = 0
        <3>1. pc'[Main] = "make" /\ UNCHANGED <<stack, visited>> /\ pc[Main] = "recommit"
            BY <1>0, <1>8, <2>1 DEF Recommit, Goto, loader
        <3>2. top.next > Len(deps[top.of])
            BY <1>5, <3>1 DEF OrderInv, AtTop, Recursing
        <3>3. \A k \in 1..n : top.of \notin Behind(stack[k])
            BY <1>5, <2>1, <3>1 DEF OrderInv, Past, Begun
        <3> QED
            BY <3>1, <3>2, <3>3, TopMoves
    <2>2. CASE stub[Top.of] # 0
        BY <1>0, <1>4, <1>7, <1>8, <2>2 DEF Recommit, Goto, loader
    <2> QED
        BY <2>1, <2>2
<1>9. CASE CommitNamed
    BY <1>0, <1>4, <1>6, <1>7, <1>9 DEF CommitNamed, Goto, loader
<1>10. CASE Assign
    BY <1>0, <1>4, <1>6, <1>10 DEF Assign, Goto, loader
<1>11. CASE Returned
    <2>1. CASE stack = <<>>
        BY <1>11, <2>1, TopMoves DEF Returned
    <2>2. CASE stack # <<>>
        BY <1>11, <2>2, GoesPast
    <2> QED
        BY <2>1, <2>2
<1>12. CASE Refused
    <2>1. CASE stack = <<>>
        <3>1. stack' = <<>> /\ Len(<<>>) = 0
            BY <1>12, <2>1 DEF Refused
        <3> QED
            BY <3>1 DEF Path, Past, AtTop
    <2>2. CASE stack # <<>>
        <3>1. stack' = Front(stack) /\ visited' = visited /\ pc'[Main] = "refused"
            BY <1>12, <2>2 DEF Refused
        <3>2. \A k \in 1..(n - 1) : Index(stack[k].of) \in visited'
            BY <1>0, <3>1 DEF OrderInv, Path
        <3>3. Path' /\ Past'
            BY <2>2, <3>1, <3>2, StackShrinks
        <3>4. AtTop'
            BY <3>1 DEF AtTop, Recursing, InLoad, Outcomes
        <3> QED
            BY <3>3, <3>4
    <2> QED
        BY <2>1, <2>2
<1> QED
    BY <1>1, <1>2, <1>3, <1>8, <1>9, <1>10, <1>11, <1>12 DEF MainStep

LEMMA OrderKeeps ==
    ASSUME IInv, OrderInv, [Next]_vars
    PROVE  OrderInv'
<1>0. pc \in [Threads -> Labels] /\ ref \in [Threads -> Reference \cup {None}] /\ Main \in Threads
    BY OnStack
<1>1. CASE UNCHANGED vars
    <2>1. /\ stack' = stack /\ visited' = visited /\ pc' = pc /\ ref' = ref /\ deps' = deps
          /\ stub' = stub /\ made' = made /\ status' = status
        BY <1>1 DEF vars, registry, instances, loader
    <2>2. Presets' /\ Path'
        BY <2>1 DEF OrderInv, Presets, Path, AtDependency
    <2>3. \A d : Begun(d)' <=> Begun(d)
        BY <1>1 DEF Begun, vars, registry, instances, loader
    <2>4. Past'
        BY <2>1, <2>3 DEF OrderInv, Past, Behind
    <2>5. AtTop'
        <3>1. Recursing' <=> Recursing
            BY <2>1 DEF Recursing, InLoad
        <3>2. \A k : Behind(stack[k])' = Behind(stack[k])
            BY <2>1 DEF Behind
        <3>3. \A d : AtDependency(stack[Len(stack)], d)' <=> AtDependency(stack[Len(stack)], d)
            BY <2>1 DEF AtDependency
        <3> QED
            BY <2>1, <2>3, <3>1, <3>2, <3>3 DEF OrderInv, AtTop
    <2> QED
        BY <2>2, <2>4, <2>5 DEF OrderInv
<1>2. CASE Next
    <2>1. Presets'
        BY <1>2, PresetsKeep DEF OrderInv
    <2>2. Path' /\ Past' /\ AtTop'
        <3>1. CASE LoadStep(Main)
            BY <1>2, <3>1, OwnLoadKeeps
        <3>2. CASE MainStep
            BY <1>2, <3>2, OwnStepKeeps
        <3>3. ASSUME NEW t \in Queriers,
                     LoadStep(t) \/ QueryStep(t) \/ \E m \in Modules : Query(t, m)
              PROVE  UNCHANGED loader /\ pc'[Main] = pc[Main] /\ ref'[Main] = ref[Main]
            <4>1. t # Main /\ t \in Threads
                BY MainAssumption DEF Threads
            <4>2. CASE LoadStep(t)
                BY <1>0, <4>1, <4>2 DEF LoadStep, Ensure, Finish, Degrade, Store, Throw, Thrown, Loaded,
                    Goto, Refer
            <4>3. CASE QueryStep(t) \/ \E m \in Modules : Query(t, m)
                BY <1>0, <4>1, <4>3 DEF QueryStep, Find, Commit, Status, Usable, Query, Null, Keep, Make,
                    Goto, Refer
            <4> QED
                BY <3>3, <4>2, <4>3
        <3>4. CASE (\E list \in Lists : LoadModules(list)) \/ (\E m \in Modules : RemoveModule(m))
                   \/ Destroy
            <4>1. pc[Main] = "idle" /\ UNCHANGED stack /\ pc'[Main] \in {"idle", "next"}
                BY <1>0, <3>4 DEF LoadModules, RemoveModule, Destroy, loader, Goto
            <4>2. stack' = <<>> /\ Len(<<>>) = 0
                BY <4>1 DEF IInv, LoaderInv, Recursion
            <4> QED
                BY <4>2 DEF Path, Past, AtTop
        <3> QED
            BY <1>2, <3>1, <3>2, <3>3, <3>4, OthersKeep DEF Next, ThreadStep, Threads
    <2> QED
        BY <2>1, <2>2 DEF OrderInv
<1> QED
    BY <1>1, <1>2

LEMMA OrderInitially == Init => OrderInv
<1> SUFFICES ASSUME Init PROVE OrderInv
    OBVIOUS
<1>1. deps \in [Modules -> Seq(Modules \ Named)] /\ Main \in Threads /\ Len(<<>>) = 0
    BY GraphAssumption DEF Init, Threads
<1> QED
    BY <1>1 DEF Init, OrderInv, Presets, Path, Past, AtTop

LEMMA OrderInductive == Spec => [](IInv /\ OrderInv)
<1>1. IInv /\ OrderInv /\ [Next]_vars => OrderInv'
    BY OrderKeeps
<1> QED
    BY <1>1, InitIInv, NextKeeps, OrderInitially, PTL DEF Spec

\* All dependencies of what is being loaded are behind the top of the stack.
LEMMA AllBehind ==
    ASSUME IInv, OrderInv, Recursing, NEW d \in ToSet(deps[Top.of])
    PROVE  Begun(d) /\ d # Top.of
<1>1. stack # <<>> /\ Len(stack) \in 1..Len(stack) /\ Top = stack[Len(stack)] /\ Top.of \in Modules
      /\ Top.next \in Nat
    BY OnStack
<1>2. Top.next > Len(deps[Top.of]) /\ deps[Top.of] \in Seq(Modules)
    BY <1>1 DEF OrderInv, AtTop, IInv, LoaderInv, LoaderTypeOK
<1>3. PICK i \in 1..Len(deps[Top.of]) : d = deps[Top.of][i]
    BY <1>2 DEF ToSet
<1>4. i \in 1..(Top.next - 1)
    BY <1>1, <1>2, <1>3, LenProperties
<1>5. d \in Behind(Top)
    BY <1>3, <1>4 DEF Behind
<1> QED
    BY <1>1, <1>5 DEF OrderInv, Past

LEMMA DependenciesComeFirst == ASSUME IInv, OrderInv PROVE DependenciesFirst
BY AllBehind DEF DependenciesFirst, Begun, StubStatus

-----------------------------------------------------------------------------
(* The modules that a module needs, by induction on the length of the      *)
(* paths, and the cycles.                                                  *)

LEMMA Least ==
    ASSUME NEW T, T \subseteq Nat, T # {}
    PROVE  \E n \in T : \A m \in T : n <= m
<1>1. PICK n \in T : \A m \in T : ~ (<<m, n>> \in OpToRel(<, Nat))
    BY NatLessThanWellFounded, WFMin
<1>2. \A m \in T : ~ (m < n)
    BY <1>1 DEF OpToRel
<1> QED
    BY <1>2

LEMMA Induction ==
    ASSUME NEW S, 0 \in S, \A n \in Nat : n \in S => n + 1 \in S
    PROVE  Nat \subseteq S
<1>1. SUFFICES ASSUME Nat \ S # {} PROVE FALSE
    OBVIOUS
<1>2. PICK n \in Nat \ S : \A m \in Nat \ S : n <= m
    BY <1>1, Least
<1>3. n # 0 /\ n - 1 \in Nat /\ n - 1 \in S /\ (n - 1) + 1 = n
    BY <1>2
<1> QED
    BY <1>2, <1>3

\* The modules needed along one edge more.
Further(f) == [m \in Modules |-> ToSet(deps[m]) \cup UNION {f[d] : d \in ToSet(deps[m])}]
Along(n, f) == f = [i \in 0..n |-> IF i = 0 THEN [m \in Modules |-> {}] ELSE Further(f[i - 1])]

LEMMA AlongExists == \A n \in Nat : \E f : Along(n, f)
<1> DEFINE T == {n \in Nat : \E f : Along(n, f)}
           nothing == [m \in Modules |-> {}]
<1> HIDE DEF nothing
<1>1. 0 \in T
    <2>1. Along(0, [i \in 0..0 |-> nothing])
        BY DEF Along, nothing
    <2> QED
        BY <2>1
<1>2. ASSUME NEW n \in Nat, n \in T
      PROVE  n + 1 \in T
    <2>1. PICK f : Along(n, f)
        BY <1>2
    <2> DEFINE last == Further(f[n])
               g == [i \in 0..(n + 1) |-> IF i = n + 1 THEN last ELSE f[i]]
    <2>2. g = [i \in 0..(n + 1) |-> g[i]] /\ g[n + 1] = last /\ \A i \in 0..n : g[i] = f[i]
        OBVIOUS
    <2> HIDE DEF g
    <2>3. ASSUME NEW i \in 0..(n + 1)
          PROVE  g[i] = IF i = 0 THEN nothing ELSE Further(g[i - 1])
        <3>1. CASE i = n + 1
            <4>1. i # 0 /\ i - 1 = n /\ g[i - 1] = f[n] /\ g[i] = last
                BY <2>2, <3>1
            <4> QED
                BY <4>1
        <3>2. CASE i # n + 1
            <4>1. i \in 0..n /\ (i # 0 => i - 1 \in 0..n)
                BY <3>2
            <4>2. f[i] = IF i = 0 THEN nothing ELSE Further(f[i - 1])
                BY <2>1, <4>1 DEF Along, nothing
            <4> QED
                BY <2>2, <4>1, <4>2
        <3> QED
            BY <3>1, <3>2
    <2>4. Along(n + 1, g)
        BY <2>2, <2>3 DEF Along, nothing
    <2> QED
        BY <2>4
<1> HIDE DEF T
<1>3. Nat \subseteq T
    BY <1>1, <1>2, Induction
<1> QED
    BY <1>3 DEF T

LEMMA NeedsProperties ==
    LET n == Cardinality(Modules)
    IN  /\ n \in Nat
        /\ Needs[0] = [m \in Modules |-> {}]
        /\ \A i \in 1..n : Needs[i] = Further(Needs[i - 1])
<1> DEFINE n == Cardinality(Modules)
           f == CHOOSE f : Along(n, f)
<1>1. n \in Nat
    BY ModuleAssumption, FS_CardinalityType
<1>2. Needs = f
    BY DEF Needs, Along, Further
<1>3. Along(n, f)
    BY <1>1, AlongExists
<1> HIDE DEF f, n
<1>4. f[0] = [m \in Modules |-> {}]
    BY <1>1, <1>3 DEF Along
<1>5. \A i \in 1..n : f[i] = Further(f[i - 1])
    <2>1. f = [i \in 0..n |-> IF i = 0 THEN [m \in Modules |-> {}] ELSE Further(f[i - 1])]
        BY <1>3 DEF Along
    <2> SUFFICES ASSUME NEW i \in 1..n
                 PROVE  f[i] = Further(f[i - 1])
        OBVIOUS
    <2>2. i \in 0..n /\ i # 0
        BY <1>1
    <2> HIDE DEF Further
    <2> QED
        BY <2>1, <2>2
<1> QED
    BY <1>1, <1>2, <1>4, <1>5 DEF n

\* A longer path needs more.
LEMMA NeedsGrow ==
    ASSUME deps \in [Modules -> Seq(Modules)]
    PROVE  \A i \in 1..Cardinality(Modules) : \A m \in Modules : Needs[i - 1][m] \subseteq Needs[i][m]
<1> DEFINE n == Cardinality(Modules)
           Grows(i) == \A m \in Modules : Needs[i - 1][m] \subseteq Needs[i][m]
           T == {i \in Nat : i + 1 <= n => Grows(i + 1)}
<1> HIDE DEF n
<1>1. /\ n \in Nat /\ Needs[0] = [m \in Modules |-> {}]
      /\ \A i \in 1..n : Needs[i] = Further(Needs[i - 1])
    BY NeedsProperties DEF n
<1>2. 0 \in T
    BY <1>1
<1>3. ASSUME NEW i \in Nat, i \in T
      PROVE  i + 1 \in T
    <2> SUFFICES ASSUME (i + 1) + 1 <= n PROVE Grows((i + 1) + 1)
        OBVIOUS
    <2>1. /\ i + 1 \in 1..n /\ (i + 1) + 1 \in 1..n /\ ((i + 1) + 1) - 1 = i + 1 /\ (i + 1) - 1 = i
        BY <1>1
    <2>2. \A m \in Modules : Needs[i][m] \subseteq Needs[i + 1][m]
        BY <1>3, <2>1
    <2>3. Needs[i + 1] = Further(Needs[i]) /\ Needs[(i + 1) + 1] = Further(Needs[i + 1])
        BY <1>1, <2>1
    <2>4. ASSUME NEW m \in Modules
          PROVE  Further(Needs[i])[m] \subseteq Further(Needs[i + 1])[m]
        <3>1. ToSet(deps[m]) \subseteq Modules
            BY ElementOfSeq DEF ToSet
        <3> QED
            BY <2>2, <3>1 DEF Further
    <2> QED
        BY <2>1, <2>3, <2>4
<1> HIDE DEF T
<1>4. Nat \subseteq T
    BY <1>2, <1>3, Induction
<1>5. ASSUME NEW i \in 1..n PROVE Grows(i)
    <2>1. i - 1 \in T /\ (i - 1) + 1 = i
        BY <1>4
    <2> QED
        BY <1>1, <2>1 DEF T
<1> QED
    BY <1>5 DEF n

\* On a cycle through the module that is being loaded the next one has an instance: it was
\* not refused, so that some query made the instance before.
LEMMA CyclesAreRefused == ASSUME IInv, OrderInv PROVE CyclesRefused
<1> DEFINE n == Cardinality(Modules)
           m == Top.of
<1> HIDE DEF n
<1> SUFFICES ASSUME Recursing, OnCycle(m, Index(m))
             PROVE  \E d \in Modules \ {m} : OnCycle(m, d) /\ made[d] > 0
    BY DEF CyclesRefused
<1>1. m \in Modules /\ deps \in [Modules -> Seq(Modules)] /\ made \in [Modules -> 0..2]
    BY OnStack DEF IInv, LoaderInv, LoaderTypeOK
<1>2. /\ n \in Nat /\ Needs[0] = [d \in Modules |-> {}]
      /\ \A i \in 1..n : Needs[i] = Further(Needs[i - 1])
    BY NeedsProperties DEF n
<1>3. Index(m) \in Needs[n][m]
    BY DEF OnCycle, n
<1>4. n \in 1..n
    BY <1>1, <1>2, <1>3
<1>5. Needs[n][m] = ToSet(deps[m]) \cup UNION {Needs[n - 1][d] : d \in ToSet(deps[m])}
    <2>1. Needs[n] = Further(Needs[n - 1])
        BY <1>2, <1>4
    <2> HIDE DEF m
    <2>2. Further(Needs[n - 1])[m] = ToSet(deps[m]) \cup UNION {Needs[n - 1][d] : d \in ToSet(deps[m])}
        BY <1>1 DEF Further
    <2> QED
        BY <2>1, <2>2
<1>6. \A d \in ToSet(deps[m]) : d \in Modules \ {m} /\ made[d] > 0
    <2> SUFFICES ASSUME NEW d \in ToSet(deps[m])
                 PROVE  d \in Modules \ {m} /\ made[d] > 0
        OBVIOUS
    <2>1. d \in Modules
        BY <1>1, ElementOfSeq DEF ToSet
    <2>2. d # m /\ stub[d] # 0
        BY AllBehind DEF Begun
    <2>3. made[d] # 0 /\ made[d] \in 0..2
        BY <1>1, <2>1, <2>2 DEF OrderInv, Presets
    <2> QED
        BY <2>1, <2>2, <2>3
<1>7. PICK d \in ToSet(deps[m]) : d = Index(m) \/ Index(m) \in Needs[n - 1][d]
    BY <1>3, <1>5
<1>8. Index(m) \in Needs[n][d] \cup {d}
    BY <1>1, <1>4, <1>6, <1>7, NeedsGrow DEF n
<1>9. OnCycle(m, d)
    BY <1>5, <1>8 DEF OnCycle, n
<1> QED
    BY <1>6, <1>9

\* Loads exclude each other, unless a load threw; a module is loaded after its dependencies,
\* and a cycle of them is refused (IOContext::_load_module_recursive): for any modules, with
\* any dependencies, results of loads and threads that query.
THEOREM LoadsAreOrdered == Spec => []LoadOrder
<1>1. IInv /\ OrderInv => LoadOrder
    BY DependenciesComeFirst, CyclesAreRefused DEF IInv, LoadOrder
<1> QED
    BY <1>1, OrderInductive, PTL
==============================================================================
