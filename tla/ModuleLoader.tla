---------------------------- MODULE ModuleLoader ----------------------------
(***************************************************************************)
(* The modules of an IOContext (src/core/io/d2_context.cpp) and their life *)
(* (src/core/io/d2_module.cpp): the main thread loads lists of modules     *)
(* with their dependencies and removes modules, and any thread queries a   *)
(* module, which loads it when it is still offline.                        *)
(*                                                                         *)
(* A module is a type index, or a type index and a name.  Its stub holds a *)
(* handle until _commit_ puts an instance in it; an instance is <<m, n>>,  *)
(* the n-th made for m.                                                    *)
(***************************************************************************)
EXTENDS Naturals, Sequences, FiniteSets, SequencesExt

CONSTANTS Modules,
          Named,        \* those with a name
          Type,         \* the type index of those: the module without a name
          Immediate,    \* those whose preset is Load::Immediate
          Graphs,       \* dependencies the presets may state
          Lists,        \* arguments of load<...>()
          Results,      \* how the _load_impl of each module may end
          Main,         \* the thread that loads and removes
          Queriers,     \* the other threads
          Removing      \* bound: modules that unload<...>() is called for

ASSUME ModuleAssumption == /\ IsFiniteSet(Modules)
                           /\ Immediate \subseteq Modules /\ Named \subseteq Modules
                           /\ Type \in [Named -> Modules \ Named]
\* ModPreset::deps are type indices.
ASSUME GraphAssumption == Graphs \subseteq [Modules -> Seq(Modules \ Named)]
ASSUME ListAssumption == Lists \subseteq Seq(Modules)
ASSUME ResultAssumption == Results \in [Modules -> SUBSET {"Ok", "Degraded", "Failure", "throw"}]
ASSUME MainAssumption == Main \notin Queriers /\ Removing \subseteq Modules

Index(m) == IF m \in Named THEN Type[m] ELSE m

Threads == {Main} \cup Queriers

\* A second instance is made only when the commits of a load and of a query race.
Instance == Modules \X (1..2)

\* What a thread has of a module: an instance, or none yet.
Reference == Modules \X (0..2)
None == <<>>

VARIABLES deps,       \* ModPreset::deps of every module
          entries,    \* type indices with an entry in _modules
          present,    \* modules with a stub in them
          removed,    \* modules that were removed
          stub,       \* the instance in the stub: 0 if there is only the handle
          made,       \* instances made so far
          status,     \* SystemModule::_status
          threw,      \* instances whose load has thrown
          pc,         \* where each thread is
          ref,        \* the module and the instance it works on, or got from its query
          rest,       \* load_list from the module being loaded on
          stack,      \* callers in _load_module_recursive: module, next dependency
          visited,    \* visit_map
          unloaded,   \* instances whose _unload_impl has run
          ended       \* the context is gone

registry == <<deps, entries, present, removed>>
instances == <<stub, made>>
loader == <<rest, stack, visited>>
end == <<unloaded, ended>>
vars == <<registry, instances, status, threw, pc, ref, loader, end>>

\* ModuleStub::status
StubStatus(m) == IF stub[m] = 0 THEN "Offline" ELSE status[<<m, stub[m]>>]

Goto(t, l) == pc' = [pc EXCEPT ![t] = l]
Refer(t, r) == ref' = [ref EXCEPT ![t] = r]

Init == /\ deps \in Graphs
        /\ entries = {}
        /\ present = {}
        /\ removed = {}
        /\ stub = [m \in Modules |-> 0]
        /\ made = [m \in Modules |-> 0]
        /\ status = [x \in Instance |-> "Offline"]
        /\ threw = {}
        /\ pc = [t \in Threads |-> "idle"]
        /\ ref = [t \in Threads |-> None]
        /\ rest = <<>>
        /\ stack = <<>>
        /\ visited = {}
        /\ unloaded = {}
        /\ ended = FALSE

-----------------------------------------------------------------------------
(* SystemModule::load on the instance that thread t holds.                 *)

\* Where the thread goes when load() is over: a query returns the instance, a call
\* of _load_module_recursive returns true.
Loaded(t) ==
    IF t = Main
    THEN /\ visited' = visited \ {Index(ref[t][1])}
         /\ stack' = Front(stack)
         /\ Refer(t, None)
         /\ Goto(t, "returned")
         /\ UNCHANGED rest
    ELSE Goto(t, "idle") /\ UNCHANGED <<ref, loader>>

\* The loop of _ensure_loaded: a thread that finds the module loading waits.
EnsureTwice(t) ==
    /\ pc[t] = "load"
    /\ status' = [status EXCEPT ![ref[t]] = "Loading"]
    /\ Goto(t, "callback")
    /\ UNCHANGED <<registry, end, instances, threw, ref, loader>>
Ensure(t) ==
    /\ pc[t] = "load"
    /\ \/ /\ status[ref[t]] = "Ok"
          /\ Loaded(t)
          /\ UNCHANGED status
       \/ /\ status[ref[t]] \notin {"Ok", "Loading"}
          /\ status' = [status EXCEPT ![ref[t]] = "Loading"]
          /\ Goto(t, "callback")
          /\ UNCHANGED <<ref, loader>>
    /\ UNCHANGED <<registry, end, instances, threw>>

\* _load_impl returns s, unless the late Offline of a load that threw (Thrown) has
\* marked the module as degraded meanwhile: load() looks before and after _load_impl.
Finish(t, s) ==
    /\ pc[t] = "callback"
    /\ s \in Results[ref[t][1]]
    /\ status[ref[t]] # "Offline"
    /\ Goto(t, s)
    /\ UNCHANGED <<registry, end, instances, status, threw, ref, loader>>

Degrade(t) ==
    /\ pc[t] = "callback"
    /\ status[ref[t]] = "Offline"
    /\ Goto(t, "Degraded")
    /\ UNCHANGED <<registry, end, instances, status, threw, ref, loader>>

\* What load() returned is stored, and the threads that wait are notified.
Outcomes == {"Ok", "Degraded", "Failure"}
StoreOk(t) ==
    /\ pc[t] \in Outcomes
    /\ status' = IF pc[t] = "Ok" THEN [status EXCEPT ![ref[t]] = "Ok"] ELSE status
    /\ Loaded(t)
    /\ UNCHANGED <<registry, end, instances, threw>>
Store(t) ==
    /\ pc[t] \in Outcomes
    /\ status' = [status EXCEPT ![ref[t]] = pc[t]]
    /\ Loaded(t)
    /\ UNCHANGED <<registry, end, instances, threw>>

\* _load_impl throws: Failure is stored first, and then Offline.
Throw(t) ==
    /\ pc[t] = "callback"
    /\ "throw" \in Results[ref[t][1]]
    /\ status' = [status EXCEPT ![ref[t]] = "Failure"]
    /\ threw' = threw \cup {ref[t]}
    /\ Goto(t, "failed")
    /\ UNCHANGED <<registry, end, instances, ref, loader>>

Thrown(t) ==
    /\ pc[t] = "failed"
    /\ status' = [status EXCEPT ![ref[t]] = "Offline"]
    /\ Loaded(t)
    /\ UNCHANGED <<registry, end, instances, threw>>

LoadStep(t) == \/ Ensure(t)
               \/ \E s \in Outcomes : Finish(t, s)
               \/ Degrade(t) \/ Store(t) \/ Throw(t) \/ Thrown(t)

-----------------------------------------------------------------------------
(* _get_module_if_uc on thread t.                                          *)

Query(t, m) ==
    /\ pc[t] = "idle" /\ ~ended
    /\ Refer(t, <<m, 0>>)
    /\ Goto(t, "find")
    /\ UNCHANGED <<registry, end, instances, status, threw, loader>>

\* The query returns null, or throws when the entry has named modules only.
Null(t) == Refer(t, None) /\ Goto(t, "idle")

\* The main thread keeps the lock while it loads a named module.
Unlocked == IF pc[Main] \in Outcomes \cup {"load", "callback", "failed"}
            THEN ref[Main][1] \notin Named ELSE TRUE

\* Under the shared lock.
Find(t) ==
    LET m == ref[t][1]
    IN  /\ pc[t] = "find" /\ Unlocked
        /\ \/ /\ m \notin present
              /\ Null(t)
           \/ /\ m \in present /\ StubStatus(m) = "Offline"
              /\ Goto(t, "commit") /\ UNCHANGED ref
           \/ /\ m \in present /\ StubStatus(m) # "Offline"
              /\ Refer(t, <<m, stub[m]>>)
              /\ Goto(t, "status")
        /\ UNCHANGED <<registry, end, instances, status, threw, loader>>

\* ModuleStub::commit by thread t, when the stub has only the handle and when it has
\* an instance
Make(t, m) == /\ made' = [made EXCEPT ![m] = @ + 1]
              /\ stub' = [stub EXCEPT ![m] = made[m] + 1]
              /\ Refer(t, <<m, made[m] + 1>>)
Keep(t, m) == Refer(t, <<m, stub[m]>>) /\ UNCHANGED instances

\* Under the exclusive lock, which is not the shared lock upgraded: if the module
\* is no longer offline, the query has no instance and returns null.
Commit(t) ==
    LET m == ref[t][1]
    IN  /\ pc[t] = "commit" /\ Unlocked
        /\ \/ /\ m \notin present \/ StubStatus(m) # "Offline"
              /\ Null(t) /\ UNCHANGED instances
           \/ /\ m \in present /\ StubStatus(m) = "Offline"
              /\ IF stub[m] = 0 THEN Make(t, m) ELSE Keep(t, m)
              /\ Goto(t, "status")
        /\ UNCHANGED <<registry, end, status, threw, loader>>

\* Without a lock.
StatusUnchecked(t) ==
    /\ pc[t] = "status"
    /\ Goto(t, IF status[ref[t]] = "Offline" THEN "load" ELSE "idle")
    /\ UNCHANGED <<registry, end, instances, status, threw, ref, loader>>
Status(t) ==
    /\ pc[t] = "status"
    /\ Goto(t, IF status[ref[t]] = "Offline" THEN "load" ELSE "usable")
    /\ UNCHANGED <<registry, end, instances, status, threw, ref, loader>>

\* The second look.
Usable(t) ==
    /\ pc[t] = "usable"
    /\ IF status[ref[t]] = "Ok" THEN Goto(t, "idle") /\ UNCHANGED ref ELSE Null(t)
    /\ UNCHANGED <<registry, end, instances, status, threw, loader>>

QueryStep(t) == Find(t) \/ Commit(t) \/ Status(t) \/ Usable(t)

-----------------------------------------------------------------------------
(* _load_modules and _load_module_recursive on the main thread.            *)

\* _insert_module for each: a module that is already there throws, and those before
\* it stay.
Inserted(list, n) == /\ \A i \in 1..n : list[i] \notin present
                     /\ n < Len(list) => list[n + 1] \in present

\* The stubs go in under one lock.  Each module is inserted once.
LoadModules(list) ==
    \E n \in 0..Len(list) :
        /\ pc[Main] = "idle" /\ ~ended
        /\ ToSet(list) \cap removed = {}
        /\ Inserted(list, n)
        /\ entries' = entries \cup {Index(list[i]) : i \in 1..n}
        /\ present' = present \cup {list[i] : i \in 1..n}
        /\ IF n = Len(list)
           THEN rest' = list /\ Goto(Main, "next")
           ELSE UNCHANGED <<rest, pc>>
        /\ UNCHANGED <<deps, removed, instances, status, threw, ref, stack, visited, end>>

Enter(m) == /\ visited' = visited \cup {Index(m)}
            /\ stack' = Append(stack, [of |-> m, next |-> 1])
            /\ Goto(Main, "deps")

\* Those whose preset is Load::Lazy wait for a query.  For a module with a name _load_modules itself
\* goes through the dependencies, whether the module is loaded or not.
NextModule ==
    /\ pc[Main] = "next"
    /\ \/ /\ rest = <<>> /\ Goto(Main, "idle")
          /\ UNCHANGED <<ref, visited, stack, rest>>
       \/ /\ rest # <<>> /\ Head(rest) \notin Immediate
          /\ rest' = Tail(rest)
          /\ UNCHANGED <<ref, visited, stack, pc>>
       \/ /\ rest # <<>> /\ Head(rest) \in Immediate \ Named
          /\ Refer(Main, <<Head(rest), 0>>) /\ Goto(Main, "visit")
          /\ UNCHANGED <<visited, stack, rest>>
       \/ /\ rest # <<>> /\ Head(rest) \in Immediate \cap Named
          /\ Enter(Head(rest)) /\ UNCHANGED <<ref, rest>>
    /\ UNCHANGED <<registry, end, instances, status, threw>>

\* A call of _load_module_recursive, up to its loop.
VisitTrusting ==
    LET m == ref[Main][1]
    IN  /\ pc[Main] = "visit"
        /\ \/ /\ m \in visited \/ m \notin present \/ StubStatus(m) # "Offline"
              /\ Goto(Main, "returned")
              /\ UNCHANGED <<visited, stack>>
           \/ /\ m \notin visited /\ m \in present /\ StubStatus(m) = "Offline"
              /\ Enter(m)
        /\ Refer(Main, None)
        /\ UNCHANGED <<registry, end, instances, status, threw, rest>>
Visit ==
    LET m == ref[Main][1]
    IN  /\ pc[Main] = "visit"
        /\ \/ /\ m \in visited \/ m \notin present
              /\ Goto(Main, "refused")
              /\ UNCHANGED <<visited, stack>>
           \/ /\ m \notin visited /\ m \in present /\ StubStatus(m) # "Offline"
              /\ Goto(Main, "returned")
              /\ UNCHANGED <<visited, stack>>
           \/ /\ m \notin visited /\ m \in present /\ StubStatus(m) = "Offline"
              /\ Enter(m)
        /\ Refer(Main, None)
        /\ UNCHANGED <<registry, end, instances, status, threw, rest>>

Top == Last(stack)

\* The loop over the dependencies of the module on top of the stack.
Descend ==
    /\ pc[Main] = "deps"
    /\ IF Top.next <= Len(deps[Top.of])
       THEN Refer(Main, <<deps[Top.of][Top.next], 0>>) /\ Goto(Main, "visit")
       ELSE Refer(Main, <<Top.of, 0>>) /\ Goto(Main, "recommit")
    /\ UNCHANGED <<registry, end, instances, status, threw, loader>>

\* ptr.unnamed.commit() is not under the lock: a query can put an instance in the
\* stub between the look at it and the assignment.
Recommit ==
    /\ pc[Main] = "recommit" /\ Top.of \notin Named
    /\ IF stub[Top.of] = 0
       THEN Goto(Main, "make") /\ UNCHANGED <<instances, ref>>
       ELSE Keep(Main, Top.of) /\ Goto(Main, "load")
    /\ UNCHANGED <<registry, end, status, threw, loader>>

\* That of a module with a name is, and so is its load.
CommitNamed ==
    /\ pc[Main] = "recommit" /\ Top.of \in Named
    /\ IF stub[Top.of] = 0 THEN Make(Main, Top.of) ELSE Keep(Main, Top.of)
    /\ Goto(Main, "load")
    /\ UNCHANGED <<registry, end, status, threw, loader>>

Assign ==
    /\ pc[Main] = "make"
    /\ Make(Main, Top.of)
    /\ Goto(Main, "load")
    /\ UNCHANGED <<registry, end, status, threw, loader>>

\* A call returned true: on with the loop of its caller, or of _load_modules.
Returned ==
    /\ pc[Main] = "returned"
    /\ IF stack = <<>>
       THEN rest' = Tail(rest) /\ Goto(Main, "next") /\ UNCHANGED stack
       ELSE /\ stack' = [stack EXCEPT ![Len(stack)].next = @ + 1]
            /\ Goto(Main, "deps")
            /\ UNCHANGED rest
    /\ UNCHANGED <<registry, end, instances, status, threw, ref, visited>>

\* A call returned false: so does its caller, and _load_modules throws (the condition
\* on D2_COMPATIBILITY_MODE holds in every build).
Refused ==
    /\ pc[Main] = "refused"
    /\ IF stack = <<>>
       THEN rest' = <<>> /\ visited' = {} /\ Goto(Main, "idle") /\ UNCHANGED stack
       ELSE stack' = Front(stack) /\ UNCHANGED <<rest, visited, pc>>
    /\ UNCHANGED <<registry, end, instances, status, threw, ref>>

MainStep == NextModule \/ Visit \/ Descend \/ Recommit \/ CommitNamed \/ Assign \/ Returned \/ Refused

\* unload<Module>(): the module goes unless some other module depends on itself, or an
\* entry has named modules only or none any more: asking it for its preset throws.
Removable(m) == \A d \in entries \ {m} : d \in present /\ d \notin ToSet(deps[d])

RemoveModule(m) ==
    /\ pc[Main] = "idle" /\ ~ended
    /\ m \in present /\ m \in Removing
    /\ m \in Named \/ Removable(m)
    /\ entries' = IF \E n \in Named : m \in {n, Type[n]} /\ n \in present
                  THEN entries ELSE entries \ {m}
    /\ present' = present \ {m}
    /\ removed' = removed \cup {m}
    /\ stub' = [stub EXCEPT ![m] = 0]
    /\ UNCHANGED <<deps, made, status, threw, pc, ref, loader, end>>

-----------------------------------------------------------------------------
(* The end of the context, when no call is in progress.                    *)

\* SystemModule::unload goes through _ensure_loaded as load does: it returns at once
\* for a module that is loaded.  In its callback the status is Loading, which it takes
\* for a failure; _post_unload_impl is that of SystemModule and reports Ok.
Unloads(x) == status[x] # "Ok"

\* ~IOContext
Destroy ==
    LET kept == {<<m, stub[m]>> : m \in {d \in present : stub[d] # 0}}
        unload == {x \in kept : Unloads(x)}
    IN  /\ \A t \in Threads : pc[t] = "idle"
        /\ ~ended
        /\ ended' = TRUE
        /\ unloaded' = unload
        /\ status' = [x \in Instance |-> IF x \in unload THEN "Offline" ELSE status[x]]
        /\ UNCHANGED <<registry, instances, threw, pc, ref, loader>>

-----------------------------------------------------------------------------
ThreadStep(t) == LoadStep(t) \/ IF t = Main THEN MainStep ELSE QueryStep(t)

Next == \/ \E t \in Threads : ThreadStep(t)
        \/ \E t \in Queriers, m \in Modules : Query(t, m)
        \/ \E list \in Lists : LoadModules(list)
        \/ \E m \in Modules : RemoveModule(m)
        \/ Destroy

Spec == Init /\ [][Next]_vars

\* Threads in a call are scheduled.
FairSpec == Spec /\ \A t \in Threads : WF_vars(ThreadStep(t))
-----------------------------------------------------------------------------
InLoad(t) == pc[t] \in Outcomes \cup {"callback"}

\* One thread at a time is in the load of an instance, unless that load has thrown:
\* the Failure it stores for a moment lets a second one in (d2_module.cpp:45).
LoadsExclude ==
    \A t, u \in Threads : t # u /\ InLoad(t) /\ InLoad(u) /\ ref[t] = ref[u]
                          => ref[t] \in threw

\* A module that loaded stays loaded, unless a load of it threw: the late Offline
\* of that load can wipe out the Ok of another.
LoadedStays ==
    [][\A x \in Instance : status[x] = "Ok" /\ x \notin threw => status'[x] = "Ok"]_vars

\* A query never returns a module that is still loading or was never loaded, and a
\* failed or degraded one only to the thread whose own load came to that
\* (d2_context.cpp:160).
QueriesGetLoaded ==
    [][\A t \in Queriers : pc[t] # "idle" /\ pc'[t] = "idle" /\ ref'[t] # None =>
          \/ status'[ref'[t]] = "Ok"
          \/ status'[ref'[t]] = pc[t] /\ pc[t] \in {"Failure", "Degraded"}
          \/ ref'[t] \in threw']_vars

\* What has loaded stays so, and is all that queries return.
LoadedKept == LoadedStays /\ QueriesGetLoaded

\* _load_modules loads a module after its dependencies: they are present, and each
\* was loaded, is being loaded by a query, or has thrown.
Recursing == InLoad(Main) \/ pc[Main] \in {"recommit", "make", "load", "failed"}
DependenciesFirst ==
    Recursing => \A d \in ToSet(deps[Top.of]) :
        /\ d \in present /\ stub[d] # 0
        /\ StubStatus(d) # "Offline" \/ <<d, stub[d]>> \in threw

\* Needs[n][m]: the modules that m depends on along at most n edges.
Needs[n \in 0..Cardinality(Modules)] ==
    IF n = 0 THEN [m \in Modules |-> {}]
    ELSE [m \in Modules |-> ToSet(deps[m]) \cup
             UNION {Needs[n - 1][d] : d \in ToSet(deps[m])}]
OnCycle(m, d) == LET needs == Needs[Cardinality(Modules)]
                 IN  d \in needs[m] /\ Index(m) \in needs[d] \cup {d}

\* _load_modules makes no instance of a module on a dependency cycle, unless a query
\* made one of another module on that cycle before.
CyclesRefused ==
    Recursing /\ OnCycle(Top.of, Index(Top.of)) =>
        \E d \in Modules \ {Top.of} : OnCycle(Top.of, d) /\ made[d] > 0

\* Loads exclude each other, and follow the dependencies.
LoadOrder == LoadsExclude /\ DependenciesFirst /\ CyclesRefused

\* A module goes only when no module that stays depends on it (d2_context.cpp:67
\* "Check for dependencies").
RemovalChecked ==
    [][\A m \in present \ present' : \A d \in present' : m \notin ToSet(deps[d])]_vars

\* Every load and every query returns, however threads wait for each other, unless
\* loads throw: then a waiting thread may find the module loading time after time.
CallsReturn == \A t \in Threads : pc[t] # "idle" ~> pc[t] = "idle" \/ threw # {}
=============================================================================
