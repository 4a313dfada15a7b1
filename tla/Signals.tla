------------------------------- MODULE Signals -------------------------------
(***************************************************************************)
(* One signal of d2::Signals (src/core/io/d2_signal_handler.cpp): threads  *)
(* trigger it, owners of handles listen, mute and close, and a queued      *)
(* (Async or Deferred) signal is delivered by drain tasks on the pool.     *)
(*                                                                         *)
(* The ring of envelopes is the FIFO that TaskRing implements: an envelope *)
(* is in `queue' once published, `available' is the ring's semaphore, and  *)
(* a dequeue first takes the semaphore and then the envelope.              *)
(***************************************************************************)
EXTENDS Naturals, Sequences, FiniteSets

CONSTANTS Triggers,     \* threads that trigger the signal
          Handles,      \* what _sig_listen returns
          Keys,         \* dispatch specifiers
          Generic,      \* the empty specifier
          Dispatch,     \* the specifier each handle listens with
          Specifiers,   \* those each thread triggers with
          FlagSets,     \* the flags _sig_register may be called with
          MainOnly,     \* those of signals that only the main thread triggers
          Capacity,     \* _max_concurrent_signals
          MaxTriggers   \* bound: calls of _sig_trigger

ASSUME KeyAssumption == Generic \notin Keys
ASSUME DispatchAssumption == /\ Dispatch \in [Handles -> Keys \cup {Generic}]
                             /\ Specifiers \in [Triggers -> SUBSET (Keys \cup {Generic})]
ASSUME FlagAssumption ==
    /\ FlagSets \subseteq SUBSET {"Async", "Deferred", "Combine", "DropIfFull"}
    /\ MainOnly \subseteq FlagSets
ASSUME BoundAssumption == Capacity \in Nat \ {0} /\ MaxTriggers \in Nat

\* Every launched drain task; no more are launched than signals triggered.
Drains == 1..MaxTriggers
ASSUME ThreadAssumption == Triggers \cap Drains = {}

\* The threads that can run _sig_apply.
Runners == Triggers \cup Drains

\* SignalEnvelope, numbered in the order in which envelopes enter the ring.
Envelope == [id : 0..MaxTriggers, dispatch : Keys \cup {Generic}]

NoEnvelope == [id |-> 0, dispatch |-> Generic]

VARIABLES registered,  \* the signal is in _sigs
          flags,       \* its flags
          listening,   \* the handle lists of its bucket, in order of listening
          hstate,      \* HandleState::state
          held,        \* the Handle object still points at its state
          queue,       \* published envelopes, oldest first
          available,   \* the ring's semaphore
          isQueued,    \* is_queued
          pc,          \* where each runner is
          env,         \* the envelope a runner is applying, or will enqueue
          todo,        \* its `callbacks` not yet visited
          sent,        \* triggers so far
          entered,     \* envelopes that entered the ring
          delivered,   \* ids of the envelopes each handle was called with
          failed       \* a callback of a drain has thrown

ringVars == <<queue, available>>
handleVars == <<listening, hstate, held>>
runVars == <<env, todo>>
logVars == <<sent, entered, delivered, failed>>
vars == <<registered, flags, handleVars, ringVars, isQueued, pc, runVars, logVars>>

Queued == flags \cap {"Async", "Deferred"} # {}
Room == Len(queue) < IF "Combine" \in flags THEN 1 ELSE Capacity

Goto(r, l) == pc' = [pc EXCEPT ![r] = l]

Init == /\ registered = FALSE
        /\ flags = {}
        /\ listening = <<>>
        /\ hstate = [h \in Handles |-> "none"]
        /\ held = [h \in Handles |-> FALSE]
        /\ queue = <<>>
        /\ available = 0
        /\ isQueued = FALSE
        /\ pc = [r \in Runners |-> "idle"]
        /\ env = [r \in Runners |-> NoEnvelope]
        /\ todo = [r \in Runners |-> <<>>]
        /\ sent = 0
        /\ entered = 0
        /\ delivered = [h \in Handles |-> <<>>]
        /\ failed = FALSE

-----------------------------------------------------------------------------
(* The owner of the signal and of the handles.                             *)

\* _sig_register.  After a disconnect a registration makes a new storage,
\* that is a new instance of this module: here it happens once.
Register(f) == /\ ~ registered /\ flags = {} /\ sent = 0 /\ listening = <<>>
               /\ registered' = TRUE
               /\ flags' = f
               /\ UNCHANGED <<handleVars, ringVars, isQueued, pc, runVars, logVars>>

\* Signal::disconnect and _sig_deregister: the storage lives on in the drain
\* tasks and triggers that have it.
Disconnect == /\ registered
              /\ registered' = FALSE
              /\ UNCHANGED <<flags, handleVars, ringVars, isQueued, pc, runVars, logVars>>

Listen(h) == /\ registered
             /\ hstate[h] = "none"
             /\ hstate' = [hstate EXCEPT ![h] = "Active"]
             /\ held' = [held EXCEPT ![h] = TRUE]
             /\ listening' = Append(listening, h)
             /\ UNCHANGED <<registered, flags, ringVars, isQueued, pc, runVars, logVars>>

\* Handle::mute and Handle::unmute
SetState(h, s) == /\ held[h] /\ hstate[h] # s
                  /\ hstate' = [hstate EXCEPT ![h] = s]
                  /\ UNCHANGED <<registered, flags, listening, held, ringVars, isQueued,
                                 pc, runVars, logVars>>

\* Handle::close, and the destructor
Close(h) == /\ held[h]
            /\ hstate' = [hstate EXCEPT ![h] = "Inactive"]
            /\ held' = [held EXCEPT ![h] = FALSE]
            /\ UNCHANGED <<registered, flags, listening, ringVars, isQueued, pc, runVars,
                           logVars>>

\* Handle::release: the callback stays for good.
Release(h) == /\ held[h]
              /\ held' = [held EXCEPT ![h] = FALSE]
              /\ UNCHANGED <<registered, flags, listening, hstate, ringVars, isQueued, pc,
                             runVars, logVars>>

-----------------------------------------------------------------------------
(* _sig_apply on runner r: collect under the storage's lock, then call     *)
(* without it.                                                             *)

Sees(h, d) == Dispatch[h] \in {Generic, d}

\* The handles of a list that are in S.
Among(list, S) ==
    LET upTo[i \in 0..Len(list)] ==
            IF i = 0 THEN <<>>
            ELSE IF list[i] \in S THEN Append(upTo[i - 1], list[i]) ELSE upTo[i - 1]
    IN  upTo[Len(list)]

\* Closed handles leave the lists that are visited; the active ones are to be
\* called, generic listeners first.
CollectAllButActive(r) ==
    LET d == env[r].dispatch
        Listed(key) == Among(listening,
                             {h \in Handles : Dispatch[h] = key /\ hstate[h] = "Active"})
    IN  /\ pc[r] = "apply"
        /\ listening' = Among(listening, {h \in Handles : hstate[h] # "Active"})
        /\ todo' = [todo EXCEPT ![r] =
              IF d = Generic THEN Listed(Generic) ELSE Listed(Generic) \o Listed(d)]
        /\ Goto(r, "check")
        /\ UNCHANGED <<registered, flags, hstate, held, ringVars, isQueued, env, logVars>>
Collect(r) ==
    LET d == env[r].dispatch
        Listed(key) == Among(listening,
                             {h \in Handles : Dispatch[h] = key /\ hstate[h] = "Active"})
    IN  /\ pc[r] = "apply"
        /\ listening' = Among(listening,
                            {h \in Handles : ~ (Sees(h, d) /\ hstate[h] = "Inactive")})
        /\ todo' = [todo EXCEPT ![r] =
              IF d = Generic THEN Listed(Generic) ELSE Listed(Generic) \o Listed(d)]
        /\ Goto(r, "check")
        /\ UNCHANGED <<registered, flags, hstate, held, ringVars, isQueued, env, logVars>>

\* The second look at the state, right before the call.
CheckNothing(r) ==
    /\ pc[r] = "check"
    /\ todo[r] # <<>>
    /\ Goto(r, "invoke")
    /\ UNCHANGED <<registered, flags, handleVars, ringVars, isQueued, runVars, logVars>>
Check(r) ==
    /\ pc[r] = "check"
    /\ todo[r] # <<>>
    /\ IF hstate[Head(todo[r])] = "Active"
       THEN Goto(r, "invoke") /\ UNCHANGED todo
       ELSE todo' = [todo EXCEPT ![r] = Tail(@)] /\ UNCHANGED pc
    /\ UNCHANGED <<registered, flags, handleVars, ringVars, isQueued, env, logVars>>

Invoke(r) ==
    LET h == Head(todo[r])
    IN  /\ pc[r] = "invoke"
        /\ delivered' = [delivered EXCEPT ![h] = Append(@, env[r].id)]
        /\ todo' = [todo EXCEPT ![r] = Tail(@)]
        /\ Goto(r, "check")
        /\ UNCHANGED <<registered, flags, handleVars, ringVars, isQueued, env, sent,
                       entered, failed>>

\* The callback throws.  In a trigger the exception reaches the caller; in a
\* drain it ends the task (launchd_void hands it to the ExceptionHandler).
InvokeThrows(r) ==
    /\ pc[r] = "invoke"
    /\ todo' = [todo EXCEPT ![r] = <<>>]
    /\ Goto(r, "idle")
    /\ failed' = (failed \/ r \in Drains)
    /\ UNCHANGED <<registered, flags, handleVars, ringVars, isQueued, env, sent,
                   entered, delivered>>

\* Every callback was visited.
Applied(r) ==
    /\ pc[r] = "check"
    /\ todo[r] = <<>>
    /\ Goto(r, CASE r \in Triggers -> "idle"
                 [] r \in Drains /\ "Combine" \in flags -> "pending"
                 [] OTHER -> "dequeue")
    /\ UNCHANGED <<registered, flags, handleVars, ringVars, isQueued, runVars, logVars>>

-----------------------------------------------------------------------------
(* _sig_trigger, _sig_trigger_unchecked on thread t.                       *)

Trigger(t, d) ==
    /\ registered
    /\ pc[t] = "idle"
    /\ sent < MaxTriggers
    /\ sent' = sent + 1
    /\ env' = [env EXCEPT ![t] = [id |-> 0, dispatch |-> d]]
    /\ Goto(t, IF Queued THEN "enqueue" ELSE "apply")
    /\ UNCHANGED <<registered, flags, handleVars, ringVars, isQueued, todo, entered,
                   delivered, failed>>

\* try_enqueue_ref succeeds.  The ring gives the envelope its place.
Enqueue(t) ==
    /\ pc[t] = "enqueue"
    /\ Room
    /\ entered' = entered + 1
    /\ queue' = Append(queue, [env[t] EXCEPT !.id = entered + 1])
    /\ Goto(t, "release")
    /\ UNCHANGED <<registered, flags, handleVars, available, isQueued, runVars, sent,
                   delivered, failed>>

\* try_enqueue_ref fails: the ring is full, or looks full (TaskRing!SeeFull with a
\* head that other producers have left behind).
Refused(t) ==
    /\ pc[t] = "enqueue"
    /\ ~ Room \/ \E u \in Triggers \ {t} : pc[u] # "idle"
    /\ Goto(t, IF "DropIfFull" \in flags /\ "Combine" \notin flags THEN "idle" ELSE "evict")
    /\ UNCHANGED <<registered, flags, handleVars, ringVars, isQueued, runVars, logVars>>

\* The trigger takes an old envelope out to make room.
Evict(t) ==
    /\ pc[t] = "evict"
    /\ IF available > 0
       THEN available' = available - 1 /\ Goto(t, "evicting")
       ELSE UNCHANGED available /\ Goto(t, "enqueue")
    /\ UNCHANGED <<registered, flags, handleVars, queue, isQueued, runVars, logVars>>

Evicted(t) ==
    /\ pc[t] = "evicting"
    /\ queue # <<>>
    /\ queue' = Tail(queue)
    /\ Goto(t, "enqueue")
    /\ UNCHANGED <<registered, flags, handleVars, available, isQueued, runVars, logVars>>

\* _available.release() at the end of the enqueue
Published(t) ==
    /\ pc[t] = "release"
    /\ available' = available + 1
    /\ Goto(t, "schedule")
    /\ UNCHANGED <<registered, flags, handleVars, queue, isQueued, runVars, logVars>>

\* _sig_schedule_drain: whoever sets is_queued launches the drain.
Launch(t) == LET d == CHOOSE d \in Drains : pc[d] = "idle"
             IN  pc' = [pc EXCEPT ![t] = "idle", ![d] = "launched"]
ScheduleAlways(t) ==
    /\ pc[t] = "schedule"
    /\ isQueued' = TRUE
    /\ Launch(t)
    /\ UNCHANGED <<registered, flags, handleVars, ringVars, runVars, logVars>>
ScheduleDrain(t) ==
    /\ pc[t] = "schedule"
    /\ isQueued' = TRUE
    /\ IF isQueued THEN Goto(t, "idle") ELSE Launch(t)
    /\ UNCHANGED <<registered, flags, handleVars, ringVars, runVars, logVars>>

-----------------------------------------------------------------------------
(* _sig_drain_queued in task d.                                            *)

\* A worker starts the task.
Start(d) ==
    /\ pc[d] = "launched"
    /\ Goto(d, "pending")
    /\ UNCHANGED <<registered, flags, handleVars, ringVars, isQueued, runVars, logVars>>

\* while (_sig_pending) ...
Pending(d) ==
    /\ pc[d] = "pending"
    /\ Goto(d, IF queue # <<>> THEN "dequeue" ELSE "clear")
    /\ UNCHANGED <<registered, flags, handleVars, ringVars, isQueued, runVars, logVars>>

\* try_dequeue in _sig_apply_all: the semaphore, then the envelope
Dequeue(d) ==
    /\ pc[d] = "dequeue"
    /\ IF available > 0
       THEN available' = available - 1 /\ Goto(d, "take")
       ELSE UNCHANGED available /\ Goto(d, "pending")
    /\ UNCHANGED <<registered, flags, handleVars, queue, isQueued, runVars, logVars>>

Take(d) ==
    /\ pc[d] = "take"
    /\ queue # <<>>
    /\ env' = [env EXCEPT ![d] = Head(queue)]
    /\ queue' = Tail(queue)
    /\ Goto(d, "apply")
    /\ UNCHANGED <<registered, flags, handleVars, available, isQueued, todo, logVars>>

Clear(d) ==
    /\ pc[d] = "clear"
    /\ isQueued' = FALSE
    /\ Goto(d, "recheck")
    /\ UNCHANGED <<registered, flags, handleVars, ringVars, runVars, logVars>>

RecheckNever(d) ==
    /\ pc[d] = "recheck"
    /\ Goto(d, "idle")
    /\ UNCHANGED <<registered, flags, handleVars, ringVars, isQueued, runVars, logVars>>
Recheck(d) ==
    /\ pc[d] = "recheck"
    /\ Goto(d, IF queue = <<>> THEN "idle" ELSE "retry")
    /\ UNCHANGED <<registered, flags, handleVars, ringVars, isQueued, runVars, logVars>>

\* The CAS: go on draining, unless a new drain was scheduled.
Retry(d) ==
    /\ pc[d] = "retry"
    /\ isQueued' = TRUE
    /\ Goto(d, IF isQueued THEN "idle" ELSE "pending")
    /\ UNCHANGED <<registered, flags, handleVars, ringVars, runVars, logVars>>

-----------------------------------------------------------------------------
\* The main worker runs one deferred drain at a time; where the triggers are the
\* main thread's too, a thread is left in mid-call only inside a callback.
Parallel(r, q) == flags \notin MainOnly /\ ~ ("Deferred" \in flags /\ {r, q} \subseteq Drains)
Turn(r) == \A q \in Runners \ {r} :
              Parallel(r, q) \/ pc[q] \in {"idle", "launched", "invoke"}

Apply(r) == Collect(r) \/ Check(r) \/ Invoke(r) \/ InvokeThrows(r) \/ Applied(r)

TriggerStep(t) == /\ Turn(t)
                  /\ \/ Apply(t)
                     \/ Enqueue(t) \/ Refused(t) \/ Evict(t) \/ Evicted(t)
                     \/ Published(t) \/ ScheduleDrain(t)

DrainStep(d) == /\ Turn(d)
                /\ \/ Apply(d)
                   \/ Start(d) \/ Pending(d) \/ Dequeue(d) \/ Take(d)
                   \/ Clear(d) \/ Recheck(d) \/ Retry(d)

OwnerStep == \/ \E f \in FlagSets : Register(f)
             \/ Disconnect
             \/ \E h \in Handles : \/ Listen(h)
                                   \/ SetState(h, "Muted")
                                   \/ SetState(h, "Active")
                                   \/ Close(h)
                                   \/ Release(h)

Next == \/ OwnerStep
        \/ \E t \in Triggers : \/ \E d \in Specifiers[t] : Turn(t) /\ Trigger(t, d)
                               \/ TriggerStep(t)
        \/ \E d \in Drains : DrainStep(d)

Spec == Init /\ [][Next]_vars

\* A call of _sig_trigger returns, and the pool runs its tasks.
FairSpec == /\ Spec
            /\ \A t \in Triggers : WF_vars(TriggerStep(t))
            /\ \A d \in Drains : WF_vars(DrainStep(d))
-----------------------------------------------------------------------------
\* The ring has one consumer (task_ring.hpp:32 "consumer"): no two threads are
\* between acquiring its semaphore and taking the envelope out.
OneConsumer ==
    \A r, q \in Runners : pc[r] \in {"take", "evicting"} /\ pc[q] \in {"take", "evicting"}
                          => r = q

\* A listener of a queued signal gets envelopes in the order in which they
\* entered the ring, and each at most once, however drains follow each other.
InOrder ==
    Queued => \A h \in Handles : \A i, j \in 1..Len(delivered[h]) :
                 i < j => delivered[h][i] < delivered[h][j]

\* A listener hears what it should and no more.  Once a handle is muted or closed and no thread
\* is past its second look at the state (d2_signal_handler.cpp:499), the callback does not start
\* again until it is unmuted.  A listener that is not closed keeps its place in the lists,
\* whatever is delivered while it is muted, and though every delivery edits the lists
\* (d2_signal_handler.cpp:452).
Calling(h) == \E r \in Runners : pc[r] = "invoke" /\ Head(todo[r]) = h
Kept(h) == \E i \in 1..Len(listening) : listening[i] = h
StatesObeyed ==
    /\ [][\A h \in Handles : hstate[h] # "Active" /\ ~ Calling(h) => ~ Calling(h)']_vars
    /\ [](\A h \in Handles : hstate[h] \in {"Active", "Muted"} => Kept(h))

\* Every queued envelope is eventually taken out of the ring, unless a callback
\* threw in a drain: then is_queued stays set and nothing is delivered any more.
EventuallyDrained == queue # <<>> ~> queue = <<>> \/ failed
=============================================================================
