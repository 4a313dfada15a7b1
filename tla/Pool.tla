-------------------------------- MODULE Pool --------------------------------
(***************************************************************************)
(* ConcurrentPool with one Node, its main worker and the RingWorkers it    *)
(* grows and shrinks (src/mt/pool.cpp), configured as IOContext does       *)
(* (src/core/io/d2_context.cpp): the main worker is the thread that starts *)
(* the pool and takes delayed tasks, the others take immediate ones.       *)
(*                                                                         *)
(* A ring is the FIFO that TaskRing is shown to be.                        *)
(***************************************************************************)
EXTENDS Naturals, Sequences, FiniteSets, SequencesExt

CONSTANTS Callers,     \* threads that launch tasks, besides the main thread
          Main,        \* the main thread, and its worker
          Workers,     \* the RingWorkers that the growth callback can make
          Tasks,       \* bound: tasks that are launched
          Size,        \* slots of a ring
          GrowAt,      \* Config::growth_trigger_ratio
          PressureAt,  \* Config::pressure_trigger_ratio
          Policies     \* what the reject callback may answer

ASSUME PoolAssumption ==
    /\ IsFiniteSet(Callers) /\ IsFiniteSet(Workers)
    /\ Main \notin Callers \cup Workers /\ "none" \notin Workers \cup {Main}
    /\ Callers \cap Workers = {}
    /\ Tasks \cap (Workers \cup {"none"}) = {}
    /\ Size \in Nat \ {0} /\ GrowAt \in Nat \ {0} /\ PressureAt \in Nat \ {0}
    /\ Policies \subseteq {"Wait", "Discard", "Throw", "Again", "Later"}

Threads == Callers \cup {Main}
All == Workers \cup {Main}

VARIABLES at,        \* where each thread is
          job,       \* what it hands over: a task, its delayed rescheduling, growth or shrinking
          target,    \* the worker it chose
          pressed,   \* the load it saw was at the pressure ratio
          saw,       \* the _stop it saw before it waits
          stopped,   \* ConcurrentPool::_stop
          changing,  \* ConcurrentPool::_changing
          halted,    \* Node::_stop
          list,      \* Node::_workers, none when there are no workers
          count,     \* Node::_task_cnt
          tasks,     \* Worker::_task_cnt
          ring,      \* RingWorker::_tasks, and the main worker's
          off,       \* Worker::_stop
          busy,      \* the task each worker runs
          warm,      \* workers whose _last_task_np is set
          timers,    \* delayed tasks of the main worker
          todo,      \* workers that Node::stop has still to stop
          asking,    \* how far an idle worker is in the call that has it removed
          done,      \* tasks that ran
          dropped,   \* tasks that were refused, discarded or lost
          undefined  \* tasks handed to a worker that does not exist

callVars == <<at, job, target, pressed, saw>>
poolVars == <<stopped, changing, halted, todo>>
workVars == <<list, count, tasks, ring, off, busy, warm, timers, asking>>
endVars == <<done, dropped, undefined>>
vars == <<callVars, poolVars, workVars, endVars>>

NoJob == [kind |-> "none", of |-> "none"]
Goto(t, l) == at' = [at EXCEPT ![t] = l]
Fixed == UNCHANGED <<job, target, pressed, saw>>

Init == /\ at = [t \in Threads |-> IF t = Main THEN "before" ELSE "idle"]
        /\ job = [t \in Threads |-> NoJob] /\ target = [t \in Threads |-> "none"]
        /\ pressed = [t \in Threads |-> FALSE] /\ saw = [t \in Threads |-> TRUE]
        /\ stopped = TRUE /\ changing = FALSE /\ halted = TRUE /\ todo = {}
        /\ list = {} /\ count = 0 /\ tasks = [w \in All |-> 0]
        /\ ring = [w \in All |-> <<>>] /\ off = [w \in All |-> TRUE]
        /\ busy = [w \in All |-> NoJob] /\ warm = {} /\ timers = {}
        /\ asking = [w \in Workers |-> "no"]
        /\ done = {} /\ dropped = {} /\ undefined = {}

-----------------------------------------------------------------------------
(* Starting and stopping, on the main thread.                              *)

\* ConcurrentPool::start: the first growth brings the main worker, and Node::start
\* starts it.
Start == /\ at[Main] = "before"
         /\ changing' = TRUE /\ halted' = FALSE
         /\ list' = {Main} /\ off' = [off EXCEPT ![Main] = FALSE]
         /\ Goto(Main, "started")
         /\ Fixed /\ UNCHANGED <<stopped, todo, count, tasks, ring, busy, warm, timers, endVars,
                                 asking>>

Started == /\ at[Main] = "started"
           /\ stopped' = FALSE
           /\ Goto(Main, "changed")
           /\ Fixed /\ UNCHANGED <<changing, halted, todo, workVars, endVars>>

Changed == /\ at[Main] = "changed"
           /\ changing' = FALSE
           /\ Goto(Main, IF stopped THEN "over" ELSE "idle")
           /\ Fixed /\ UNCHANGED <<stopped, halted, todo, workVars, endVars>>

\* ConcurrentPool::stop and Node::stop: the workers of the list one by one.
Stop == /\ at[Main] = "idle"
        /\ changing' = TRUE /\ halted' = TRUE /\ todo' = list
        /\ Goto(Main, "stopping")
        /\ Fixed /\ UNCHANGED <<stopped, workVars, endVars>>

\* Worker::stop of the worker of this thread, which is the main worker.
StopSelf == /\ at[Main] = "stopping" /\ Main \in todo
            /\ todo' = todo \ {Main}
            /\ off' = [off EXCEPT ![Main] = TRUE] /\ timers' = {}
            /\ dropped' = dropped \cup timers
            /\ Fixed
            /\ UNCHANGED <<at, stopped, changing, halted, list, count, tasks, ring, busy, warm,
                           done, undefined, asking>>

\* Worker::stop of another one: _stop is set, accept drops what would release the
\* barrier because it is, and nothing else releases it.
StopOther(w) == /\ at[Main] = "stopping" /\ w \in todo \ {Main}
                /\ todo' = todo \ {w}
                /\ off' = [off EXCEPT ![w] = TRUE]
                /\ Goto(Main, IF off[w] THEN "stopping" ELSE "barrier")
                /\ Fixed
                /\ UNCHANGED <<stopped, changing, halted, list, count, tasks, ring, busy, warm,
                               timers, endVars, asking>>

Stopped == /\ at[Main] = "stopping" /\ todo = {}
           /\ list' = {} /\ stopped' = TRUE
           /\ Goto(Main, "changed")
           /\ Fixed
           /\ UNCHANGED <<changing, halted, todo, count, tasks, ring, off, busy, warm, timers,
                          endVars, asking>>

-----------------------------------------------------------------------------
(* Launching.                                                              *)

\* A task in the hands of somebody.
Places(x) == Cardinality({t \in Threads : job[t].of = x})
             + Cardinality({w \in All : busy[w].of = x})
             + Cardinality({s \in All \X (1..Size) : s[2] <= Len(ring[s[1]])
                                                      /\ ring[s[1]][s[2]].of = x})
             + (IF x \in timers THEN 1 ELSE 0) + (IF x \in done THEN 1 ELSE 0)
             + (IF x \in dropped THEN 1 ELSE 0) + (IF x \in undefined THEN 1 ELSE 0)

Launch(t, x) == /\ at[t] = "idle" /\ Places(x) = 0
                /\ job' = [job EXCEPT ![t] = [kind |-> "task", of |-> x]]
                /\ Goto(t, "ensure")
                /\ UNCHANGED <<target, pressed, saw, poolVars, workVars, endVars>>

\* ConcurrentPool::_ensure_started: while the pool changes, wait for _stop to change.
Ensure(t) == /\ at[t] = "ensure"
             /\ saw' = [saw EXCEPT ![t] = stopped]
             /\ Goto(t, IF changing THEN "await" ELSE "check")
             /\ UNCHANGED <<job, target, pressed, poolVars, workVars, endVars>>

Await(t) == /\ at[t] = "await" /\ stopped # saw[t]
            /\ Goto(t, "check")
            /\ Fixed /\ UNCHANGED <<poolVars, workVars, endVars>>

\* The thread has no more to do with its job.  A delayed task goes back to the timers'
\* thread only as a task.
Finish(t) == Goto(t, "idle") /\ job' = [job EXCEPT ![t] = NoJob]
             /\ target' = [target EXCEPT ![t] = "none"]
Drop(t) == Finish(t) /\ dropped' = dropped \cup {job[t].of}

Check(t) == /\ at[t] = "check"
            /\ IF stopped THEN Drop(t)
               ELSE Goto(t, "schedule") /\ UNCHANGED <<job, target, dropped>>
            /\ UNCHANGED <<pressed, saw, poolVars, workVars, done, undefined>>

\* Node::load
Load(r) == list # {} /\ count + 1 >= r * Cardinality(list)

Schedule(t) == /\ at[t] = "schedule"
               /\ pressed' = [pressed EXCEPT ![t] = Load(PressureAt)]
               /\ IF halted THEN Drop(t)
                  ELSE Goto(t, IF Load(GrowAt) THEN "grow" ELSE "pick")
                       /\ UNCHANGED <<job, target, dropped>>
               /\ UNCHANGED <<saw, poolVars, workVars, done, undefined>>

\* What the main worker does with a request to grow: the worker is started and the
\* list replaced.
Enlist(w) == off' = [off EXCEPT ![w] = FALSE] /\ list' = list \cup {w}
New(w) == /\ off[w] /\ tasks[w] = 0 /\ w \notin warm /\ w \notin list
          /\ \A t \in Threads : target[t] # w
          /\ \A i \in 1..Len(ring[Main]) : ring[Main][i].of # w

\* Node::grow: the callback makes a worker (Workers bounds how many).  The main worker lists it: at once
\* if this is its thread, else as a task.
Grow(t) == /\ at[t] = "grow"
           /\ \/ halted \/ ~ \E w \in Workers : New(w)
           /\ Goto(t, "pick")
           /\ Fixed /\ UNCHANGED <<poolVars, workVars, endVars>>
GrowSelf(w) == /\ at[Main] = "grow" /\ ~ halted /\ New(w)
               /\ IF off[Main] THEN UNCHANGED <<off, list>> ELSE Enlist(w)
               /\ Goto(Main, "pick")
               /\ Fixed
               /\ UNCHANGED <<poolVars, count, tasks, ring, busy, warm, timers, endVars, asking>>
GrowTask(t, w) == /\ t # Main /\ at[t] = "grow" /\ ~ halted /\ New(w)
                  /\ target' = [target EXCEPT ![t] = w]
                  /\ IF off[Main] THEN UNCHANGED <<count, tasks>> ELSE
                         count' = count + 1 /\ tasks' = [tasks EXCEPT ![Main] = @ + 1]
                  /\ Goto(t, IF off[Main] THEN "pick" ELSE "grow put")
                  /\ UNCHANGED <<job, pressed, saw, poolVars, list, ring, off, busy, warm,
                                 timers, endVars, asking>>
GrowPut(t) == /\ at[t] = "grow put" /\ Len(ring[Main]) < Size
              /\ ring' = [ring EXCEPT ![Main] = Append(@, [kind |-> "grow", of |-> target[t]])]
              /\ target' = [target EXCEPT ![t] = "none"]
              /\ Goto(t, "pick")
              /\ UNCHANGED <<job, pressed, saw, poolVars, list, count, tasks, off, busy, warm,
                             timers, endVars, asking>>

\* The workers of the task's category, and the one that has least to do.  Under pressure it
\* is the first of the list, whichever that is.
Category(t) == IF job[t].kind = "later" THEN list \cap {Main} ELSE list \ {Main}
Optimal(c) == {w \in c : \A v \in c : tasks[w] <= tasks[v]}

Pick(t) == /\ at[t] = "pick"
           /\ IF Category(t) = {} THEN target' = [target EXCEPT ![t] = "none"]
              ELSE \E w \in IF pressed[t] THEN Category(t) ELSE Optimal(Category(t)) :
                       target' = [target EXCEPT ![t] = w]
           /\ Goto(t, IF pressed[t] \/ Category(t) = {} THEN "reject" ELSE "try")
           /\ UNCHANGED <<job, pressed, saw, poolVars, workVars, endVars>>

\* Worker::try_accept and accept: a worker that is stopped refuses the one and drops the
\* other; the main thread processes what it hands to itself.
Inc(w) == count' = count + 1 /\ tasks' = [tasks EXCEPT ![w] = @ + 1]
Dec(w) == count' = count - 1 /\ tasks' = [tasks EXCEPT ![w] = @ - 1]

Try(t) == LET w == target[t] IN
          /\ at[t] = "try" /\ w # t
          /\ IF off[w] THEN Goto(t, "reject") /\ UNCHANGED <<count, tasks>>
             ELSE Goto(t, "put") /\ Inc(w)
          /\ Fixed /\ UNCHANGED <<poolVars, list, ring, off, busy, warm, timers, endVars, asking>>
TryPutKept(t) == LET w == target[t] IN
             /\ at[t] = "put"
             /\ IF Len(ring[w]) < Size
                THEN ring' = [ring EXCEPT ![w] = Append(@, job[t])] /\ Finish(t)
                ELSE Goto(t, "reject") /\ UNCHANGED <<ring, job, target>>
             /\ UNCHANGED <<pressed, saw, poolVars, list, count, tasks, off, busy, warm, timers,
                            endVars, asking>>
TryPut(t) == LET w == target[t] IN
             /\ at[t] = "put"
             /\ IF Len(ring[w]) < Size
                THEN ring' = [ring EXCEPT ![w] = Append(@, job[t])] /\ Finish(t)
                     /\ UNCHANGED <<count, tasks>>
                ELSE Goto(t, "reject") /\ Dec(w) /\ UNCHANGED <<ring, job, target>>
             /\ UNCHANGED <<pressed, saw, poolVars, list, off, busy, warm, timers, endVars, asking>>
TrySelf(t) == /\ at[t] = "try" /\ target[t] = t
              /\ IF off[t] THEN Goto(t, "reject") /\ UNCHANGED <<job, target, timers>>
                 ELSE timers' = timers \cup {job[t].of} /\ Finish(t)
              /\ UNCHANGED <<pressed, saw, poolVars, list, count, tasks, ring, off, busy, warm,
                             endVars, asking>>

\* The reject callback decides.  To wait is to hand the task to the worker chosen, if
\* there is one.
Reject(t, p) ==
    /\ at[t] = "reject"
    /\ CASE p = "Wait" /\ target[t] = "none" -> Finish(t) /\ UNCHANGED dropped
                                                /\ undefined' = undefined \cup {job[t].of}
         [] p = "Wait" /\ target[t] # "none" -> Goto(t, "accept")
                                                /\ UNCHANGED <<job, target, dropped, undefined>>
         [] p \in {"Discard", "Throw"} -> Drop(t) /\ UNCHANGED undefined
         [] p = "Again" -> Goto(t, "schedule") /\ UNCHANGED <<job, target, dropped, undefined>>
         [] p = "Later" -> Goto(t, "schedule") /\ job' = [job EXCEPT ![t].kind = "later"]
                           /\ UNCHANGED <<target, dropped, undefined>>
    /\ UNCHANGED <<pressed, saw, poolVars, workVars, done>>

AcceptTwice(t) == LET w == target[t] IN
             /\ at[t] = "accept"
             /\ ring' = [ring EXCEPT ![w] = IF Len(@) < Size THEN Append(@, job[t]) ELSE @]
             /\ Goto(t, "enqueue") /\ Inc(w) /\ UNCHANGED <<job, target, dropped, timers>>
             /\ UNCHANGED <<pressed, saw, poolVars, list, off, busy, warm, done, undefined, asking>>
Accept(t) == LET w == target[t] IN
             /\ at[t] = "accept"
             /\ CASE off[w] -> Drop(t) /\ UNCHANGED <<count, tasks, timers>>
                  [] ~ off[w] /\ w = t -> Finish(t) /\ timers' = timers \cup {job[t].of}
                                          /\ UNCHANGED <<count, tasks, dropped>>
                  [] OTHER -> Goto(t, "enqueue") /\ Inc(w)
                              /\ UNCHANGED <<job, target, dropped, timers>>
             /\ UNCHANGED <<pressed, saw, poolVars, list, ring, off, busy, warm, done, undefined,
                            asking>>
Enqueue(t) == LET w == target[t] IN
              /\ at[t] = "enqueue" /\ Len(ring[w]) < Size
              /\ ring' = [ring EXCEPT ![w] = Append(@, job[t])]
              /\ Finish(t)
              /\ UNCHANGED <<pressed, saw, poolVars, list, count, tasks, off, busy, warm, timers,
                             endVars, asking>>

CallStep(t) == \/ Ensure(t) \/ Await(t) \/ Check(t) \/ Schedule(t) \/ Pick(t)
               \/ Grow(t) \/ GrowPut(t) \/ \E w \in Workers : GrowTask(t, w)
               \/ (t = Main /\ \E w \in Workers : GrowSelf(w))
               \/ Try(t) \/ TryPut(t) \/ TrySelf(t)
               \/ (\E p \in Policies : Reject(t, p)) \/ Accept(t) \/ Enqueue(t)

-----------------------------------------------------------------------------
(* The workers.                                                            *)

\* RingWorker's loop takes a task and processes it, also after Worker::stop.
DequeueRunning(w) == /\ busy[w] = NoJob /\ ring[w] # <<>> /\ ~ off[w] /\ asking[w] = "no"
                     /\ busy' = [busy EXCEPT ![w] = Head(ring[w])]
                     /\ ring' = [ring EXCEPT ![w] = Tail(@)]
                     /\ UNCHANGED <<callVars, poolVars, list, count, tasks, off, warm, timers,
                                    endVars, asking>>
Dequeue(w) == /\ busy[w] = NoJob /\ ring[w] # <<>> /\ asking[w] = "no"
              /\ busy' = [busy EXCEPT ![w] = Head(ring[w])]
              /\ ring' = [ring EXCEPT ![w] = Tail(@)]
              /\ UNCHANGED <<callVars, poolVars, list, count, tasks, off, warm, timers, endVars,
                              asking>>

Process(w) == /\ busy[w] # NoJob
              /\ done' = done \cup {busy[w].of}
              /\ busy' = [busy EXCEPT ![w] = NoJob]
              /\ Dec(w) /\ warm' = warm \cup {w}
              /\ UNCHANGED <<callVars, poolVars, list, ring, off, timers, dropped, undefined,
                              asking>>

\* An idle RingWorker asks the main worker to remove it, time and again.  It does so on its
\* own thread, which takes no task meanwhile: ConcurrentPool::shrink waits as a launch does
\* while the pool changes, Node::shrink gives up if the node is stopped, and accept waits
\* for room in the ring of the main worker.
ShrinkTask(w) == [kind |-> "shrink", of |-> w]
Asks(w, from, to) == asking[w] = from /\ asking' = [asking EXCEPT ![w] = to]
AskFrame == UNCHANGED <<callVars, poolVars, list, off, busy, warm, timers, endVars>>

Ask(w) == /\ w \in warm /\ busy[w] = NoJob /\ ring[w] = <<>>
          /\ Asks(w, "no", IF ~ changing THEN "check"
                          ELSE IF stopped THEN "awaits start" ELSE "awaits stop")
          /\ AskFrame /\ UNCHANGED <<count, tasks, ring>>
AskCheck(w) == /\ \/ asking[w] = "check"
                  \/ asking[w] = "awaits start" /\ ~ stopped
                  \/ asking[w] = "awaits stop" /\ stopped
               /\ Asks(w, asking[w], IF stopped \/ halted \/ list = {} THEN "no" ELSE "request")
               /\ AskFrame /\ UNCHANGED <<count, tasks, ring>>
AskRequest(w) == /\ IF off[Main] THEN Asks(w, "request", "no") /\ UNCHANGED <<count, tasks>>
                    ELSE Asks(w, "request", "put") /\ Inc(Main)
                 /\ AskFrame /\ UNCHANGED ring
AskPut(w) == /\ Len(ring[Main]) < Size
             /\ ring' = [ring EXCEPT ![Main] = Append(@, ShrinkTask(w))]
             /\ Asks(w, "put", "no")
             /\ AskFrame /\ UNCHANGED <<count, tasks>>

\* The main worker takes a task from its ring.
MainTake == /\ at[Main] = "idle" /\ ring[Main] # <<>>
            /\ busy' = [busy EXCEPT ![Main] = Head(ring[Main])]
            /\ ring' = [ring EXCEPT ![Main] = Tail(@)]
            /\ Goto(Main, "process")
            /\ Fixed
            /\ UNCHANGED <<poolVars, list, count, tasks, off, warm, timers, endVars, asking>>

MainDone == busy' = [busy EXCEPT ![Main] = NoJob] /\ Dec(Main)

\* A request to grow.
MainGrowBlindly == /\ at[Main] = "process" /\ busy[Main].kind = "grow"
                   /\ list' = {Main, busy[Main].of}
                   /\ off' = [off EXCEPT ![busy[Main].of] = FALSE]
                   /\ MainDone /\ Goto(Main, "idle")
                   /\ Fixed /\ UNCHANGED <<poolVars, ring, warm, timers, endVars, asking>>
MainGrow == /\ at[Main] = "process" /\ busy[Main].kind = "grow"
            /\ Enlist(busy[Main].of)
            /\ MainDone /\ Goto(Main, "idle")
            /\ Fixed /\ UNCHANGED <<poolVars, ring, warm, timers, endVars, asking>>

\* A request to shrink: the worker leaves the list and is stopped; one that is no longer
\* in it is an error, which the handlers of exceptions get.
MainShrink == LET w == busy[Main].of IN
              /\ at[Main] = "process" /\ busy[Main].kind = "shrink"
              /\ list' = list \ {w}
              /\ IF w \in list
                 THEN todo' = {w} /\ Goto(Main, "stopping one") /\ UNCHANGED <<busy, count, tasks>>
                 ELSE MainDone /\ Goto(Main, "idle") /\ UNCHANGED todo
              /\ Fixed
              /\ UNCHANGED <<stopped, changing, halted, ring, off, warm, timers, endVars, asking>>

\* Worker::stop, as in StopOther.
ShrinkStop == \E w \in todo :
              /\ at[Main] = "stopping one"
              /\ todo' = {} /\ off' = [off EXCEPT ![w] = TRUE]
              /\ Goto(Main, "barrier")
              /\ Fixed
              /\ UNCHANGED <<stopped, changing, halted, list, count, tasks, ring, busy, warm,
                             timers, endVars, asking>>

\* A delayed task becomes a timer; when its time has come, the main thread schedules the
\* task again.
MainDelay == /\ at[Main] = "process" /\ busy[Main].kind = "later"
             /\ timers' = timers \cup {busy[Main].of}
             /\ MainDone /\ Goto(Main, "idle")
             /\ Fixed /\ UNCHANGED <<poolVars, list, ring, off, warm, endVars, asking>>
Fire(x) == /\ at[Main] = "idle" /\ x \in timers
           /\ timers' = timers \ {x}
           /\ job' = [job EXCEPT ![Main] = [kind |-> "task", of |-> x]]
           /\ Goto(Main, "schedule")
           /\ UNCHANGED <<target, pressed, saw, poolVars, list, count, tasks, ring, off, busy, warm,
                          endVars, asking>>

MainStep == \/ Start \/ Started \/ Changed \/ StopSelf \/ Stopped
            \/ (\E w \in Workers : StopOther(w))
            \/ MainTake \/ MainGrow \/ MainShrink \/ ShrinkStop \/ MainDelay
            \/ \E x \in Tasks : Fire(x)
WorkerStep(w) == \/ Dequeue(w) \/ Process(w)
                 \/ AskCheck(w) \/ AskRequest(w) \/ AskPut(w)

Next == \/ MainStep \/ Stop
        \/ \E t \in Threads : CallStep(t) \/ \E x \in Tasks : Launch(t, x)
        \/ \E w \in Workers : WorkerStep(w) \/ Ask(w)

Spec == Init /\ [][Next]_vars

\* Threads run, and time passes; a round of the main loop takes tasks as well as timers.
\* Nobody has to launch, stop or ask anything.
FairSpec == /\ Spec
            /\ WF_vars(MainStep) /\ SF_vars(MainTake)
            /\ \A t \in Threads : WF_vars(CallStep(t))
            /\ \A w \in Workers : WF_vars(WorkerStep(w))
-----------------------------------------------------------------------------
(* Properties.                                                             *)

\* Threads and workers that have counted a task for worker w and not yet put it into its ring.
Handing(w) == {t \in Threads : \/ at[t] \in {"put", "enqueue"} /\ target[t] = w
                               \/ at[t] = "grow put" /\ w = Main}
              \cup {v \in Workers : asking[v] = "put" /\ w = Main}

\* A task that was launched is always in exactly one place: with a thread that hands it
\* over, in a ring, with a worker, among the timers, run, or refused.  It is never run twice
\* and never lost on the way between a rejection, a policy and another worker.
TasksAccounted == [][\A x \in Tasks : Places(x)' = 1 \/ Places(x) + Places(x)' = 0]_vars

\* The counters on which the load and the optimal distribution rest are the tasks that are
\* there, whichever way a hand-over ended.
CountersAgree ==
    /\ \A w \in All : tasks[w] = Len(ring[w]) + Cardinality(Handing(w))
                                 + (IF busy[w] = NoJob THEN 0 ELSE 1)
    /\ count = FoldFunctionOnSet(LAMBDA n, m : n + m, 0, tasks, All)

\* While the pool runs, the workers that are started are those of the list, but for the one
\* that is being removed: growth that is asked for by several threads and shrinking lose
\* nobody, and nobody runs unlisted.
WorkersListed == ~ halted => \A w \in All : ~ off[w] <=> w \in list \cup todo

\* What the pool's decisions rest on is true.
Bookkeeping == CountersAgree /\ WorkersListed

\* A worker that asks for its removal and cannot go on: it looked at the pool while that was
\* changing, or waits for the main thread, which waits for the release that a stop has lost or
\* for room with a worker that asks as well, or which a reject callback sends round.
Blocked(w) == \/ asking[w] = "awaits stop"
              \/ /\ asking[w] = "put"
                 /\ \/ at[Main] \in {"barrier", "schedule", "grow", "pick", "try", "put", "reject"}
                    \/ /\ at[Main] = "enqueue" /\ target[Main] # Main
                       /\ asking[target[Main]] # "no"

\* A task that a worker has accepted runs, also when the worker is removed or the pool is
\* stopped meanwhile; unless its worker is blocked for ever in the call that has it removed.
AcceptedRuns == \A x \in Tasks, w \in Workers :
                    \/ (\E i \in 1..Len(ring[w]) : ring[w][i].of = x) ~> x \in done
                    \/ <>[]Blocked(w)

\* A call of stop() that begins also ends.
StopReturns == (at[Main] = "stopping") ~> stopped
=============================================================================
