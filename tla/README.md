# delt2a in TLA+

delt2a is a C++ toolkit for terminal user interfaces. This directory holds TLA+ models of the
program, from the ring that hands tasks to threads up to the text editor, the TLC configurations that
check them on small instances, and proofs that TLAPS checks for every instance. Paths below are
relative to `src/`; `PROJECT.json` maps every definition to the lines it stands for.

    tlasany TaskRing.tla                      parse
    tlc -config Tasks.cfg MCTasks             check a run (section 3 names the others)
    tlapm Tasks_proofs.tla                    check proofs (section 4 names the others)

## 1. The system

A program creates an `IOContext` on its main thread, loads modules into it (terminal input and
output, screen, network, audio...), and runs its loop. The loop asks the input module for a frame of
input, has the screen handle and draw it, and sleeps until something happens. A pool of workers
(`mt/`) runs tasks in the background. The main thread is itself a worker of that pool (the *main
worker*): what must not run in parallel is handed to it as a task. Components tell each other of
events with *signals*, delivered at once or by drain tasks.

    any thread --trigger--> Signals --drain task--> ConcurrentPool --TaskRing--> RingWorker
        |                                                |
        |--sync / stop / ping / deadline--> IOContext    +--TaskRing + pipe--> UnixWorker (main)
        |--get<Module>--> ModuleStub --load--> SystemModule <--load<...>-- main thread

| component | state it keeps | operations | who shares it | what is hard |
|---|---|---|---|---|
| `mt::TaskRing` (`mt/task_ring.hpp`) | slots, `_head`, `_head_check`, `_tail`, the semaphore `_available` | enqueue, try_enqueue, dequeue, try_dequeue, timed dequeue | many producers, one consumer | claims, fills, publications and takes interleave; the counters are read at different moments |
| `Signals` (`core/io/d2_signal_handler.*`) | per signal: flags, listeners by specifier, two rings, `is_queued`; per handle: its state | register, disconnect, listen, mute, unmute, close, release, trigger, drain | any thread triggers, owners listen, workers drain | a drain on its way out against a new envelope; callbacks that throw; a full ring; a handle that is closed in mid-delivery |
| modules of `IOContext` (`core/io/d2_context.cpp`, `d2_module.*`) | map of stubs, instances, their load status, dependencies | load, get (lazy load), remove, named modules, sysenum | main thread loads, any thread queries | lock dropped between check and commit; loads that throw; cycles |
| main loop (`core/io/d2_context.*`, `os/io/unix/d2_unix_system_io.cpp`) | `_stop`, `_deadline`, the main worker's ring, pipe and timers | run, stop, ping, deadline, sync, sync_async, wait, accept | any thread calls, main thread sleeps in `poll` | lost wake-ups, a stop before the sleep, deadlines reset after the wait |
| `mt::ConcurrentPool`, `Node`, `RingWorker` (`mt/pool.*`) | workers by category, hooks, the ring, timers and `_stop` of each | launch, schedule, grow, shrink, stop, rejection policies | any thread launches | stopping a worker from another thread, full rings, growth while scheduling |
| `mt::future`, `ControlBlock`, coroutines (`mt/control.hpp`, `future.hpp`, `defer.hpp`) | flags and value of a task, awaiting coroutine, barrier | set, except, value, discard, wait, await | the task and its readers | completion against suspension, discard, readers after each other |
| terminal input and output (`os/io/unix/d2_unix_system_io.cpp`, `core/io/d2_input_base.*`) | bytes read, key and mouse states, images by id | parse, frame, keys, images, swap | main thread | escape sequences split over reads, what was pressed in which frame |
| screen, animations (`core/screen/`) | trees, focus, hovered and clicked elements, interpolators | set tree, focus, tick, key navigation, render | main thread | elements that go away while they have the focus or are animated |
| tree, styles, themes (`core/tree/`) | parents and children, state and update flags, style variables and dependencies | insert, remove, set state, set style, bind | main thread, signals | notifications in the middle of an update, dangling dependencies |
| layout solver (`core/lsx/`) | rows, basis, variables | add, remove, solve | one caller | numeric: pivots, degenerate rows |
| network modules (`core/mods/d2_ws.*`, `d2_http.*`, `os/net/curl/`) | connections, request queues, a worker thread each | request, cancel, send, close | any thread requests, the module's thread runs curl | closing with requests in flight |
| audio (`core/mods/d2_audio.*`, `os/audio/pipewire/`) | voices, streams, devices | bind, play, enumerate | main thread and pipewire's | buffers shared with a real-time thread |
| binder, sessions, registry (`core/mods/`) | bindings, pressed sequence, preferences | bind, match, save | main thread | overlapping key sequences |
| fragmented buffer, strings (`core/platform/`) | pieces of text | insert, erase, read | one caller | boundaries of pieces |
| elements (`elements/`) | widgets' own data | events, drawing | main thread | cursor and selection arithmetic |
| logs (`logs/`) | log file, index | append, read, rotate | one caller | partly written records |

The layout solver is called by nothing. The build files, the examples, value types, debugging views,
clipboard and notification back ends hold next to no state. These are not modelled; section 5 says what
is left out of the others.

What makes each part correct:

* *TaskRing*: a bounded FIFO. Every value goes in once and comes out once, in order, and no slot is
  touched by two threads at a time.
* *Signals*: envelopes in order, none stranded, no call of a handle that was silenced before the call
  began; callbacks get arguments of the types they were written for; owners hold what is registered.
* *Modules*: one load of an instance at a time, dependencies before dependants, cycles refused, nobody
  gets a module that is not loaded, every call returns, and no module loses what it depends on.
* *Main loop*: no wake-up, stop, timer or deadline is lost; `sync` returns; `stop` ends the loop; what
  a task changed is drawn.
* *Pool*: a task that is accepted is run once; a task is in one place at any time, whatever is
  rejected, grown or shrunk meanwhile; `stop` returns.
* *Futures*: the value is not read while it is written; whoever waits for a task that ended goes on.
* *Input and output*: what is understood of a byte stream does not depend on how it is cut into reads;
  the terminal shows the last frame though only differences are sent.
* *Tree, screen, binder*: focus and hover point into the tree shown; a key counts once; no layout is
  out of date; every change is drawn; dependent values are current.
* *Network, audio*: what is closed, cancelled or broken off ends once and its owner is told; messages
  and chunks go out in order; a stream that runs can be stopped, and its listeners know that it runs.
* *Elements*: texts are those of a string with a history; pointers, bars and choices stay inside; the
  program is told what a widget shows.
* *Logs*: a ring is read or written by one thread at a time; a page shows what was logged.

`PROJECT.json` lists the hazards of the code at the lines where they bite, and the properties that
are about them.

## 2. The models

All models assume sequential consistency: every access to an atomic, and every section under a lock,
is a step, and steps happen one after the other. The relaxed loads and acquire/release pairs of
`TaskRing` are therefore stronger in the model than in C++. Code between two accesses to shared
state is part of one of the steps around it. What runs on one thread only (the interface, the elements,
the loop of pipewire) is modelled one handler per step, everything the handler calls included.

Where a property excepts a case, the case is a defect of the code or a limit of it that was met while
modelling. It is kept in the model, and the comment above the property says what it is. A variable such
as `spoiled`, `late`, `freed` or `lost` remembers that it has happened.

### TaskRing, BoundedQueue

`TaskRing` has one step per access to an atomic. The variables are those of the class plus the
locals of each call: `ppc`, `waits`, `item`, `seen` of a producer in `_enqueue_impl`, `cpc`, `at`,
`got` of a consumer. `Call LoadHead SeeFull SeeRoom Claim ClaimFails Fill Publish Release` are its
lines in order (`ClaimFails` includes a spurious failure of the weak CAS), `Acquire LoadTail Take
Advance` those of a dequeue. Counters are integers; `Full` treats a head that is older than the tail
as the wrap-around of the unsigned difference does.

`BoundedQueue` is the abstract specification: `Offer`, `Put`, `Refuse`, `Get` on a sequence. A value
enters it when `_head_check` passes its ticket (`AbstractQueue` in `TaskRing`), and leaves it when it
is moved out. `Refuse` is allowed at any time: the code may refuse when there is room, because the
head it compares is older than the tail.

The module is written for a set of consumers. The class is for one (`task_ring.hpp:32`), and what
is claimed of it holds for one.

### Future, MCTasks

One block (`ControlBlock`, `CoroutineControlBlock`), the task that fills it on a worker, and users with
futures of it. The flags are one atomic and each access is a step; the value is not atomic, and is
written (`Run Store SetFlags`) and read (`Read`) in steps of its own. `shape` is how the task was launched:
once, deferred, cyclic or as a coroutine. The calls of a user are `Sync Get Set Drop Await` with the
looks at the flags between them (`Look LookAgain LookNever`). A coroutine is resumed by the task or by
itself: `TrySetHandle` and `TryRunHandle` are the two sides; its continuation on the worker starts only
after `await_suspend` has returned. Left out: the value itself, `ManagedControlBlock`,
`Promise::final_suspend`, `defer.hpp`, and an immediate task that is discarded and leaves an exception
handler behind. `MCTasks` puts it beside `TaskRing`; they share no state, and in a behaviour one of them
takes steps.

### Signals, MCSignals

One signal. The ring is the FIFO that `TaskRing` is shown to be: an envelope enters `queue` when it is
published, `available` is the ring's semaphore, and a dequeue takes the semaphore and the envelope in
two steps. `Triggers` are the threads in `_sig_trigger`; `Drains` are the tasks that
`_sig_schedule_drain` launches, each in `_sig_drain_queued`. Both run `_sig_apply`: `Collect` under the
lock of the storage, then `Check` and `Invoke` (or `InvokeThrows`) for each callback. The owner's calls
`Register Listen SetState Close Release Disconnect` come at any time. `Turn` is where the code runs:
drains of a deferred signal run one after the other on the main worker; a signal in `MainOnly` is
triggered by the main thread only, so that a trigger is cut short only by a callback that triggers
again. `Specifiers` are the dispatch specifiers each thread triggers with: in the runs one thread uses
the specifier the handle listens with, the other the empty one. `launch_void` succeeds.

### SignalRegistry

What `Signals` leaves out: many signals by name. `Connect DisconnectOwner MoveOwner DisconnectName
Destroy` are the life of a `Signal` and of the name it registered; `ListenStatic ListenRuntime` and
`SignalStatic SignalRuntime` are listening and triggering with the types known to the compiler or found
out at run time, each compared with the manifest of what is registered (`Satisfied Accepted`);
`ListenHere Deliver` come after the lock was dropped, when the storage may be disconnected;
`CloseHandle ReleaseHandle MoveHandle` are a `Handle`'s. A manifest other than the registry's, which
`connect` takes without a check, is not given.

### ModuleLoader, MCModuleLoader

`SystemModule::load` (`Ensure Finish Degrade Store Throw Thrown`) on any thread; `_get_module_if_uc` on
the threads in `Queriers` (`Query Find Commit Status Usable`), split where it drops its lock and where
it looks at the status again; `_insert_module`, `_load_modules` and `_load_module_recursive` on the main
thread (`LoadModules NextModule Visit Descend Recommit Assign Returned Refused`), the recursion as an
explicit `stack`; `RemoveModule`; and the context's end (`Destroy`). An instance is a pair `<<module, n>>`,
so that a second instance made by a race is a different one. `Recommit` and `Assign` are two steps because
the code does not hold the lock there. A load is refused by an exception in every build, since the
condition on `D2_COMPATIBILITY_MODE` is true when neither macro is defined.

A module in `Named` is one of several of its type, known by a name. `_load_modules` commits it under the
lock (`CommitNamed`), so that a callback of its load which queried modules would wait for itself; none
does. A query without a name of a type that has only named modules throws (`Null`). An entry whose last
named module is removed keeps a null stub, and every later removal of another module throws. Modules not
in `Immediate` are skipped by the load list and made by the first query. Left out: `sysenum`, which copies
the map under its lock, and pre and post callbacks that nothing overrides.

### MainLoop

The main thread goes through `_run` (`Start Cycle Leave Sleep Reset Deinitialize`) and, between
`Sleep` and `Reset`, through `UnixWorker::wait` (`RunSync Arm Processed Poll Disturb Drain`) and
`Worker::_tick` (`Tick Ticked`). Other threads `Sync`, `Delay`, `Stop`, `Ping`; a task goes into the
ring (`Accept`) and the pipe is written afterwards (`Wake`), in two steps. A deadline is `none`,
`pending` or `passed`; `until` is the one `wait` was called with, which a task that asks for a nearer one
during the wait does not change. A timer in `passed` is due. `armed` is what `_periodic_deadline` takes into
account.

A callback on the main thread may do nothing, stop the loop or ask for a deadline (`Ask`), and may
launch a delayed task on its own worker (`Launch`). A callback of `_tick` does not launch one: that
appends to the vector `_tick` iterates over (`mt/pool.cpp:201`), whose outcome C++ does not define.
Tasks are taken one at a time where the code takes up to six: nothing looks at the ring
in between but a producer, which sees it full a little longer.

### Pool

One `Node` configured as `IOContext` does: the main worker, which is the thread that starts the pool and
takes delayed tasks, and `RingWorker`s that it grows and shrinks. Each thread has a place `at` in the code
and a `job`. `Launch Ensure Schedule Pick Try TryPut Reject Accept Enqueue` are a launch, from the choice of
a worker by load (`Optimal`) to its ring, with the reject callback's five answers (`Policies`); `Grow
GrowTask GrowPut MainGrow` and `Ask AskCheck AskRequest AskPut MainShrink ShrinkStop` ask the main worker to
change its list. An idle worker asks on its own thread (`asking`) and takes no task meanwhile: it waits while the
pool changes, as a launch does, and for room in the ring of the main worker.
`StopSelf StopOther` are the two sides of `Worker::stop`; `Dequeue Process` the loop of a
`RingWorker`. A ring is a FIFO. `undefined` holds a task that `schedule` leaves nowhere: with no worker of
its category and the policy Wait it indexes an empty span (`mt/pool.cpp:875`). Under pressure the code takes the
first worker of the category; the list is a set here, and any worker may be the first. Left out: the random and fast distributions, several nodes,
periodic tasks on RingWorkers, `reconfigure`, hooks, launches from tasks.

### WebSocket, Http, Audio, MCNetwork, MCServices

`WebSocket`: the module's thread takes tasks (`RunTask TasksDone`), drives connections that curl is making
(`Connected ConnectFails`), takes and sends frames (`Flush Frame Recv... Ping`), times out, reconnects, polls
and ends. A connection is in at most one of three maps (`ops[c].maps`), a record of what `Operation` keeps.
`Http` has the same thread for requests; beside it the thread of a client writes chunks of a streamed body
(`Write Chunk Finish`), cancels, and unpauses what curl paused because the queue was empty (`Resume`). curl, the peers and the network answer as they like. `MCNetwork` composes
them: one module is loaded at a time. Left out: fragments and contents of messages, headers, progress, a
load that fails and a second load, the count of `d2_curl_global.cpp`, HTTP callbacks that make requests.

`Audio` runs on pipewire's loop: devices appear, vanish and become the default, streams are activated,
deactivated and reactivated with their listeners told in the middle (`React`), filters run and are put
in and taken out, voices are mixed; calls of other threads are queued (`Invoke Execute`). A device's name is
kept as a pointer into the list of devices, as the code keeps it. The module connects a signal of the type `Event`
but triggers `Device`, which finds no slot and throws; nobody catches that on the loop's thread, and the program ends
(`Signalled`, `over`). `slot` is FALSE in a program that uses the module as the repository does, and there the first
device that appears ends everything. It is TRUE where the program has connected a signal of `Device` with the
module's specifier itself; all that is shown of streams and voices is about such programs. `watch` throws in its
caller in both. Left out: `watch`, unloading, formats of samples, recording's callback.

### Input, Screen, Binder, Interface, MCInterface

One chain of modules, each extending the one before, that ends in a frame of the main loop. `Input`: strokes
become bytes, the bytes arrive in pieces, `Parse` understands what it can and keeps the rest, and a frame is
made (`FrameOf`): what was pressed, held and released and where the mouse is. `Screen`: `ui` holds the tree
and the pointers to the hovered, clicked and focused element; `Focus`, `Hover`, `Click`, `Release` set the
states of elements and of all above them while callbacks run that may themselves focus; elements are removed,
moved and given another tree; `Onward` is the iterator of the key navigation. Layout is abstract: the place of
an element is where it is on top. `Binder`: sequences of keys that call the program while an element is focused
or hovered, with listeners on the elements; `Bind Rebind Freeze Unfreeze Unbind`. `Interface` is
`SystemScreen::tick`: frame, pointers, binds, then what was typed goes to the focused element and to
those under the mouse.

`Cycle` and `Ended` are the parts of a turn that its arguments determine: what it read, and what it leaves when the
binds were called. Who reads the letters of a frame consumes them for those who come later, in two marks: what was asked
for (`TakeSequence`) counts as consumed from the next `apply_consume` on (`ApplyConsume`). `Signalled` is what the signals
leave of the marks; since `KeySequenceInput` carries the letters, they are consumed in each frame that has some, before
the first element is asked. Only a field that is dragged in resets the marks and gets letters. `offered`
and `dragged` are ghosts that count letters. A unit `Pv` that is resolved during an event would reset the marks
as well; that is left out.

Assumptions: the rest of an escape sequence arrives within 25 ms, nothing is typed until a lone Escape
was understood, no Alt+[ and Alt+O; nothing is removed or moved while an iterator of the key navigation exists;
`set()` comes between turns; a root is nobody's child; navigation is asked for in trees in which `parent()` leads to
the root from everywhere (`RootedIn`), which `Move` with what is below takes away. A bind has one dependency and steps that are presses of one key. A callback of a
container gives the focus to its own child only. Left out: modifiers, the wheel, text beyond one letter,
navigation from container to container, animations, models, tags.

### ProgramParts, MCProgram

`ProgramParts` brings together three parts that share no state with the interface: `SignalRegistry`, `TerminalOutput` and
`Logs`. `MCProgram` puts them beside the interface for one run.

### PixelBuffer, TerminalOutput

`PixelBuffer` is a frame, filled and inscribed with the frames of the elements below, and kept packed in runs.
`TerminalOutput` is `UnixTerminalOutput::write`: what differs from the last frame goes out in runs
(`DeltaPixel`), or all of it after a resize (`CleanPixel`), with as few movements of the cursor and colours as
it can; a terminal, modelled as xterm behaves, shows it. Alpha is all or nothing, a terminal's own colours are white on
black. Left out: images, code pages, compressed buffers, partial and failed writes.

### Logs

`RuntimeLogs`: a thread that logs links a node of its own into a list (`Log Link`), locks its ring with a flag,
writes and unlocks; `page` locks all rings in a first walk of the list, sorts, and unlocks them in a second;
sinks are added under a flag of their own. An entry is a message: data beside it, which nothing in the repository logs,
is left out, and would be a second record whose header has no length (`logd.cpp:385`), so that `page` goes on in the middle
of it and loses its way in the ring. Left out as well: handlers of signals, dumps, filters, formatting.

### MultiInput, FragmentedBuffer, InputField, Choices, ScrollArea, DemandView

Each element is a record that the element's functions take from one value to the next, and a step is a key, a
click, a wheel, a call of the program or a frame. `FragmentedBuffer` is the text as a list of shards with its
history; `MultiInput` is the editor on top of it, beside a plain string with a history (`want`);
`InputField` the field of one line; `Choices` the two switches, the dropdown and the checkbox, whose
callbacks may choose again; `ScrollArea` a ScrollBox and its slider; `DemandView` a list of which only the
entries in sight exist. Of an entry it is known whether it is in the view, whether it still has the list for a
parent (`embedded`), and whether its height is known, which all forget when the length changes. What is drawn are
the entries in sight from the first row on: the part of the top one that is above the window moves the list on, but is
drawn. Left out: how they look, automatic sizes of the text fields, `disable_history`.

### Dependencies, TreeLayout

`Dependencies`: two dependencies, one of them linked to the other or not, callbacks and two properties of an element
that subscribe, with one buffer of handles between them (`binds`): taking a binding back erases its handle, which calls
back and erases once more (`Deregister`). A change is handed on by an explicit `stack`, since a callback may set, subscribe and close
in the middle. `TreeLayout`: the root, a Box and an item; a layout is computed when asked for (`Get`), kept until
a write invalidates it (`Write`), and marks go up to the root so that a frame draws what changed
(`Draw`). Units are given in pixels, parts of the parent or of the screen, in the middle, from the far side, and automatic;
the automatic side of an element that is no Box is a constant, as `resolve_units` replaces its unit
(`d2_tree_parent.cpp:178`). `MCElements` puts the six elements and these two beside each other: `shown` chooses one of them,
which takes steps.

## 3. The runs

| run (`tlc -config C M`) | instance | checks |
|---|---|---|
| `tasks` (`Tasks.cfg MCTasks`) | 2 producers, 1 consumer, 2 slots, 3 tickets, 2 values: the ring wraps around, fills up and is refused; a task of each of 4 shapes, 2 users with 3 calls each, 2 ticks | `NoSlotRace` `Accounted` `NoValueRace` invariants; `ImplementsQueue` refinement of `BoundedQueue`; `NobodyLeftWaiting` liveness |
| `signals` (`Signals.cfg MCSignals`) | 2 triggering threads, 1 handle, 2 slots, 3 triggers and so up to 3 drains; synchronous, async (drops), deferred, deferred and combining | `InOrder`; `StatesObeyed` action property; `EventuallyDrained` liveness |
| `signals_evict` (`SignalsEvict.cfg MCSignals`) | 2 slots, 3 triggers, async signals that make room by evicting | `OneConsumer` is violated: see findings |
| `modules` (`ModuleLoader.cfg MCModuleLoader`) | 3 modules and a named one, main thread and 1 querying thread; a chain, a 2-cycle, a graph with a cycle and a shared dependency; loads that succeed, fail and throw; one module lazy | `LoadOrder` (loads exclude each other, dependencies first, cycles refused); `LoadedKept` action property; `CallsReturn` liveness |
| `module_removal` (`ModuleRemoval.cfg MCModuleLoader`) | the same, every module may be removed | `RemovalChecked` is violated |
| `mainloop` (`MainLoop.cfg MainLoop`) | 2 callers, 1 timer, 1 slot, 3 calls: a full ring, a stop during a sync, a ping before the sleep | `NoLostWakeup`; `Served` `CyclesFollow` liveness |
| `pool` (`Pool.cfg Pool`) | a caller and the main thread, 2 workers that come and go, rings of 1, 2 tasks, all 5 policies | `Bookkeeping`; `TasksAccounted` action property |
| `pool_removal` (`PoolRemoval.cfg Pool`) | a caller and the main thread, 1 worker that asks for its removal, rings of 1, 3 tasks, the policy Wait | `AcceptedRuns` liveness |
| `pool_stop` (`PoolStop.cfg Pool`) | the same, one policy | `StopReturns` is violated |
| `network` (`Network.cfg MCServices`) | a connection that reconnects once and times out, 3 messages, a ring of 1; 2 requests, one streams 2 chunks through a queue of 1; 3 audio devices of which two have one name, a filter, a voice | `ConnectionsMapped` `EndsOnce` `SentInOrder` `AudioTold`; `CloseEnds` `ChunksArrive` `VoicesEnd` liveness |
| `interface` (`Interface.cfg MCProgram`) | 7 elements under 2 roots, 3 binds that jump, send and rebind, at most 3 strokes and calls in any order and any cut into reads; 2 owners and 2 handles of signals with 4 calls; 3 frames on 2 sizes of terminal; 2 threads that log, one that pages, 2 sinks | `InputWhole` `PointersKnown` `KeynavVisits` `BindsActive` `KeysOnce` `ArgumentsMatch` `OwnersRegistered` `ScreenShown` `LogsWhole` |
| `elements` (`Elements.cfg MCElements`) | an editor of 2 by 2 and blocks of 2 letters, a field of 2, 3 options in 2 rows, windows of 3 rows, 2 dependencies with 2 values and 3 subscriptions, 2 properties, a tree of 3 on screens of 2 widths, each for some 4 to 12 steps | `TextKept` `ToldLast` `IndicesInside` `ViewsAgree` `ValuesCurrent` `ScreenCurrent`; `PointerShown` action property |

Composition. Parts that interact are composed by extending one another (`Input` to `Interface`,
`FragmentedBuffer` to `MultiInput`, `PixelBuffer` to `TerminalOutput`). Parts that share no state are put into
one run in which only one of them takes steps (`part`, `shown`): this is a union of their behaviours, no
interleaving is lost, and the others keep a single initial state.

Bounds. `MaxTickets` and `MaxTriggers` end a history of calls that would go on for ever; each is
larger than the capacity of its queue, so that slots and `is_queued` are used again. `MaxCalls` of the main
loop does the same for other threads' calls; it also rules out that they feed the ring for ever, in which
case `_process_tasks` never returns and a stop is not served. Rings of one or two slots are the smallest that
fill up and wrap (8 in the network modules, 4 in the queue of an upload). Two instances per module are as many as
the race between a load and a query can make: `ModuleLoader_proofs` proves it (`Makes`). A task runs once, so
that two tasks with rings of one slot are enough to fill a ring, reject, grow, hand over and ask for a removal; with a
third the main thread waits for room with the worker that waits for the main thread. Three
strokes are a sequence of two keys and one that disturbs it, or a focus, a bind and a key. `MaxInputs`,
`MaxTurns`, `MaxChanges` and their like count the steps of an element; its data is small enough that marks,
pointers and views reach each end of it within them. `CHECK_DEADLOCK FALSE` is set where a history may end
because a bound is used up, or, in `MainLoop` and `Pool`, when the loop or the pool has stopped.

Fairness is weak fairness of the threads that are in the middle of a call or have a task to run: the
operating system schedules them. It is given to a thread as a whole, never to one of its branches. No
thread has to start a call. Beyond this: a worker comes back to its ring (`Acquire` in `TaskRing`:
`RingWorker`'s loop), the pool runs a task it has accepted (`Start` in `Signals`), time passes
(`Pass`, `PassDue` in `MainLoop`), a round of the main loop takes tasks as well as timers (strong fairness of
`MainTake` in `Pool`), and the output device asks for samples (`Output` in `Audio`). Of the network
it is assumed, with strong fairness, that a socket takes a close frame at some time, that a connection which
has sent one is closed by the peer or breaks, and that curl reads a body that is not paused. Input that wakes
`poll` (`Disturb`), failing loads, throwing callbacks and answers of servers are possible, never required.
`_sig_trigger` retries in a loop when the ring is full; `EventuallyDrained` does not rest on its ending.

Limits stated in properties, apart from those in the comments:

* after a callback of a drain has thrown, `is_queued` stays set (`d2_signal_handler.cpp:500`) and the signal
  is not delivered any more, which `EventuallyDrained` excepts. `StatesObeyed` excepts a thread that is already
  past its last look at the state of the handle;
* a load that throws stores `Failure` and then `Offline` (`d2_module.cpp:45-49`); in between, another thread
  may load, and its result is overwritten: `LoadOrder` and `LoadedKept` except instances whose load threw;
* `Served` excepts a callback that throws and a loop that is stopped: in both the caller of `sync` waits for
  ever;
* `NobodyLeftWaiting` excepts a task that throws or is discarded before it runs, and blocks whose flags a
  `value()` has cleared (`mt/control.hpp:156`);
* `AcceptedRuns` excepts a worker that is held for ever in the call that has it removed (`Blocked`). Otherwise it
  holds because the stop of a removed worker never gets past its barrier (see `pool_stop`); when that is repaired
  the worker has to empty its ring;
* `EndsOnce` excepts a connection that times out in the round in which its ping failed.

### Findings

* `signals_evict`: `_sig_trigger` on a full ring calls `try_dequeue` (`d2_signal_handler.cpp:635`)
  while a worker drains: two consumers of a ring that is written for one.
* `module_removal`: `_remove_module` searches the dependencies of each other module for that module's
  own index instead of the one to be removed (`d2_context.cpp:73`), so the check at line 67 never
  refuses.
* `pool_stop`: `Worker::stop` from another thread sets `_stop` before it hands the worker the task that is
  to release its barrier; the worker's own `accept` drops it (`mt/pool.cpp:261`, `307`).

### What else the models met

Defects and limits that a property excepts or that stay outside a model, for whoever works on the code.

* Signals: `disconnect<Manifest>()` by name leaves an owner whose destructor throws where nothing may be thrown, or removes a later registration;
  `connect` does not check that a manifest is the registry's.
* Main loop: a stream of tasks keeps `_process_tasks` from ever returning (`d2_unix_system_io.cpp:124`);
  `suspend(state)` always sets true (`d2_context.cpp:595`); an exception in `sync_async`'s task leaves the future
  unset.
* Modules: `_load_module_recursive` holds a reference into the map while it is unlocked (`d2_context.cpp:313`), and
  its commit is not under the lock (`d2_context.cpp:334`). `SystemModule::unload` returns at once for a module that is
  loaded (`d2_module.cpp:26`, `145`): only modules that failed or never loaded are unloaded. Otherwise it always logs a
  failure and calls `_post_unload_impl` twice. `Unload` and `End` of the network modules are modelled as written, though
  the context does not reach them.
* Futures: a coroutine that finds the value after it has stored its handle is resumed twice
  (`mt/future.hpp:127`). Pool: a `RingWorker` runs its timers only when it dequeued nothing (`mt/pool.cpp:450`). One
  that asks for its removal holds what it has accepted for ever when it looked at the pool between the two stores of
  `start` (`mt/pool.cpp:907`), when the main thread waits at a barrier, is sent round by a reject callback, or
  waits for room in the ring of a worker that waits for room in the main worker's (`mt/pool.cpp:683`).
* Input: an unfinished sequence waits for ever; a key in two frames that follow each other is pressed once; a press and
  a release in one read are lost. Output: a change of style alone sends an empty last parameter, which resets all attributes; a resize to as many
  pixels, or one taken back before the next frame, brings no clean redraw; a failed write still replaces the
  last frame; `View::inscribe` ignores the view's offset.
* Logs: `page` unlocks nodes that joined meanwhile (`logd.cpp:524`); a callback of `page` or a sink that logs waits
  for ever; `typeid(v.get()) == typeid(Type)` is never true, so that a sink added twice is there twice and
  `unsink` removes none; the node is `thread_local`, shared by all `RuntimeLogs` objects.
* Network: a streamed write blocks for ever when its request ends with the upload queue full; `is_open()` returns
  `cancelled`; requests queued at unload are never answered.
* Audio: an event is triggered as `Device` (`d2_audio.cpp:296`) on a signal that is connected as `Event`
  (`d2_audio.hpp:312`, `d2_audio.cpp:44`), so that the first device ends the program, and `watch` throws; no slot can
  take what is triggered and what `watch` listens with, because their signatures differ. The pointers to device names name another device, or freed memory, when the list changes; activating over
  another active device tells nobody; a listener that deactivates while `reactivate` tells it leads to a null
  dereference; `Stream` is passed by value, so that a filter's `stop()` is lost; `transmit(vector)` from another thread
  leaves a span of a destroyed vector.
* Interface: `_signal<KeySequenceInput>` reads `input()->sequence()` (`d2_screen.cpp:36`), which consumes the letters of
  each frame before the elements are asked (`d2_screen.cpp:388`): a field with the focus gets nothing that is typed, but
  in a frame in which it is dragged in. The binder consumes them only for a match (`d2_binder.cpp:237`).
* Text: `FragmentedBuffer::_insert_data` puts what does not fit into the middle of a full block behind the block.
  `MultiInput`: Shift+Up twice marks from the start of the text; `_preferred_x` is overwritten by every move.
  `Input`: a paste over a selection around the pointer inserts out of range; a drag beyond the text and Backspace
  erases out of range.
* Widgets: `Dropdown::choose` tells before it stores; Enter on a `Checkbox` submits without toggling; a click on a
  `VerticalSwitch` compares a row with an index; a switch without options divides by zero. `Switch::_submit` remembers
  a choice after its callback (`d2_switch.cpp:181`), so that a callback which sets the old one back is not told that it
  shows, and reads `options[-1]` for a callback with values when there is no choice (`d2_switch.cpp:179`). `ScrollBox` never resets
  `needs_recompute_`, and its offset is not cut when the content shrinks. `DemandScrollBox` reads behind its entries
  when the list becomes shorter than where it is scrolled to, draws its top entry whole (`_top_inset` and `_zero_start`
  are not used), and makes an entry that it throws away for each height it needs. It takes the parent of all entries that were in its
  view, also of those it uses again (`d2_demand_scrollbox.cpp:325`): from the second frame on the entries in sight are in
  no tree, what is written to them is not drawn, and their layout stays.
* Dependencies: `apply_set` clears the flag of a bound property and leaves its subscription and handle
  (`d2_styles.hpp:563`): the next change overwrites what was written, and a plain value no longer ends the binding. A
  `set` nested in the hand-on of a linked function leaves old values; an unlink resets without
  telling; a property bound to two dependencies deregisters from the first (`d2_tree_element.cpp:229`); one rebound inside
  a callback loses the new binding. A plain value over a binding erases twice, since the handle that goes calls back while
  the flag is still set (`d2_styles.hpp:408`, `d2_tree_element.cpp:233`): another property's handle goes without being
  closed, or the size of the buffer becomes -1. A binding of a chained element's property counts it from the
  wrong offset (`d2_styles.hpp:402`). Layout: a new border width is written as a style, so that what is inside
  keeps its layout; a Box with two automatic sides keeps one of them. A side in `Unit::Pv` does not count as contextual
  (`d2_element_units.hpp:82`) and is not computed again when the screen is resized; it also is a whole screen short
  (`d2_tree_parent.cpp:214`); `Unit::Auto` of an element without automatic sides is 1 pixel and the border, where the code seems to mean the
  rest of the parent (`d2_tree_parent.cpp:178`).

## 4. The proofs

### Tasks_proofs

Of `TaskRing`, for any finite sets of threads, any values, any `Size` and any `MaxTickets`:

* `TypeCorrect`: `Spec => []TypeOK`;
* `WindowCorrect`: `Spec => []Window`, so a published slot is never overwritten;
* `SlotsAreExclusive`: `Spec => []NoSlotRace`;
* `SemaphoreAccounts`: `Spec => []Accounted`;
* `RingIsQueue`: `Spec => Queue!QSpec`, the refinement of `BoundedQueue` without its fairness.

The last four assume one consumer, which is what the class is for; with two consumers they are
false. `Window` is not inductive: whether a claim keeps `head <= tail + Size` depends on what the
producer saw some steps ago, and whether a publication keeps `headCheck <= head` on which tickets are
owned. The inductive invariant `IInv` adds

* `OwnedTickets`: the tickets of producers that are filling or waiting to publish are distinct and lie
  in `[_head_check, _head)`;
* `RoomSeen`: a producer about to claim saw a head below `_tail + Size`, and `_tail` only grows;
* `ConsumerCurrent`: the consumer's copy of `_tail` is the present one, and it advances only over a
  published ticket.

`SlotsAreExclusive` follows from `IInv` with `SlotsDiffer`: two tickets less than `Size` apart have
different slots. `SemaphoreAccounts` is a second induction on top of the first, over the cardinalities
of `Releasing` and `Holding`. `RingIsQueue` needs a third, `Filled`: each published ticket's slot holds a
value, and that of a producer that waits to publish its own item. Then a publication appends to the abstract
queue (`PublishAppends`), a take removes its head (`TakeGets`), and the two steps that touch a slot outside the
queue, a producer's `Fill` and the consumer's `Advance`, leave it as it is (`FillHides`, `AdvanceHides`).

Of `Future`:

* `ValueIsExclusive`: `FutureSpec => []NoValueRace`, for any users, shapes and bounds.

The property speaks of the moment of the write. That nobody reads then rests on the flags: `NothingToRead` says that until a task that runs
once has stored its value, its flags are without `Updated` and `Exception`, and no user is past the look at them
that leads to the value; `StagesOfShape` says which stages belong to which shape of task, so that none of these
runs again. For cyclic tasks the property says nothing: their ticks do race with a reader.

### Signals_proofs

Of `Signals`, for any threads, handles, specifiers, flags and bounds:

* `HandlesObeyed`: `Spec => StatesObeyed`, the action property of run `signals`;
* `DrainsAlone`: `Spec => []OneDrain`;
* `HeardInOrder`: `Spec => []InOrder`.

`StatesObeyed` speaks of a call, which was decided two steps before: it needs `Listeners`, that a handle is in
the list of the signal as long as it is Active or Muted, and in it once. `InOrder` needs that one drain is at work
(`OneDrain`): `isQueued` is set while a drain is under way, and it is cleared before a drain looks at the ring for
the last time, so that for a moment the flag is false and the drain does no more. `Ordered` then ties four
things together: the ring is sorted by number, an envelope that a drain has taken came before what is in the
ring, whoever has yet to be called with it has heard only older ones, and what was heard came before what
is in the ring. `Modes` says that a queued signal is never applied by a trigger itself. `Among` picks the listeners
out of the list by a recursive function; `AmongProperties` says what it returns.

`OneDrain` does not except the full ring: eviction lets a trigger take from the ring beside the drain, which is
what run `signals_evict` shows, but there is still no second drain. The order is kept then as well.

### Pool_proofs

Of `Pool`, for any threads, workers, tasks, sizes, ratios and policies:

* `BooksAreTrue`: `Spec => []Bookkeeping`;
* `TasksAreAccounted`: `Spec => TasksAccounted`, the action property of run `pool`.

The invariant has five parts. `CallsTyped` and `WorkersTyped` say what each place of the code has in its hands, and
that only the main worker gets requests to grow and to shrink. `Phases` says what the list and the stopped
workers are from the start of the pool to its stop. `WorkersListed` is the half of `Bookkeeping` about the
list, and `CountersAgree` the half about the counters: what `_inc` has counted is in a ring, with the worker, or in
the hands of a thread between `_inc` and its push. `Once` says that a task is in one place or in none. Sums
over the workers are folds over a function; `TotalOfUpdate` says what a step at one worker does to one, and `OneDiffers`
the same of the size of a set. The proof that a task is in exactly one place goes through the moves a task can make
(`HandToRing RingToWork HandEnds WorkEnds ...`), each of which is a lemma; every action is one of them or none.

### ModuleLoader_proofs

Of `ModuleLoader`, for any modules, names, dependencies, results of loads and threads:

* `LoaderInductive`: `Spec => []IInv`;
* `LoadsAreExclusive`: `Spec => []LoadsExclude`;
* `LoadedIsKept`: `Spec => LoadedKept`, the action property of run `modules`;
* `LoadsAreOrdered`: `Spec => []LoadOrder`.

`LoadsExclude` speaks of two threads in the load of an instance. It is kept because the status of an instance in
load is Loading and only its loader changes that (`Marked`), unless the load threw. Which
instance a thread refers to has to be known for this: `Referring` bounds the references of each place of the
code, `Recursion` says what the frames of the stack are about, and `Staying` that a module which is being loaded
stays in the map. `Makes` counts: at most two instances of a module are made, one by the main thread and
one by a query that found it missing at the same time, so that `Instance` in the type invariant is as
large as it has to be. `LoadedIsKept` then goes through the steps that change a status and those by which a query returns.

`LoadOrder` says two things more than `LoadsExclude`. That the load list loads a module after its dependencies rests
on `OrderInv`, about the stack of the recursion: no two frames are about one module (`Path`), what a frame is past has
begun to load (`Past`), and in the load itself a frame is past everything it depends on (`AtTop`). That no
instance is made of a module on a cycle, unless a query made one of another module on it, is about paths in the graph
(`CyclesRefused`): the first module of the path back is a dependency of the one that is being loaded, and so has an
instance already; with `NeedsGrow` it is on the cycle too. The modules that are needed along at most n edges, `Needs`,
are a recursive function; `NeedsProperties` says what it returns, and both lemmas are inductions over the natural
numbers up to the number of modules.

### WebSocket_proofs

Of `WebSocket`, for any connections, slots, messages and reconnections:

* `NetInductive`: `Spec => []NetInv`;
* `MapsAgree`: `Spec => []ConnectionsMapped`, which run `network` checks as that of its instance of the module;
* `ClosesOnce`: `Spec => []ClosedOnce`, the websockets' half of `EndsOnce` in run `network`;
* `SendsInOrder`: `Spec => []SentInOrder`.

The first two are not inductive, and need each other. That an error takes a connection out of the maps it is in rests on
where the thread is: between the connects and the reconnections nothing is started, so that what `Drive` takes
up was open (`Driven`). That a connection which starts is new rests on the tasks: its start is the first of its
tasks and there is one (`Starts`). A ping that fails is followed by the check for a time-out, which looks at no state; that
it cannot restart a connection which failed needs `Final`: what failed may not be tried again. `ClosesFit`
counts the calls of `on_close`, and leaves out the connections in `late`, which get a second one there.

`SentInOrder` is about what curl has taken. `RowInv` says that with it three more things come in the order of the
calls of `send`: the message that is half sent, those that wait in the operation, and the tasks in the ring; all of
them are numbered at most `sent`. A message may be dropped on the way, when it finds another half sent or when the
connection breaks, but nothing is put in front of what is older. A message that arrives at an open connection
comes behind all others, because on one that is open something waits only behind a half-sent message (`Drained`). That is
true but for a thread that waits for itself in `on_open`, which sends nothing any more. `RowIsCut` says what a flush
takes of such a row and what it leaves.

### Services_proofs

Of `MCServices`, for any connections, requests, devices, names, filters and bounds, from `AudioAssumption`:

* `ServicesMapped`, `ServicesEndOnce`, `ServicesSendInOrder`, `ServicesTell`: `ServicesSpec` implies
  `[]ConnectionsMapped`, `[]EndsOnce`, `[]SentInOrder` and `[]AudioTold`, the four invariants of run `network`.

`SameNext` and `WebSocketRuns` show that the composition behaves, for the websockets, as `WebSocket` says, so that
the theorems of `WebSocket_proofs` hold in it. For the requests `HttpInv` says where a request is that nobody has
answered: with curl, or as the task of its start, which is in the ring once, and never both; a request with curl or
in the ring has not been answered. So none is answered twice, and none is forgotten before its answer, but for those
whose start is left in the ring when the module ends.

`ServicesTell` says what the audio promises and where: a stream that runs can be stopped, always; whoever listens knows
what runs and which devices are the default, where the program has a slot for the module's signals; elsewhere nothing
ever runs. Its invariant has three parts beside `Unheard`. `DevicesInv`: as long as the default is in the list, it is the
one that was told last; what `Vanish` takes out of the list may be another name than the one that
vanished, because its pointer is stale, and the invariant holds whichever it is. `StreamsInv`: status and events
agree and a stream that runs has a device, between the halves of a `reactivate` as well. `CallsInv`: what
waits in the loop are calls. `NothingStarts` shows that without a slot no call activates anything.

### ProgramParts_proofs

This module is about four parts of the program that share no state: the main loop, and the three parts that
`ProgramParts` instantiates.

Of `MainLoop`, for any sets of threads and timers, any `Size` and any `MaxCalls`, from the module's two assumptions
on constants:

* `TypeCorrect`: `Spec => []TypeOK`;
* `TasksWake`, `StopsWake`, `TimersWake` and, together, `Wakes`: `Spec => []NoLostWakeup`.

`TypeOK` alone is not inductive: a caller must have a task when it accepts (`JobGiven`), and `_tick` must
leave no timer unseen (`TodoTicked`), or stopping would leave one behind. The three others speak of the
moment of the `poll` only. `IInv` says how they come about: a task in the ring is announced by a byte in
the pipe or by a caller about to write one, at all times but while the thread, having emptied the pipe,
goes through the ring once more (`TaskAnnounced`); a stop is announced from the second look at `_stop` on
(`StopAnnounced`). The two are tied together: a task that runs before the `poll` may itself call `stop()`,
which does not write to the pipe on the main thread, and then it is the announcement of that task that
keeps the thread from sleeping. `ClosedLast` says that the pipe is closed only after the last sleep.

Of the registry of signals, for any names, events, signatures, owners, handles and threads, from `RegistryAssumption`, that the
registry's signatures are among `Signatures`:

* `ArgumentsAgree`: `R!RegistrySpec => []ArgumentsMatch`;
* `OwnersHold`: `R!RegistrySpec => []OwnersRegistered`.

Who listens or triggers is compared with the manifest of what is registered, and the call comes later, when another
signal may have the name. `Compared` says why that is harmless: all storages have the registry's manifest, so that
what was compared once agrees with what is there later. `NamesApart` says that two Signals hold the same name only
after `disconnect` by name, which is the exception that `OwnersRegistered` states; `Numbered`, that the states are
numbered from 1, so that a number given to a handle is nobody else's.

Of the logs, for any threads, sizes of rings and numbers of pages, from `LogsAssumption`, that no thread is called as
the ends of the list are:

* `LogsHold`: `L!LogsSpec => []LogsWhole`.

A page walks the list twice while nodes join it, with a new node linked to its neighbours in two steps. `Ordered`
gives each node a rank, in which `next` goes down, so that a walk ends, and a node that joins gets one above those that
are there; `Walked` says what a page has locked by its rank: in the first walk all nodes above the one it is at, but
those that joined behind its back, and in the second all below. `Locked` says whose each lock is, but for the nodes in
`freed`. `PageWhole` then needs of the sort that it rearranges what was found and leaves it in order, whatever the
algorithm. `SinksInv` is about the sinks' flag, which one thread holds at a time.

Of the terminal's output, for any pixels, views and sizes, from `OutputAssumption`, that a terminal has cells and that
a pixel is not the number of a run:

* `ScreenHolds`: `O!OutputSpec => []ScreenShown`.

Between two writes, `OutputInv` says that the frame kept is the last one, packed, unless the size has changed, that
`ScreenShown` holds, and that a terminal has no style as long as no frame had one. A write goes over the pixels.
`Stands` says what the iterator over the packed frame stands for: the pixel of that place, as often as the run has it
yet, with the rest of the frame packed behind (`Iterates`). `Diffed` says of a difference that the
terminal shows the new frame so far and the old one from there on, and that in the middle of a run its cursor is behind the last pixel
and in its colours, or waits in the last column where a row ends; `Cleaned` the same of a clean redraw. `Colours` is why what the code believes
of the colours is enough, even where it leaves some of them out. That a frame is what is seen of a scene is `FrameIs`.

### Interface_proofs

Of `Interface`, for any strokes, trees of elements, binds, callbacks and bounds, from `InputAssumption` (a report's
place is not the byte that ends a sequence), `ScreenAssumption`, `BinderAssumption` (a bind has keys, and there are finitely
many names) and `InterfaceAssumption`; for the pointers, `ScreenAssumption` says also that the elements are finitely many, that
`None` is none of them, and that no element is built with a root as its child:

* `InputIsWhole`: `Spec => []InputWhole`;
* `BindsFollow`: `Spec => []BindsActive`;
* `KeysCountOnce`: `Spec => []KeysOnce`;
* `PointersAgree`: `Spec => []PointersKnown`.

The first three come from `InterfaceInv`, whose parts hang together: a turn understands, calls binds and counts letters.
The fourth comes from `PointersInv`, relative to it.

`InputInv` is about the bytes. `InputWhole` alone is not inductive: it does not say what the bytes that are pending
and on the line will become. `Fits` does: they can be cut at places `c` so that the pieces are the bytes of the
strokes not yet understood, in order, and a lone escape, whose byte begins every other sequence, is not followed by
anything (`EscapeLast`). `HeadUnderstood` is the fact about the parser: at such a cut it takes the bytes of exactly one
stroke, waits when fewer than its bytes are there, or takes an escape for one once its time has passed. `ParsedFits` and
`ParseFits` carry this through the loop, which ends because each round takes a byte; `Stuck` says that what is left
pending cannot be understood, so that when nothing has arrived and nothing is pending everything was understood.

`GoodBinder` is about each bind (`GoodBind`): it is in the active set if it is marked active, and then bound and
enabled; it is active as the state of its element wants it (`Tracks`); and it listens to its element (`Listens`), without
which it would not hear of the next change. The binds in `failed`, whose unfreeze met a collision, are excepted from the
last two. When the states of elements change, only the
binds that hear it are looked at: `ListenedGood` shows that this is enough, since what a bind wants can change
only by what it hears, and `CheckAllDoes` that each bind looked at is then as it is wanted. `CalledWork` and
`KeyInputWork` show that callbacks which focus, unbind and bind again while the frame's binds are called keep this. They also show
`early = {}`: a bind that was bound again in the frame has a new epoch and is not called.

`Counted` is about the letters: `offered` and `dragged` are counts, and the first is at most the second. In a frame that has
letters the signals leave them consumed, whether a bind matched or not (`SignalledConsumed`); the field with the focus
gets none and leaves them so, wherever the binds have moved the focus (`FocusLeavesConsumed`); and the field
under the mouse gets them only in a drag (`TurnCounts`).

`PointersInv` is about the tree, the pointers and the button. `TreeNow`: whoever has a parent is one of its children,
and roots are nobody's children. It does not say that no element is above itself, and the proof does not need it.
`KnownNow` is the property element by element: `PointAt` says which of Focused, Clicked, Hovered and Keynavi an
element may have, `ChainAt` which of the three states that those above a pointer have. `Pressed` relates what is
clicked to the button. The argument has four parts.

* What is above an element, `Up`, and what is below it, `Below`, are computed in as many rounds as there are elements.
  `ReachClosed` shows that this is enough: as long as a round adds something the set grows, and it has no room for
  more. So both are the least sets that are closed (`AboveIs`, `UnderIs`), and what is above an element has it below
  (`AboveUnder`). An element that is not below a subtree keeps what is above it when that is removed or moved
  (`AboveKept`); a pointer into the subtree makes what was above it stale (`ChainTrails`).
* `FocusKnown` is about callbacks of Focused that give the focus on, to any depth. The calls inside return from
  the last to the first, and each moves RcFocus from what was focused before it. `GainsWork` says what the pointers are
  when the innermost call has been made, and `Back` what is left of RcFocus when the calls behind the `i`-th have
  returned: what is above the last element and not yet above the `i`-th. `HeirIs` makes these chains grow.
* `MouseKnown` and `Button` relate what is clicked to the button: it is clicked when the button goes down in a frame, and
  let go of when it goes up, and a frame in which it does neither leaves it as it was (`HeldExists`).
* Navigation comes to an element of the tree. `ClimbIs`: a climb of as many steps as there are elements ends beside
  something or at the root, since what cannot reach such an end is closed under parents and so would not have the
  root above it. `OnwardIn` follows.

### Model-checked only

Every liveness property, `ImplementsQueue`'s included: fairness and ENABLED are out of the prover's reach. All the
invariants and action properties of the runs `tasks`, `signals`, `modules`, `mainloop`, `pool` and `network` are
proved, and eight of the nine of `interface`. The ninth, `KeynavVisits`, says that a round of navigation comes to every
element that takes input: a proof needs the order in which a walk of any length goes through a tree, and that the tree
stays one (no element above itself, no child twice). Those of `elements` are about texts, layouts and lists that its modules compute with recursive
operators, of which the prover knows nothing; what the elements promise depends on what those compute.

The provers cannot instantiate the library's induction theorems. Where an induction was needed it is one over the
natural numbers, by the lemmas `Least` and `Induction`, which these modules derive from the well-foundedness of `<`:
for sums over workers, paths among modules, lists of listeners, pipelines, pixels, bytes and callbacks. It works for
recursive functions and for folds over sets whose definitions are functions, which a lemma first shows to exist
(`TotalsExist`, `AlongExists`, `UpToExists`, `ThroughExists`, `PacksExists`, `SendsExists`, `LoopExists`, `AfterExists`,
`BoundExists`, `ReachExists`, `StepsExists`, `GainedExists`, `BackExists`, `HeldExists`). For this the parser of `Input`, the walks of `Screen` and the callbacks of `Interface` are written as
recursive functions.

## 5. Not modelled, and what could follow

* `sync_async` and the start-up of the main loop; `sysenum`; the second load of a network module.
* Animations and interpolators, navigation between containers, styles themselves and themes' accents, images, code
  pages, locales, and how elements look: they compute what is drawn, from state that is modelled.
* The layout solver: nothing calls it, and it is not finished.
* Sessions and the registry of modules' names: they copy configuration when the program starts.
* The Windows port: the same interfaces over another system.
* Value types, conversions, debugging views, clipboard, notifications, build files, examples.

What could follow: proofs of the screen's `KeynavVisits`, and of what the elements tell their listeners;
several nodes in `Pool`; modules whose load callbacks query modules, should there ever be one; the repairs of the
findings, each of which a run would confirm.
