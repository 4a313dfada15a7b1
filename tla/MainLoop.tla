------------------------------ MODULE MainLoop ------------------------------
(***************************************************************************)
(* The main loop of IOContext (src/core/io/d2_context.cpp) and the worker  *)
(* it sleeps in (UnixWorker, src/os/io/unix/d2_unix_system_io.cpp, on      *)
(* mt::Worker, src/mt/pool.cpp): other threads hand it tasks through a     *)
(* ring and wake it through a pipe, wait for them (sync), or stop it.      *)
(*                                                                         *)
(* Time is abstract: a deadline is pending, and some day it has passed.    *)
(***************************************************************************)
EXTENDS Naturals, Sequences, FiniteSets

CONSTANTS Callers,    \* threads other than the main thread
          Timers,     \* the Delayed and Periodic tasks
          Size,       \* slots of _tasks
          MaxCalls    \* bound: calls by other threads

ASSUME SizeAssumption == Size \in Nat \ {0} /\ MaxCalls \in Nat
ASSUME TimerAssumption == Callers \cap Timers = {} /\ "none" \notin Callers \cup Timers

VARIABLES pc,        \* the main thread
          stop,      \* IOContext::_stop
          closed,    \* Worker::_stop, and the pipe is closed
          due,       \* IOContext::_deadline: none, pending or passed
          until,     \* the deadline that wait() was called with
          queue,     \* _tasks: a caller stands for its sync, a timer for itself
          wake,      \* there are bytes in the pipe
          timers,    \* _periodic_tasks
          armed,     \* those that _periodic_deadline takes into account
          passed,    \* those whose deadline has passed
          todo,      \* those _tick has still to look at
          at,        \* where each caller is
          job,       \* the task it hands over
          released,  \* callers whose barrier is open
          threw,     \* callers whose callback threw
          calls,     \* calls so far
          stale      \* a task has run since the last cycle

mainVars == <<pc, due, until, todo>>
timerVars == <<timers, armed, passed>>
callerVars == <<at, job, calls>>
vars == <<mainVars, stop, closed, queue, wake, timerVars, callerVars, released, threw, stale>>

Goto(l) == pc' = l
Move(c, l) == at' = [at EXCEPT ![c] = l]

Init == /\ pc = "before" /\ stop = TRUE /\ closed = FALSE
        /\ due = "none" /\ until = "none"
        /\ queue = <<>> /\ wake = FALSE
        /\ timers = {} /\ armed = {} /\ passed = {} /\ todo = {}
        /\ at = [c \in Callers |-> "idle"] /\ job = [c \in Callers |-> "none"]
        /\ released = {} /\ threw = {} /\ calls = 0 /\ stale = FALSE

-----------------------------------------------------------------------------
(* Calls by other threads.                                                 *)

\* A timer that is not in use.
Fresh(d) == /\ d \notin timers
            /\ \A c \in Callers : job[c] # d
            /\ \A i \in 1..Len(queue) : queue[i] # d

Call(c) == at[c] = "idle" /\ calls < MaxCalls /\ calls' = calls + 1

\* IOContext::sync, Worker::accept: a stopped worker drops the task, and the caller
\* waits all the same.
Sync(c) == /\ Call(c)
           /\ job' = [job EXCEPT ![c] = c]
           /\ Move(c, IF closed THEN "blocked" ELSE "accept")
           /\ UNCHANGED <<mainVars, stop, closed, queue, wake, timerVars, released, threw,
                          stale>>

\* A delayed task that the pool gives to the main worker.
Delay(c, d) == /\ Call(c)
               /\ Fresh(d) /\ ~ closed
               /\ job' = [job EXCEPT ![c] = d]
               /\ Move(c, "accept")
               /\ UNCHANGED <<mainVars, stop, closed, queue, wake, timerVars, released, threw,
                              stale>>

\* UnixWorker::_accept_impl: a full ring makes the caller spin; then the wake-up.
Done(c) == /\ Move(c, IF job[c] = c THEN "blocked" ELSE "idle")
           /\ job' = IF job[c] = c THEN job ELSE [job EXCEPT ![c] = "none"]
AcceptAsleep(c) == /\ at[c] = "accept"
                   /\ Len(queue) < Size
                   /\ queue' = Append(queue, job[c])
                   /\ Done(c)
                   /\ UNCHANGED <<mainVars, stop, closed, wake, timerVars, calls, released,
                                  threw, stale>>
Accept(c) == /\ at[c] = "accept"
             /\ Len(queue) < Size
             /\ queue' = Append(queue, job[c])
             /\ Move(c, "wake")
             /\ UNCHANGED <<mainVars, stop, closed, wake, timerVars, job, calls, released,
                            threw, stale>>

Wake(c) == /\ at[c] = "wake"
           /\ wake' = ~ closed
           /\ Done(c)
           /\ UNCHANGED <<mainVars, stop, closed, queue, timerVars, calls, released, threw,
                          stale>>

\* Barrier::wait
Wait(c) == /\ at[c] = "blocked" /\ c \in released
           /\ released' = released \ {c}
           /\ job' = [job EXCEPT ![c] = "none"]
           /\ Move(c, "idle")
           /\ UNCHANGED <<mainVars, stop, closed, queue, wake, timerVars, calls, threw, stale>>

\* IOContext::stop and IOContext::ping
StopSilently(c) == /\ Call(c)
                   /\ stop' = TRUE
                   /\ UNCHANGED <<mainVars, closed, queue, wake, timerVars, at, job, released,
                                  threw, stale>>
Stop(c) == /\ Call(c)
           /\ stop' = TRUE
           /\ Move(c, "ping")
           /\ UNCHANGED <<mainVars, closed, queue, wake, timerVars, job, released, threw,
                          stale>>

Ping(c) == /\ Call(c)
           /\ Move(c, "ping")
           /\ UNCHANGED <<mainVars, stop, closed, queue, wake, timerVars, job, released,
                          threw, stale>>

Pinged(c) == /\ at[c] = "ping"
             /\ wake' = ~ closed
             /\ Move(c, "idle")
             /\ UNCHANGED <<mainVars, stop, closed, queue, timerVars, job, calls, released,
                            threw, stale>>

CallStep(c) == Accept(c) \/ Wake(c) \/ Wait(c) \/ Pinged(c)

-----------------------------------------------------------------------------
(* IOContext::_run.                                                        *)

\* What a callback on the main thread may do to the loop: nothing, stop() it, or ask
\* for a deadline(); and it may launch a delayed task, which Worker::accept processes
\* at once on its own thread.  A callback of _tick does not launch one: that would
\* append to _periodic_tasks while _tick iterates over it.
Ask == \/ UNCHANGED <<stop, due>>
       \/ stop' = TRUE /\ UNCHANGED due
       \/ due' = (IF due = "none" THEN "pending" ELSE due) /\ UNCHANGED stop
Launch == \/ UNCHANGED <<timers, armed>>
          \/ \E d \in Timers : /\ Fresh(d)
                              /\ timers' = timers \cup {d}
                              /\ armed' = armed \cup {d}

\* A stop() before this is lost.
Start == /\ pc = "before"
         /\ stop' = FALSE
         /\ Goto("loop")
         /\ UNCHANGED <<closed, due, until, todo, queue, wake, timerVars, callerVars, released,
                        threw, stale>>

\* One turn of the loop: input and screen.
Cycle == /\ pc = "loop" /\ ~ stop
         /\ Ask /\ Launch
         /\ stale' = FALSE
         /\ Goto("check")
         /\ UNCHANGED <<closed, until, todo, queue, wake, passed, callerVars, released, threw>>

\* The condition of the loop, and the second look at _stop.
Leave == /\ pc \in {"loop", "check"} /\ stop
         /\ Goto(IF pc = "loop" THEN "ended" ELSE "loop")
         /\ UNCHANGED <<stop, closed, due, until, todo, queue, wake, timerVars, callerVars,
                        released, threw, stale>>

Sleep == /\ pc = "check" /\ ~ stop
         /\ until' = due
         /\ Goto("process")
         /\ UNCHANGED <<stop, closed, due, todo, queue, wake, timerVars, callerVars, released,
                        threw, stale>>

\* _deadline is reset after the wait.
Reset == /\ pc = "reset"
         /\ due' = "none" /\ until' = "none"
         /\ Goto("loop")
         /\ UNCHANGED <<stop, closed, todo, queue, wake, timerVars, callerVars, released, threw,
                        stale>>

\* _deinitialize: the worker stops on its own thread.
Deinitialize == /\ pc = "ended"
                /\ closed' = TRUE
                /\ timers' = {} /\ armed' = {} /\ passed' = {}
                /\ wake' = FALSE
                /\ Goto("stopped")
                /\ UNCHANGED <<stop, due, until, todo, queue, callerVars, released, threw, stale>>

-----------------------------------------------------------------------------
(* UnixWorker::wait.                                                       *)

Processing == pc \in {"process", "process again"}

\* A sync task runs, and opens the caller's barrier unless its callback throws.
RunSync(c) == /\ Processing /\ queue # <<>> /\ Head(queue) = c
              /\ queue' = Tail(queue)
              /\ Ask /\ Launch
              /\ \/ released' = released \cup {c} /\ UNCHANGED threw
                 \/ threw' = threw \cup {c} /\ UNCHANGED released
              /\ stale' = TRUE
              /\ UNCHANGED <<pc, closed, until, todo, wake, passed, callerVars>>

\* A delayed task becomes a timer.
Arm(d) == /\ Processing /\ queue # <<>> /\ Head(queue) = d
          /\ queue' = Tail(queue)
          /\ timers' = timers \cup {d}
          /\ armed' = armed \cup {d}
          /\ UNCHANGED <<mainVars, stop, closed, wake, passed, callerVars, released, threw,
                         stale>>

Processed == /\ Processing /\ queue = <<>>
             /\ Goto(IF pc = "process" THEN "poll" ELSE "tick")
             /\ todo' = IF pc = "process" THEN {} ELSE timers
             /\ UNCHANGED <<stop, closed, due, until, queue, wake, timerVars, callerVars, released,
                            threw, stale>>

\* poll() returns: the pipe is readable, or the earlier of wait()'s deadline and that
\* of the timers passed.
PollUndated == /\ pc = "poll"
               /\ wake \/ armed \cap passed # {}
               /\ Goto(IF wake THEN "drain" ELSE "tick")
               /\ todo' = IF wake THEN {} ELSE timers
               /\ UNCHANGED <<stop, closed, due, until, queue, wake, timerVars, callerVars, released,
                              threw, stale>>
Poll == /\ pc = "poll"
        /\ wake \/ until = "passed" \/ armed \cap passed # {}
        /\ Goto(IF wake THEN "drain" ELSE "tick")
        /\ todo' = IF wake THEN {} ELSE timers
        /\ UNCHANGED <<stop, closed, due, until, queue, wake, timerVars, callerVars, released, threw,
                       stale>>

\* poll() returns for input, or is interrupted: then it tells nothing of the pipe.
Disturb == /\ pc = "poll"
           /\ Goto("tick")
           /\ todo' = timers
           /\ UNCHANGED <<stop, closed, due, until, queue, wake, timerVars, callerVars, released,
                          threw, stale>>

\* _drain empties the pipe before the tasks are processed again.
Drain == /\ pc = "drain"
         /\ wake' = FALSE
         /\ Goto("process again")
         /\ UNCHANGED <<stop, closed, due, until, todo, queue, timerVars, callerVars, released, threw,
                        stale>>

\* Worker::_tick at timer d: if it is ready it runs, and stays (Token::Continue) or goes.
Tick(d) == /\ pc = "tick" /\ d \in todo
           /\ todo' = todo \ {d}
           /\ IF d \in passed
              THEN /\ passed' = passed \ {d}
                   /\ Ask
                   /\ timers' \in {timers, timers \ {d}}
                   /\ UNCHANGED armed
                   /\ stale' = TRUE
              ELSE UNCHANGED <<stop, due, timerVars, stale>>
           /\ UNCHANGED <<pc, closed, until, queue, wake, callerVars, released, threw>>

\* The end of _tick sets the earliest deadline of the timers that stay.
TickedUnarmed == /\ pc = "tick" /\ todo = {}
                 /\ armed' = {}
                 /\ Goto("reset")
                 /\ UNCHANGED <<stop, closed, due, until, todo, queue, wake, timers, passed,
                                callerVars, released, threw, stale>>
Ticked == /\ pc = "tick" /\ todo = {}
          /\ armed' = timers
          /\ Goto("reset")
          /\ UNCHANGED <<stop, closed, due, until, todo, queue, wake, timers, passed, callerVars,
                         released, threw, stale>>

MainStep == \/ Start \/ Cycle \/ Leave \/ Sleep \/ Reset \/ Deinitialize
            \/ \E c \in Callers : RunSync(c)
            \/ \E d \in Timers : Arm(d) \/ Tick(d)
            \/ Processed \/ Poll \/ Drain \/ Ticked

\* Time.
Pass(d) == /\ d \in timers \ passed
           /\ passed' = passed \cup {d}
           /\ UNCHANGED <<mainVars, stop, closed, queue, wake, timers, armed, callerVars,
                          released, threw, stale>>

PassDue == /\ due = "pending"
           /\ due' = "passed"
           /\ UNCHANGED <<pc, until, todo, stop, closed, queue, wake, timerVars, callerVars, released,
                          threw, stale>>

\* _deadline has only come nearer since wait() was called with it.
PassUntil == /\ until = "pending" /\ due = "passed"
             /\ until' = "passed"
             /\ UNCHANGED <<pc, due, todo, stop, closed, queue, wake, timerVars, callerVars,
                            released, threw, stale>>

Next == \/ MainStep \/ Disturb
        \/ \E c \in Callers : \/ Sync(c) \/ Stop(c) \/ Ping(c) \/ CallStep(c)
                              \/ \E d \in Timers : Delay(c, d)
        \/ \E d \in Timers : Pass(d)
        \/ PassDue \/ PassUntil

Spec == Init /\ [][Next]_vars

\* The threads run, poll returns when it has to, and time passes.  Input and signals
\* that disturb poll need not come.
FairSpec == /\ Spec
            /\ WF_vars(MainStep)
            /\ \A c \in Callers : WF_vars(CallStep(c))
            /\ \A d \in Timers : WF_vars(Pass(d))
            /\ WF_vars(PassDue) /\ WF_vars(PassUntil)
-----------------------------------------------------------------------------
TypeOK ==
    /\ pc \in {"before", "loop", "check", "process", "poll", "drain", "process again", "tick",
               "reset", "ended", "stopped"}
    /\ stop \in BOOLEAN /\ closed \in BOOLEAN
    /\ due \in {"none", "pending", "passed"} /\ until \in {"none", "pending", "passed"}
    /\ queue \in Seq(Callers \cup Timers) /\ Len(queue) <= Size
    /\ wake \in BOOLEAN
    /\ timers \subseteq Timers /\ armed \subseteq Timers
    /\ passed \subseteq timers /\ todo \subseteq timers
    /\ at \in [Callers -> {"idle", "accept", "wake", "blocked", "ping"}]
    /\ job \in [Callers -> Callers \cup Timers \cup {"none"}]
    /\ released \subseteq Callers /\ threw \subseteq Callers
    /\ calls \in 0..MaxCalls
    /\ stale \in BOOLEAN

\* The main thread never sleeps on a task: while it is in poll and a task is in the
\* ring, the pipe is readable or the thread that put the task there is to write to it.
NoLostTask ==
    pc = "poll" /\ queue # <<>> => wake \/ \E c \in Callers : at[c] = "wake"

\* Nor on a stop that came after its last look at _stop: its ping, or the wake-up of
\* the task that called stop(), has made the pipe readable or is still to come.
NoLostStop ==
    pc = "poll" /\ stop => wake \/ \E c \in Callers : at[c] \in {"wake", "ping"}

\* While it sleeps, the timeout of poll takes every timer into account.
NoLostTimer == pc = "poll" => timers \subseteq armed

\* The loop does not sleep while something that it was told of is to be done.
NoLostWakeup == NoLostTask /\ NoLostStop /\ NoLostTimer

\* A sync returns unless its callback threw or the loop was stopped.
SyncReturns ==
    \A c \in Callers : at[c] = "blocked" ~> at[c] = "idle" \/ c \in threw \/ stop

\* A stop() of a loop that has started ends it.
StopEnds == stop /\ pc # "before" ~> pc = "stopped"

\* Whoever asks the loop for something that it must do is served.
Served == SyncReturns /\ StopEnds

\* What a task or a timer changed is drawn: a cycle follows it, unless the loop is
\* stopped.
DrawnAfterTask == stale ~> ~ stale \/ stop

\* A deadline asked of the context brings a cycle, unless the loop is stopped.
DeadlineKept == due = "pending" ~> pc = "loop" \/ stop

\* What asks for a cycle gets one.
CyclesFollow == DrawnAfterTask /\ DeadlineKept
=============================================================================
