------------------------------- MODULE Future -------------------------------
(***************************************************************************)
(* A task that the pool runs and the block it shares with its futures:     *)
(* ControlBlock and CoroutineControlBlock (src/mt/control.hpp), Future     *)
(* (src/mt/future.hpp) and the bodies that launchd, launchd_deferred,      *)
(* launchd_cyclic and co_launchd hand to the pool (src/mt/pool.hpp).       *)
(*                                                                         *)
(* One block, its task on one worker, and users that hold futures of it.   *)
(* The flags are one atomic, and every access to them is a step; the value *)
(* is not atomic, and is written and read in steps of their own.           *)
(***************************************************************************)
EXTENDS Naturals, FiniteSets

CONSTANTS Users,     \* threads and coroutines that hold a future
          Shapes,    \* how the task was launched
          MaxRuns,   \* bound: runs of the callback of a cyclic task
          MaxOps     \* bound: calls by users and runs together when a call starts

ASSUME ShapeAssumption == /\ Shapes \subseteq {"launch", "deferred", "cyclic", "co"}
                          /\ "none" \notin Users
                          /\ MaxRuns \in Nat /\ MaxOps \in Nat

VARIABLES shape,     \* of the task
          flags,     \* ControlBlock::_flags
          val,       \* ControlBlock::_val: empty, value, exception or moved
          handle,    \* CoroutineControlBlock::_handle: the user whose coroutine it is
          task,      \* where the task is
          runs,      \* how often its callback was called
          outcome,   \* how the last call ended
          held,      \* users that still hold their future
          where,     \* where each user is
          op,        \* the call it is in
          awaited,   \* the flags it loaded before it waits
          received,  \* what its last value() came to
          resumed,   \* how often the coroutine was resumed in this co_await
          cleared,   \* value() has cleared flags
          ops        \* calls so far

blockVars == <<flags, val, handle>>
taskVars == <<shape, task, runs, outcome>>
userVars == <<held, where, op, awaited, received, resumed, ops>>
futureVars == <<blockVars, taskVars, userVars, cleared>>

TaskAt(l) == task' = l
Move(u, l) == where' = [where EXCEPT ![u] = l]

InitFuture ==
    /\ shape \in Shapes
    /\ flags = {} /\ val = "empty" /\ handle = "none"
    /\ task = "queued" /\ runs = 0 /\ outcome = "none"
    /\ held = Users
    /\ where = [u \in Users |-> "idle"] /\ op = [u \in Users |-> "none"]
    /\ awaited = [u \in Users |-> {}] /\ received = [u \in Users |-> "none"]
    /\ resumed = [u \in Users |-> 0]
    /\ cleared = FALSE /\ ops = 0

-----------------------------------------------------------------------------
(* The task.  A cyclic one holds the block itself, the others a weak       *)
(* pointer, and run without one when no future is left.                    *)

Block == shape = "cyclic" \/ held # {}

\* The worker runs it: a discarded task is dropped.
Begin == /\ task = "queued"
         /\ TaskAt(CASE Block /\ "Discarded" \in flags -> "done"
                     [] Block /\ shape \in {"deferred", "cyclic"} -> "pause"
                     [] Block -> "call"
                     [] OTHER -> "call alone")
         /\ UNCHANGED <<shape, runs, outcome, blockVars, userVars, cleared>>

\* A paused deferred task goes back to the timers; a paused cyclic one skips its call.
SeePaused == /\ task = "pause"
             /\ TaskAt(IF "Paused" \notin flags THEN "call"
                       ELSE IF shape = "deferred" THEN "queued" ELSE "again")
             /\ UNCHANGED <<shape, runs, outcome, blockVars, userVars, cleared>>

\* The callback returns or throws.  Without a block there is nowhere to store that.
Run(o) == /\ task \in {"call", "call alone"} /\ runs < MaxRuns
          /\ runs' = runs + 1 /\ outcome' = o
          /\ TaskAt(IF task = "call" THEN "store" ELSE "done")
          /\ UNCHANGED <<shape, blockVars, userVars, cleared>>

\* _val.emplace, and then the flags and the wake-up.
Store == /\ task = "store"
         /\ val' = outcome
         /\ TaskAt("flag")
         /\ UNCHANGED <<shape, runs, outcome, flags, handle, userVars, cleared>>

SetFlags == (IF outcome = "value" THEN {"Updated"} ELSE {"Exception"})
            \cup (IF shape = "cyclic" THEN {} ELSE {"Discarded"})
AfterFlag == CASE shape = "co" -> "resume"
               [] shape = "cyclic" /\ outcome = "exception" -> "report"
               [] shape = "cyclic" -> "again"
               [] OTHER -> "done"
FlagTick == /\ task = "flag"
            /\ flags' = flags \cup (SetFlags \ {"Discarded"})
            /\ TaskAt(AfterFlag)
            /\ UNCHANGED <<shape, runs, outcome, val, handle, userVars, cleared>>
Flag == /\ task = "flag"
        /\ flags' = flags \cup SetFlags
        /\ TaskAt(AfterFlag)
        /\ UNCHANGED <<shape, runs, outcome, val, handle, userVars, cleared>>

\* CoroutineControlBlock::_try_run_handle takes the handle, and resumes its coroutine
\* on the worker's thread: it goes on in await_resume.
TryRunHandle ==
    /\ task = "resume"
    /\ handle' = "none"
    /\ TaskAt("done")
    /\ IF handle = "none" THEN UNCHANGED <<where, resumed>>
       ELSE /\ resumed' = [resumed EXCEPT ![handle] = @ + 1]
            /\ where' = [where EXCEPT ![handle] = IF @ = "suspended" THEN "sync" ELSE @]
    /\ UNCHANGED <<shape, runs, outcome, flags, val, held, op, awaited, received, ops, cleared>>

\* The exception handlers may have a cyclic task that threw discarded.
Report(handled) == /\ task = "report"
                   /\ flags' = IF handled THEN flags ELSE flags \cup {"Discarded"}
                   /\ TaskAt(IF handled THEN "again" ELSE "done")
                   /\ UNCHANGED <<shape, runs, outcome, val, handle, userVars, cleared>>

Again == /\ task = "again"
         /\ TaskAt(IF "Discarded" \in flags THEN "done" ELSE "queued")
         /\ UNCHANGED <<shape, runs, outcome, blockVars, userVars, cleared>>

TaskStep == \/ Begin \/ SeePaused \/ Store \/ Flag \/ TryRunHandle \/ Again
            \/ \E o \in {"value", "exception"} : Run(o)
            \/ \E handled \in BOOLEAN : Report(handled)

-----------------------------------------------------------------------------
(* The users.                                                              *)

\* The flags each call waits for.
AwaitedAny(o) == IF o = "sync" THEN {"Discarded"} ELSE {"Updated", "Exception", "Discarded"}
Awaited(o) == CASE o = "sync" -> {"Discarded"}
                [] o = "sync_value" -> {"Updated", "Exception", "Discarded"}
                [] o = "value_or" -> {"Updated", "Exception", "Discarded"}
                [] OTHER -> {"Updated", "Exception"}

Enter(u, o) == /\ where[u] = "idle" /\ u \in held /\ ops + runs < MaxOps
               /\ ops' = ops + 1
               /\ op' = [op EXCEPT ![u] = o]

Read(u, o) == /\ Enter(u, o)
              /\ Move(u, "sync")
              /\ received' = [received EXCEPT ![u] = "none"]
              /\ UNCHANGED <<blockVars, taskVars, held, awaited, resumed, cleared>>

\* ControlBlock::_sync_flags: _flags.wait returns when they are no longer what was seen.
Sync(u) ==
    /\ where[u] = "sync" \/ (where[u] = "wait" /\ flags # awaited[u])
    /\ IF flags \cap Awaited(op[u]) = {}
       THEN Move(u, "wait") /\ awaited' = [awaited EXCEPT ![u] = flags]
       ELSE /\ Move(u, CASE op[u] \in {"sync", "sync_value"} -> "idle"
                         [] op[u] = "value_or" -> "choose"
                         [] OTHER -> "clear")
            /\ awaited' = [awaited EXCEPT ![u] = {}]
    /\ UNCHANGED <<blockVars, taskVars, held, op, received, resumed, ops, cleared>>

\* Future::value_or calls back when there is no value, and otherwise value().
Choose(u) == /\ where[u] = "choose"
             /\ IF "Updated" \in flags
                THEN Move(u, "sync") /\ op' = [op EXCEPT ![u] = "value"]
                ELSE Move(u, "idle") /\ op' = op
             /\ UNCHANGED <<blockVars, taskVars, held, awaited, received, resumed, ops, cleared>>

\* ControlBlock::value: the flags but Updated are cleared, whether they were seen or not;
\* then an exception that is still flagged is thrown, and the value moved out.
Clear(u) == /\ where[u] = "clear"
            /\ flags' = flags \cap {"Updated"}
            /\ cleared' = TRUE
            /\ Move(u, "rethrow")
            /\ UNCHANGED <<val, handle, taskVars, held, op, awaited, received, resumed, ops>>

Rethrow(u) == /\ where[u] = "rethrow"
              /\ IF "Exception" \in flags
                 THEN Move(u, "idle") /\ received' = [received EXCEPT ![u] = "exception"]
                 ELSE Move(u, "get") /\ received' = received
              /\ UNCHANGED <<blockVars, taskVars, held, op, awaited, resumed, ops, cleared>>

\* std::get<0> on an exception is a bad variant access.
Get(u) == /\ where[u] = "get"
          /\ received' = [received EXCEPT ![u] = IF val = "exception" THEN "bad access" ELSE val]
          /\ val' = IF val = "exception" THEN val ELSE "moved"
          /\ Move(u, "idle")
          /\ UNCHANGED <<flags, handle, taskVars, held, op, awaited, resumed, ops, cleared>>

\* discard, pause and unpause
Set(u, o) == /\ Enter(u, o)
             /\ flags' = CASE o = "discard" -> flags \cup {"Discarded"}
                           [] o = "pause" -> flags \cup {"Paused"}
                           [] o = "unpause" -> flags \ {"Paused"}
             /\ UNCHANGED <<val, handle, taskVars, held, where, awaited, received, resumed, cleared>>

\* A user lets go of its future.
Drop(u) == /\ where[u] = "idle" /\ u \in held
           /\ held' = held \ {u}
           /\ UNCHANGED <<blockVars, taskVars, where, op, awaited, received, resumed, ops, cleared>>

\* co_await: await_ready, and then await_suspend, which gives the block the handle and
\* looks again.  A coroutine that is not suspended goes on in await_resume.
Await(u) == /\ Enter(u, "await") /\ shape = "co"
            /\ Move(u, IF "Updated" \in flags THEN "sync" ELSE "defer")
            /\ received' = [received EXCEPT ![u] = "none"]
            /\ resumed' = [resumed EXCEPT ![u] = 0]
            /\ UNCHANGED <<blockVars, taskVars, held, awaited, cleared>>

TrySetHandle(u) == /\ where[u] = "defer"
                   /\ IF handle = "none" THEN handle' = u /\ Move(u, "look") /\ resumed' = resumed
                      ELSE /\ handle' = handle /\ Move(u, "sync")
                           /\ resumed' = [resumed EXCEPT ![u] = @ + 1]
                   /\ UNCHANGED <<flags, val, taskVars, held, op, awaited, received, ops, cleared>>

\* From the moment the handle is set, the worker may resume the coroutine.
LookNever(u) == /\ where[u] = "look"
                /\ Move(u, IF resumed[u] = 0 THEN "suspended" ELSE "sync")
                /\ UNCHANGED <<blockVars, taskVars, held, op, awaited, received, resumed, ops, cleared>>
Look(u) == /\ where[u] = "look"
           /\ Move(u, CASE "Updated" \in flags -> "look again"
                        [] resumed[u] > 0 -> "sync"
                        [] OTHER -> "suspended")
           /\ UNCHANGED <<blockVars, taskVars, held, op, awaited, received, resumed, ops, cleared>>

LookAgain(u) ==
    /\ where[u] = "look again"
    /\ IF handle # "none"
       THEN Move(u, "sync") /\ resumed' = [resumed EXCEPT ![u] = @ + 1]
       ELSE Move(u, IF resumed[u] > 0 THEN "sync" ELSE "suspended") /\ resumed' = resumed
    /\ UNCHANGED <<blockVars, taskVars, held, op, awaited, received, ops, cleared>>

UserStep(u) == \/ Sync(u) \/ Choose(u) \/ Clear(u) \/ Rethrow(u) \/ Get(u)
               \/ TrySetHandle(u) \/ Look(u) \/ LookAgain(u)

UserCall(u) == \/ \E o \in {"sync", "sync_value", "value_or", "value"} : Read(u, o)
               \/ \E o \in {"discard", "pause", "unpause"} : Set(u, o)
               \/ Drop(u) \/ Await(u)

FutureNext == TaskStep \/ \E u \in Users : UserStep(u) \/ UserCall(u)

FutureSpec == InitFuture /\ [][FutureNext]_futureVars

\* The worker runs the task and the threads run; nobody has to call anything.
FutureFairness == WF_futureVars(TaskStep) /\ \A u \in Users : WF_futureVars(UserStep(u))
-----------------------------------------------------------------------------
\* The value of a task that runs once is not atomic and needs no lock: nobody reads it
\* before the task has written it.  (The next tick of a cyclic task may overwrite what a
\* reader is taking.)
NoValueRace ==
    shape # "cyclic" /\ task = "store" => \A u \in Users : where[u] # "get"

\* Whoever waits for a task that has ended returns.  Excepted are those that wait for
\* the result of a task that was discarded before it ran, and everyone once somebody's
\* value() has cleared the flags they wait for.
WaitersReturn ==
    \A u \in Users :
        task = "done" /\ where[u] \in {"sync", "wait"}
            ~> \/ where[u] \notin {"sync", "wait"}
               \/ cleared
               \/ outcome = "none" /\ op[u] \in {"value", "await"}

\* A coroutine that is suspended on a task that returns a value is resumed, whenever the
\* value is stored: before, while or after the handle is set.  (One that throws, or is
\* discarded before it runs, leaves it suspended.)
SuspendedIsResumed ==
    \A u \in Users :
        where[u] = "suspended"
            ~> where[u] # "suspended" \/ (task = "done" /\ outcome # "value")

\* Nobody waits for what has happened.
NobodyLeftWaiting == WaitersReturn /\ SuspendedIsResumed
=============================================================================
