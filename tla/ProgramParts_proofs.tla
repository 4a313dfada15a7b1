------------------------ MODULE ProgramParts_proofs ------------------------
(***************************************************************************)
(* Four parts of the program that share no state: the main loop, for any   *)
(* number of threads, timers and calls and any size of the ring, where no  *)
(* task, stop or timer waits unseen while the main thread sleeps; and what *)
(* the runs check of the registry of signals, of the logs and of the       *)
(* terminal's output, for any names, events, signatures, threads, frames,  *)
(* sizes and bounds.                                                       *)
(***************************************************************************)
EXTENDS MainLoop, ProgramParts, FiniteSetTheorems, FunctionTheorems, SequenceTheorems,
        WellFoundedInduction, TLAPS

-----------------------------------------------------------------------------
(* The main loop.                                                          *)

Waking == \E c \in Callers : at[c] = "wake"
Calling == \E c \in Callers : at[c] \in {"wake", "ping"}

(***************************************************************************)
(* The inductive invariant.  A task in the ring is announced from the      *)
(* moment it is there until the main thread, having emptied the pipe, goes *)
(* through the ring once more; a stop, from the second look at _stop on.   *)
(***************************************************************************)
ClosedLast == closed => pc = "stopped"
TaskAnnounced == queue # <<>> => wake \/ Waking \/ pc \in {"process again", "stopped"}
StopAnnounced == stop /\ pc \in {"process", "poll"} => wake \/ Calling
TimersArmed == timers \subseteq armed

Announced == ClosedLast /\ TaskAnnounced /\ StopAnnounced /\ TimersArmed

-----------------------------------------------------------------------------
(* What the callbacks and the calls of other threads do to the types.      *)
LEMMA AskTyped == ASSUME TypeOK, Ask
                  PROVE  stop' \in BOOLEAN /\ due' \in {"none", "pending", "passed"}
BY DEF TypeOK, Ask

LEMMA LaunchTyped ==
    ASSUME TypeOK, Launch
    PROVE  timers' \subseteq Timers /\ armed' \subseteq Timers /\ timers \subseteq timers'
BY DEF TypeOK, Launch

LEMMA CallTyped == ASSUME TypeOK, NEW c \in Callers, Call(c) PROVE calls' \in 0..MaxCalls
<1>1. calls \in 0..MaxCalls
  BY DEF TypeOK
<1>2. calls < MaxCalls /\ calls' = calls + 1
  BY DEF Call
<1>3. QED
  BY <1>1, <1>2, SizeAssumption

Labels == {"idle", "accept", "wake", "blocked", "ping"}
LEMMA MoveTyped == ASSUME TypeOK, NEW c \in Callers, NEW l \in Labels, Move(c, l)
                   PROVE  at' \in [Callers -> Labels]
BY DEF TypeOK, Move, Labels

LEMMA SyncTyped ==
    ASSUME TypeOK, NEW c \in Callers, Sync(c)
    PROVE  at' \in [Callers -> Labels]
           /\ job' \in [Callers -> Callers \cup Timers \cup {"none"}]
<1>1. at \in [Callers -> Labels] /\ job \in [Callers -> Callers \cup Timers \cup {"none"}]
  BY DEF TypeOK, Labels
<1>2. QED
  BY <1>1 DEF Sync, Move, Labels

LEMMA DoneTyped ==
    ASSUME TypeOK, NEW c \in Callers, Done(c)
    PROVE  /\ at' \in [Callers -> Labels]
           /\ job' \in [Callers -> Callers \cup Timers \cup {"none"}]
BY DEF TypeOK, Labels, Done, Move

\* Taking the head out of the ring, and putting a task in where there is room.
LEMMA TailTyped ==
    ASSUME TypeOK, queue # <<>>
    PROVE  Tail(queue) \in Seq(Callers \cup Timers) /\ Len(Tail(queue)) <= Size
<1>1. queue \in Seq(Callers \cup Timers) /\ Len(queue) \in Nat /\ Len(queue) <= Size
  BY LenProperties DEF TypeOK
<1>2. Tail(queue) \in Seq(Callers \cup Timers) /\ Len(Tail(queue)) = Len(queue) - 1
  BY <1>1, HeadTailProperties
<1>3. QED
  BY <1>1, <1>2, SizeAssumption

LEMMA AppendTyped ==
    ASSUME TypeOK, Len(queue) < Size, NEW x \in Callers \cup Timers
    PROVE  /\ Append(queue, x) \in Seq(Callers \cup Timers)
           /\ Len(Append(queue, x)) <= Size
<1>1. queue \in Seq(Callers \cup Timers) /\ Len(queue) \in Nat
  BY LenProperties DEF TypeOK
<1>2. /\ Append(queue, x) \in Seq(Callers \cup Timers)
      /\ Len(Append(queue, x)) = Len(queue) + 1
  BY <1>1, AppendProperties
<1>3. QED
  BY <1>1, <1>2, SizeAssumption
-----------------------------------------------------------------------------
(* Every variable always has its type.  For _tasks and _tick it takes two  *)
(* facts more: a caller that accepts has a task to hand over, and _tick    *)
(* leaves no timer unseen.                                                 *)
TodoTicked == pc # "tick" => todo = {}
JobGiven == \A c \in Callers : at[c] = "accept" => job[c] \in Callers \cup Timers

Typed == TypeOK /\ TodoTicked /\ JobGiven

LEMMA JobInductive == TypeOK /\ JobGiven /\ [Next]_vars => JobGiven'
<1> SUFFICES ASSUME TypeOK, JobGiven, [Next]_vars PROVE JobGiven'
  OBVIOUS
<1>1. at \in [Callers -> Labels]
      /\ job \in [Callers -> Callers \cup Timers \cup {"none"}]
  BY DEF TypeOK, Labels
<1> USE DEF JobGiven, Labels, Move, Call, callerVars
<1>2. ASSUME NEW c \in Callers, Sync(c) PROVE JobGiven'
  BY <1>1, <1>2 DEF Sync
<1>3. ASSUME NEW c \in Callers, NEW d \in Timers, Delay(c, d) PROVE JobGiven'
  BY <1>1, <1>3 DEF Delay
<1>4. ASSUME NEW c \in Callers, Accept(c) \/ Stop(c) \/ Ping(c) \/ Pinged(c) PROVE JobGiven'
  BY <1>1, <1>4 DEF Accept, Stop, Ping, Pinged
<1>5. ASSUME NEW c \in Callers, Wake(c) \/ Wait(c) PROVE JobGiven'
  BY <1>1, <1>5 DEF Wake, Done, Wait
<1>6. ASSUME UNCHANGED <<at, job>> PROVE JobGiven'
  BY <1>6
<1>7. QED
  BY <1>2, <1>3, <1>4, <1>5, <1>6
     DEF Next, MainStep, CallStep, vars, Start, Cycle, Leave, Sleep, Reset, Deinitialize,
         RunSync, Arm, Tick, Processed, Poll, Drain, Ticked, Disturb, Pass, PassDue, PassUntil

LEMMA TypeInductive == Typed /\ [Next]_vars => Typed'
<1> SUFFICES ASSUME TypeOK, TodoTicked, JobGiven, [Next]_vars PROVE TypeOK' /\ TodoTicked'
  BY JobInductive DEF Typed
<1> USE DEF TypeOK, Labels, TodoTicked, mainVars, timerVars, callerVars, Goto
<1>1. ASSUME NEW c \in Callers, Sync(c) PROVE TypeOK' /\ TodoTicked'
  <2>1. at' \in [Callers -> Labels] /\ job' \in [Callers -> Callers \cup Timers \cup {"none"}]
    BY <1>1, SyncTyped
  <2>2. UNCHANGED <<mainVars, stop, closed, queue, wake, timerVars, released, threw, stale>>
    BY <1>1, ZenonT(40) DEF Sync
  <2>3. calls' \in 0..MaxCalls
    BY <1>1, CallTyped, ZenonT(40) DEF Sync
  <2>4. QED
    BY <2>1, <2>2, <2>3, ZenonT(40)
<1>2. ASSUME NEW c \in Callers, Accept(c) PROVE TypeOK' /\ TodoTicked'
  <2>1. job[c] \in Callers \cup Timers /\ Len(queue) < Size
    BY <1>2, ZenonT(40) DEF Accept, JobGiven
  <2>2. queue' \in Seq(Callers \cup Timers) /\ Len(queue') <= Size
    BY <1>2, <2>1, AppendTyped, ZenonT(40) DEF Accept
  <2>3. at' \in [Callers -> Labels]
    BY <1>2, MoveTyped, ZenonT(40) DEF Accept
  <2>4. UNCHANGED <<mainVars, stop, closed, wake, timerVars, job, calls, released, threw, stale>>
    BY <1>2, ZenonT(40) DEF Accept
  <2>5. QED
    BY <2>2, <2>3, <2>4, ZenonT(40)
<1>3. ASSUME NEW c \in Callers, Wake(c) PROVE TypeOK' /\ TodoTicked'
  BY <1>3, DoneTyped, ZenonT(40) DEF Wake
<1>4. ASSUME NEW c \in Callers, Wait(c) PROVE TypeOK' /\ TodoTicked'
  <2>1. at' \in [Callers -> Labels]
    BY <1>4, MoveTyped, ZenonT(40) DEF Wait
  <2>2. QED
    BY <1>4, <2>1, ZenonT(40) DEF Wait
<1>5. ASSUME NEW c \in Callers, Stop(c) PROVE TypeOK' /\ TodoTicked'
  <2>1. at' \in [Callers -> Labels]
    BY <1>5, MoveTyped, ZenonT(40) DEF Stop
  <2>2. QED
    BY <1>5, <2>1, CallTyped, ZenonT(40) DEF Stop
<1>6. ASSUME NEW c \in Callers, Ping(c) PROVE TypeOK' /\ TodoTicked'
  <2>1. at' \in [Callers -> Labels]
    BY <1>6, MoveTyped, ZenonT(40) DEF Ping
  <2>2. QED
    BY <1>6, <2>1, CallTyped, ZenonT(40) DEF Ping
<1>7. ASSUME NEW c \in Callers, Pinged(c) PROVE TypeOK' /\ TodoTicked'
  <2>1. at' \in [Callers -> Labels]
    BY <1>7, MoveTyped, ZenonT(40) DEF Pinged
  <2>2. QED
    BY <1>7, <2>1, ZenonT(40) DEF Pinged
<1>8. ASSUME NEW c \in Callers, NEW d \in Timers, Delay(c, d) PROVE TypeOK' /\ TodoTicked'
  <2>1. at' \in [Callers -> Labels]
    BY <1>8, MoveTyped, ZenonT(40) DEF Delay
  <2>2. QED
    BY <1>8, <2>1, CallTyped, ZenonT(40) DEF Delay
<1>9. ASSUME NEW c \in Callers, RunSync(c) PROVE TypeOK' /\ TodoTicked'
  BY <1>9, AskTyped, LaunchTyped, TailTyped, ZenonT(40) DEF RunSync
<1>10. ASSUME NEW d \in Timers, Arm(d) PROVE TypeOK' /\ TodoTicked'
  <2>1. queue' \in Seq(Callers \cup Timers) /\ Len(queue') <= Size
    BY <1>10, TailTyped, ZenonT(40) DEF Arm
  <2>2. timers' = timers \cup {d} /\ armed' = armed \cup {d}
    BY <1>10, ZenonT(40) DEF Arm
  <2>3. UNCHANGED <<mainVars, stop, closed, wake, passed, callerVars, released, threw, stale>>
    BY <1>10, ZenonT(40) DEF Arm
  <2>4. QED
    BY <2>1, <2>2, <2>3, ZenonT(40)
<1>11. ASSUME NEW d \in Timers, Tick(d) PROVE TypeOK' /\ TodoTicked'
  BY <1>11, AskTyped, ZenonT(40) DEF Tick
<1>12. ASSUME NEW d \in Timers, Pass(d) PROVE TypeOK' /\ TodoTicked'
  BY <1>12, ZenonT(40) DEF Pass
<1>13. ASSUME Start PROVE TypeOK' /\ TodoTicked'
  BY <1>13, ZenonT(40) DEF Start
<1>14. ASSUME Cycle PROVE TypeOK' /\ TodoTicked'
  BY <1>14, AskTyped, LaunchTyped, ZenonT(40) DEF Cycle
<1>15. ASSUME Leave PROVE TypeOK' /\ TodoTicked'
  BY <1>15, ZenonT(40) DEF Leave
<1>16. ASSUME Sleep PROVE TypeOK' /\ TodoTicked'
  BY <1>16, ZenonT(40) DEF Sleep
<1>17. ASSUME Reset PROVE TypeOK' /\ TodoTicked'
  BY <1>17, ZenonT(40) DEF Reset
<1>18. ASSUME Deinitialize PROVE TypeOK' /\ TodoTicked'
  BY <1>18, ZenonT(40) DEF Deinitialize
<1>19. ASSUME Processed PROVE TypeOK' /\ TodoTicked'
  BY <1>19, ZenonT(40) DEF Processed, Processing
<1>20. ASSUME Poll PROVE TypeOK' /\ TodoTicked'
  BY <1>20, ZenonT(40) DEF Poll
<1>21. ASSUME Disturb PROVE TypeOK' /\ TodoTicked'
  BY <1>21, ZenonT(40) DEF Disturb
<1>22. ASSUME Drain PROVE TypeOK' /\ TodoTicked'
  BY <1>22, ZenonT(40) DEF Drain
<1>23. ASSUME Ticked PROVE TypeOK' /\ TodoTicked'
  BY <1>23, ZenonT(40) DEF Ticked
<1>24. ASSUME PassDue PROVE TypeOK' /\ TodoTicked'
  BY <1>24, ZenonT(40) DEF PassDue
<1>25. ASSUME PassUntil PROVE TypeOK' /\ TodoTicked'
  BY <1>25, ZenonT(40) DEF PassUntil
<1>26. CASE UNCHANGED vars
  BY <1>26, ZenonT(40) DEF vars
<1>27. QED
  BY <1>1, <1>2, <1>3, <1>4, <1>5, <1>6, <1>7, <1>8, <1>9, <1>10, <1>11,
     <1>12, <1>13, <1>14, <1>15, <1>16, <1>17, <1>18, <1>19, <1>20,
     <1>21, <1>22, <1>23, <1>24, <1>25, <1>26
     DEF Next, MainStep, CallStep

LEMMA TypedAtFirst == ASSUME Init PROVE Typed
<1>1. queue \in Seq(Callers \cup Timers) /\ Len(queue) = 0
  BY EmptySeq DEF Init
<1>2. calls \in 0..MaxCalls /\ Len(queue) <= Size
  BY <1>1, SizeAssumption DEF Init
<1>3. TypeOK
  BY <1>1, <1>2 DEF Init, TypeOK
<1>4. QED
  BY <1>3 DEF Init, Typed, TodoTicked, JobGiven

(* The types of the main loop's variables.                                 *)
THEOREM TypeCorrect == Spec => []TypeOK
<1>1. Typed => TypeOK
  BY DEF Typed
<1>2. QED
  BY <1>1, TypedAtFirst, TypeInductive, PTL DEF Spec
-----------------------------------------------------------------------------
(* The announcements are kept by every step: a caller is in Waking or      *)
(* Calling until it has written to the pipe, and only Drain empties it.    *)
IInv == Typed /\ Announced

LEMMA IInvInductive == IInv /\ [Next]_vars => IInv'
<1> SUFFICES ASSUME IInv, [Next]_vars PROVE Announced'
  BY TypeInductive DEF IInv
<1> USE DEF IInv, Typed, TypeOK, Announced, ClosedLast, TaskAnnounced, StopAnnounced,
            TimersArmed, Waking, Calling, mainVars, timerVars, callerVars, Goto, Move
<1>1. ASSUME NEW c \in Callers, Sync(c) PROVE Announced'
  BY <1>1 DEF Sync, Call
<1>2. ASSUME NEW c \in Callers, Accept(c) PROVE Announced'
  BY <1>2 DEF Accept
<1>3. ASSUME NEW c \in Callers, Wake(c) PROVE Announced'
  BY <1>3 DEF Wake, Done
<1>4. ASSUME NEW c \in Callers, Wait(c) PROVE Announced'
  BY <1>4 DEF Wait
<1>5. ASSUME NEW c \in Callers, Stop(c) PROVE Announced'
  BY <1>5 DEF Stop, Call
<1>6. ASSUME NEW c \in Callers, Ping(c) PROVE Announced'
  BY <1>6 DEF Ping, Call
<1>7. ASSUME NEW c \in Callers, Pinged(c) PROVE Announced'
  BY <1>7 DEF Pinged
<1>8. ASSUME NEW c \in Callers, NEW d \in Timers, Delay(c, d) PROVE Announced'
  BY <1>8 DEF Delay, Call
<1>9. ASSUME NEW c \in Callers, RunSync(c) PROVE Announced'
  BY <1>9 DEF RunSync, Processing, Ask, Launch
<1>10. ASSUME NEW d \in Timers, Arm(d) PROVE Announced'
  BY <1>10 DEF Arm, Processing
<1>11. ASSUME NEW d \in Timers, Tick(d) PROVE Announced'
  BY <1>11 DEF Tick, Ask
<1>12. ASSUME NEW d \in Timers, Pass(d) PROVE Announced'
  BY <1>12 DEF Pass
<1>13. ASSUME Start PROVE Announced'
  BY <1>13 DEF Start
<1>14. ASSUME Cycle PROVE Announced'
  BY <1>14 DEF Cycle, Ask, Launch
<1>15. ASSUME Leave PROVE Announced'
  BY <1>15 DEF Leave
<1>16. ASSUME Sleep PROVE Announced'
  BY <1>16 DEF Sleep
<1>17. ASSUME Reset PROVE Announced'
  BY <1>17 DEF Reset
<1>18. ASSUME Deinitialize PROVE Announced'
  BY <1>18 DEF Deinitialize
<1>19. ASSUME Processed PROVE Announced'
  BY <1>19 DEF Processed, Processing
<1>20. ASSUME Poll PROVE Announced'
  BY <1>20 DEF Poll
<1>21. ASSUME Disturb PROVE Announced'
  BY <1>21 DEF Disturb
<1>22. ASSUME Drain PROVE Announced'
  BY <1>22 DEF Drain
<1>23. ASSUME Ticked PROVE Announced'
  BY <1>23 DEF Ticked
<1>24. ASSUME PassDue PROVE Announced'
  BY <1>24 DEF PassDue
<1>25. ASSUME PassUntil PROVE Announced'
  BY <1>25 DEF PassUntil
<1>26. CASE UNCHANGED vars
  BY <1>26 DEF vars
<1>27. QED
  BY <1>1, <1>2, <1>3, <1>4, <1>5, <1>6, <1>7, <1>8, <1>9, <1>10, <1>11,
     <1>12, <1>13, <1>14, <1>15, <1>16, <1>17, <1>18, <1>19, <1>20,
     <1>21, <1>22, <1>23, <1>24, <1>25, <1>26
     DEF Next, MainStep, CallStep

LEMMA IInvHolds == Spec => []IInv
<1>1. ASSUME Init PROVE IInv
  BY <1>1, TypedAtFirst DEF Init, IInv, Announced, ClosedLast, TaskAnnounced,
     StopAnnounced, TimersArmed
<1>2. QED
  BY <1>1, IInvInductive, PTL DEF Spec

-----------------------------------------------------------------------------
(* The main thread never sleeps on a task: in poll the pipe is readable or *)
(* the thread that put the task into the ring is about to write to it.     *)
THEOREM TasksWake == Spec => []NoLostTask
<1>1. IInv => NoLostTask
  BY DEF IInv, Announced, TaskAnnounced, Waking, NoLostTask
<1>2. QED
  BY <1>1, IInvHolds, PTL

(* Nor on a stop, from another thread or from a task it has run itself.    *)
THEOREM StopsWake == Spec => []NoLostStop
<1>1. IInv => NoLostStop
  BY DEF IInv, Announced, StopAnnounced, Calling, NoLostStop
<1>2. QED
  BY <1>1, IInvHolds, PTL

(* In poll the timeout takes every timer into account.                     *)
THEOREM TimersWake == Spec => []NoLostTimer
<1>1. IInv => NoLostTimer
  BY DEF IInv, Announced, TimersArmed, NoLostTimer
<1>2. QED
  BY <1>1, IInvHolds, PTL

(* Together: whatever happens before it falls asleep, the main thread never *)
(* sleeps in poll past a task, a stop or a timer.                           *)
THEOREM Wakes == Spec => []NoLostWakeup
<1>1. NoLostTask /\ NoLostStop /\ NoLostTimer => NoLostWakeup
  BY DEF NoLostWakeup, NoLostTask, NoLostStop, NoLostTimer
<1>2. QED
  BY <1>1, TasksWake, StopsWake, TimersWake, PTL
-----------------------------------------------------------------------------
(* The registry: arguments.                                                *)

Held == [name : R!Keys, storage : 1..MaxStorages]
RegistryTypeOK ==
    /\ made \in 0..MaxStorages
    /\ sigs \in [R!Keys -> 0..MaxStorages]
    /\ owners \in [Owners -> {R!Nothing} \cup Held]
    /\ handles \in [Listeners -> Nat]
    /\ doing \in [Threads -> {R!Idle} \cup [storage : 1..MaxStorages, call : R!Calls]]
    /\ IsFiniteSet(states)
    /\ states \subseteq [id : Nat, storage : 1..MaxStorages, event : Events,
                         dispatch : R!SpecifierKeys(Dispatches), sig : Signatures,
                         active : BOOLEAN]

\* Every signal has the manifest of the registry, and who listens or triggers was compared
\* with it.
Compared ==
    /\ sigVerify = [s \in 1..MaxStorages |-> Registry]
    /\ \A s \in states : s.sig = R!Case(Registry, s.event)
    /\ \A t \in Threads : doing[t] # R!Idle =>
          doing[t].call.sig = R!Case(Registry, doing[t].call.event)
    /\ \A pair \in heard : pair[1] = pair[2]

\* The states are numbered, and each number a Handle has is one of them and its own.
Numbered ==
    /\ \A s \in states : s.id \in 1..Cardinality(states)
    /\ \A s, r \in states : s.id = r.id => s = r
    /\ \A h \in Listeners : handles[h] <= Cardinality(states)
    /\ R!HandlesOwn

\* Two Signals hold the same name only if it was disconnected behind the back of one.
NamesApart ==
    /\ R!OwnersRegistered
    /\ \A o, p \in Owners :
          /\ owners[o] # R!Nothing /\ owners[p] # R!Nothing /\ owners[o].name = owners[p].name
          /\ owners[o].name \notin direct
          => o = p

RegistryInv == RegistryTypeOK /\ Compared /\ Numbered /\ NamesApart

\* Initially there is nothing.
LEMMA RegistryBegins == R!InitRegistry => RegistryInv
<1> SUFFICES ASSUME R!InitRegistry PROVE RegistryInv
    OBVIOUS
<1>1. IsFiniteSet(states) /\ Cardinality(states) = 0
    BY FS_EmptySet DEF R!InitRegistry
<1>2. RegistryTypeOK
    BY <1>1, RegistryAssumption DEF R!InitRegistry, RegistryTypeOK, Held, R!Keys, R!SpecifierKeys
<1>3. Compared
    BY DEF R!InitRegistry, Compared
<1>4. Numbered
    BY <1>1 DEF R!InitRegistry, Numbered, R!HandlesOwn
<1>5. NamesApart
    BY DEF R!InitRegistry, NamesApart, R!OwnersRegistered
<1> QED
    BY <1>2, <1>3, <1>4, <1>5 DEF RegistryInv

\* Closing a handle leaves as many states, with the same numbers and arguments.
LEMMA ClosedStates ==
    ASSUME RegistryTypeOK, \A s, r \in states : s.id = r.id => s = r, NEW id
    PROVE  LET ended == R!Closed(id)
           IN  /\ IsFiniteSet(ended) /\ Cardinality(ended) = Cardinality(states)
               /\ ended \subseteq [id : Nat, storage : 1..MaxStorages, event : Events,
                                    dispatch : R!SpecifierKeys(Dispatches), sig : Signatures,
                                    active : BOOLEAN]
               /\ \A c \in ended : \E s \in states :
                     /\ c.id = s.id /\ c.sig = s.sig /\ c.event = s.event
                     /\ c.active => s.active /\ s.id # id
               /\ \A c, d \in ended : c.id = d.id => c = d
<1> DEFINE Of(s) == [s EXCEPT !.active = s.active /\ s.id # id]
           close == [s \in states |-> Of(s)]
           ended == R!Closed(id)
<1>1. ended = {Of(s) : s \in states}
    BY Zenon DEF R!Closed
<1>2. \A s \in states :
          /\ Of(s) \in [id : Nat, storage : 1..MaxStorages, event : Events,
                        dispatch : R!SpecifierKeys(Dispatches), sig : Signatures,
                        active : BOOLEAN]
          /\ Of(s).id = s.id /\ Of(s).sig = s.sig /\ Of(s).event = s.event
          /\ Of(s).active => s.active /\ s.id # id
    BY DEF RegistryTypeOK
<1> HIDE DEF ended, Of
<1>3. close \in [states -> ended] /\ (\A a, b \in states : close[a] = close[b] => a = b)
    BY <1>1, <1>2
<1>4. \A c \in ended : \E s \in states : close[s] = c
    BY <1>1
<1>5. close \in Bijection(states, ended)
    BY <1>3, <1>4, Fun_IsBij
<1>6. IsFiniteSet(ended) /\ Cardinality(ended) = Cardinality(states)
    BY <1>5, FS_Bijection, Fun_ExistsBij DEF RegistryTypeOK
<1>7. \A c, d \in ended : c.id = d.id => c = d
    BY <1>1, <1>2
<1> QED
    BY <1>1, <1>2, <1>6, <1>7 DEF ended

\* Who has a Signal: the names in use keep their owners.
LEMMA OwnersKeep ==
    ASSUME RegistryInv,
           \E o \in Owners : \/ \E n \in R!Keys : R!Connect(o, n, Registry)
                             \/ R!DisconnectOwner(o)
                             \/ \E p \in Owners : R!MoveOwner(o, p)
    PROVE  RegistryInv'
<1> PICK o \in Owners : \/ \E n \in R!Keys : R!Connect(o, n, Registry)
                        \/ R!DisconnectOwner(o)
                        \/ \E p \in Owners : R!MoveOwner(o, p)
    OBVIOUS
<1>1. UNCHANGED <<states, handles, sigReleased, doing, heard, direct>>
    BY DEF R!Connect, R!DisconnectOwner, R!MoveOwner
<1>2. Numbered'
    BY <1>1 DEF RegistryInv, Numbered, R!HandlesOwn
<1>3. sigVerify' = sigVerify
    BY DEF R!Connect, R!DisconnectOwner, R!MoveOwner, RegistryInv, Compared
<1>4. Compared'
    BY <1>1, <1>3 DEF RegistryInv, Compared, R!Case
<1>5. RegistryTypeOK'
    <2>1. made' \in 0..MaxStorages /\ sigs' \in [R!Keys -> 0..MaxStorages]
          /\ owners' \in [Owners -> {R!Nothing} \cup Held]
        <3>1. CASE \E n \in R!Keys : R!Connect(o, n, Registry)
            BY <3>1, RegistryAssumption
               DEF R!Connect, R!Dropped, RegistryInv, RegistryTypeOK, Held, R!Nothing
        <3>2. CASE R!DisconnectOwner(o)
            BY <3>2, RegistryAssumption
               DEF R!DisconnectOwner, R!Dropped, RegistryInv, RegistryTypeOK, Held, R!Nothing
        <3>3. CASE \E p \in Owners : R!MoveOwner(o, p)
            BY <3>3, RegistryAssumption
               DEF R!MoveOwner, R!Dropped, RegistryInv, RegistryTypeOK, Held, R!Nothing
        <3> QED
            BY <3>1, <3>2, <3>3
    <2> QED
        BY <1>1, <2>1 DEF RegistryInv, RegistryTypeOK
<1>6. NamesApart'
    <2>1. CASE \E n \in R!Keys : R!Connect(o, n, Registry)
        BY <2>1, RegistryAssumption DEF R!Connect, R!Call, R!Dropped, RegistryInv, RegistryTypeOK, Held, R!Nothing,
           NamesApart, R!OwnersRegistered
    <2>2. CASE R!DisconnectOwner(o)
        BY <2>2, RegistryAssumption DEF R!DisconnectOwner, R!Call, R!Dropped, RegistryInv, RegistryTypeOK, Held, R!Nothing,
           NamesApart, R!OwnersRegistered
    <2>3. CASE \E p \in Owners : R!MoveOwner(o, p)
        BY <2>3, RegistryAssumption DEF R!MoveOwner, R!Call, R!Dropped, RegistryInv, RegistryTypeOK, Held, R!Nothing,
           NamesApart, R!OwnersRegistered
    <2> QED
        BY <2>1, <2>2, <2>3
<1> QED
    BY <1>2, <1>4, <1>5, <1>6 DEF RegistryInv

\* A name that is disconnected, and the Signals object that goes, change what is registered.
LEMMA NamesKeep ==
    ASSUME RegistryInv, R!Destroy \/ \E n \in R!Keys : R!DisconnectName(n)
    PROVE  RegistryInv'
<1>1. UNCHANGED <<states, handles, sigReleased, doing, heard, owners, sigVerify, made>>
    BY DEF R!Destroy, R!DisconnectName
<1>2. Numbered' /\ Compared'
    BY <1>1 DEF RegistryInv, Numbered, R!HandlesOwn, Compared, R!Case
<1>3. RegistryTypeOK'
    BY <1>1, RegistryAssumption DEF R!Destroy, R!DisconnectName, RegistryInv, RegistryTypeOK
<1>4. NamesApart'
    BY <1>1 DEF R!Destroy, R!DisconnectName, RegistryInv, RegistryTypeOK, NamesApart,
                R!OwnersRegistered, Held, R!Nothing
<1> QED
    BY <1>2, <1>3, <1>4 DEF RegistryInv

\* A thread finds a signal: its call was compared with the manifest, which all signals share.
LEMMA FindKeeps ==
    ASSUME RegistryInv, NEW t \in Threads, NEW n \in R!Keys, NEW c \in R!Calls,
           \/ R!ListenStatic(t, n, c) \/ R!SignalStatic(t, n, c)
           \/ R!ListenRuntime(t, n, c) \/ R!SignalRuntime(t, n, c)
    PROVE  RegistryInv'
<1>1. R!Find(t, n, c)
    BY DEF R!ListenStatic, R!SignalStatic, R!ListenRuntime, R!SignalRuntime
<1>2. UNCHANGED <<sigAlive, sigs, sigVerify, owners, states, handles, sigReleased, heard, direct, made>>
    BY <1>1 DEF R!Find
<1>3. sigs[n] \in 1..MaxStorages
    BY <1>1, RegistryAssumption DEF R!Find, RegistryInv, RegistryTypeOK
<1>4. c.sig = R!Case(Registry, c.event)
    <2>1. sigVerify[sigs[n]] = Registry
        BY <1>3 DEF RegistryInv, Compared
    <2> QED
        BY <2>1 DEF R!ListenStatic, R!SignalStatic, R!ListenRuntime, R!SignalRuntime, R!Satisfied,
                    R!Accepted, R!Verify
<1>5. doing' = [doing EXCEPT ![t] = [storage |-> sigs[n], call |-> c]]
    BY <1>1 DEF R!Find
<1>6. RegistryTypeOK'
    BY <1>2, <1>3, <1>5 DEF RegistryInv, RegistryTypeOK
<1>7. Numbered' /\ NamesApart'
    BY <1>2 DEF RegistryInv, Numbered, R!HandlesOwn, NamesApart, R!OwnersRegistered
<1>8. Compared'
    BY <1>2, <1>4, <1>5 DEF RegistryInv, RegistryTypeOK, Compared, R!Case
<1> QED
    BY <1>6, <1>7, <1>8 DEF RegistryInv

LEMMA CardinalityOf == \A S : R!Cardinality(S) = Cardinality(S)
BY DEF Cardinality, R!Cardinality

\* The listener it adds has a number of its own, and the arguments that were compared.
LEMMA ListenKeeps ==
    ASSUME RegistryInv, NEW t \in Threads, NEW h \in Listeners, R!ListenHere(t, h)
    PROVE  RegistryInv'
<1> DEFINE id == Cardinality(states) + 1
           d == doing[t]
           ended == R!Closed(handles[h])
           new == [id |-> id, storage |-> d.storage, event |-> d.call.event,
                   dispatch |-> d.call.dispatch, sig |-> d.call.sig, active |-> TRUE]
<1>1. /\ d # R!Idle /\ states' = ended \cup {new}
      /\ handles' = [handles EXCEPT ![h] = id]
      /\ doing' = [doing EXCEPT ![t] = R!Idle]
      /\ UNCHANGED <<sigAlive, sigs, sigVerify, owners, sigReleased, heard, direct, made>>
    <2>1. d # R!Idle /\ doing' = [doing EXCEPT ![t] = R!Idle]
        BY DEF R!ListenHere, R!Done
    <2>2. handles' = [handles EXCEPT ![h] = id]
        BY CardinalityOf DEF R!ListenHere
    <2>3. states' = ended \cup {new}
        BY Zenon, CardinalityOf DEF R!ListenHere
    <2>4. UNCHANGED <<sigAlive, sigs, sigVerify, owners, sigReleased, heard, direct, made>>
        BY DEF R!ListenHere
    <2> QED
        BY <2>1, <2>2, <2>3, <2>4
<1>2. RegistryTypeOK /\ Compared /\ Numbered
    BY DEF RegistryInv
<1>3. \A s, r \in states : s.id = r.id => s = r
    BY <1>2 DEF Numbered
<1>4. /\ IsFiniteSet(ended) /\ Cardinality(ended) = Cardinality(states)
      /\ ended \subseteq [id : Nat, storage : 1..MaxStorages, event : Events,
                           dispatch : R!SpecifierKeys(Dispatches), sig : Signatures,
                           active : BOOLEAN]
      /\ \A c \in ended : \E s \in states :
            /\ c.id = s.id /\ c.sig = s.sig /\ c.event = s.event
            /\ c.active => s.active /\ s.id # handles[h]
      /\ \A c, e \in ended : c.id = e.id => c = e
    BY <1>2, <1>3, ClosedStates
<1>5. Cardinality(states) \in Nat
    BY <1>2, FS_CardinalityType DEF RegistryTypeOK
<1> HIDE DEF ended
<1>6. \A c \in ended : c.id \in 1..Cardinality(states)
    BY <1>2, <1>4 DEF Numbered
<1>7. /\ new.id = id /\ new.sig = d.call.sig /\ new.event = d.call.event
      /\ new \notin ended
    BY <1>5, <1>6
<1>8. d \in [storage : 1..MaxStorages, call : R!Calls]
    BY <1>1, <1>2 DEF RegistryTypeOK
<1>9. new \in [id : Nat, storage : 1..MaxStorages, event : Events,
                dispatch : R!SpecifierKeys(Dispatches), sig : Signatures, active : BOOLEAN]
    BY <1>5, <1>8 DEF R!Calls
<1> HIDE DEF new
<1>10. IsFiniteSet(states') /\ Cardinality(states') = id
    BY <1>1, <1>4, <1>7, FS_AddElement
<1>11. RegistryTypeOK'
    <2>1. /\ handles' \in [Listeners -> Nat]
          /\ doing' \in [Threads -> {R!Idle} \cup [storage : 1..MaxStorages, call : R!Calls]]
        BY <1>1, <1>2, <1>5 DEF RegistryTypeOK
    <2> QED
        BY <1>1, <1>2, <1>4, <1>9, <1>10, <2>1 DEF RegistryTypeOK
<1>12. Compared'
    BY <1>1, <1>2, <1>4, <1>7, <1>8 DEF Compared, R!Case, RegistryTypeOK
<1>13. Numbered'
    <2>1. \A s \in states' : s.id \in 1..Cardinality(states')
        BY <1>1, <1>5, <1>6, <1>7, <1>10
    <2>2. \A s, r \in states' : s.id = r.id => s = r
        BY <1>1, <1>4, <1>5, <1>6, <1>7
    <2>3. \A g \in Listeners : handles'[g] = IF g = h THEN id ELSE handles[g]
        BY <1>1, <1>2 DEF RegistryTypeOK
    <2>4. \A g \in Listeners : handles[g] <= Cardinality(states) /\ handles[g] \in Nat
        BY <1>2 DEF Numbered, RegistryTypeOK
    <2>5. \A g \in Listeners : handles'[g] <= Cardinality(states')
        BY <1>5, <1>10, <2>3, <2>4
    <2>6. \A s \in states' : s.active => s.id \in sigReleased' \/ \E g \in Listeners : handles'[g] = s.id
        <3> SUFFICES ASSUME NEW s \in states', s.active
                     PROVE  s.id \in sigReleased' \/ \E g \in Listeners : handles'[g] = s.id
            OBVIOUS
        <3>1. CASE s = new
            BY <3>1, <1>7, <2>3
        <3>2. CASE s \in ended
            <4>1. PICK r \in states : s.id = r.id /\ r.active /\ r.id # handles[h]
                BY <3>2, <1>4
            <4>2. r.id \in sigReleased \/ \E g \in Listeners : handles[g] = r.id
                BY <4>1, <1>2 DEF Numbered, R!HandlesOwn
            <4> QED
                BY <4>1, <4>2, <2>3, <1>1
        <3> QED
            BY <3>1, <3>2, <1>1
    <2>7. \A f, g \in Listeners : handles'[f] = handles'[g] /\ handles'[f] # 0 => f = g
        BY <1>2, <1>5, <2>3, <2>4 DEF Numbered, R!HandlesOwn
    <2> QED
        BY <2>1, <2>2, <2>5, <2>6, <2>7 DEF Numbered, R!HandlesOwn
<1>14. NamesApart'
    BY <1>1 DEF RegistryInv, NamesApart, R!OwnersRegistered
<1> QED
    BY <1>11, <1>12, <1>13, <1>14 DEF RegistryInv

\* A trigger and the listeners that hear it were compared with the same case.
LEMMA DeliverKeeps == ASSUME RegistryInv, NEW t \in Threads, R!Deliver(t) PROVE RegistryInv'
<1>1. /\ doing[t] # R!Idle /\ doing' = [doing EXCEPT ![t] = R!Idle]
      /\ UNCHANGED <<sigAlive, sigs, sigVerify, owners, states, handles, sigReleased, direct, made>>
    BY DEF R!Deliver, R!Done
<1>2. RegistryTypeOK'
    BY <1>1 DEF RegistryInv, RegistryTypeOK
<1>3. Numbered' /\ NamesApart'
    BY <1>1 DEF RegistryInv, Numbered, R!HandlesOwn, NamesApart, R!OwnersRegistered
<1>4. \A pair \in heard' : pair \in heard \/ \E s \in states :
         pair = <<s.sig, doing[t].call.sig>> /\ s.event = doing[t].call.event
    BY DEF R!Deliver
<1>5. \A pair \in heard' : pair[1] = pair[2]
    BY <1>1, <1>4 DEF RegistryInv, Compared
<1>6. Compared'
    BY <1>1, <1>5 DEF RegistryInv, RegistryTypeOK, Compared, R!Case
<1> QED
    BY <1>2, <1>3, <1>6 DEF RegistryInv

\* A handle that is closed, released or moved.
LEMMA HandlesKeep ==
    ASSUME RegistryInv, NEW h \in Listeners,
           \/ R!CloseHandle(h) \/ R!ReleaseHandle(h) \/ \E g \in Listeners : R!MoveHandle(h, g)
    PROVE  RegistryInv'
<1> DEFINE ended == R!Closed(handles[h])
<1>1. /\ states' \in {states, ended}
      /\ UNCHANGED <<sigAlive, sigs, sigVerify, owners, heard, direct, made, doing>>
    BY DEF R!CloseHandle, R!ReleaseHandle, R!MoveHandle
<1>2. RegistryTypeOK /\ Compared /\ Numbered
    BY DEF RegistryInv
<1>3. \A s, r \in states : s.id = r.id => s = r
    BY <1>2 DEF Numbered
<1>4. /\ IsFiniteSet(ended) /\ Cardinality(ended) = Cardinality(states)
      /\ ended \subseteq [id : Nat, storage : 1..MaxStorages, event : Events,
                           dispatch : R!SpecifierKeys(Dispatches), sig : Signatures,
                           active : BOOLEAN]
      /\ \A c \in ended : \E s \in states :
            /\ c.id = s.id /\ c.sig = s.sig /\ c.event = s.event
            /\ c.active => s.active /\ s.id # handles[h]
      /\ \A c, e \in ended : c.id = e.id => c = e
    BY <1>2, <1>3, ClosedStates
<1> HIDE DEF ended
<1>5. /\ Cardinality(states') = Cardinality(states)
      /\ \A s, r \in states' : s.id = r.id => s = r
      /\ \A c \in states' : \E s \in states :
            /\ c.id = s.id /\ c.sig = s.sig /\ c.event = s.event
            /\ c.active => s.active
    BY <1>1, <1>3, <1>4
<1>6. handles' \in [Listeners -> Nat] /\ \A g \in Listeners : handles'[g] <= Cardinality(states)
    <2>1. Cardinality(states) \in Nat
        BY <1>2, FS_CardinalityType DEF RegistryTypeOK
    <2> QED
        BY <1>2, <2>1 DEF R!CloseHandle, R!ReleaseHandle, R!MoveHandle, RegistryTypeOK, Numbered
<1>7. RegistryTypeOK'
    BY <1>1, <1>2, <1>4, <1>6 DEF RegistryTypeOK
<1>8. Compared'
    BY <1>1, <1>2, <1>5 DEF Compared, R!Case
<1>9. R!HandlesOwn'
    <2>1. \A f, g \in Listeners : handles'[f] = handles'[g] /\ handles'[f] # 0 => f = g
        BY <1>2 DEF R!CloseHandle, R!ReleaseHandle, R!MoveHandle, RegistryTypeOK, Numbered,
                    R!HandlesOwn
    <2>2. ASSUME NEW s \in states', s.active
          PROVE  s.id \in sigReleased' \/ \E g \in Listeners : handles'[g] = s.id
        <3>1. CASE R!CloseHandle(h) \/ \E g \in Listeners : R!MoveHandle(h, g)
            <4>1. states' = ended /\ sigReleased' = sigReleased
                BY <3>1 DEF R!CloseHandle, R!MoveHandle, ended
            <4>2. PICK r \in states : s.id = r.id /\ r.active /\ r.id # handles[h]
                BY <2>2, <4>1, <1>4
            <4>3. r.id \in sigReleased \/ \E f \in Listeners : handles[f] = r.id
                BY <4>2, <1>2 DEF Numbered, R!HandlesOwn
            <4> QED
                BY <3>1, <4>1, <4>2, <4>3, <1>2 DEF R!CloseHandle, R!MoveHandle, RegistryTypeOK
        <3>2. CASE R!ReleaseHandle(h)
            <4>1. s \in states /\ sigReleased' = sigReleased \cup {handles[h]}
                BY <3>2 DEF R!ReleaseHandle
            <4>2. s.id \in sigReleased \/ \E f \in Listeners : handles[f] = s.id
                BY <2>2, <4>1, <1>2 DEF Numbered, R!HandlesOwn
            <4> QED
                BY <3>2, <4>1, <4>2, <1>2 DEF R!ReleaseHandle, RegistryTypeOK
        <3> QED
            BY <3>1, <3>2
    <2> QED
        BY <2>1, <2>2 DEF R!HandlesOwn
<1>10. Numbered'
    BY <1>2, <1>5, <1>6, <1>9 DEF Numbered
<1>11. NamesApart'
    BY <1>1 DEF RegistryInv, NamesApart, R!OwnersRegistered
<1> QED
    BY <1>7, <1>8, <1>10, <1>11 DEF RegistryInv

\* The invariant of the registry holds in every reachable state.
THEOREM RegistryCorrect == R!RegistrySpec => []RegistryInv
<1>1. RegistryInv /\ UNCHANGED registryVars => RegistryInv'
    BY DEF RegistryInv, RegistryTypeOK, Compared, R!Case, Numbered, NamesApart, R!HandlesOwn,
           R!OwnersRegistered, registryVars
<1>2. RegistryInv /\ R!RegistryStep => RegistryInv'
    BY OwnersKeep, NamesKeep, FindKeeps, ListenKeeps, DeliverKeeps, HandlesKeep
    DEF R!RegistryStep
<1> QED
    BY <1>1, <1>2, RegistryBegins, PTL DEF R!RegistrySpec, R!registryVars, registryVars

\* Every callback is called with arguments of the types it was written for, though the call
\* itself casts them (d2_signal_handler.hpp SignalInstance::apply).
THEOREM ArgumentsAgree == R!RegistrySpec => []ArgumentsMatch
<1>1. RegistryInv => ArgumentsMatch
    BY DEF RegistryInv, Compared, ArgumentsMatch, R!ArgumentsMatch
<1> QED
    BY <1>1, RegistryCorrect, PTL

\* Signals disconnect what is theirs and a callback that may be called can be closed by exactly
\* one Handle, through every connect, move and disconnect (d2_signal_handler.cpp).
THEOREM OwnersHold == R!RegistrySpec => []OwnersRegistered
<1>1. RegistryInv => OwnersRegistered
    BY DEF RegistryInv, NamesApart, Numbered, OwnersRegistered
<1> QED
    BY <1>1, RegistryCorrect, PTL

-----------------------------------------------------------------------------
(* The logs.  Threads enter the list one after the other: `rank' is when.  *)
(* It need not be stored anywhere: next leads from each node to that of    *)
(* the next rank, once its thread has linked it.                           *)

pageVars == <<pagepc, ptr, held, found, since, pages>>
Nodes == Loggers \cup {L!Root}
Ranks == [Nodes -> Nat]

LogsTypeOK ==
    /\ logNext \in [Nodes -> Nodes \cup {L!Nil}] /\ logPrev \in [Nodes -> Nodes \cup {L!Nil}]
    /\ memlock \in [Nodes -> BOOLEAN] /\ ring \in [Nodes -> Seq(Nat)]
    /\ logpc \in [Loggers -> {"out", "link", "lock", "write", "unlock"}]
    /\ behind \in [Loggers -> Nodes \cup {L!Nil}]
    /\ logged \in [Loggers -> SUBSET Nat] /\ logGone \in SUBSET Nat
    /\ pagepc \in [Pagers -> {"out", "lock", "unlock"}]
    /\ ptr \in [Pagers -> Nodes \cup {L!Nil}] /\ held \in [Pagers -> SUBSET Nodes]
    /\ found \in [Pagers -> Seq(Nat)] /\ since \in [Pagers -> SUBSET Nat]
    /\ clock \in Nat

Entered(t) == logPrev[t] # L!Nil
InList(n) == n = L!Root \/ (n \in Loggers /\ Entered(n))

\* The list: who has entered has a rank, none is left out, and behind each is the one before.
Ordered(rank) ==
    /\ rank[L!Root] = 0 /\ InList(logPrev[L!Root])
    /\ \A t \in Loggers : Entered(t) =>
          /\ rank[t] \in 1..rank[logPrev[L!Root]]
          /\ \A u \in Loggers : Entered(u) /\ rank[u] = rank[t] => u = t
          /\ logpc[t] = "link" => InList(behind[t]) /\ rank[behind[t]] + 1 = rank[t]
    /\ \A i \in 1..rank[logPrev[L!Root]] : \E t \in Loggers : Entered(t) /\ rank[t] = i
    /\ \A n \in Nodes : logNext[n] \in Loggers =>
          InList(n) /\ Entered(logNext[n]) /\ rank[logNext[n]] = rank[n] + 1
    /\ \A t \in Loggers : Entered(t) /\ logpc[t] # "link" =>
          \A n \in Nodes : InList(n) /\ rank[n] + 1 = rank[t] => logNext[n] = t

\* The rings: what was logged is in them or gone, once and in one of them.
RingsHold ==
    /\ \A t \in Loggers :
          /\ logged[t] # {} \/ logpc[t] # "out" => Entered(t)
          /\ \A e \in logged[t] :
                e < clock /\ (e \in logGone \/ \E i \in 1..Len(ring[t]) : ring[t][i] = e)
          /\ \A u \in Loggers : t # u => logged[t] \cap logged[u] = {}
          /\ \A i \in 1..Len(ring[t]) :
                /\ ring[t][i] \in logged[t]
                /\ \A j \in 1..Len(ring[t]) : ring[t][i] = ring[t][j] => i = j

\* What a page has found, once each, is of nodes it has passed; what it has yet to find is in
\* one that it will come to.
Linked(rank, u) ==
    Entered(u) /\ \A t \in Loggers : Entered(t) /\ rank[t] <= rank[u] => logpc[t] # "link"
Walked(rank, p) ==
    /\ \A i \in 1..Len(found[p]) :
          /\ \A j \in 1..Len(found[p]) : found[p][i] = found[p][j] => i = j
          /\ \E u \in Loggers :
                /\ Entered(u) /\ found[p][i] \in logged[u]
                /\ ptr[p] \in Loggers => rank[u] < rank[ptr[p]]
    /\ ptr[p] \in Loggers => Entered(ptr[p])
    /\ \A e \in since[p] \ logGone :
          \/ \E i \in 1..Len(found[p]) : found[p][i] = e
          \/ /\ ptr[p] \in Loggers
             /\ \E u \in Loggers : /\ Linked(rank, u) /\ rank[ptr[p]] <= rank[u]
                                   /\ \E i \in 1..Len(ring[u]) : ring[u][i] = e
Listed == \E rank \in Ranks :
             Ordered(rank) /\ \A p \in Pagers : pagepc[p] = "lock" => Walked(rank, p)

\* The locks: a ring that no page unlocked by mistake is locked by who is at it.
AtRing(t) == logpc[t] \in {"write", "unlock"}
Locked == \A n \in Loggers \ freed :
             /\ \A p \in Pagers : n \in held[p] =>
                   memlock[n] /\ ~AtRing(n) /\ \A q \in Pagers : n \in held[q] => p = q
             /\ AtRing(n) => memlock[n]

LogsInv == LogsTypeOK /\ RingsHold /\ Listed /\ Locked /\ L!PageWhole

\* What is rearranged has the same elements.
SameElements(s, r) == \E f \in [1..Len(s) -> 1..Len(s)] :
                         /\ \A i, j \in 1..Len(s) : f[i] = f[j] => i = j
                         /\ \A j \in 1..Len(s) : \E i \in 1..Len(s) : f[i] = j
                         /\ \A i \in 1..Len(s) : r[i] = s[f[i]]
LEMMA Rearrangement ==
    ASSUME NEW s \in Seq(Nat), NEW r \in L!Rearranged(s)
    PROVE  r \in Seq(Nat) /\ Len(r) = Len(s) /\ SameElements(s, r)
<1>1. DOMAIN s = 1..Len(s) /\ Len(s) \in Nat
    BY LenProperties
<1>2. PICK f \in L!Bijection(1..Len(s), 1..Len(s)) : r = [i \in 1..Len(s) |-> s[f[i]]]
    BY <1>1 DEF L!Rearranged
<1>3. /\ f \in [1..Len(s) -> 1..Len(s)]
      /\ \A i, j \in 1..Len(s) : f[i] = f[j] => i = j
      /\ \A j \in 1..Len(s) : \E i \in 1..Len(s) : f[i] = j
    BY DEF L!Bijection, L!Injection, L!IsInjective, L!Surjection
<1>4. \A i \in 1..Len(s) : s[f[i]] \in Nat
    BY <1>3, ElementOfSeq
<1>5. r \in Seq(Nat) /\ Len(r) = Len(s)
    BY <1>1, <1>2, <1>4
<1> QED
    BY <1>2, <1>3, <1>5 DEF SameElements

\* Initially nobody has entered the list.
LEMMA LogsBegin == L!InitLogs => LogsInv
<1> SUFFICES ASSUME L!InitLogs PROVE LogsInv
    OBVIOUS
<1> USE DEF L!InitLogs, L!NodeNames, Nodes
<1>1. LogsTypeOK
    BY DEF LogsTypeOK, L!Root, L!Nil
<1>2. \A t \in Loggers : ~Entered(t) /\ t # L!Root
    BY LogsAssumption DEF Entered, L!Root, L!Nil
<1>3. RingsHold
    BY <1>1, <1>2 DEF RingsHold
<1>4. Listed
    <2> DEFINE rank == [n \in Nodes |-> 0]
    <2>1. rank \in Ranks /\ rank[L!Root] = 0 /\ logPrev[L!Root] = L!Root
        BY DEF Ranks
    <2>2. Ordered(rank)
        BY <1>1, <1>2, <2>1, LogsAssumption DEF Ordered, InList, L!Root, L!Nil
    <2> QED
        BY <2>1, <2>2 DEF Listed
<1>5. Locked
    BY DEF Locked, AtRing
<1>6. L!PageWhole
    BY DEF L!PageWhole
<1> QED
    BY <1>1, <1>3, <1>4, <1>5, <1>6 DEF LogsInv

LEMMA LogsTyped == ASSUME LogsTypeOK, L!RingsStep PROVE LogsTypeOK'
<1> USE DEF LogsTypeOK, L!logVars, L!pageVars, L!sinkVars, L!LogTo, L!PageTo, Nodes, L!AtEnd
<1>1. ASSUME NEW t \in Loggers, L!Log(t) PROVE LogsTypeOK'
    <2>1. CASE logPrev[t] = L!Nil
        <3>1. /\ logPrev' = [logPrev EXCEPT ![L!Root] = t, ![t] = logPrev[L!Root]]
              /\ behind' = [behind EXCEPT ![t] = logPrev[L!Root]]
              /\ logpc' = [logpc EXCEPT ![t] = "link"]
            BY <1>1, <2>1 DEF L!Log
        <3>2. UNCHANGED <<logNext, memlock, ring, logged, logGone, pagepc, ptr, held, found,
                          since, clock>>
            BY <1>1 DEF L!Log
        <3> QED
            BY <3>1, <3>2
    <2>2. CASE logPrev[t] # L!Nil
        BY <1>1, <2>2 DEF L!Log
    <2> QED
        BY <2>1, <2>2
<1>2. ASSUME NEW t \in Loggers, L!Link(t) PROVE LogsTypeOK'
    BY <1>2 DEF L!Link
<1>3. ASSUME NEW t \in Loggers, L!Lock(t) PROVE LogsTypeOK'
    BY <1>3 DEF L!Lock
<1>4. ASSUME NEW t \in Loggers, L!WriteEntry(t) PROVE LogsTypeOK'
    <2>1. ring[t] \in Seq(Nat) /\ <<clock>> \in Seq(Nat) /\ Append(ring[t], clock) \in Seq(Nat)
        BY AppendProperties
    <2>2. ring' \in [Nodes -> Seq(Nat)]
        BY <1>4, <2>1 DEF L!WriteEntry
    <2>3. L!ToSet(ring[t]) \subseteq Nat
        BY <2>1, LenProperties, ElementOfSeq DEF L!ToSet
    <2>4. clock' \in Nat /\ logGone' \in SUBSET Nat /\ logged' \in [Loggers -> SUBSET Nat]
        <3>1. clock' = clock + 1 /\ logged' = [logged EXCEPT ![t] = @ \cup {clock}]
            BY <1>4 DEF L!WriteEntry
        <3>2. logGone' \in {logGone, logGone \cup L!ToSet(ring[t])}
            BY <1>4 DEF L!WriteEntry
        <3> QED
            BY <3>1, <3>2, <2>3
    <2>5. logpc' = [logpc EXCEPT ![t] = "unlock"]
          /\ UNCHANGED <<logNext, logPrev, memlock, behind, pagepc, ptr, held, found, since>>
        BY <1>4 DEF L!WriteEntry
    <2> QED
        BY <2>2, <2>4, <2>5
<1>5. ASSUME NEW t \in Loggers, L!Unlock(t) PROVE LogsTypeOK'
    BY <1>5 DEF L!Unlock
<1>6. ASSUME NEW p \in Pagers, L!Page(p) PROVE LogsTypeOK'
    BY <1>6 DEF L!Page, L!Root, L!Nil
<1>7. ASSUME NEW p \in Pagers, L!PageLock(p) PROVE LogsTypeOK'
    <2>1. ptr[p] \in Nodes
        BY <1>7 DEF L!PageLock
    <2>2. found[p] \o ring[ptr[p]] \in Seq(Nat)
        BY <2>1, ConcatProperties
    <2>3. found' \in [Pagers -> Seq(Nat)]
        BY <1>7, <2>1, <2>2 DEF L!PageLock
    <2> QED
        BY <1>7, <2>1, <2>3 DEF L!PageLock
<1>8. ASSUME NEW p \in Pagers, L!Sorted(p) PROVE LogsTypeOK'
    <2>1. PICK s \in L!Rearranged(found[p]) : found' = [found EXCEPT ![p] = s]
        BY <1>8 DEF L!Sorted
    <2>2. s \in Seq(Nat)
        BY Rearrangement
    <2> QED
        BY <1>8, <2>1, <2>2 DEF L!Sorted, L!Root
<1>9. ASSUME NEW p \in Pagers, L!PageUnlock(p) PROVE LogsTypeOK'
    BY <1>9 DEF L!PageUnlock
<1>10. ASSUME NEW p \in Pagers, L!Paged(p) PROVE LogsTypeOK'
    BY <1>10 DEF L!Paged
<1> QED
    BY <1>1, <1>2, <1>3, <1>4, <1>5, <1>6, <1>7, <1>8, <1>9, <1>10
    DEF L!RingsStep, L!LogStep, L!PageStep

\* The last in the list is a node.
LEMMA LastInList == Listed /\ LogsTypeOK => InList(logPrev[L!Root]) /\ logPrev[L!Root] \in Nodes
BY DEF Listed, Ordered, InList, Nodes

LEMMA RingNames == L!Root \notin Loggers /\ L!Nil \notin Loggers /\ L!Root # L!Nil /\ L!Nil \notin Nodes
               /\ L!Root \in Nodes /\ \A t \in Loggers : t \in Nodes /\ t # L!Root /\ t # L!Nil
BY LogsAssumption DEF L!Root, L!Nil, Nodes

\* A thread that has not entered the list does, and one that has stays there.
LEMMA Enters ==
    ASSUME LogsTypeOK, Listed, NEW t \in Loggers, L!Log(t)
    PROVE  /\ logPrev[t] = L!Nil => /\ logPrev' = [logPrev EXCEPT ![L!Root] = t, ![t] = logPrev[L!Root]]
                                    /\ behind' = [behind EXCEPT ![t] = logPrev[L!Root]]
                                    /\ logpc' = [logpc EXCEPT ![t] = "link"]
           /\ logPrev[t] # L!Nil => /\ UNCHANGED <<logPrev, behind>>
                                    /\ logpc' = [logpc EXCEPT ![t] = "lock"]
           /\ \A u \in Loggers : Entered(u)' <=> (Entered(u) \/ u = t)
           /\ logpc[t] = "out"
           /\ UNCHANGED <<logNext, memlock, ring, logged, logGone, pageVars, clock, freed>>
<1>1. /\ logPrev[t] = L!Nil => /\ logPrev' = [logPrev EXCEPT ![L!Root] = t, ![t] = logPrev[L!Root]]
                                    /\ behind' = [behind EXCEPT ![t] = logPrev[L!Root]]
                                    /\ logpc' = [logpc EXCEPT ![t] = "link"]
      /\ logPrev[t] # L!Nil => /\ UNCHANGED <<logPrev, behind>>
                               /\ logpc' = [logpc EXCEPT ![t] = "lock"]
      /\ logpc[t] = "out"
      /\ UNCHANGED <<logNext, memlock, ring, logged, logGone, pageVars, clock, freed>>
    BY DEF L!Log, L!LogTo, L!pageVars, pageVars
<1>2. logPrev[L!Root] # L!Nil
    BY LastInList, RingNames
<1>3. ASSUME NEW u \in Loggers PROVE Entered(u)' <=> (Entered(u) \/ u = t)
    BY <1>1, <1>2, RingNames DEF Entered, LogsTypeOK
<1> QED
    BY <1>1, <1>3

\* Who is not at its ring does not change what it holds.
LEMMA RingsRest ==
    ASSUME LogsTypeOK, RingsHold, UNCHANGED <<ring, logged, logGone, clock>>,
           \A u \in Loggers : /\ Entered(u) => Entered(u)'
                              /\ logpc'[u] # "out" => logpc[u] # "out" \/ Entered(u)'
    PROVE  RingsHold'
BY DEF RingsHold

LEMMA WriteHolds ==
    ASSUME LogsTypeOK, RingsHold, NEW t \in Loggers, L!WriteEntry(t) PROVE RingsHold'
<1> DEFINE full == Len(ring[t]) = RingSize
           r == IF full THEN <<clock>> ELSE Append(ring[t], clock)
<1>1. /\ ring' = [ring EXCEPT ![t] = r] /\ clock' = clock + 1
      /\ logged' = [logged EXCEPT ![t] = @ \cup {clock}]
      /\ logpc' = [logpc EXCEPT ![t] = "unlock"]
      /\ logpc[t] = "write"
      /\ UNCHANGED logPrev
    BY DEF L!WriteEntry, L!LogTo
<1>2. logGone' = IF full THEN logGone \cup L!ToSet(ring[t]) ELSE logGone
    BY DEF L!WriteEntry
<1>3. ring[t] \in Seq(Nat) /\ clock \in Nat /\ t \in Nodes
    BY RingNames DEF LogsTypeOK
<1>4. /\ Len(ring[t]) \in Nat
      /\ \A i \in 1..Len(ring[t]) : ring[t][i] \in L!ToSet(ring[t])
    BY <1>3, LenProperties DEF L!ToSet
<1>5. CASE full
    <2>1. Len(r) = 1 /\ r[1] = clock
        BY <1>5
    <2> HIDE DEF r
    <2>2. \A e \in logged[t] : e < clock /\ e \in logGone'
        BY <1>2, <1>4, <1>5 DEF RingsHold
    <2>3. \A u \in Loggers : u # t => ring'[u] = ring[u] /\ logged'[u] = logged[u]
        BY <1>1, RingNames DEF LogsTypeOK
    <2>4. ring'[t] = r /\ logged'[t] = logged[t] \cup {clock}
        BY <1>1, <1>3 DEF LogsTypeOK
    <2>5. logGone \subseteq logGone'
        BY <1>2
    <2>6. \A u \in Loggers : clock \notin logged[u] /\ logged[u] \subseteq Nat
        BY <1>3 DEF RingsHold, LogsTypeOK
    <2>7. \A u \in Loggers : logged'[u] # {} \/ logpc'[u] # "out" => Entered(u)'
        BY <1>1, <2>3 DEF RingsHold, Entered, LogsTypeOK
    <2>8. \A u \in Loggers : \A e \in logged'[u] : e < clock' /\
             (e \in logGone' \/ \E i \in 1..Len(ring'[u]) : ring'[u][i] = e)
        <3>1. ASSUME NEW e \in logged'[t]
              PROVE  e < clock' /\ (e \in logGone' \/ \E i \in 1..Len(r) : r[i] = e)
            <4>1. CASE e = clock
                BY <4>1, <1>1, <1>3, <2>1
            <4>2. CASE e \in logged[t]
                BY <4>2, <1>1, <1>3, <2>2, <2>6
            <4> QED
                BY <4>1, <4>2, <2>4
        <3>2. ASSUME NEW u \in Loggers, u # t, NEW e \in logged'[u]
              PROVE  e < clock' /\
                     (e \in logGone' \/ \E i \in 1..Len(ring'[u]) : ring'[u][i] = e)
            <4>1. e \in logged[u] /\ e \in Nat /\ ring'[u] = ring[u]
                BY <3>2, <2>3, <2>6
            <4> QED
                BY <4>1, <1>1, <1>3, <2>5 DEF RingsHold
        <3> QED
            BY <3>1, <3>2, <2>4
    <2>9. \A u, v \in Loggers : u # v => logged'[u] \cap logged'[v] = {}
        BY <2>3, <2>4, <2>6 DEF RingsHold
    <2>10. \A u \in Loggers : \A i \in 1..Len(ring'[u]) :
             /\ ring'[u][i] \in logged'[u]
             /\ \A j \in 1..Len(ring'[u]) : ring'[u][i] = ring'[u][j] => i = j
        BY <2>1, <2>3, <2>4 DEF RingsHold
    <2> QED
        BY <2>7, <2>8, <2>9, <2>10 DEF RingsHold
<1>6. CASE ~full
    <2>1. r = Append(ring[t], clock)
        BY <1>6
    <2> HIDE DEF r
    <2>2. /\ Len(r) = Len(ring[t]) + 1 /\ r[Len(ring[t]) + 1] = clock
          /\ \A i \in 1..Len(ring[t]) : r[i] = ring[t][i]
        BY <2>1, <1>3, AppendProperties
    <2>3. \A u \in Loggers : u # t => ring'[u] = ring[u] /\ logged'[u] = logged[u]
        BY <1>1, RingNames DEF LogsTypeOK
    <2>4. ring'[t] = r /\ logged'[t] = logged[t] \cup {clock}
        BY <1>1, <1>3 DEF LogsTypeOK
    <2>5. logGone = logGone'
        BY <1>2, <1>6
    <2>6. \A u \in Loggers : clock \notin logged[u] /\ logged[u] \subseteq Nat
        BY <1>3 DEF RingsHold, LogsTypeOK
    <2>7. \A u \in Loggers : logged'[u] # {} \/ logpc'[u] # "out" => Entered(u)'
        BY <1>1, <2>3 DEF RingsHold, Entered, LogsTypeOK
    <2>8. \A u \in Loggers : \A e \in logged'[u] : e < clock' /\
             (e \in logGone' \/ \E i \in 1..Len(ring'[u]) : ring'[u][i] = e)
        <3>1. \A e \in logged'[t] : e < clock' /\
                 (e \in logGone' \/ \E i \in 1..Len(r) : r[i] = e)
            <4> SUFFICES ASSUME NEW e \in logged'[t]
                         PROVE  e < clock' /\ (e \in logGone' \/ \E i \in 1..Len(r) : r[i] = e)
                OBVIOUS
            <4>1. CASE e = clock
                BY <4>1, <1>1, <1>3, <1>4, <2>2
            <4>2. CASE e \in logged[t]
                <5>1. e \in Nat /\ e < clock /\ (e \in logGone \/ \E i \in 1..Len(ring[t]) : ring[t][i] = e)
                    BY <4>2, <2>6 DEF RingsHold
                <5>2. \A i \in 1..Len(ring[t]) : i \in 1..Len(r)
                    BY <1>4, <2>2
                <5> QED
                    <6>1. e < clock' /\ clock \in Nat
                        BY <5>1, <1>1, <1>3
                    <6>2. \A i \in 1..Len(ring[t]) : ring[t][i] = e => r[i] = e /\ i \in 1..Len(r)
                        BY <5>2, <2>2
                    <6> QED
                        BY <5>1, <6>1, <6>2, <2>5
            <4> QED
                BY <4>1, <4>2, <2>4
        <3>2. ASSUME NEW u \in Loggers, u # t, NEW e \in logged'[u]
              PROVE  e < clock' /\
                     (e \in logGone' \/ \E i \in 1..Len(ring'[u]) : ring'[u][i] = e)
            <4>1. e \in logged[u] /\ e \in Nat /\ ring'[u] = ring[u]
                BY <3>2, <2>3, <2>6
            <4> QED
                BY <4>1, <1>1, <1>3, <2>5 DEF RingsHold
        <3> QED
            BY <3>1, <3>2, <2>4
    <2>9. \A u, v \in Loggers : u # v => logged'[u] \cap logged'[v] = {}
        BY <2>3, <2>4, <2>6 DEF RingsHold
    <2>10. \A u \in Loggers : \A i \in 1..Len(ring'[u]) :
             /\ ring'[u][i] \in logged'[u]
             /\ \A j \in 1..Len(ring'[u]) : ring'[u][i] = ring'[u][j] => i = j
        <3>1. \A i \in 1..Len(ring[t]) : r[i] \in logged[t] /\ r[i] # clock
            BY <2>2, <2>6 DEF RingsHold
        <3>2. \A i \in 1..Len(r) : i \in 1..Len(ring[t]) \/ i = Len(ring[t]) + 1
            BY <1>4, <2>2
        <3>3. \A i \in 1..Len(r) :
                 /\ r[i] \in logged'[t]
                 /\ \A j \in 1..Len(r) : r[i] = r[j] => i = j
            <4>1. \A i \in 1..Len(ring[t]) : r[i] = ring[t][i] /\ r[i] # clock
                BY <2>2, <3>1
            <4>2. \A i, j \in 1..Len(ring[t]) : ring[t][i] = ring[t][j] => i = j
                BY DEF RingsHold
            <4>3. \A i, j \in 1..Len(r) : r[i] = r[j] => i = j
                BY <2>2, <3>2, <4>1, <4>2
            <4>4. \A i \in 1..Len(r) : r[i] \in logged'[t]
                BY <2>2, <2>4, <3>1, <3>2
            <4> QED
                BY <4>3, <4>4
        <3> QED
            BY <2>3, <2>4, <3>3 DEF RingsHold
    <2> QED
        BY <2>7, <2>8, <2>9, <2>10 DEF RingsHold
<1> QED
    BY <1>5, <1>6

LEMMA RingsKeep == ASSUME LogsTypeOK, RingsHold, Listed, L!RingsStep PROVE RingsHold'
<1>1. ASSUME NEW t \in Loggers, L!Log(t) PROVE RingsHold'
    <2>1. UNCHANGED <<ring, logged, logGone, clock>> /\ \A u \in Loggers : Entered(u)' <=> (Entered(u) \/ u = t)
        BY <1>1, Enters
    <2>2. \A u \in Loggers : u # t => logpc'[u] = logpc[u]
        BY <1>1, Enters DEF LogsTypeOK
    <2> QED
        BY <2>1, <2>2, RingsRest
<1>2. ASSUME NEW t \in Loggers, L!Link(t) \/ L!Lock(t) \/ L!Unlock(t) PROVE RingsHold'
    <2>1. UNCHANGED <<ring, logged, logGone, clock, logPrev>> /\ logpc[t] # "out"
          /\ \A u \in Loggers : u # t => logpc'[u] = logpc[u]
        BY <1>2 DEF L!Link, L!Lock, L!Unlock, L!LogTo, LogsTypeOK
    <2> QED
        BY <2>1, RingsRest DEF Entered
<1>3. ASSUME NEW p \in Pagers, L!Page(p) \/ L!PageStep(p) PROVE RingsHold'
    <2>1. UNCHANGED <<ring, logged, logGone, clock, logPrev, logpc>>
        BY <1>3 DEF L!Page, L!PageStep, L!PageLock, L!Sorted, L!PageUnlock, L!Paged, L!logVars
    <2> QED
        BY <2>1, RingsRest DEF Entered
<1> QED
    BY <1>1, <1>2, <1>3, WriteHolds DEF L!RingsStep, L!LogStep

\* Who takes the lock of a ring is alone at it, and who gives it back was.
LEMMA LocksKeep == ASSUME LogsTypeOK, Listed, Locked, L!RingsStep PROVE Locked'
<1>1. ASSUME UNCHANGED <<memlock, held, freed>>, \A u \in Loggers : AtRing(u)' = AtRing(u)
      PROVE  Locked'
    BY <1>1 DEF Locked
<1>2. ASSUME NEW t \in Loggers, L!Log(t) PROVE Locked'
    <2>1. UNCHANGED <<memlock, held, freed>> /\ \A u \in Loggers : AtRing(u)' = AtRing(u)
        BY <1>2, Enters DEF LogsTypeOK, AtRing, pageVars
    <2> QED
        BY <2>1, <1>1
<1>3. ASSUME NEW t \in Loggers, L!Link(t) \/ L!WriteEntry(t) PROVE Locked'
    <2>1. UNCHANGED <<memlock, held, freed>> /\ \A u \in Loggers : AtRing(u)' = AtRing(u)
        BY <1>3 DEF L!Link, L!WriteEntry, L!LogTo, L!pageVars, LogsTypeOK, AtRing
    <2> QED
        BY <2>1, <1>1
<1>4. ASSUME NEW t \in Loggers, L!Lock(t) PROVE Locked'
    <2>1. /\ ~memlock[t] /\ memlock' = [memlock EXCEPT ![t] = TRUE] /\ UNCHANGED <<held, freed>>
          /\ logpc' = [logpc EXCEPT ![t] = "write"]
        BY <1>4 DEF L!Lock, L!LogTo, L!pageVars
    <2>2. \A n \in Loggers : /\ memlock'[n] = IF n = t THEN TRUE ELSE memlock[n]
                             /\ AtRing(n)' <=> AtRing(n) \/ n = t
        BY <2>1, RingNames DEF LogsTypeOK, AtRing
    <2>3. SUFFICES ASSUME NEW n \in Loggers \ freed
                   PROVE  /\ \A p \in Pagers : n \in held[p] =>
                                memlock'[n] /\ ~AtRing(n)' /\ \A q \in Pagers : n \in held[q] => p = q
                          /\ AtRing(n)' => memlock'[n]
        BY <2>1 DEF Locked
    <2>4. CASE n = t
        BY <2>1, <2>2, <2>4 DEF Locked
    <2>5. CASE n # t
        BY <2>2, <2>5 DEF Locked
    <2> QED
        BY <2>4, <2>5
<1>5. ASSUME NEW t \in Loggers, L!Unlock(t) PROVE Locked'
    <2>1. /\ AtRing(t) /\ memlock' = [memlock EXCEPT ![t] = FALSE] /\ UNCHANGED <<held, freed>>
          /\ logpc' = [logpc EXCEPT ![t] = "out"]
        BY <1>5 DEF L!Unlock, L!LogTo, L!pageVars, AtRing
    <2>2. \A n \in Loggers : /\ memlock'[n] = IF n = t THEN FALSE ELSE memlock[n]
                             /\ AtRing(n)' <=> AtRing(n) /\ n # t
        BY <2>1, RingNames DEF LogsTypeOK, AtRing
    <2>3. SUFFICES ASSUME NEW n \in Loggers \ freed
                   PROVE  /\ \A p \in Pagers : n \in held[p] =>
                                memlock'[n] /\ ~AtRing(n)' /\ \A q \in Pagers : n \in held[q] => p = q
                          /\ AtRing(n)' => memlock'[n]
        BY <2>1 DEF Locked
    <2>4. CASE n = t
        BY <2>1, <2>2, <2>4 DEF Locked
    <2>5. CASE n # t
        BY <2>2, <2>5 DEF Locked
    <2> QED
        BY <2>4, <2>5
<1>6. ASSUME NEW p \in Pagers, L!Page(p) \/ L!Sorted(p) \/ L!Paged(p) PROVE Locked'
    <2>1. UNCHANGED <<memlock, held, freed, logpc>>
        BY <1>6 DEF L!Page, L!Sorted, L!Paged, L!logVars
    <2> QED
        BY <2>1, <1>1 DEF AtRing
<1>7. ASSUME NEW p \in Pagers, L!PageLock(p) PROVE Locked'
    <2> DEFINE n == ptr[p]
    <2>1. /\ ~memlock[n] /\ memlock' = [memlock EXCEPT ![n] = TRUE] /\ UNCHANGED <<logpc, freed>>
          /\ held' = [held EXCEPT ![p] = @ \cup {n}] /\ n \in Nodes
        BY <1>7 DEF L!PageLock, LogsTypeOK, L!AtEnd
    <2>2. \A m \in Loggers : memlock'[m] = IF m = n THEN TRUE ELSE memlock[m]
        BY <2>1, RingNames DEF LogsTypeOK
    <2>3. \A q \in Pagers : held'[q] = IF q = p THEN held[p] \cup {n} ELSE held[q]
        BY <2>1 DEF LogsTypeOK
    <2>4. \A m \in Loggers : AtRing(m)' = AtRing(m)
        BY <2>1 DEF AtRing
    <2> HIDE DEF n
    <2> SUFFICES ASSUME NEW m \in Loggers \ freed
                 PROVE  /\ \A q \in Pagers : m \in held'[q] =>
                              memlock'[m] /\ ~AtRing(m) /\ \A r \in Pagers : m \in held'[r] => q = r
                        /\ AtRing(m) => memlock'[m]
        BY <2>1, <2>4 DEF Locked
    <2>5. CASE m = n
        <3>1. ~AtRing(m) /\ \A q \in Pagers : m \notin held[q]
            BY <2>1, <2>5 DEF Locked
        <3> QED
            BY <2>2, <2>3, <2>5, <3>1
    <2>6. CASE m # n
        <3>1. memlock'[m] = memlock[m] /\ \A q \in Pagers : m \in held'[q] <=> m \in held[q]
            BY <2>2, <2>3, <2>6
        <3>2. /\ \A q \in Pagers : m \in held[q] =>
                    memlock[m] /\ ~AtRing(m) /\ \A r \in Pagers : m \in held[r] => q = r
              /\ AtRing(m) => memlock[m]
            BY DEF Locked
        <3> QED
            BY <3>1, <3>2
    <2> QED
        BY <2>5, <2>6
<1>8. ASSUME NEW p \in Pagers, L!PageUnlock(p) PROVE Locked'
    <2> DEFINE n == ptr[p]
    <2>1. /\ memlock' = [memlock EXCEPT ![n] = FALSE] /\ UNCHANGED logpc
          /\ held' = [held EXCEPT ![p] = @ \ {n}] /\ n \in Nodes
          /\ freed' = IF n \in held[p] THEN freed ELSE freed \cup {n}
        BY <1>8 DEF L!PageUnlock, LogsTypeOK, L!AtEnd
    <2>2. \A m \in Loggers : memlock'[m] = IF m = n THEN FALSE ELSE memlock[m]
        BY <2>1, RingNames DEF LogsTypeOK
    <2>3. \A q \in Pagers : held'[q] = IF q = p THEN held[p] \ {n} ELSE held[q]
        BY <2>1 DEF LogsTypeOK
    <2>4. \A m \in Loggers : AtRing(m)' = AtRing(m)
        BY <2>1 DEF AtRing
    <2> HIDE DEF n
    <2>5. CASE n \in held[p]
        BY <2>1, <2>2, <2>3, <2>4, <2>5 DEF Locked
    <2>6. CASE n \notin held[p]
        BY <2>1, <2>2, <2>3, <2>4, <2>6 DEF Locked
    <2> QED
        BY <2>5, <2>6
<1> QED
    BY <1>2, <1>3, <1>4, <1>5, <1>6, <1>7, <1>8 DEF L!RingsStep, L!LogStep, L!PageStep

\* So one thread is at a ring.
LEMMA OneAtRing == LogsTypeOK /\ Locked => L!RingExclusive
<1> SUFFICES ASSUME LogsTypeOK, Locked, NEW n \in Loggers \ freed
             PROVE  L!Cardinality(L!Within(n)) <= 1
    BY DEF L!RingExclusive
<1>1. \A x, y \in L!Within(n) : x = y
    BY DEF L!Within, Locked, AtRing
<1>2. L!Within(n) = {} \/ \E x : L!Within(n) = {x}
    BY <1>1
<1>3. \A S : L!Cardinality(S) = Cardinality(S)
    BY DEF L!Cardinality, Cardinality
<1>4. CASE L!Within(n) = {}
    BY <1>3, <1>4, FS_EmptySet
<1>5. ASSUME NEW x, L!Within(n) = {x} PROVE L!Cardinality(L!Within(n)) <= 1
    <2>1. Cardinality({x}) = 1
        BY FS_Singleton
    <2> QED
        BY <1>3, <1>5, <2>1
<1> QED
    BY <1>2, <1>4, <1>5

\* A walk goes on as long as the list only grows and what leaves a ring is gone.
LEMMA WalkStays ==
    ASSUME NEW rank \in Ranks, NEW rank2 \in Ranks, NEW p \in Pagers, Walked(rank, p),
           found'[p] = found[p], ptr'[p] = ptr[p], since'[p] = since[p], logGone \subseteq logGone',
           \A u \in Loggers : /\ Entered(u) => Entered(u)' /\ rank2[u] = rank[u]
                              /\ logged[u] \subseteq logged'[u]
                              /\ Linked(rank, u) => Linked(rank2, u)'
                              /\ \A i \in 1..Len(ring[u]) :
                                    \/ ring[u][i] \in logGone'
                                    \/ \E j \in 1..Len(ring'[u]) : ring'[u][j] = ring[u][i]
    PROVE  Walked(rank2, p)'
<1>1. \A u \in Loggers : Linked(rank, u) => Entered(u)
    BY DEF Linked
<1>2. \A i \in 1..Len(found[p]) :
          /\ \A j \in 1..Len(found[p]) : found[p][i] = found[p][j] => i = j
          /\ \E u \in Loggers :
                /\ Entered(u)' /\ found[p][i] \in logged'[u]
                /\ ptr[p] \in Loggers => rank2[u] < rank2[ptr[p]]
    BY DEF Walked
<1>3. \A e \in since[p] \ logGone' :
          \/ \E i \in 1..Len(found[p]) : found[p][i] = e
          \/ /\ ptr[p] \in Loggers
             /\ \E u \in Loggers : /\ Linked(rank2, u)' /\ rank2[ptr[p]] <= rank2[u]
                                   /\ \E i \in 1..Len(ring'[u]) : ring'[u][i] = e
    <2> SUFFICES ASSUME NEW e \in since[p] \ logGone',
                        ~ \E i \in 1..Len(found[p]) : found[p][i] = e
                 PROVE  /\ ptr[p] \in Loggers
                        /\ \E u \in Loggers : /\ Linked(rank2, u)' /\ rank2[ptr[p]] <= rank2[u]
                                              /\ \E i \in 1..Len(ring'[u]) : ring'[u][i] = e
        OBVIOUS
    <2>1. ptr[p] \in Loggers /\ Entered(ptr[p])
        BY DEF Walked
    <2>2. PICK u \in Loggers : /\ Linked(rank, u) /\ rank[ptr[p]] <= rank[u]
                               /\ \E i \in 1..Len(ring[u]) : ring[u][i] = e
        BY DEF Walked
    <2> QED
        BY <1>1, <2>1, <2>2
<1>4. ptr[p] \in Loggers => Entered(ptr[p])'
    BY DEF Walked
<1> QED
    BY <1>2, <1>3, <1>4 DEF Walked

\* Steps of threads that are in the list, and leave it as it is.
LEMMA ListStays ==
    ASSUME LogsTypeOK, Listed, UNCHANGED <<logNext, logPrev, behind, pageVars>>,
           logGone \subseteq logGone',
           \A u \in Loggers : /\ (logpc'[u] = "link") <=> (logpc[u] = "link")
                              /\ logged[u] \subseteq logged'[u]
                              /\ \A i \in 1..Len(ring[u]) :
                                    \/ ring[u][i] \in logGone'
                                    \/ \E j \in 1..Len(ring'[u]) : ring'[u][j] = ring[u][i]
    PROVE  Listed'
<1>1. PICK rank \in Ranks : Ordered(rank) /\ \A p \in Pagers : pagepc[p] = "lock" => Walked(rank, p)
    BY DEF Listed
<1>2. Ordered(rank)'
    BY <1>1 DEF Ordered, Entered, InList
<1>3. \A u \in Loggers : Linked(rank, u) => Linked(rank, u)'
    BY DEF Linked, Entered
<1>4. ASSUME NEW p \in Pagers, pagepc'[p] = "lock" PROVE Walked(rank, p)'
    BY <1>1, <1>3, <1>4, WalkStays DEF pageVars, Entered
<1> QED
    BY <1>2, <1>4 DEF Listed, Ranks, Nodes

\* A thread that enters gets the next rank.
LEMMA ListGrows ==
    ASSUME LogsTypeOK, RingsHold, Listed, NEW t \in Loggers, L!Log(t), logPrev[t] = L!Nil PROVE Listed'
<1> DEFINE last == logPrev[L!Root]
<1>1. PICK rank \in Ranks : Ordered(rank) /\ \A p \in Pagers : pagepc[p] = "lock" => Walked(rank, p)
    BY DEF Listed
<1>2. /\ logPrev' = [logPrev EXCEPT ![L!Root] = t, ![t] = last]
      /\ behind' = [behind EXCEPT ![t] = last]
      /\ logpc' = [logpc EXCEPT ![t] = "link"]
      /\ \A u \in Loggers : Entered(u)' <=> (Entered(u) \/ u = t)
      /\ UNCHANGED <<logNext, ring, logged, logGone, pageVars>>
    BY Enters
<1>3. InList(last) /\ last \in Nodes /\ ~Entered(t) /\ last # t
    BY LastInList, RingNames DEF Entered, InList
<1>4. [rank EXCEPT ![t] = rank[last] + 1] \in Ranks
    BY <1>1, <1>3, RingNames DEF Ranks
<1>5. PICK rank2 \in Ranks : rank2 = [rank EXCEPT ![t] = rank[last] + 1]
    BY <1>4
<1>6. /\ \A n \in Nodes : rank2[n] = IF n = t THEN rank[last] + 1 ELSE rank[n]
      /\ \A n \in Nodes : rank[n] \in Nat
    BY <1>5 DEF Ranks
<1>7. /\ logPrev'[L!Root] = t
      /\ \A n \in Nodes : InList(n)' <=> (InList(n) \/ n = t)
      /\ \A u \in Loggers : u # t => logpc'[u] = logpc[u] /\ behind'[u] = behind[u]
      /\ logpc'[t] = "link" /\ behind'[t] = last
    BY <1>2, <1>3, RingNames DEF LogsTypeOK, InList
<1>8. \A u \in Loggers : Entered(u) => rank[u] \in 1..rank[last]
    BY <1>1 DEF Ordered
<1>9. Ordered(rank2)'
    <2>1. rank2[L!Root] = 0 /\ InList(logPrev[L!Root])'
        BY <1>1, <1>6, <1>7, RingNames DEF Ordered
    <2>2. ASSUME NEW u \in Loggers, Entered(u)'
          PROVE  /\ rank2[u] \in 1..rank2[logPrev'[L!Root]]
                 /\ \A v \in Loggers : Entered(v)' /\ rank2[v] = rank2[u] => v = u
                 /\ logpc'[u] = "link" => InList(behind[u])' /\ rank2[behind'[u]] + 1 = rank2[u]
        <3>1. rank2[u] \in 1..rank2[t]
            BY <1>2, <1>3, <1>6, <1>8, <2>2, RingNames
        <3>2. \A v \in Loggers : Entered(v)' /\ rank2[v] = rank2[u] => v = u
            BY <1>1, <1>2, <1>3, <1>6, <1>8, <2>2, RingNames DEF Ordered
        <3>3. logpc'[u] = "link" => InList(behind[u])' /\ rank2[behind'[u]] + 1 = rank2[u]
            <4>1. CASE u = t
                BY <4>1, <1>3, <1>6, <1>7, RingNames
            <4>2. CASE u # t
                <5> SUFFICES ASSUME logpc[u] = "link"
                             PROVE  InList(behind[u])' /\ rank2[behind'[u]] + 1 = rank2[u]
                    BY <4>2, <1>7
                <5>1. InList(behind[u]) /\ rank[behind[u]] + 1 = rank[u] /\ behind[u] \in Nodes
                    BY <4>2, <2>2, <1>1, <1>2 DEF Ordered, InList, Nodes
                <5>2. behind[u] # t
                    BY <5>1, <1>3, RingNames DEF InList
                <5> QED
                    BY <5>1, <5>2, <4>2, <1>6, <1>7, RingNames
            <4> QED
                BY <4>1, <4>2
        <3> QED
            BY <3>1, <3>2, <3>3, <1>7
    <2>3. \A i \in 1..rank2[logPrev'[L!Root]] : \E u \in Loggers : Entered(u)' /\ rank2[u] = i
        <3> SUFFICES ASSUME NEW i \in 1..(rank[last] + 1)
                     PROVE  \E u \in Loggers : Entered(u)' /\ rank2[u] = i
            BY <1>6, <1>7, RingNames
        <3>1. CASE i = rank[last] + 1
            BY <3>1, <1>2, <1>6, RingNames
        <3>2. CASE i \in 1..rank[last]
            <4>1. PICK u \in Loggers : Entered(u) /\ rank[u] = i
                BY <3>2, <1>1 DEF Ordered
            <4> QED
                BY <4>1, <1>2, <1>3, <1>6, RingNames
        <3> QED
            BY <3>1, <3>2, <1>3, <1>6
    <2>4. ASSUME NEW n \in Nodes, logNext'[n] \in Loggers
          PROVE  InList(n)' /\ Entered(logNext[n])' /\ rank2[logNext'[n]] = rank2[n] + 1
        <3>1. InList(n) /\ Entered(logNext[n]) /\ rank[logNext[n]] = rank[n] + 1 /\ logNext[n] \in Loggers
            BY <2>4, <1>1, <1>2 DEF Ordered
        <3>2. n # t /\ logNext[n] # t
            BY <3>1, <1>3, RingNames DEF InList
        <3> QED
            BY <3>1, <3>2, <1>2, <1>6, <1>7, RingNames
    <2>5. ASSUME NEW u \in Loggers, Entered(u)', logpc'[u] # "link", NEW n \in Nodes,
                 InList(n)', rank2[n] + 1 = rank2[u]
          PROVE  logNext'[n] = u
        <3>1. u # t /\ Entered(u) /\ logpc[u] # "link" /\ rank2[u] = rank[u]
            BY <2>5, <1>2, <1>6, <1>7, RingNames
        <3>2. n # t
            BY <2>5, <3>1, <1>3, <1>6, <1>8, RingNames
        <3>3. InList(n) /\ rank[n] + 1 = rank[u]
            BY <2>5, <3>1, <3>2, <1>6, <1>7
        <3> QED
            BY <3>1, <3>3, <1>1, <1>2 DEF Ordered
    <2> QED
        BY <2>1, <2>2, <2>3, <2>4, <2>5 DEF Ordered
<1>10. \A u \in Loggers : Linked(rank, u) => Linked(rank2, u)'
    <2> SUFFICES ASSUME NEW u \in Loggers, Linked(rank, u), NEW v \in Loggers, Entered(v)',
                        rank2[v] <= rank2[u]
                 PROVE  logpc'[v] # "link"
        BY <1>2 DEF Linked
    <2>1. Entered(u) /\ u # t
        BY <1>3 DEF Linked
    <2>2. v # t
        BY <2>1, <1>3, <1>6, <1>8, RingNames
    <2> QED
        BY <2>1, <2>2, <1>2, <1>6, <1>7, RingNames DEF Linked
<1>11. ASSUME NEW p \in Pagers, pagepc'[p] = "lock" PROVE Walked(rank2, p)'
    <2>1. Walked(rank, p) /\ found'[p] = found[p] /\ ptr'[p] = ptr[p] /\ since'[p] = since[p]
          /\ logGone \subseteq logGone'
        BY <1>1, <1>2, <1>11 DEF pageVars
    <2>2. \A u \in Loggers : /\ Entered(u) => Entered(u)' /\ rank2[u] = rank[u]
                             /\ logged[u] \subseteq logged'[u]
                             /\ \A i \in 1..Len(ring[u]) :
                                   \E j \in 1..Len(ring'[u]) : ring'[u][j] = ring[u][i]
        BY <1>2, <1>3, <1>6, RingNames
    <2> QED
        BY <2>1, <2>2, <1>10, WalkStays
<1> QED
    BY <1>9, <1>11 DEF Listed, Ranks, Nodes

\* A rank is of one node.
LEMMA RankIsOf ==
    ASSUME NEW rank \in Ranks, Ordered(rank), NEW n \in Nodes, NEW m \in Nodes,
           InList(n), InList(m), rank[n] = rank[m]
    PROVE  n = m
<1>1. \A u \in Loggers : Entered(u) => rank[u] # 0
    BY DEF Ordered
<1> QED
    BY <1>1, RingNames DEF Ordered, InList, Nodes

\* The node before is linked to the one that entered behind it.
LEMMA ListLinks ==
    ASSUME LogsTypeOK, RingsHold, Listed, NEW t \in Loggers, L!Link(t) PROVE Listed'
<1> DEFINE b == behind[t]
<1>1. PICK rank \in Ranks : Ordered(rank) /\ \A p \in Pagers : pagepc[p] = "lock" => Walked(rank, p)
    BY DEF Listed
<1>2. /\ logpc[t] = "link" /\ logNext' = [logNext EXCEPT ![b] = t]
      /\ logpc' = [logpc EXCEPT ![t] = "lock"]
      /\ UNCHANGED <<logPrev, ring, behind, logged, logGone, pageVars>>
    BY DEF L!Link, L!LogTo, L!pageVars, pageVars
<1>3. Entered(t) /\ InList(b) /\ b \in Nodes /\ rank[b] + 1 = rank[t]
    BY <1>1, <1>2 DEF Ordered, RingsHold, InList, Nodes
<1>4. /\ \A n \in Nodes : logNext'[n] = IF n = b THEN t ELSE logNext[n]
      /\ \A u \in Loggers : (logpc'[u] = "link") <=> (logpc[u] = "link" /\ u # t)
    BY <1>2 DEF LogsTypeOK
<1>5. \A n \in Nodes : rank[n] \in Nat
    BY DEF Ranks
<1> HIDE DEF b
<1>6. Ordered(rank)'
    <2>1. rank[L!Root] = 0 /\ InList(logPrev[L!Root])'
        BY <1>1, <1>2 DEF Ordered, InList, Entered
    <2>2. ASSUME NEW u \in Loggers, Entered(u)
          PROVE  /\ rank[u] \in 1..rank[logPrev[L!Root]]
                 /\ \A v \in Loggers : Entered(v) /\ rank[v] = rank[u] => v = u
                 /\ logpc'[u] = "link" => InList(behind[u]) /\ rank[behind[u]] + 1 = rank[u]
        BY <1>1, <1>4, <2>2 DEF Ordered
    <2>3. \A i \in 1..rank[logPrev[L!Root]] : \E u \in Loggers : Entered(u) /\ rank[u] = i
        BY <1>1 DEF Ordered
    <2>4. ASSUME NEW n \in Nodes, logNext'[n] \in Loggers
          PROVE  InList(n) /\ Entered(logNext[n])' /\ rank[logNext'[n]] = rank[n] + 1
        <3>1. CASE n = b
            BY <3>1, <1>2, <1>3, <1>4 DEF Entered
        <3>2. CASE n # b
            BY <3>2, <2>4, <1>1, <1>2, <1>4 DEF Ordered, Entered
        <3> QED
            BY <3>1, <3>2
    <2>5. ASSUME NEW u \in Loggers, Entered(u), logpc'[u] # "link", NEW n \in Nodes,
                 InList(n), rank[n] + 1 = rank[u]
          PROVE  logNext'[n] = u
        <3>1. CASE u = t
            <4>1. rank[n] = rank[b]
                BY <3>1, <2>5, <1>3, <1>5
            <4>2. n = b
                BY <4>1, <2>5, <1>1, <1>3, RankIsOf
            <4> QED
                BY <4>2, <3>1, <1>4
        <3>2. CASE u # t
            <4>1. n # b
                BY <3>2, <2>5, <1>1, <1>3 DEF Ordered
            <4> QED
                BY <4>1, <3>2, <2>5, <1>1, <1>4 DEF Ordered
        <3> QED
            BY <3>1, <3>2
    <2> QED
        BY <2>1, <2>2, <2>3, <2>4, <2>5, <1>2 DEF Ordered, InList, Entered
<1>7. \A u \in Loggers : Linked(rank, u) => Linked(rank, u)'
    BY <1>2, <1>4 DEF Linked, Entered
<1>8. ASSUME NEW p \in Pagers, pagepc'[p] = "lock" PROVE Walked(rank, p)'
    <2>1. Walked(rank, p) /\ found'[p] = found[p] /\ ptr'[p] = ptr[p] /\ since'[p] = since[p]
          /\ logGone \subseteq logGone'
        BY <1>1, <1>2, <1>8 DEF pageVars
    <2>2. \A u \in Loggers : /\ Entered(u) => Entered(u)'
                             /\ logged[u] \subseteq logged'[u]
                             /\ \A i \in 1..Len(ring[u]) :
                                   \E j \in 1..Len(ring'[u]) : ring'[u][j] = ring[u][i]
        BY <1>2 DEF Entered
    <2> QED
        BY <2>1, <2>2, <1>7, WalkStays
<1> QED
    BY <1>6, <1>8 DEF Listed, Ranks, Nodes

\* What a thread writes is not in a ring yet, and what leaves the ring is gone.
LEMMA ListWritten ==
    ASSUME LogsTypeOK, Listed, NEW t \in Loggers, L!WriteEntry(t) PROVE Listed'
<1> DEFINE full == Len(ring[t]) = RingSize
<1>1. /\ ring' = [ring EXCEPT ![t] = IF full THEN <<clock>> ELSE Append(ring[t], clock)]
      /\ logged' = [logged EXCEPT ![t] = @ \cup {clock}]
      /\ logpc' = [logpc EXCEPT ![t] = "unlock"] /\ logpc[t] = "write"
      /\ UNCHANGED <<logNext, logPrev, behind, pageVars>>
    BY DEF L!WriteEntry, L!LogTo, L!pageVars, pageVars
<1>2. logGone' = IF full THEN logGone \cup L!ToSet(ring[t]) ELSE logGone
    BY DEF L!WriteEntry
<1>3. ring[t] \in Seq(Nat) /\ clock \in Nat /\ t \in Nodes
    BY RingNames DEF LogsTypeOK
<1>4. \A i \in 1..Len(ring[t]) : \/ ring[t][i] \in logGone'
                                 \/ \E j \in 1..Len(ring'[t]) : ring'[t][j] = ring[t][i]
    <2>1. CASE full
        <3>1. \A i \in 1..Len(ring[t]) : ring[t][i] \in L!ToSet(ring[t])
            BY <1>3, LenProperties DEF L!ToSet
        <3> QED
            BY <2>1, <3>1, <1>2
    <2>2. CASE ~full
        <3>1. ring'[t] = Append(ring[t], clock)
            BY <2>2, <1>1, <1>3 DEF LogsTypeOK
        <3>2. Len(ring'[t]) = Len(ring[t]) + 1 /\ Len(ring[t]) \in Nat
              /\ \A i \in 1..Len(ring[t]) : ring'[t][i] = ring[t][i]
            BY <3>1, <1>3, AppendProperties, LenProperties
        <3> QED
            BY <3>2
    <2> QED
        BY <2>1, <2>2
<1>5. \A u \in Loggers : u # t => ring'[u] = ring[u]
    BY <1>1, RingNames DEF LogsTypeOK
<1>6. logGone \subseteq logGone'
    BY <1>2
<1>7. \A u \in Loggers : /\ (logpc'[u] = "link") <=> (logpc[u] = "link")
                         /\ logged[u] \subseteq logged'[u]
    BY <1>1 DEF LogsTypeOK
<1>8. \A u \in Loggers : \A i \in 1..Len(ring[u]) :
         \/ ring[u][i] \in logGone'
         \/ \E j \in 1..Len(ring'[u]) : ring'[u][j] = ring[u][i]
    BY <1>4, <1>5
<1> QED
    BY <1>1, <1>6, <1>7, <1>8, ListStays

LEMMA LoggersList ==
    ASSUME LogsTypeOK, RingsHold, Listed, NEW t \in Loggers, L!Log(t) \/ L!LogStep(t) PROVE Listed'
<1>1. CASE L!Log(t) /\ logPrev[t] # L!Nil
    <2>1. UNCHANGED <<logNext, logPrev, behind, pageVars, logGone, logged, ring>> /\ logpc[t] = "out"
          /\ logpc' = [logpc EXCEPT ![t] = "lock"]
        BY <1>1, Enters
    <2>2. \A u \in Loggers : /\ (logpc'[u] = "link") <=> (logpc[u] = "link")
        BY <2>1 DEF LogsTypeOK
    <2> QED
        BY <2>1, <2>2, ListStays
<1>2. CASE L!Lock(t) \/ L!Unlock(t)
    <2>1. UNCHANGED <<logNext, logPrev, behind, pageVars, logGone, logged, ring>>
        BY <1>2 DEF L!Lock, L!Unlock, L!pageVars, pageVars
    <2>2. \A u \in Loggers : /\ (logpc'[u] = "link") <=> (logpc[u] = "link")
        BY <1>2 DEF L!Lock, L!Unlock, L!LogTo, LogsTypeOK
    <2> QED
        BY <2>1, <2>2, ListStays
<1> QED
    BY <1>1, <1>2, ListGrows, ListLinks, ListWritten DEF L!LogStep

LEMMA LastRank ==
    ASSUME NEW rank \in Ranks, Ordered(rank) PROVE rank[logPrev[L!Root]] \in Nat
BY DEF Ranks, Ordered, InList, Nodes

\* A walk begins where nobody is entering, or has nothing to find.
LEMMA WalkBegins ==
    ASSUME LogsTypeOK, RingsHold, NEW rank \in Ranks, Ordered(rank), NEW p \in Pagers, L!Page(p)
    PROVE  Walked(rank, p)'
<1>1. /\ found'[p] = <<>> /\ ptr'[p] = logNext[L!Root]
      /\ UNCHANGED <<logPrev, logpc, logged, logGone, ring>>
    BY DEF L!Page, L!PageTo, L!logVars, LogsTypeOK
<1>2. since'[p] = IF \E t \in Loggers : logpc[t] = "link" THEN {}
                  ELSE UNION {logged[t] : t \in {u \in Loggers : logpc[u] = "out"}}
    BY DEF L!Page, LogsTypeOK
<1>3. \A i \in 1..Len(found'[p]) : FALSE
    BY <1>1
<1>4. ptr'[p] \in Loggers => Entered(ptr[p])'
    BY <1>1, RingNames DEF Ordered, Entered
<1>5. ASSUME NEW e \in since'[p] \ logGone'
      PROVE  /\ ptr'[p] \in Loggers
             /\ \E u \in Loggers : /\ Linked(rank, u)' /\ rank[ptr'[p]] <= rank[u]
                                   /\ \E i \in 1..Len(ring'[u]) : ring'[u][i] = e
    <2>1. \A t \in Loggers : logpc[t] # "link"
        BY <1>2, <1>5
    <2>2. PICK u \in Loggers : e \in logged[u]
        BY <1>2, <1>5
    <2>3. Entered(u) /\ \E i \in 1..Len(ring[u]) : ring[u][i] = e
        BY <2>2, <1>1, <1>5 DEF RingsHold
    <2>4. rank[u] \in 1..rank[logPrev[L!Root]]
        BY <2>3 DEF Ordered
    <2>5. 1 \in 1..rank[logPrev[L!Root]]
        BY <2>4, LastRank
    <2>6. PICK t \in Loggers : Entered(t) /\ rank[t] = 1
        BY <2>5 DEF Ordered
    <2>7. logNext[L!Root] = t
        BY <2>1, <2>6, RingNames DEF Ordered, InList
    <2>8. Linked(rank, u)'
        BY <2>1, <2>3, <1>1 DEF Linked, Entered
    <2>9. rank[ptr'[p]] <= rank[u]
        BY <1>1, <2>4, <2>6, <2>7
    <2> QED
        BY <1>1, <2>3, <2>7, <2>8, <2>9
<1> QED
    BY <1>3, <1>4, <1>5 DEF Walked

\* Two sequences, one behind the other.
LEMMA Concatenated ==
    ASSUME NEW f \in Seq(Nat), NEW r \in Seq(Nat)
    PROVE  /\ Len(f) \in Nat /\ Len(r) \in Nat /\ Len(f \o r) = Len(f) + Len(r)
           /\ \A i \in 1..Len(f) : (f \o r)[i] = f[i] /\ i \in 1..Len(f \o r)
           /\ \A i \in 1..Len(r) : (f \o r)[Len(f) + i] = r[i] /\ Len(f) + i \in 1..Len(f \o r)
           /\ \A i \in 1..Len(f \o r) : i \in 1..Len(f) \/ \E j \in 1..Len(r) : i = Len(f) + j
<1>1. Len(f) \in Nat /\ Len(r) \in Nat /\ Len(f \o r) = Len(f) + Len(r)
    BY LenProperties, ConcatProperties
<1>2. \A i \in 1..Len(f) + Len(r) : (f \o r)[i] = IF i <= Len(f) THEN f[i] ELSE r[i - Len(f)]
    BY ConcatProperties
<1>3. ASSUME NEW i \in 1..Len(f) PROVE (f \o r)[i] = f[i] /\ i \in 1..Len(f \o r)
    BY <1>1, <1>2
<1>4. ASSUME NEW i \in 1..Len(r) PROVE (f \o r)[Len(f) + i] = r[i] /\ Len(f) + i \in 1..Len(f \o r)
    <2>1. Len(f) + i \in 1..Len(f) + Len(r) /\ ~(Len(f) + i <= Len(f)) /\ (Len(f) + i) - Len(f) = i
        BY <1>1
    <2> QED
        BY <2>1, <1>1, <1>2
<1>5. ASSUME NEW i \in 1..Len(f \o r), i \notin 1..Len(f)
      PROVE  \E j \in 1..Len(r) : i = Len(f) + j
    <2>1. i - Len(f) \in 1..Len(r) /\ i = Len(f) + (i - Len(f))
        BY <1>1, <1>5
    <2> QED
        BY <2>1
<1> QED
    BY <1>1, <1>3, <1>4, <1>5

\* The next node of a walk has what it has not found, and nothing of what it has.
LEMMA WalkGoesOn ==
    ASSUME LogsTypeOK, RingsHold, NEW rank \in Ranks, Ordered(rank), NEW p \in Pagers,
           Walked(rank, p), L!PageLock(p)
    PROVE  Walked(rank, p)'
<1> DEFINE n == ptr[p]
           f == found[p]
           r == ring[n]
<1>1. /\ found'[p] = f \o r /\ ptr'[p] = logNext[n] /\ n \in Nodes
      /\ UNCHANGED <<logPrev, logNext, logpc, logged, logGone, ring, since>>
    BY DEF L!PageLock, L!PageTo, LogsTypeOK, L!AtEnd
<1>2. n \in Loggers /\ Entered(n)
    BY DEF L!PageLock, L!AtEnd, LogsTypeOK, Nodes, Walked
<1>3. f \in Seq(Nat) /\ r \in Seq(Nat)
    BY <1>1 DEF LogsTypeOK
<1>4. /\ Len(f) \in Nat /\ Len(r) \in Nat /\ Len(f \o r) = Len(f) + Len(r)
      /\ \A i \in 1..Len(f) : (f \o r)[i] = f[i] /\ i \in 1..Len(f \o r)
      /\ \A i \in 1..Len(r) : (f \o r)[Len(f) + i] = r[i] /\ Len(f) + i \in 1..Len(f \o r)
      /\ \A i \in 1..Len(f \o r) : i \in 1..Len(f) \/ \E j \in 1..Len(r) : i = Len(f) + j
    BY <1>3, Concatenated
<1>5. \A i \in 1..Len(f) : \E u \in Loggers :
         Entered(u) /\ f[i] \in logged[u] /\ rank[u] < rank[n]
    BY <1>2 DEF Walked
<1>6. \A i \in 1..Len(r) : r[i] \in logged[n]
    BY <1>2 DEF RingsHold
<1>7. ASSUME NEW i \in 1..Len(f), NEW j \in 1..Len(r) PROVE f[i] # r[j]
    <2>1. PICK u \in Loggers : f[i] \in logged[u] /\ rank[u] < rank[n]
        BY <1>5
    <2>2. u # n
        BY <2>1, <1>2, RingNames DEF Ranks
    <2> QED
        BY <2>1, <2>2, <1>2, <1>6 DEF RingsHold
<1>8. /\ \A i, j \in 1..Len(f) : f[i] = f[j] => i = j
      /\ \A i, j \in 1..Len(r) : r[i] = r[j] => i = j
    BY <1>2 DEF RingsHold, Walked
<1>9. logNext[n] \in Loggers => Entered(logNext[n]) /\ rank[logNext[n]] = rank[n] + 1
    BY <1>1 DEF Ordered
<1>10. \A u \in Loggers : rank[u] \in Nat
    BY RingNames DEF Ranks
<1> HIDE DEF f, r, n
<1>11. \A i \in 1..Len(f \o r) :
          /\ \A j \in 1..Len(f \o r) : (f \o r)[i] = (f \o r)[j] => i = j
          /\ \E u \in Loggers :
                /\ Entered(u) /\ (f \o r)[i] \in logged[u]
                /\ logNext[n] \in Loggers => rank[u] < rank[logNext[n]]
    <2>1. ASSUME NEW i \in 1..Len(f \o r), NEW j \in 1..Len(f \o r), (f \o r)[i] = (f \o r)[j]
          PROVE  i = j
        <3>1. CASE i \in 1..Len(f) /\ j \in 1..Len(f)
            BY <3>1, <2>1, <1>4, <1>8
        <3>2. CASE \E k \in 1..Len(r) : i = Len(f) + k
            BY <3>2, <2>1, <1>4, <1>7, <1>8
        <3>3. CASE i \in 1..Len(f) /\ \E k \in 1..Len(r) : j = Len(f) + k
            BY <3>3, <2>1, <1>4, <1>7
        <3> QED
            BY <3>1, <3>2, <3>3, <1>4
    <2>2. ASSUME NEW i \in 1..Len(f \o r)
          PROVE  \E u \in Loggers : /\ Entered(u) /\ (f \o r)[i] \in logged[u]
                                    /\ logNext[n] \in Loggers => rank[u] < rank[logNext[n]]
        <3>1. CASE i \in 1..Len(f)
            BY <3>1, <1>2, <1>4, <1>5, <1>9, <1>10
        <3>2. CASE \E j \in 1..Len(r) : i = Len(f) + j
            BY <3>2, <1>2, <1>4, <1>6, <1>9, <1>10
        <3> QED
            BY <3>1, <3>2, <1>4
    <2> QED
        BY <2>1, <2>2
<1>12. ASSUME NEW e \in since[p] \ logGone, ~ \E i \in 1..Len(f \o r) : (f \o r)[i] = e
       PROVE  /\ logNext[n] \in Loggers
              /\ \E u \in Loggers : /\ Linked(rank, u) /\ rank[logNext[n]] <= rank[u]
                                    /\ \E i \in 1..Len(ring[u]) : ring[u][i] = e
    <2>1. ~ \E i \in 1..Len(f) : f[i] = e
        BY <1>4, <1>12
    <2>2. ~ \E i \in 1..Len(r) : r[i] = e
        BY <1>4, <1>12
    <2>3. PICK u \in Loggers : /\ Linked(rank, u) /\ rank[n] <= rank[u]
                               /\ \E i \in 1..Len(ring[u]) : ring[u][i] = e
        BY <2>1, <1>12 DEF Walked, f, n
    <2>4. u # n /\ Entered(u)
        BY <2>2, <2>3 DEF r, Linked
    <2>5. rank[n] # rank[u]
        BY <2>4, <1>2 DEF Ordered
    <2>6. rank[n] + 1 \in 1..rank[logPrev[L!Root]] /\ rank[n] + 1 <= rank[u]
        <3>1. rank[u] \in 1..rank[logPrev[L!Root]] /\ rank[n] \in 1..rank[logPrev[L!Root]]
            BY <2>4, <1>2 DEF Ordered
        <3> QED
            BY <3>1, <2>3, <2>5, <1>2, <1>10, LastRank
    <2>7. PICK v \in Loggers : Entered(v) /\ rank[v] = rank[n] + 1
        BY <2>6 DEF Ordered
    <2>8. logpc[v] # "link"
        BY <2>3, <2>6, <2>7 DEF Linked
    <2>9. logNext[n] = v
        BY <2>7, <2>8, <1>1, <1>2 DEF Ordered, InList, n
    <2> QED
        BY <2>3, <2>6, <2>7, <2>9
<1>13. PICK g : g = f \o r
    OBVIOUS
<1>14. PICK m : m = logNext[n]
    OBVIOUS
<1>15. found'[p] = g /\ ptr'[p] = m /\ since'[p] = since[p]
    BY <1>1, <1>13, <1>14 DEF f, r, n
<1>16. /\ logGone' = logGone /\ ring' = ring /\ logged' = logged
       /\ \A u : Entered(u)' <=> Entered(u)
       /\ \A u : Linked(rank, u)' <=> Linked(rank, u)
    BY <1>1 DEF Linked, Entered
<1>17. \A i \in 1..Len(g) :
          /\ \A j \in 1..Len(g) : g[i] = g[j] => i = j
          /\ \E u \in Loggers : /\ Entered(u)' /\ g[i] \in logged[u]
                                /\ m \in Loggers => rank[u] < rank[m]
    BY <1>11, <1>13, <1>14, <1>16
<1>18. m \in Loggers => Entered(m)'
    BY <1>9, <1>14, <1>16
<1>19. ASSUME NEW e \in since[p] \ logGone
       PROVE  \/ \E i \in 1..Len(g) : g[i] = e
              \/ /\ m \in Loggers
                 /\ \E u \in Loggers : /\ Linked(rank, u)' /\ rank[m] <= rank[u]
                                       /\ \E i \in 1..Len(ring[u]) : ring[u][i] = e
    <2>1. CASE \E i \in 1..Len(f \o r) : (f \o r)[i] = e
        BY <1>13, <2>1
    <2>2. CASE ~ \E i \in 1..Len(f \o r) : (f \o r)[i] = e
        BY <1>12, <1>14, <1>16, <2>2
    <2> QED
        BY <2>1, <2>2
<1> QED
    BY <1>15, <1>16, <1>17, <1>18, <1>19 DEF Walked

\* The steps of a page leave the list, and the walks of others.
LEMMA PagesList ==
    ASSUME LogsTypeOK, RingsHold, Listed, NEW p \in Pagers, L!Page(p) \/ L!PageStep(p) PROVE Listed'
<1>1. PICK rank \in Ranks : Ordered(rank) /\ \A q \in Pagers : pagepc[q] = "lock" => Walked(rank, q)
    BY DEF Listed
<1>2. /\ UNCHANGED <<logNext, logPrev, logpc, behind, logged, logGone, ring>>
      /\ \A q \in Pagers : q # p => /\ pagepc'[q] = pagepc[q] /\ found'[q] = found[q]
                                    /\ ptr'[q] = ptr[q] /\ since'[q] = since[q]
    BY DEF L!Page, L!PageStep, L!PageLock, L!Sorted, L!PageUnlock, L!Paged, L!logVars, L!PageTo,
           LogsTypeOK
<1>3. Ordered(rank)'
    BY <1>1, <1>2 DEF Ordered, Entered, InList
<1>4. \A u \in Loggers : Linked(rank, u) => Linked(rank, u)'
    BY <1>2 DEF Linked, Entered
<1>5. ASSUME NEW q \in Pagers, q # p, pagepc'[q] = "lock" PROVE Walked(rank, q)'
    BY <1>1, <1>2, <1>4, <1>5, WalkStays DEF Entered
<1>6. ASSUME pagepc'[p] = "lock" PROVE Walked(rank, p)'
    <2>1. CASE L!Page(p)
        BY <2>1, <1>1, WalkBegins
    <2>2. CASE L!PageLock(p)
        <3>1. Walked(rank, p)
            BY <2>2, <1>1 DEF L!PageLock
        <3> QED
            BY <3>1, <2>2, <1>1, WalkGoesOn
    <2>3. ~ (L!Sorted(p) \/ L!PageUnlock(p) \/ L!Paged(p))
        BY <1>6 DEF L!Sorted, L!PageUnlock, L!Paged, L!PageTo, LogsTypeOK
    <2> QED
        BY <2>1, <2>2, <2>3 DEF L!PageStep
<1> QED
    BY <1>3, <1>5, <1>6 DEF Listed, Ranks, Nodes

\* The end of the walk: everything was found, once each, and is sorted.
LEMMA SortedWhole ==
    ASSUME LogsTypeOK, Listed, NEW p \in Pagers, L!Sorted(p)
    PROVE  /\ since'[p] \ logGone' \subseteq L!ToSet(found'[p])
           /\ \A i, j \in 1..Len(found'[p]) : i < j => found'[p][i] < found'[p][j]
<1>1. /\ pagepc[p] = "lock" /\ ptr[p] \notin Loggers
      /\ UNCHANGED <<since, logGone>>
    BY RingNames DEF L!Sorted, L!AtEnd, L!logVars
<1>2. PICK rank \in Ranks : Walked(rank, p)
    BY <1>1 DEF Listed
<1>3. found[p] \in Seq(Nat) /\ Len(found[p]) \in Nat
    BY LenProperties DEF LogsTypeOK
<1>4. PICK s \in L!Rearranged(found[p]) : /\ \A i, j \in DOMAIN s : i < j => s[i] <= s[j]
                                          /\ found' = [found EXCEPT ![p] = s]
    BY DEF L!Sorted
<1> DEFINE n == Len(found[p])
<1>5. s \in Seq(Nat) /\ Len(s) = n /\ SameElements(found[p], s)
    BY <1>3, <1>4, Rearrangement
<1>6. PICK f \in [1..n -> 1..n] :
            /\ \A i, j \in 1..n : f[i] = f[j] => i = j
            /\ \A j \in 1..n : \E i \in 1..n : f[i] = j
            /\ \A i \in 1..n : s[i] = found[p][f[i]]
    BY <1>5 DEF SameElements
<1>7. DOMAIN s = 1..n /\ found'[p] = s /\ Len(s) = n /\ \A i \in 1..n : s[i] \in Nat
    BY <1>4, <1>5, LenProperties, ElementOfSeq DEF LogsTypeOK
<1>8. \A i, j \in 1..n : found[p][i] = found[p][j] => i = j
    BY <1>2 DEF Walked
<1> HIDE DEF n
<1>9. ASSUME NEW i \in 1..n, NEW j \in 1..n, i < j PROVE s[i] < s[j]
    <2>1. f[i] \in 1..n /\ f[j] \in 1..n /\ i # j
        BY <1>9
    <2>2. s[i] # s[j]
        <3>1. f[i] # f[j]
            BY <2>1, <1>6
        <3>2. found[p][f[i]] # found[p][f[j]]
            BY <3>1, <2>1, <1>8
        <3> QED
            BY <3>2, <1>6
    <2>3. s[i] <= s[j] /\ s[i] \in Nat /\ s[j] \in Nat
        BY <1>4, <1>7, <1>9
    <2> QED
        BY <2>2, <2>3
<1>10. ASSUME NEW e \in since[p] \ logGone PROVE e \in L!ToSet(s)
    <2>1. PICK i \in 1..n : found[p][i] = e
        BY <1>1, <1>2 DEF Walked, n
    <2>2. PICK j \in 1..n : f[j] = i
        BY <1>6
    <2>3. s[j] = e
        BY <2>1, <2>2, <1>6
    <2> QED
        BY <2>3, <1>7 DEF L!ToSet
<1> QED
    BY <1>1, <1>7, <1>9, <1>10

\* Until the next page what was found stays, and what it may lack is gone.
LEMMA WholeKeeps == ASSUME LogsTypeOK, Listed, L!PageWhole, L!RingsStep PROVE L!PageWhole'
<1> SUFFICES ASSUME NEW p \in Pagers, pagepc'[p] = "unlock"
             PROVE  /\ since'[p] \ logGone' \subseteq L!ToSet(found'[p])
                    /\ \A i, j \in 1..Len(found'[p]) : i < j => found'[p][i] < found'[p][j]
    BY DEF L!PageWhole, L!ToSet
<1>1. CASE L!Sorted(p)
    BY <1>1, SortedWhole
<1>2. CASE ~L!Sorted(p)
    <2>1. pagepc[p] = "unlock" /\ found'[p] = found[p] /\ since'[p] = since[p]
        <3>1. ASSUME NEW t \in Loggers, L!Log(t) \/ L!LogStep(t)
              PROVE  UNCHANGED <<pagepc, found, since>>
            BY <3>1 DEF L!Log, L!LogStep, L!Link, L!Lock, L!WriteEntry, L!Unlock, L!pageVars
        <3>2. ASSUME NEW q \in Pagers, L!Page(q) \/ L!PageStep(q), q # p
              PROVE  pagepc'[p] = pagepc[p] /\ found'[p] = found[p] /\ since'[p] = since[p]
            BY <3>2 DEF L!Page, L!PageStep, L!PageLock, L!Sorted, L!PageUnlock, L!Paged, L!PageTo,
                        LogsTypeOK
        <3>3. ASSUME L!Page(p) \/ L!PageStep(p)
              PROVE  pagepc[p] = "unlock" /\ found'[p] = found[p] /\ since'[p] = since[p]
            BY <3>3, <1>2 DEF L!Page, L!PageStep, L!PageLock, L!PageUnlock, L!Paged, L!PageTo,
                              LogsTypeOK
        <3> QED
            BY <3>1, <3>2, <3>3 DEF L!RingsStep
    <2>2. logGone \subseteq logGone'
        BY DEF L!RingsStep, L!Log, L!LogStep, L!Link, L!Lock, L!WriteEntry, L!Unlock, L!Page,
               L!PageStep, L!PageLock, L!Sorted, L!PageUnlock, L!Paged, L!logVars
    <2> QED
        BY <2>1, <2>2 DEF L!PageWhole
<1> QED
    BY <1>1, <1>2

\* The sinks: who stores its copy has the lock, and the copy is of all there are.
Storing(s) == sinkpc[s] \in {"store", "release"}
SinksInv ==
    /\ sinkpc \in [Sinkers -> {"out", "store", "release", "done"}]
    /\ copy \in [Sinkers -> SUBSET Sinkers] /\ logSinks \in SUBSET Sinkers
    /\ \A s \in Sinkers :
          /\ Storing(s) => sinkLock /\ \A r \in Sinkers : Storing(r) => r = s
          /\ sinkpc[s] = "store" => copy[s] = logSinks \cup {s}
    /\ L!SinksKept

LEMMA SinksKeep == ASSUME SinksInv, NEW s \in Sinkers, L!SinkStep(s) PROVE SinksInv'
<1> USE DEF SinksInv, L!SinkTo, Storing, L!SinksKept
<1>1. CASE L!AcquireSink(s)
    BY <1>1 DEF L!AcquireSink
<1>2. CASE L!StoreSinks(s)
    BY <1>2 DEF L!StoreSinks
<1>3. CASE L!ReleaseSink(s)
    BY <1>3 DEF L!ReleaseSink
<1> QED
    BY <1>1, <1>2, <1>3 DEF L!SinkStep

\* The invariants of the logs hold in every reachable state.
THEOREM LogsCorrect == L!LogsSpec => [](LogsInv /\ SinksInv)
<1>1. L!InitLogs => SinksInv
    BY DEF L!InitLogs, SinksInv, Storing, L!SinksKept
<1>2. ASSUME LogsInv, SinksInv, UNCHANGED <<L!logVars, pageVars, clock, freed>> PROVE LogsInv'
    <2>1. UNCHANGED <<logNext, logPrev, memlock, ring, logpc, behind, logged, logGone, pagepc, ptr,
                      held, found, since, clock, freed>>
        BY <1>2 DEF L!logVars, pageVars
    <2>2. LogsTypeOK'
        BY <1>2, <2>1 DEF LogsInv, LogsTypeOK, Nodes
    <2>3. RingsHold'
        BY <1>2, <2>1, RingsRest DEF LogsInv, Entered
    <2>4. Listed'
        BY <1>2, <2>1, ListStays DEF LogsInv
    <2>5. Locked'
        BY <1>2, <2>1 DEF LogsInv, Locked, AtRing
    <2>6. L!PageWhole'
        BY <1>2, <2>1 DEF LogsInv, L!PageWhole, L!ToSet
    <2> QED
        BY <2>2, <2>3, <2>4, <2>5, <2>6 DEF LogsInv
<1>3. ASSUME LogsInv, SinksInv, L!RingsStep PROVE LogsInv' /\ SinksInv'
    <2>1. LogsTypeOK' /\ RingsHold' /\ Locked' /\ L!PageWhole'
        BY <1>3, LogsTyped, RingsKeep, LocksKeep, WholeKeeps DEF LogsInv
    <2>2. Listed'
        BY <1>3, LoggersList, PagesList DEF LogsInv, L!RingsStep
    <2>3. UNCHANGED L!sinkVars
        BY <1>3 DEF L!RingsStep, L!Log, L!LogStep, L!Link, L!Lock, L!WriteEntry, L!Unlock, L!Page,
               L!PageStep, L!PageLock, L!Sorted, L!PageUnlock, L!Paged
    <2>4. SinksInv'
        BY <1>3, <2>3 DEF SinksInv, Storing, L!SinksKept, L!sinkVars
    <2> QED
        BY <2>1, <2>2, <2>4 DEF LogsInv
<1>4. ASSUME LogsInv, SinksInv, L!SinksStep PROVE LogsInv' /\ SinksInv'
    <2>1. UNCHANGED <<L!logVars, pageVars, clock, freed>>
        BY <1>4 DEF L!SinksStep, L!SinkStep, L!AcquireSink, L!StoreSinks, L!ReleaseSink, L!pageVars,
                    pageVars
    <2> QED
        BY <1>2, <1>4, <2>1, SinksKeep DEF L!SinksStep
<1>5. LogsInv /\ SinksInv /\ UNCHANGED L!logsVars => LogsInv' /\ SinksInv'
    BY <1>2 DEF L!logsVars, L!pageVars, pageVars, L!sinkVars, SinksInv, Storing, L!SinksKept
<1>6. LogsInv /\ SinksInv /\ [L!LogsStep]_(L!logsVars) => LogsInv' /\ SinksInv'
    BY <1>3, <1>4, <1>5 DEF L!LogsStep
<1> QED
    BY <1>1, <1>6, LogsBegin, PTL DEF L!LogsSpec

\* One thread at a time is at a ring, though page and _log only have flags for it; a page shows
\* every entry that was logged before it, once and in the order of time, though threads enter the
\* list while it walks; and no sink is lost (logd.cpp).
THEOREM LogsHold == L!LogsSpec => []LogsWhole
<1>1. LogsInv /\ SinksInv => LogsWhole
    BY OneAtRing DEF LogsInv, SinksInv, LogsWhole
<1> QED
    BY <1>1, LogsCorrect, PTL

-----------------------------------------------------------------------------
(* The output: packed pixels.                                              *)

LEMMA Least ==
    ASSUME NEW T, T \subseteq Nat, T # {}
    PROVE  \E n \in T : \A m \in T : n <= m
<1>1. PICK n \in T : \A m \in T : ~ (<<m, n>> \in OpToRel(<, Nat))
    BY NatLessThanWellFounded, WFMin
<1>2. \A m \in T : ~ (m < n)
    BY <1>1 DEF OpToRel
<1> QED
    BY <1>2

LEMMA Induction ==
    ASSUME NEW S, 0 \in S, \A n \in Nat : n \in S => n + 1 \in S
    PROVE  Nat \subseteq S
<1>1. SUFFICES ASSUME Nat \ S # {} PROVE FALSE
    OBVIOUS
<1>2. PICK n \in Nat \ S : \A m \in Nat \ S : n <= m
    BY <1>1, Least
<1>3. n # 0 /\ n - 1 \in Nat /\ n - 1 \in S /\ (n - 1) + 1 = n
    BY <1>2
<1> QED
    BY <1>2, <1>3

\* How many pixels are equal.
LEMMA LengthIs ==
    ASSUME NEW data, NEW i \in Nat, NEW k \in Nat \ {0}
    PROVE  /\ O!Length(data, i, k) \in 1..k
           /\ \A j \in 1..(O!Length(data, i, k) - 1) : data[i + j] = data[i]
<1> DEFINE T == {l \in 1..k : l = k \/ data[i + l] # data[i]}
<1>1. k \in T /\ T \subseteq Nat
    OBVIOUS
<1>2. PICK l \in T : \A m \in T : l <= m
    <2> HIDE DEF T
    <2> QED
        BY <1>1, Least
<1>3. \A j \in 1..(l - 1) : data[i + j] = data[i]
    BY <1>2
<1>4. \E m \in 1..k : /\ \A j \in 1..(m - 1) : data[i + j] = data[i]
                      /\ m = k \/ data[i + m] # data[i]
    BY <1>2, <1>3
<1> QED
    BY <1>4 DEF O!Length

\* What the last 0, 1, ... m of n pixels are packed to.
Packs(n, m, data, p) ==
    p = [k \in 0..m |->
            IF k = 0 THEN <<>>
            ELSE O!Run(data[n - k + 1], O!Length(data, n - k + 1, k))
                 \o p[k - O!Length(data, n - k + 1, k)]]

LEMMA PacksExists ==
    \A data : \A n, m \in Nat : m <= n => \E p : Packs(n, m, data, p)
<1> TAKE data
<1> SUFFICES ASSUME NEW n \in Nat
             PROVE  \A m \in Nat : m <= n => \E p : Packs(n, m, data, p)
    OBVIOUS
<1> DEFINE T == {m \in Nat : m <= n => \E p : Packs(n, m, data, p)}
<1>1. 0 \in T
    <2>1. Packs(n, 0, data, [k \in 0..0 |-> <<>>])
        BY DEF Packs
    <2> QED
        BY <2>1
<1>2. ASSUME NEW m \in Nat, m \in T
      PROVE  m + 1 \in T
    <2>1. SUFFICES ASSUME m + 1 <= n PROVE \E p : Packs(n, m + 1, data, p)
        OBVIOUS
    <2>2. PICK f : Packs(n, m, data, f)
        BY <1>2, <2>1
    <2> DEFINE len(k) == O!Length(data, n - k + 1, k)
               last == O!Run(data[n - (m + 1) + 1], len(m + 1)) \o f[(m + 1) - len(m + 1)]
               g == [k \in 0..(m + 1) |-> IF k = m + 1 THEN last ELSE f[k]]
    <2>3. \A k \in 1..(m + 1) : len(k) \in 1..k
        <3> TAKE k \in 1..(m + 1)
        <3>1. n - k + 1 \in Nat /\ k \in Nat \ {0}
            BY <2>1
        <3> QED
            BY <3>1, LengthIs
    <2>4. g = [k \in 0..(m + 1) |-> g[k]] /\ g[m + 1] = last /\ \A k \in 0..m : g[k] = f[k]
        OBVIOUS
    <2> HIDE DEF g
    <2>5. ASSUME NEW k \in 0..(m + 1)
          PROVE  g[k] = IF k = 0 THEN <<>>
                        ELSE O!Run(data[n - k + 1], len(k)) \o g[k - len(k)]
        <3>1. CASE k = m + 1
            <4>1. k # 0 /\ k - len(k) \in 0..m
                BY <2>3, <3>1
            <4> QED
                BY <2>4, <3>1, <4>1
        <3>2. CASE k # m + 1
            <4>1. k \in 0..m /\ (k # 0 => k - len(k) \in 0..m)
                BY <2>3, <3>2
            <4>2. f[k] = IF k = 0 THEN <<>>
                         ELSE O!Run(data[n - k + 1], len(k)) \o f[k - len(k)]
                BY <2>2, <4>1 DEF Packs
            <4> QED
                BY <2>4, <4>1, <4>2
        <3> QED
            BY <3>1, <3>2
    <2>6. Packs(n, m + 1, data, g)
        BY <2>4, <2>5 DEF Packs
    <2> QED
        BY <2>6
<1>3. Nat \subseteq T
    <2> HIDE DEF T
    <2> QED
        BY <1>1, <1>2, Induction
<1> QED
    BY <1>3

\* What comes after the first `at' of a sequence.
Behind(packed, spot, s) == Len(packed) = spot + Len(s) /\ \A j \in 1..Len(s) : packed[spot + j] = s[j]

Forms == [len : Nat]
\* The pixels of a frame are pixels.
Frames(n, P, data) == /\ n \in Nat /\ data \in [1..n -> P] /\ \A px \in P : ~O!IsForm(px)

\* p[k] is what the last k of n pixels are packed to.
PackedBy(n, P, data, p) ==
    /\ Frames(n, P, data) /\ p[0] = <<>> /\ p \in [0..n -> Seq(P \cup Forms)]
    /\ \A k \in 1..n : p[k] = O!Run(data[n - k + 1], O!Length(data, n - k + 1, k))
                              \o p[k - O!Length(data, n - k + 1, k)]

LEMMA PackIs ==
    ASSUME NEW n, NEW P, NEW data, Frames(n, P, data)
    PROVE  \E p : O!Pack(data) = p[n] /\ PackedBy(n, P, data, p)
<1>1. n \in Nat /\ data \in [1..n -> P] /\ Len(data) = n
    BY DEF Frames
<1>2. PICK p : p = CHOOSE q : Packs(n, n, data, q)
    OBVIOUS
<1>3. O!Pack(data) = p[n]
    BY <1>1, <1>2 DEF O!Pack, Packs
<1>4. Packs(n, n, data, p)
    <2>1. \E q : Packs(n, n, data, q)
        <3>1. n \in Nat /\ n <= n
            BY <1>1
        <3> QED
            BY <3>1, PacksExists, Zenon
    <2> QED
        BY <1>2, <2>1
<1> DEFINE len(k) == O!Length(data, n - k + 1, k)
<1>5. p[0] = <<>> /\ \A k \in 1..n : p[k] = O!Run(data[n - k + 1], len(k)) \o p[k - len(k)]
    <2>1. \A k \in 0..n : p[k] = IF k = 0 THEN <<>>
                                 ELSE O!Run(data[n - k + 1], len(k)) \o p[k - len(k)]
        BY <1>4 DEF Packs
    <2>2. 0 \in 0..n /\ \A k \in 1..n : k \in 0..n /\ k # 0
        BY <1>1
    <2> QED
        BY <2>1, <2>2
<1>6. \A k \in 1..n : len(k) \in 1..k /\ data[n - k + 1] \in P
    <2> TAKE k \in 1..n
    <2>1. n - k + 1 \in 1..n /\ n - k + 1 \in Nat /\ k \in Nat \ {0}
        BY <1>1
    <2> QED
        BY <1>1, <2>1, LengthIs
<1>7. PICK S : S = Seq(P \cup Forms)
    OBVIOUS
<1> DEFINE T == {m \in Nat : m <= n => \A k \in 0..m : p[k] \in S}
<1> HIDE DEF len
<1>8. 0 \in T
    <2>1. <<>> \in S
        BY <1>7, EmptySeq
    <2>2. \A k \in 0..0 : k = 0
        OBVIOUS
    <2> QED
        BY <1>5, <2>1, <2>2
<1>9. ASSUME NEW m \in Nat, m \in T
      PROVE  m + 1 \in T
    <2>1. SUFFICES ASSUME m + 1 <= n PROVE p[m + 1] \in S
        <3>1. \A k \in 0..(m + 1) : k = m + 1 \/ k \in 0..m
            OBVIOUS
        <3> QED
            BY <1>1, <1>9, <3>1
    <2>2. m + 1 \in 1..n /\ (m + 1) - len(m + 1) \in 0..m /\ len(m + 1) \in Nat
        BY <1>6, <2>1
    <2>3. p[(m + 1) - len(m + 1)] \in S
        BY <1>1, <1>9, <2>1, <2>2
    <2>4. O!Run(data[n - (m + 1) + 1], len(m + 1)) \in S
        <3>1. PICK px \in P : px = data[n - (m + 1) + 1]
            BY <1>6, <2>2
        <3>2. PICK l \in Nat : l = len(m + 1)
            BY <2>2
        <3>3. px \in P \cup Forms /\ [len |-> l] \in P \cup Forms
            BY DEF Forms
        <3>4. <<px>> \in S /\ <<px, px>> \in S /\ <<[len |-> l], px>> \in S
            BY <1>7, <3>3
        <3> QED
            BY <3>1, <3>2, <3>4 DEF O!Run
    <2> QED
        BY <1>5, <1>7, <2>2, <2>3, <2>4, ConcatProperties
<1>10. Nat \subseteq T
    <2> HIDE DEF T
    <2> QED
        BY <1>8, <1>9, Induction
<1>11. \A k \in 0..n : p[k] \in S
    BY <1>1, <1>10
<1>12. p \in [0..n -> S]
    <2>1. p = [k \in 0..n |-> p[k]]
        BY <1>4 DEF Packs
    <2> QED
        BY <1>11, <2>1
<1> QED
    BY <1>3, <1>5, <1>7, <1>12 DEF len, PackedBy

\* What is behind a sequence that begins with m others.
RunEnds(s, m, r, rest) == Len(rest) = r /\ Len(s) = m + r /\ \A j \in 1..r : s[m + j] = rest[j]
Goes(packed, spot, m, r, s, rest) ==
    /\ Behind(packed, spot + m, rest) /\ Len(packed) = spot + m + r
    /\ \A j \in 1..m : packed[spot + j] = s[j]

LEMMA Further ==
    ASSUME NEW packed, NEW s, NEW rest, NEW spot \in Nat, NEW m \in Nat, NEW r \in Nat,
           RunEnds(s, m, r, rest), Behind(packed, spot, s)
    PROVE  Goes(packed, spot, m, r, s, rest)
<1> USE DEF RunEnds, Goes
<1>1. Len(packed) = spot + (m + r) /\ \A j \in 1..(m + r) : packed[spot + j] = s[j]
    BY DEF Behind
<1>2. ASSUME NEW j \in 1..r PROVE packed[spot + m + j] = rest[j]
    <2>1. m + j \in 1..(m + r) /\ spot + (m + j) = spot + m + j
        OBVIOUS
    <2>2. packed[spot + (m + j)] = s[m + j]
        BY <1>1, <2>1
    <2> QED
        BY <2>1, <2>2
<1>3. \A j \in 1..m : j \in 1..(m + r)
    OBVIOUS
<1> QED
    BY <1>1, <1>2, <1>3 DEF Behind

\* An iterator stands for the i-th pixel, for more of them that are equal, and for what is behind:
\* the second of a pair, if it is at the first, and the pixels after these.
Stands(n, data, p, packed, it, i) ==
    /\ it \in [at : Nat, rem : Nat] /\ i + it.rem <= n
    /\ \A j \in 0..it.rem : packed[it.at] = data[i + j]
    /\ \/ Behind(packed, it.at, p[n - (i + it.rem)])
       \/ /\ it.rem = 0 /\ i < n /\ packed[it.at + 1] = data[i + 1]
          /\ Behind(packed, it.at + 1, p[n - (i + 1)])

\* A run is entered at its first pixel.
LEMMA RunEntered ==
    ASSUME NEW n, NEW P, NEW data, NEW p, PackedBy(n, P, data, p),
           NEW packed, NEW spot \in Nat, NEW i \in 0..(n - 1), Behind(packed, spot, p[n - i])
    PROVE  Stands(n, data, p, packed, O!Enter(packed, spot + 1), i + 1)
<1>1. n \in Nat /\ data \in [1..n -> P] /\ \A px \in P : ~O!IsForm(px)
    BY DEF PackedBy, Frames
<1>2. PICK k \in 1..n : k = n - i /\ n - k + 1 = i + 1
    BY <1>1
<1>3. PICK l \in 1..k : l = O!Length(data, i + 1, k) /\ \A j \in 1..(l - 1) : data[i + 1 + j] = data[i + 1]
    <2>1. i + 1 \in Nat /\ k \in Nat \ {0}
        BY <1>1, <1>2
    <2> QED
        BY <2>1, LengthIs
<1>4. PICK px \in P : px = data[i + 1]
    BY <1>1
<1>5. PICK rest \in Seq(P \cup Forms) : rest = p[k - l]
    <2>1. k - l \in 0..n
        BY <1>1
    <2> QED
        BY <2>1 DEF PackedBy
<1>6. p[k] = O!Run(px, l) \o rest
    BY <1>2, <1>3, <1>4, <1>5 DEF PackedBy
<1>7. Len(rest) \in Nat /\ k - l = n - (i + 1 + (l - 1))
    BY <1>1, <1>2, LenProperties
<1>8. Behind(packed, spot, p[k])
    BY <1>2
<1>9. ~O!IsForm(px)
    BY <1>1
<1>10. CASE l = 1
    <2>1. p[k] = <<px>> \o rest
        BY <1>6, <1>10 DEF O!Run
    <2>2. <<px>> \in Seq(P \cup Forms) /\ Len(<<px>>) = 1 /\ <<px>>[1] = px
        OBVIOUS
    <2>3. /\ Len(p[k]) = 1 + Len(rest) /\ p[k][1] = px
          /\ \A j \in 1..Len(rest) : p[k][1 + j] = rest[j]
        BY <2>1, <2>2, <1>7, ConcatProperties
    <2>4. /\ packed[spot + 1] = px /\ Len(packed) = spot + 1 + Len(rest)
          /\ Behind(packed, spot + 1, rest)
        <3>1. 1 \in 1..1
            OBVIOUS
        <3>2. /\ Behind(packed, spot + 1, rest) /\ Len(packed) = spot + 1 + Len(rest)
              /\ \A j \in 1..1 : packed[spot + j] = p[k][j]
            <4>1. PICK m \in Nat, r \in Nat : /\ m = 1 /\ Len(rest) = r /\ Len(p[k]) = m + r
                                              /\ \A j \in 1..r : p[k][m + j] = rest[j]
                BY <2>3, <1>7
            <4>2. /\ Behind(packed, spot + m, rest) /\ Len(packed) = spot + m + r
                  /\ \A j \in 1..m : packed[spot + j] = p[k][j]
                <5>1. PICK s : s = p[k]
                    OBVIOUS
                <5>2. Len(s) = m + r /\ (\A j \in 1..r : s[m + j] = rest[j]) /\ Behind(packed, spot, s)
                    BY <4>1, <5>1, <1>8
                <5>3. /\ Behind(packed, spot + m, rest) /\ Len(packed) = spot + m + r
                      /\ \A j \in 1..m : packed[spot + j] = s[j]
                    <6>1. RunEnds(s, m, r, rest)
                        BY <4>1, <5>2 DEF RunEnds
                    <6>2. Goes(packed, spot, m, r, s, rest)
                        BY <5>2, <6>1, Further
                    <6> QED
                        BY <6>2 DEF Goes
                <5> QED
                    BY <5>1, <5>3
            <4> QED
                BY <4>1, <4>2
        <3> QED
            BY <2>3, <3>1, <3>2
    <2>5. O!Enter(packed, spot + 1) = [at |-> spot + 1, rem |-> 0]
        BY <2>4, <1>9 DEF O!Enter
    <2>6. Behind(packed, spot + 1, p[n - (i + 1 + 0)])
        BY <2>4, <1>5, <1>7, <1>10
    <2> QED
        BY <2>4, <2>5, <2>6, <1>1, <1>4 DEF Stands
<1>11. CASE l = 2
    <2>1. p[k] = <<px, px>> \o rest
        BY <1>6, <1>11 DEF O!Run
    <2>2. <<px, px>> \in Seq(P \cup Forms) /\ Len(<<px, px>>) = 2 /\ <<px, px>>[1] = px /\ <<px, px>>[2] = px
        OBVIOUS
    <2>3. /\ Len(p[k]) = 2 + Len(rest) /\ p[k][1] = px /\ p[k][2] = px
          /\ \A j \in 1..Len(rest) : p[k][2 + j] = rest[j]
        BY <2>1, <2>2, <1>7, ConcatProperties
    <2>4. /\ packed[spot + 1] = px /\ packed[spot + 2] = px /\ Len(packed) = spot + 2 + Len(rest)
          /\ Behind(packed, spot + 2, rest)
        <3>1. 1 \in 1..2 /\ 2 \in 1..2
            OBVIOUS
        <3>2. /\ Behind(packed, spot + 2, rest) /\ Len(packed) = spot + 2 + Len(rest)
              /\ \A j \in 1..2 : packed[spot + j] = p[k][j]
            <4>1. PICK m \in Nat, r \in Nat : /\ m = 2 /\ Len(rest) = r /\ Len(p[k]) = m + r
                                              /\ \A j \in 1..r : p[k][m + j] = rest[j]
                BY <2>3, <1>7
            <4>2. /\ Behind(packed, spot + m, rest) /\ Len(packed) = spot + m + r
                  /\ \A j \in 1..m : packed[spot + j] = p[k][j]
                <5>1. PICK s : s = p[k]
                    OBVIOUS
                <5>2. Len(s) = m + r /\ (\A j \in 1..r : s[m + j] = rest[j]) /\ Behind(packed, spot, s)
                    BY <4>1, <5>1, <1>8
                <5>3. /\ Behind(packed, spot + m, rest) /\ Len(packed) = spot + m + r
                      /\ \A j \in 1..m : packed[spot + j] = s[j]
                    <6>1. RunEnds(s, m, r, rest)
                        BY <4>1, <5>2 DEF RunEnds
                    <6>2. Goes(packed, spot, m, r, s, rest)
                        BY <5>2, <6>1, Further
                    <6> QED
                        BY <6>2 DEF Goes
                <5> QED
                    BY <5>1, <5>3
            <4> QED
                BY <4>1, <4>2
        <3> QED
            BY <2>3, <3>1, <3>2
    <2>5. O!Enter(packed, spot + 1) = [at |-> spot + 1, rem |-> 0]
        BY <2>4, <1>9 DEF O!Enter
    <2>6. Behind(packed, spot + 1 + 1, p[n - (i + 1 + 1)])
        <3>1. spot + 1 + 1 = spot + 2 /\ n - (i + 1 + 1) = k - l
            BY <1>1, <1>2, <1>11
        <3> QED
            BY <2>4, <1>5, <3>1
    <2>7. data[i + 1 + 1] = px /\ i + 1 < n
        BY <1>1, <1>2, <1>3, <1>4, <1>11
    <2>8. spot + 1 + 1 = spot + 2
        OBVIOUS
    <2> QED
        BY <2>4, <2>5, <2>6, <2>7, <2>8, <1>1, <1>4 DEF Stands
<1>12. CASE l > 2
    <2> DEFINE form == [len |-> l]
    <2>1. p[k] = <<form, px>> \o rest
        BY <1>6, <1>12 DEF O!Run
    <2>2. form \in P \cup Forms /\ O!IsForm(form) /\ form.len = l
        BY DEF Forms, O!IsForm
    <2> HIDE DEF form
    <2>3. <<form, px>> \in Seq(P \cup Forms) /\ Len(<<form, px>>) = 2 /\ <<form, px>>[1] = form /\ <<form, px>>[2] = px
        BY <2>2
    <2>4. /\ Len(p[k]) = 2 + Len(rest) /\ p[k][1] = form /\ p[k][2] = px
          /\ \A j \in 1..Len(rest) : p[k][2 + j] = rest[j]
        BY <2>1, <2>3, <1>7, ConcatProperties
    <2>5. /\ packed[spot + 1] = form /\ packed[spot + 2] = px /\ Len(packed) = spot + 2 + Len(rest)
          /\ Behind(packed, spot + 2, rest)
        <3>1. 1 \in 1..2 /\ 2 \in 1..2
            OBVIOUS
        <3>2. /\ Behind(packed, spot + 2, rest) /\ Len(packed) = spot + 2 + Len(rest)
              /\ \A j \in 1..2 : packed[spot + j] = p[k][j]
            <4>1. PICK m \in Nat, r \in Nat : /\ m = 2 /\ Len(rest) = r /\ Len(p[k]) = m + r
                                              /\ \A j \in 1..r : p[k][m + j] = rest[j]
                BY <2>4, <1>7
            <4>2. /\ Behind(packed, spot + m, rest) /\ Len(packed) = spot + m + r
                  /\ \A j \in 1..m : packed[spot + j] = p[k][j]
                <5>1. PICK s : s = p[k]
                    OBVIOUS
                <5>2. Len(s) = m + r /\ (\A j \in 1..r : s[m + j] = rest[j]) /\ Behind(packed, spot, s)
                    BY <4>1, <5>1, <1>8
                <5>3. /\ Behind(packed, spot + m, rest) /\ Len(packed) = spot + m + r
                      /\ \A j \in 1..m : packed[spot + j] = s[j]
                    <6>1. RunEnds(s, m, r, rest)
                        BY <4>1, <5>2 DEF RunEnds
                    <6>2. Goes(packed, spot, m, r, s, rest)
                        BY <5>2, <6>1, Further
                    <6> QED
                        BY <6>2 DEF Goes
                <5> QED
                    BY <5>1, <5>3
            <4> QED
                BY <4>1, <4>2
        <3> QED
            BY <2>4, <3>1, <3>2
    <2>6. O!Enter(packed, spot + 1) = [at |-> spot + 2, rem |-> l - 1]
        BY <2>2, <2>5, <1>7 DEF O!Enter
    <2>7. Behind(packed, spot + 2, p[n - (i + 1 + (l - 1))])
        BY <2>5, <1>5, <1>7
    <2>8. \A j \in 0..(l - 1) : data[i + 1 + j] = px
        <3>1. \A j \in 0..(l - 1) : (j = 0 /\ i + 1 + j = i + 1) \/ j \in 1..(l - 1)
            OBVIOUS
        <3> QED
            BY <3>1, <1>3, <1>4
    <2>9. i + 1 + (l - 1) <= n
        BY <1>1, <1>2
    <2>10. PICK it : /\ it = O!Enter(packed, spot + 1) /\ it \in [at : Nat, rem : Nat]
                     /\ it.at = spot + 2 /\ it.rem = l - 1
        BY <2>6, <1>12
    <2> QED
        BY <2>5, <2>7, <2>8, <2>9, <2>10 DEF Stands
<1> QED
    BY <1>10, <1>11, <1>12

\* The iterator is at the pixel it is asked for.
LEMMA Iterates ==
    ASSUME NEW n, NEW P, NEW data, NEW p, PackedBy(n, P, data, p), NEW packed, packed = p[n]
    PROVE  /\ n > 0 => Stands(n, data, p, packed, O!Begin(packed), 1)
           /\ \A i \in 1..n : \A it : Stands(n, data, p, packed, it, i) =>
                 /\ O!Value(packed, it) = data[i]
                 /\ i < n => Stands(n, data, p, packed, O!Increment(packed, it), i + 1)
<1>1. n \in Nat /\ data \in [1..n -> P] /\ \A px \in P : ~O!IsForm(px)
    BY DEF PackedBy, Frames
<1>2. n > 0 => Stands(n, data, p, packed, O!Begin(packed), 1)
    <2> SUFFICES ASSUME n > 0 PROVE Stands(n, data, p, packed, O!Begin(packed), 1)
        OBVIOUS
    <2>1. p[n] \in Seq(P \cup Forms)
        BY <1>1 DEF PackedBy
    <2>2. Len(packed) \in Nat
        BY <2>1, LenProperties
    <2>3. Behind(packed, 0, p[n - 0])
        BY <1>1, <2>2 DEF Behind
    <2>4. 0 \in 0..(n - 1) /\ 0 + 1 = 1
        BY <1>1
    <2> QED
        BY <2>3, <2>4, RunEntered DEF O!Begin
<1>3. ASSUME NEW i \in 1..n, NEW it, Stands(n, data, p, packed, it, i)
      PROVE  /\ O!Value(packed, it) = data[i]
             /\ i < n => Stands(n, data, p, packed, O!Increment(packed, it), i + 1)
    <2>1. it \in [at : Nat, rem : Nat] /\ i + it.rem <= n /\ \A j \in 0..it.rem : packed[it.at] = data[i + j]
        BY <1>3 DEF Stands
    <2>2. O!Value(packed, it) = data[i]
        <3>1. 0 \in 0..it.rem /\ i + 0 = i
            BY <1>1, <2>1
        <3> QED
            BY <2>1, <3>1 DEF O!Value
    <2>3. ASSUME i < n PROVE Stands(n, data, p, packed, O!Increment(packed, it), i + 1)
        <3>1. CASE it.rem # 0
            <4>1. PICK a \in Nat, r \in Nat \ {0} : it = [at |-> a, rem |-> r]
                BY <2>1, <3>1
            <4>2. O!Increment(packed, it) = [at |-> a, rem |-> r - 1]
                BY <4>1 DEF O!Increment
            <4>3. \A j \in 0..(r - 1) : packed[a] = data[i + 1 + j]
                <5>1. \A j \in 0..(r - 1) : 1 + j \in 0..r /\ i + (1 + j) = i + 1 + j
                    BY <1>1, <4>1
                <5> QED
                    BY <2>1, <4>1, <5>1
            <4>4. Behind(packed, a, p[n - (i + 1 + (r - 1))]) /\ i + 1 + (r - 1) <= n
                <5>1. i + 1 + (r - 1) = i + r
                    BY <1>1, <4>1
                <5> QED
                    BY <1>3, <2>1, <4>1, <5>1 DEF Stands
            <4>5. PICK jt : /\ jt = O!Increment(packed, it) /\ jt \in [at : Nat, rem : Nat]
                            /\ jt.at = a /\ jt.rem = r - 1
                BY <4>2
            <4> QED
                BY <4>3, <4>4, <4>5 DEF Stands
        <3>2. CASE it.rem = 0
            <4>1. PICK a \in Nat : it = [at |-> a, rem |-> 0]
                BY <2>1, <3>2
            <4>2. O!Increment(packed, it) = O!Enter(packed, a + 1)
                BY <4>1 DEF O!Increment
            <4>3. CASE Behind(packed, a, p[n - i])
                BY <1>1, <2>3, <4>2, <4>3, RunEntered
            <4>4. CASE packed[a + 1] = data[i + 1] /\ Behind(packed, a + 1, p[n - (i + 1)])
                <5>1. ~O!IsForm(packed[a + 1])
                    BY <1>1, <2>3, <4>4
                <5>2. O!Enter(packed, a + 1) = [at |-> a + 1, rem |-> 0]
                    BY <5>1 DEF O!Enter
                <5>3. p[n - (i + 1)] = p[n - (i + 1 + 0)] /\ data[i + 1] = data[i + 1 + 0]
                    BY <1>1
                <5> QED
                    BY <1>1, <2>3, <4>2, <4>4, <5>2, <5>3 DEF Stands
            <4>5. i + 0 = i
                BY <1>1
            <4> QED
                BY <1>3, <4>1, <4>3, <4>4, <4>5 DEF Stands
        <3> QED
            BY <3>1, <3>2
    <2> QED
        BY <2>2, <2>3
<1> QED
    BY <1>2, <1>3

-----------------------------------------------------------------------------
(* The output: frames.                                                     *)

LEMMA BlendIsPixel ==
    ASSUME NEW dest, NEW src, ~O!IsForm(dest)
    PROVE  ~O!IsForm(O!Blend(dest, src))
BY DEF O!IsForm, O!Blend

\* Where a pixel lies in a row, and in which.
LEMMA Lies ==
    ASSUME NEW w \in Nat \ {0}, NEW h \in Nat, NEW i \in 0..(w * h - 1)
    PROVE  i % w \in 0..(w - 1) /\ i \div w \in 0..(h - 1) /\ i = w * (i \div w) + (i % w)
<1>1. w * h \in Nat /\ i \in Nat
    OBVIOUS
<1>2. i % w \in 0..(w - 1) /\ i \div w \in Nat /\ i = w * (i \div w) + (i % w)
    BY <1>1
<1>3. PICK q \in Nat : q = i \div w
    BY <1>2
<1>4. q >= h => w * q >= w * h
    OBVIOUS
<1>5. w * q <= i /\ i < w * h
    BY <1>2, <1>3
<1>6. w * q \in Nat /\ w * h \in Nat
    OBVIOUS
<1>7. q < h
    BY <1>4, <1>5, <1>6
<1> QED
    BY <1>2, <1>3, <1>7

\* What Inscribe does to a pixel at column c is there where the view covers it.
LEMMA InsideIs ==
    ASSUME NEW from \in Int, NEW wide \in Nat, NEW limit \in Nat, NEW c \in 0..(limit - 1)
    PROVE  c - from \in O!Inside(from, wide, limit) <=> c >= from /\ c < from + wide
BY DEF O!Inside

\* A frame has a pixel for each cell, and they are what is seen of the scene.
LEMMA FrameIs ==
    ASSUME NEW s \in O!Scenes
    PROVE  \E w, h \in Nat \ {0} : \E data, P :
              /\ s.size = <<w, h>> /\ O!FrameOf(s) = [w |-> w, h |-> h, data |-> data]
              /\ w * h \in Nat \ {0} /\ Frames(w * h, P, data)
              /\ \A i \in 1..(w * h) : data[i] = O!Seen(s, i)
<1>1. PICK sz \in Sizes, b \in Bases, v \in Views, x \in -1..2, y \in -1..0 :
          s = [size |-> sz, base |-> b, view |-> v, x |-> x, y |-> y]
    BY DEF O!Scenes
<1>2. PICK w \in Nat \ {0}, h \in Nat \ {0} : sz = <<w, h>>
    BY OutputAssumption
<1>3. /\ v.w \in Nat /\ v.h \in Nat /\ ~O!IsForm(b) /\ w * h \in Nat \ {0}
      /\ x \in Int /\ y \in Int
    BY OutputAssumption DEF O!IsForm
<1>4. s.size = <<w, h>> /\ s.base = b /\ s.view = v /\ s.x = x /\ s.y = y /\ s.size[1] = w /\ s.size[2] = h
    BY <1>1, <1>2
<1> DEFINE Px(i) == IF ((i - 1) % w) - x \in O!Inside(x, v.w, w) /\ ((i - 1) \div w) - y \in O!Inside(y, v.h, h)
                    THEN O!Blend(b, O!At(v, ((i - 1) % w) - x, ((i - 1) \div w) - y)) ELSE b
           data == [i \in 1..(w * h) |-> Px(i)]
           P == {Px(i) : i \in 1..(w * h)}
<1>5. O!FrameOf(s) = [w |-> w, h |-> h, data |-> data]
    <2>1. O!Filled(w, h, b) = [w |-> w, h |-> h, data |-> [i \in 1..(w * h) |-> b]]
        BY DEF O!Filled
    <2>2. O!FrameOf(s) = O!Inscribe(O!Filled(w, h, b), x, y, v)
        BY <1>4 DEF O!FrameOf
    <2>3. PICK f : f = O!Filled(w, h, b)
        OBVIOUS
    <2>4. /\ f = [w |-> w, h |-> h, data |-> f.data] /\ f.w = w /\ f.h = h /\ DOMAIN f.data = 1..(w * h)
          /\ \A i \in 1..(w * h) : f.data[i] = b
        BY <2>1, <2>3
    <2> DEFINE New(i) == IF /\ ((i - 1) % f.w) - x \in O!Inside(x, v.w, f.w)
                            /\ ((i - 1) \div f.w) - y \in O!Inside(y, v.h, f.h)
                         THEN O!Blend(f.data[i], O!At(v, ((i - 1) % f.w) - x, ((i - 1) \div f.w) - y))
                         ELSE f.data[i]
    <2>5. O!FrameOf(s) = [f EXCEPT !.data = [i \in DOMAIN f.data |-> New(i)]]
        BY <2>2, <2>3 DEF O!Inscribe
    <2>6. \A i \in 1..(w * h) : New(i) = Px(i)
        BY <2>4
    <2> HIDE DEF New, Px
    <2>7. [i \in DOMAIN f.data |-> New(i)] = [i \in 1..(w * h) |-> Px(i)]
        BY <2>4, <2>6
    <2>8. O!FrameOf(s) = [f EXCEPT !.data = data]
        BY <2>5, <2>7
    <2> HIDE DEF data
    <2> QED
        BY <2>4, <2>8
<1>6. ASSUME NEW i \in 1..(w * h) PROVE data[i] = O!Seen(s, i)
    <2>1. (i - 1) % w \in 0..(w - 1) /\ (i - 1) \div w \in 0..(h - 1)
        <3>1. i - 1 \in 0..(w * h - 1)
            BY <1>3
        <3> QED
            BY <3>1, Lies
    <2>2. PICK c \in 0..(w - 1), r \in 0..(h - 1) : c = (i - 1) % w /\ r = (i - 1) \div w
        BY <2>1
    <2>3. O!Seen(s, i) = IF c >= x /\ c < x + v.w /\ r >= y /\ r < y + v.h
                         THEN O!Blend(b, O!At(v, c - x, r - y)) ELSE b
        BY <1>4, <2>2 DEF O!Seen, O!Covers
    <2>4. /\ c - x \in O!Inside(x, v.w, w) <=> c >= x /\ c < x + v.w
          /\ r - y \in O!Inside(y, v.h, h) <=> r >= y /\ r < y + v.h
        BY <1>3, InsideIs
    <2>5. data[i] = IF c - x \in O!Inside(x, v.w, w) /\ r - y \in O!Inside(y, v.h, h)
                    THEN O!Blend(b, O!At(v, c - x, r - y)) ELSE b
        BY <2>2
    <2> QED
        BY <2>3, <2>4, <2>5
<1>7. \A px \in P : ~O!IsForm(px)
    BY <1>3, BlendIsPixel
<1>8. Frames(w * h, P, data)
    BY <1>3, <1>7 DEF Frames
<1> HIDE DEF data, P
<1> QED
    BY <1>3, <1>4, <1>5, <1>6, <1>8

-----------------------------------------------------------------------------
(* The output: what the steps of a write do to the terminal.               *)

HasAttr(a) == a = [fg |-> a.fg, bg |-> a.bg, style |-> a.style]
Terminal(n, t) == /\ t = [cells |-> t.cells, at |-> t.at, waits |-> t.waits, attr |-> t.attr]
                  /\ DOMAIN t.cells = 1..n /\ HasAttr(t.attr)
Writer(n, r) == /\ r = [t |-> r.t, track |-> r.track, linear |-> r.linear,
                        sequential |-> r.sequential, it |-> r.it]
                /\ Terminal(n, r.t) /\ HasAttr(r.track)
                /\ r.linear \in BOOLEAN /\ r.sequential \in BOOLEAN
\* Without styles
NoStyle(r, px) == r.t.attr.style = {} /\ r.track.style = {} /\ px.style = {}

LEMMA WriterIs ==
    ASSUME NEW n, NEW t, Terminal(n, t), NEW track, HasAttr(track),
           NEW linear \in BOOLEAN, NEW sequential \in BOOLEAN, NEW it,
           NEW c, c = [t |-> t, track |-> track, linear |-> linear, sequential |-> sequential, it |-> it]
    PROVE  /\ Writer(n, c) /\ c.t = t /\ c.track = track /\ c.linear = linear
           /\ c.sequential = sequential /\ c.it = it
<1>1. c.t = t /\ c.track = track /\ c.linear = linear /\ c.sequential = sequential /\ c.it = it
    OBVIOUS
<1> QED
    BY <1>1 DEF Writer

\* u is the terminal t with the cursor at i.
Moved(n, t, i, u) == /\ Terminal(n, u) /\ u.cells = t.cells /\ u.attr = t.attr
                     /\ u.at = i /\ u.waits = FALSE

LEMMA Moves ==
    ASSUME NEW n, NEW t, Terminal(n, t), NEW i
    PROVE  Moved(n, t, i, O!MoveCursor(t, i))
<1>1. PICK cells, spot, waits, attr :
         /\ cells = t.cells /\ attr = t.attr /\ HasAttr(attr) /\ DOMAIN cells = 1..n
         /\ t = [cells |-> cells, at |-> spot, waits |-> waits, attr |-> attr]
    BY DEF Terminal
<1>2. PICK u : u = O!MoveCursor(t, i)
    OBVIOUS
<1>3. u = [cells |-> cells, at |-> i, waits |-> FALSE, attr |-> attr]
    BY <1>1, <1>2 DEF O!MoveCursor
<1>4. Terminal(n, u) /\ u.cells = cells /\ u.at = i /\ u.waits = FALSE /\ u.attr = attr
    <2>1. u.cells = cells /\ u.at = i /\ u.waits = FALSE /\ u.attr = attr
        BY <1>3
    <2> QED
        BY <1>1, <1>3, <2>1 DEF Terminal
<1> QED
    BY <1>1, <1>2, <1>4 DEF Moved

\* The terminal of c is that of r, in the colours of px if nothing was amiss.
Coloured(n, r, px, force, c) ==
    /\ Writer(n, c) /\ c.t.cells = r.t.cells /\ c.t.at = r.t.at /\ c.t.waits = r.t.waits
    /\ c.linear = r.linear /\ c.sequential = r.sequential /\ c.it = r.it
    /\ c.track = O!Attr(px)
    /\ NoStyle(r, px) =>
          /\ c.t.attr.style = {}
          /\ \/ force = TRUE \/ r.t.attr = r.track
             \/ px.fg # r.track.fg /\ px.bg # r.track.bg
             => c.t.attr = O!Attr(px)
LEMMA Colours ==
    ASSUME NEW n, NEW r, Writer(n, r), NEW px, NEW force \in BOOLEAN
    PROVE  Coloured(n, r, px, force, O!Colour(r, px, force))
<1> PICK c : c = O!Colour(r, px, force)
    OBVIOUS
<1> DEFINE bg == force \/ px.bg # r.track.bg
           fg == force \/ px.fg # r.track.fg
           style == (r.t.attr.style \ (r.track.style \ px.style)) \cup (px.style \ r.track.style)
           attr == IF ~bg /\ ~fg THEN O!Reset
                   ELSE [fg |-> IF fg THEN px.fg ELSE r.t.attr.fg,
                         bg |-> IF bg THEN px.bg ELSE r.t.attr.bg, style |-> style]
<1>1. CASE px.style = r.track.style /\ ~bg /\ ~fg
    <2>1. c = r
        BY <1>1 DEF O!Colour
    <2>2. r.track = O!Attr(px)
        BY <1>1 DEF O!Attr, Writer, HasAttr
    <2> QED
        BY <1>1, <2>1, <2>2 DEF NoStyle, Coloured
<1>2. CASE ~ (px.style = r.track.style /\ ~bg /\ ~fg)
    <2>1. PICK t, track : t = r.t /\ track = r.track
        OBVIOUS
    <2>2. r = [t |-> t, track |-> track, linear |-> r.linear, sequential |-> r.sequential, it |-> r.it]
        BY <2>1 DEF Writer
    <2>3. t = [cells |-> t.cells, at |-> t.at, waits |-> t.waits, attr |-> t.attr]
        BY <2>1 DEF Writer, Terminal
    <2>4. c = [t |-> [cells |-> t.cells, at |-> t.at, waits |-> t.waits, attr |-> attr],
               track |-> O!Attr(px), linear |-> r.linear, sequential |-> r.sequential, it |-> r.it]
        <3>1. c = [[r EXCEPT !.track = O!Attr(px)] EXCEPT !.t = [r.t EXCEPT !.attr = attr]]
            BY <1>2, <2>1, <2>2, <2>3 DEF O!Colour
        <3> HIDE DEF attr
        <3>2. PICK now : now = O!Attr(px)
            OBVIOUS
        <3>3. PICK a : a = attr
            OBVIOUS
        <3>4. PICK u : u = [t EXCEPT !.attr = a]
            OBVIOUS
        <3>5. u = [cells |-> t.cells, at |-> t.at, waits |-> t.waits, attr |-> a]
            BY <2>3, <3>4
        <3>6. c = [[r EXCEPT !.track = now] EXCEPT !.t = u]
            BY <2>1, <3>1, <3>2, <3>3, <3>4
        <3>7. c = [t |-> u, track |-> now, linear |-> r.linear, sequential |-> r.sequential, it |-> r.it]
            BY <2>2, <3>6
        <3> QED
            BY <3>2, <3>3, <3>5, <3>7
    <2>5. HasAttr(attr) /\ HasAttr(O!Attr(px))
        BY DEF HasAttr, O!Reset, O!Attr
    <2> HIDE DEF attr
    <2>6. /\ Writer(n, c) /\ c.track = O!Attr(px) /\ c.t.cells = t.cells /\ c.t.at = t.at
          /\ c.t.waits = t.waits /\ c.t.attr = attr
          /\ c.linear = r.linear /\ c.sequential = r.sequential /\ c.it = r.it
        <3>1. /\ DOMAIN t.cells = 1..n /\ r.linear \in BOOLEAN /\ r.sequential \in BOOLEAN
            BY <2>1 DEF Writer, Terminal
        <3>2. PICK u : u = [cells |-> t.cells, at |-> t.at, waits |-> t.waits, attr |-> attr]
            OBVIOUS
        <3>3. u.cells = t.cells /\ u.at = t.at /\ u.waits = t.waits /\ u.attr = attr
            BY <3>2
        <3>4. Terminal(n, u)
            BY <2>5, <3>1, <3>2, <3>3 DEF Terminal
        <3>5. c = [t |-> u, track |-> O!Attr(px), linear |-> r.linear, sequential |-> r.sequential, it |-> r.it]
            BY <2>4, <3>2
        <3>6. c.t = u /\ c.track = O!Attr(px) /\ c.linear = r.linear /\ c.sequential = r.sequential /\ c.it = r.it
            BY <3>5
        <3>7. Writer(n, c)
            BY <2>5, <3>1, <3>4, <3>5, <3>6 DEF Writer
        <3> QED
            BY <3>3, <3>6, <3>7
    <2>7. NoStyle(r, px) => style = {}
        BY DEF NoStyle
    <2>8. NoStyle(r, px) => attr.style = {}
        BY <2>7 DEF O!Reset, attr
    <2>9. ASSUME NoStyle(r, px), force = TRUE \/ r.t.attr = r.track \/ (px.fg # r.track.fg /\ px.bg # r.track.bg)
          PROVE  attr = O!Attr(px)
        <3>1. px.style = {} /\ r.track.style = {} /\ style = {}
            BY <2>7, <2>9 DEF NoStyle
        <3>2. bg \/ fg
            BY <1>2, <3>1
        <3>3. (IF fg THEN px.fg ELSE r.t.attr.fg) = px.fg /\ (IF bg THEN px.bg ELSE r.t.attr.bg) = px.bg
            BY <2>9
        <3> QED
            BY <3>1, <3>2, <3>3 DEF O!Attr, attr
    <2>10. c.t.cells = r.t.cells /\ c.t.at = r.t.at /\ c.t.waits = r.t.waits
        BY <2>1, <2>6
    <2>11. NoStyle(r, px) => c.t.attr.style = {}
        BY <2>6, <2>8
    <2>12. ASSUME NoStyle(r, px), force = TRUE \/ r.t.attr = r.track \/ (px.fg # r.track.fg /\ px.bg # r.track.bg)
           PROVE  c.t.attr = O!Attr(px)
        BY <2>6, <2>9, <2>12
    <2>13. NoStyle(r, px) =>
              /\ c.t.attr.style = {}
              /\ \/ force = TRUE \/ r.t.attr = r.track
                 \/ px.fg # r.track.fg /\ px.bg # r.track.bg
                 => c.t.attr = O!Attr(px)
        BY ONLY <2>11, <2>12
    <2> QED
        BY <2>6, <2>10, <2>13 DEF Coloured
<1> QED
    BY <1>1, <1>2

LEMMA Pushes ==
    ASSUME NEW n \in Nat, NEW r, Writer(n, r), NEW i \in 1..n, r.t.at = i - 1, NEW px, NEW w, NEW c,
           c = O!Push(r, px, w)
    PROVE  /\ Writer(n, c) /\ c.t.at = i /\ c.t.waits = (i % w = 0) /\ c.t.attr = r.t.attr
           /\ \A j \in 1..n : c.t.cells[j] = IF j = i THEN [v |-> O!Glyph(px), attr |-> r.t.attr]
                                             ELSE r.t.cells[j]
           /\ c.linear = r.linear /\ c.sequential = r.sequential /\ c.it = r.it /\ c.track = r.track
<1>1. PICK t : t = r.t
    OBVIOUS
<1>2. PICK cells : cells = t.cells
    OBVIOUS
<1>3. /\ r = [t |-> t, track |-> r.track, linear |-> r.linear, sequential |-> r.sequential, it |-> r.it]
      /\ t = [cells |-> cells, at |-> i - 1, waits |-> t.waits, attr |-> t.attr]
      /\ DOMAIN cells = 1..n
    BY <1>1, <1>2 DEF Writer, Terminal
<1> DEFINE new == [v |-> O!Glyph(px), attr |-> t.attr]
<1>4. O!Put(t, w, px) = [cells |-> [cells EXCEPT ![i] = new], at |-> i, waits |-> (i % w = 0), attr |-> t.attr]
    <2>1. t.at + 1 = i
        BY <1>3
    <2> HIDE DEF new
    <2>2. O!Put(t, w, px) = [t EXCEPT !.cells = [t.cells EXCEPT ![t.at + 1] = new],
                                      !.at = t.at + 1, !.waits = ((t.at + 1) % w = 0)]
        BY <1>3 DEF O!Put, new
    <2> QED
        BY <1>2, <1>3, <2>1, <2>2
<1>5. c = [r EXCEPT !.t = O!Put(t, w, px)]
    BY <1>1, <1>3 DEF O!Push
<1>6. PICK u : u = O!Put(t, w, px)
    OBVIOUS
<1>7. /\ u.at = i /\ u.waits = (i % w = 0) /\ u.attr = t.attr /\ u.cells = [cells EXCEPT ![i] = new]
      /\ u = [cells |-> u.cells, at |-> u.at, waits |-> u.waits, attr |-> u.attr]
    BY <1>4, <1>6
<1>8. [cells EXCEPT ![i] = new] = [j \in 1..n |-> IF j = i THEN new ELSE cells[j]]
    BY <1>3
<1>9. Terminal(n, u)
    <2> HIDE DEF new
    <2>1. DOMAIN u.cells = 1..n
        BY <1>7, <1>8
    <2> QED
        BY <1>1, <1>7, <2>1 DEF Writer, Terminal
<1>10. c.t = u /\ c = [t |-> u, track |-> r.track, linear |-> r.linear, sequential |-> r.sequential, it |-> r.it]
    BY <1>3, <1>5, <1>6
<1>11. /\ Writer(n, c) /\ c.t = u /\ c.track = r.track
       /\ c.linear = r.linear /\ c.sequential = r.sequential /\ c.it = r.it
    <2>1. HasAttr(r.track) /\ r.linear \in BOOLEAN /\ r.sequential \in BOOLEAN
        BY DEF Writer
    <2> QED
        BY <1>9, <1>10, <2>1, WriterIs
<1> HIDE DEF new
<1>12. \A j \in 1..n : u.cells[j] = IF j = i THEN new ELSE cells[j]
    BY <1>7, <1>8
<1> QED
    BY <1>1, <1>2, <1>7, <1>11, <1>12 DEF new

\* A new line goes to where the cursor is, when it waits at the end of the row before.
Followed(n, r, i, c) ==
    /\ Writer(n, c) /\ c.t.at = i - 1 /\ c.t.attr = r.t.attr /\ c.t.cells = r.t.cells
    /\ c.sequential = r.sequential /\ c.it = r.it /\ c.track = r.track

LEMMA Follows ==
    ASSUME NEW n \in Nat, NEW r, Writer(n, r), NEW i \in 1..n, r.t.at = i - 1, NEW w \in Nat \ {0},
           NEW runs \in BOOLEAN, ~runs /\ i > 1 => r.t.waits = ((i - 1) % w = 0),
           NEW c, c = O!Follow(r, i, w, runs)
    PROVE  Followed(n, r, i, c)
<1> USE DEF Followed
<1>1. CASE ~runs /\ i > 1 /\ (i - 1) % w = 0
    <2>1. PICK t : t = r.t
        OBVIOUS
    <2>2. /\ r = [t |-> t, track |-> r.track, linear |-> r.linear, sequential |-> r.sequential, it |-> r.it]
          /\ t = [cells |-> t.cells, at |-> i - 1, waits |-> TRUE, attr |-> t.attr]
        BY <1>1, <2>1 DEF Writer, Terminal
    <2>3. (((i - 1) - 1) \div w + 1) * w = i - 1
        <3>1. PICK k \in Nat : k = i - 1 /\ k > 0 /\ k % w = 0
            BY <1>1
        <3>2. k = w * (k \div w) + (k % w) /\ k \div w \in Nat
            BY <3>1
        <3>3. PICK q \in Nat : k = w * q
            <4>1. k = w * (k \div w)
                BY <3>1, <3>2
            <4> QED
                BY <3>2, <4>1
        <3>4. q # 0
            BY <3>1, <3>3
        <3>5. k - 1 = w * (q - 1) + (w - 1)
            BY <3>3, <3>4
        <3>6. (k - 1) \div w = q - 1
            BY <3>1, <3>4, <3>5
        <3> QED
            BY <3>1, <3>3, <3>4, <3>6
    <2>4. O!NewLine(t, w) = [cells |-> t.cells, at |-> i - 1, waits |-> FALSE, attr |-> t.attr]
        <3>1. O!NewLine(t, w) = [t EXCEPT !.at = (((t.at - 1) \div w) + 1) * w, !.waits = FALSE]
            BY <2>2 DEF O!NewLine
        <3>2. t.at = i - 1
            BY <2>2
        <3> QED
            BY <2>2, <2>3, <3>1, <3>2
    <2>5. c = [t |-> [cells |-> t.cells, at |-> i - 1, waits |-> FALSE, attr |-> t.attr],
               track |-> r.track, linear |-> FALSE, sequential |-> r.sequential, it |-> r.it]
        BY <1>1, <2>1, <2>2, <2>4 DEF O!Follow
    <2>6. /\ Writer(n, c) /\ c.t.cells = t.cells /\ c.t.at = i - 1 /\ c.t.attr = t.attr
          /\ c.sequential = r.sequential /\ c.it = r.it /\ c.track = r.track
        <3>1. /\ DOMAIN t.cells = 1..n /\ HasAttr(t.attr) /\ HasAttr(r.track) /\ r.sequential \in BOOLEAN
            BY <2>1 DEF Writer, Terminal
        <3>2. PICK u : u = [cells |-> t.cells, at |-> i - 1, waits |-> FALSE, attr |-> t.attr]
            OBVIOUS
        <3>3. u.cells = t.cells /\ u.at = i - 1 /\ u.waits = FALSE /\ u.attr = t.attr
            BY <3>2
        <3>4. Terminal(n, u)
            BY <3>1, <3>2, <3>3 DEF Terminal
        <3>5. c = [t |-> u, track |-> r.track, linear |-> FALSE, sequential |-> r.sequential, it |-> r.it]
            BY <2>5, <3>2
        <3>6. c.t = u /\ c.track = r.track /\ c.linear = FALSE /\ c.sequential = r.sequential /\ c.it = r.it
            BY <3>5
        <3>7. Writer(n, c)
            BY <3>1, <3>4, <3>5, <3>6 DEF Writer
        <3> QED
            BY <3>3, <3>6, <3>7
    <2> QED
        BY <2>1, <2>6
<1>2. CASE ~ (~runs /\ i > 1 /\ (i - 1) % w = 0)
    BY <1>2 DEF O!Follow
<1> QED
    BY <1>1, <1>2

-----------------------------------------------------------------------------
(* The output: a clean redraw, and a difference, up to a pixel.            *)

\* A frame of n pixels, in rows of w
Framed(n, w, f) == /\ n \in Nat /\ w \in Nat \ {0} /\ DOMAIN f.data = 1..n /\ f.w = w

\* The first i pixels are shown, the colours too if nothing disturbs them.
ShownTo(i, clear, f, cells) ==
    \A j \in 1..i : /\ cells[j].v = O!Glyph(f.data[j])
                    /\ clear => cells[j].attr = O!Attr(f.data[j])

\* At the first pixel the terminal has the colours the code believes it to have, or both are set.
Cleaned(n, w, f, plain, clear, r, i) ==
    /\ Writer(n, r) /\ r.t.at = i /\ ShownTo(i, clear, f, r.t.cells)
    /\ clear => plain
    /\ plain => r.t.attr.style = {} /\ r.track.style = {} /\ \A j \in 1..n : f.data[j].style = {}
    /\ IF i = 0
       THEN clear /\ n > 0 => \/ r.t.attr = r.track
                              \/ (f.data[1].fg # r.track.fg /\ f.data[1].bg # r.track.bg)
       ELSE /\ r.t.waits = (i % w = 0) /\ r.track = O!Attr(f.data[i])
            /\ clear => r.t.attr = O!Attr(f.data[i])

LEMMA CleanGoesOn ==
    ASSUME NEW n, NEW w, NEW f, Framed(n, w, f), NEW plain \in BOOLEAN, NEW clear \in BOOLEAN,
           NEW i \in 1..n, NEW r, Cleaned(n, w, f, plain, clear, r, i - 1)
    PROVE  Cleaned(n, w, f, plain, clear, O!CleanPixel(r, f, i), i)
<1>1. n \in Nat /\ w \in Nat \ {0} /\ f.w = w /\ i \in Nat /\ i - 1 \in Nat
    BY DEF Framed
<1>2. Writer(n, r) /\ r.t.at = i - 1 /\ ShownTo(i - 1, clear, f, r.t.cells)
    BY DEF Cleaned
<1>3. PICK px : px = f.data[i]
    OBVIOUS
<1>4. PICK begins \in BOOLEAN : begins <=> i = 1 \/ O!Attr(f.data[i - 1]) # O!Attr(px)
    OBVIOUS
<1>5. PICK c : c = IF begins THEN O!Colour(r, px, FALSE) ELSE r
    OBVIOUS
<1>6. PICK d : d = O!Follow(c, i, w, begins)
    OBVIOUS
<1>7. PICK e : e = O!Push(d, px, w)
    OBVIOUS
<1>8. O!CleanPixel(r, f, i) = e
    BY <1>1, <1>3, <1>4, <1>5, <1>6, <1>7 DEF O!CleanPixel
<1>9. (plain => NoStyle(r, px)) /\ (clear => plain)
    BY <1>3 DEF Cleaned, NoStyle
<1>10. /\ i # 1 => r.t.waits = ((i - 1) % w = 0) /\ r.track = O!Attr(f.data[i - 1])
       /\ i # 1 /\ clear => r.t.attr = O!Attr(f.data[i - 1])
       /\ i = 1 /\ clear => r.t.attr = r.track \/ (px.fg # r.track.fg /\ px.bg # r.track.bg)
    BY <1>1, <1>3 DEF Cleaned
<1>11. /\ Writer(n, c) /\ c.t.cells = r.t.cells /\ c.t.at = r.t.at /\ c.t.waits = r.t.waits
       /\ c.track = O!Attr(px)
       /\ plain => c.t.attr.style = {}
       /\ clear => c.t.attr = O!Attr(px)
    <2>1. CASE begins
        <3>1. PICK force \in BOOLEAN : force = FALSE
            OBVIOUS
        <3>2. c = O!Colour(r, px, force)
            BY <1>5, <2>1, <3>1
        <3>3. clear => r.t.attr = r.track \/ (px.fg # r.track.fg /\ px.bg # r.track.bg)
            BY <1>10
        <3>4. Coloured(n, r, px, force, c)
            BY <1>2, <3>2, Colours
        <3> QED
            BY <1>9, <3>3, <3>4 DEF Coloured
    <2>2. CASE ~begins
        <3>1. c = r /\ i # 1 /\ O!Attr(f.data[i - 1]) = O!Attr(px)
            BY <1>4, <1>5, <2>2
        <3> QED
            BY <1>2, <1>9, <1>10, <3>1 DEF NoStyle
    <2> QED
        BY <2>1, <2>2
<1>12. /\ Writer(n, d) /\ d.t.at = i - 1 /\ d.t.attr = c.t.attr /\ d.t.cells = r.t.cells
       /\ d.track = O!Attr(px)
    <2>1. ~begins /\ i > 1 => c.t.waits = ((i - 1) % w = 0)
        BY <1>10, <1>11
    <2>2. c.t.at = i - 1
        BY <1>2, <1>11
    <2>3. /\ Writer(n, d) /\ d.t.at = i - 1 /\ d.t.attr = c.t.attr /\ d.t.cells = c.t.cells
          /\ d.sequential = c.sequential /\ d.it = c.it /\ d.track = c.track
        <3>1. Writer(n, c) /\ n \in Nat
            BY <1>1, <1>11
        <3>2. Followed(n, c, i, d)
            BY <1>1, <1>6, <2>1, <2>2, <3>1, Follows
        <3> QED
            BY <3>2 DEF Followed
    <2> QED
        BY <1>11, <2>3
<1>13. /\ Writer(n, e) /\ e.t.at = i /\ e.t.waits = (i % w = 0) /\ e.t.attr = d.t.attr
       /\ \A j \in 1..n : e.t.cells[j] = IF j = i THEN [v |-> O!Glyph(px), attr |-> d.t.attr]
                                         ELSE d.t.cells[j]
       /\ e.linear = d.linear /\ e.sequential = d.sequential /\ e.it = d.it /\ e.track = d.track
    BY <1>1, <1>7, <1>12, Pushes
<1>14. ShownTo(i, clear, f, e.t.cells)
    <2> SUFFICES ASSUME NEW j \in 1..i
                 PROVE  /\ e.t.cells[j].v = O!Glyph(f.data[j])
                        /\ clear => e.t.cells[j].attr = O!Attr(f.data[j])
        BY DEF ShownTo
    <2>1. CASE j = i
        BY <1>1, <1>3, <1>11, <1>12, <1>13, <2>1
    <2>2. CASE j # i
        <3>1. j \in 1..(i - 1) /\ j \in 1..n
            BY <1>1, <2>2
        <3> QED
            BY <1>2, <1>12, <1>13, <2>2, <3>1 DEF ShownTo
    <2> QED
        BY <2>1, <2>2
<1>15. plain => e.t.attr.style = {} /\ e.track.style = {} /\ \A j \in 1..n : f.data[j].style = {}
    <2>1. plain => O!Attr(px).style = {} /\ \A j \in 1..n : f.data[j].style = {}
        BY <1>3 DEF Cleaned, O!Attr
    <2> QED
        BY <1>11, <1>12, <1>13, <2>1
<1>16. e.track = O!Attr(f.data[i]) /\ (clear => e.t.attr = O!Attr(f.data[i]))
    BY <1>3, <1>11, <1>12, <1>13
<1>17. Cleaned(n, w, f, plain, clear, e, i)
    BY <1>1, <1>9, <1>13, <1>14, <1>15, <1>16 DEF Cleaned
<1> QED
    BY <1>8, <1>17

\* What a difference starts from: the last frame g is shown in cells and is packed.
Undrawn(n, P, g, p, packed, clear, cells) ==
    PackedBy(n, P, g.data, p) /\ packed = p[n] /\ ShownTo(n, clear, g, cells)
\* In the middle of a run the cursor is behind the last pixel, in its colours.
Diffed(n, w, f, g, p, packed, plain, clear, cells, r, i) ==
    /\ Writer(n, r) /\ ShownTo(i, clear, f, r.t.cells)
    /\ \A j \in (i + 1)..n : r.t.cells[j] = cells[j]
    /\ i < n => Stands(n, g.data, p, packed, r.it, i + 1)
    /\ clear => plain
    /\ plain => r.t.attr.style = {} /\ r.track.style = {} /\ \A j \in 1..n : f.data[j].style = {}
    /\ r.sequential =>
          /\ i > 0 /\ r.t.at = i /\ r.t.waits = (i % w = 0) /\ r.track = O!Attr(f.data[i])
          /\ clear => r.t.attr = O!Attr(f.data[i])

\* Only the i-th cell is another, and shows its pixel.
ShownAt(n, i, clear, f, cells, new) ==
    /\ \A j \in 1..n : j # i => new[j] = cells[j]
    /\ new[i].v = O!Glyph(f.data[i]) /\ (clear => new[i].attr = O!Attr(f.data[i]))

LEMMA ShownOn ==
    ASSUME NEW n, NEW i \in 1..n, n \in Nat, NEW clear \in BOOLEAN, NEW f, NEW cells, NEW new,
           ShownTo(i - 1, clear, f, cells), ShownAt(n, i, clear, f, cells, new)
    PROVE  ShownTo(i, clear, f, new)
<1> USE DEF ShownAt
<1> SUFFICES ASSUME NEW j \in 1..i
             PROVE  /\ new[j].v = O!Glyph(f.data[j])
                    /\ clear => new[j].attr = O!Attr(f.data[j])
    BY DEF ShownTo
<1>1. CASE j = i
    BY <1>1
<1>2. CASE j # i
    <2>1. j \in 1..(i - 1) /\ j \in 1..n
        BY <1>2
    <2> QED
        BY <1>2, <2>1 DEF ShownTo
<1> QED
    BY <1>1, <1>2

\* A pixel as before is passed over.
LEMMA SameGoesOn ==
    ASSUME NEW n, NEW w, NEW f, Framed(n, w, f), NEW P, NEW g, NEW p, NEW packed,
           NEW plain \in BOOLEAN, NEW clear \in BOOLEAN, NEW cells, Undrawn(n, P, g, p, packed, clear, cells), NEW i \in 1..n, NEW r,
           Diffed(n, w, f, g, p, packed, plain, clear, cells, r, i - 1), f.data[i] = g.data[i]
    PROVE  Diffed(n, w, f, g, p, packed, plain, clear, cells, O!Same(r, f, i, packed), i)
<1>1. n \in Nat /\ i \in Nat /\ i - 1 \in Nat /\ (i - 1) + 1 = i
    BY DEF Framed
<1>2. PICK e : e = O!Same(r, f, i, packed)
    OBVIOUS
<1>3. e = [t |-> r.t, track |-> r.track, linear |-> ~(i > 1 /\ (i - 1) % f.w = 0),
           sequential |-> FALSE, it |-> O!Increment(packed, r.it)]
    BY <1>2 DEF O!Same, Diffed, Writer
<1>4. /\ e.t = r.t /\ e.track = r.track /\ e.linear = ~(i > 1 /\ (i - 1) % f.w = 0)
      /\ e.sequential = FALSE /\ e.it = O!Increment(packed, r.it)
    BY <1>3
<1>5. Writer(n, e)
    <2>1. Terminal(n, r.t) /\ HasAttr(r.track)
        BY DEF Diffed, Writer
    <2>2. e = [t |-> e.t, track |-> e.track, linear |-> e.linear, sequential |-> e.sequential, it |-> e.it]
        BY <1>3, <1>4
    <2>3. e.linear \in BOOLEAN /\ e.sequential \in BOOLEAN
        BY <1>4
    <2> QED
        BY <1>4, <2>1, <2>2, <2>3 DEF Writer
<1>6. i < n => Stands(n, g.data, p, packed, e.it, i + 1)
    <2>1. Stands(n, g.data, p, packed, r.it, i)
        BY <1>1 DEF Diffed
    <2>2. PackedBy(n, P, g.data, p) /\ packed = p[n]
        BY DEF Undrawn
    <2> QED
        BY <1>4, <2>1, <2>2, Iterates
<1>7. r.t.cells[i] = cells[i] /\ \A j \in (i + 1)..n : r.t.cells[j] = cells[j]
    <2>1. i \in ((i - 1) + 1)..n /\ \A j \in (i + 1)..n : j \in ((i - 1) + 1)..n
        BY <1>1
    <2> QED
        BY <2>1 DEF Diffed
<1>8. ShownTo(i, clear, f, e.t.cells)
    <2>1. cells[i].v = O!Glyph(g.data[i]) /\ (clear => cells[i].attr = O!Attr(g.data[i]))
        BY DEF Undrawn, ShownTo
    <2>2. ShownTo(i - 1, clear, f, r.t.cells)
        BY DEF Diffed
    <2>3. PICK old : old = r.t.cells
        OBVIOUS
    <2>4. ShownAt(n, i, clear, f, old, old)
        BY <1>7, <2>1, <2>3 DEF ShownAt
    <2>5. ShownTo(i, clear, f, old)
        BY <1>1, <2>2, <2>3, <2>4, ShownOn
    <2> QED
        BY <1>4, <2>3, <2>5
<1> QED
    BY <1>2, <1>4, <1>5, <1>6, <1>7, <1>8 DEF Diffed

\* A changed pixel is sent where it belongs.
LEMMA ChangedGoesOn ==
    ASSUME NEW n, NEW w, NEW f, Framed(n, w, f), NEW P, NEW g, NEW p, NEW packed,
           NEW plain \in BOOLEAN, NEW clear \in BOOLEAN, NEW cells, Undrawn(n, P, g, p, packed, clear, cells), NEW i \in 1..n, NEW r,
           Diffed(n, w, f, g, p, packed, plain, clear, cells, r, i - 1)
    PROVE  Diffed(n, w, f, g, p, packed, plain, clear, cells, O!Changed(r, f, i, packed), i)
<1>1. n \in Nat /\ i \in Nat /\ i - 1 \in Nat /\ (i - 1) + 1 = i /\ w \in Nat \ {0} /\ f.w = w
    BY DEF Framed
<1>2. Writer(n, r) /\ ShownTo(i - 1, clear, f, r.t.cells)
    BY DEF Diffed
<1>3. PICK px : px = f.data[i]
    OBVIOUS
<1>4. PICK begins \in BOOLEAN : begins <=> ~r.sequential \/ O!Attr(f.data[i - 1]) # O!Attr(px)
    OBVIOUS
<1>5. PICK c : c = IF begins THEN O!BeginRun(r, px, i) ELSE r
    OBVIOUS
<1>6. PICK d : d = O!Follow(c, i, w, begins)
    OBVIOUS
<1>7. PICK e : e = O!Push(d, px, w)
    OBVIOUS
<1>8. O!Changed(r, f, i, packed) = [e EXCEPT !.it = O!Increment(packed, e.it)]
    BY <1>1, <1>3, <1>4, <1>5, <1>6, <1>7 DEF O!Changed
<1>9. (plain => NoStyle(r, px)) /\ (clear => plain)
    BY <1>3 DEF Diffed, NoStyle
<1>10. r.sequential => /\ i > 1 /\ r.t.at = i - 1 /\ r.t.waits = ((i - 1) % w = 0)
                       /\ r.track = O!Attr(f.data[i - 1])
                       /\ clear => r.t.attr = O!Attr(f.data[i - 1])
    BY <1>1 DEF Diffed
<1>11. /\ Writer(n, c) /\ c.t.cells = r.t.cells /\ c.t.at = i - 1 /\ c.sequential = TRUE /\ c.it = r.it
       /\ c.track = O!Attr(px) /\ (~begins /\ i > 1 => c.t.waits = ((i - 1) % w = 0))
       /\ plain => c.t.attr.style = {}
       /\ clear => c.t.attr = O!Attr(px)
    <2>1. CASE begins
        <3>1. PICK spot : spot = IF r.linear /\ r.sequential THEN r.t ELSE O!MoveCursor(r.t, i - 1)
            OBVIOUS
        <3>2. Terminal(n, spot) /\ spot.cells = r.t.cells /\ spot.at = i - 1 /\ spot.attr = r.t.attr
            <4>1. Terminal(n, r.t)
                BY <1>2 DEF Writer
            <4>2. PICK u : u = r.t
                OBVIOUS
            <4>3. PICK v : v = O!MoveCursor(u, i - 1)
                OBVIOUS
            <4>4. Terminal(n, v) /\ v.cells = u.cells /\ v.at = i - 1 /\ v.attr = u.attr
                <5>1. PICK j : j = i - 1
                    OBVIOUS
                <5>2. Terminal(n, u)
                    BY <4>1, <4>2
                <5>3. Moved(n, u, j, O!MoveCursor(u, j))
                    BY <5>2, Moves
                <5> QED
                    BY <4>3, <5>1, <5>3 DEF Moved
            <4>5. CASE r.linear /\ r.sequential
                BY <1>10, <3>1, <4>1, <4>5
            <4>6. CASE ~(r.linear /\ r.sequential)
                BY <3>1, <4>2, <4>3, <4>4, <4>6
            <4> QED
                BY <4>5, <4>6
        <3>3. PICK q : q = [r EXCEPT !.t = spot]
            OBVIOUS
        <3>4. /\ q = [t |-> spot, track |-> r.track, linear |-> r.linear, sequential |-> r.sequential, it |-> r.it]
              /\ q.t = spot /\ q.track = r.track /\ q.linear = r.linear /\ q.sequential = r.sequential /\ q.it = r.it
            BY <1>2, <3>3 DEF Writer
        <3>5. Writer(n, q)
            BY <1>2, <3>2, <3>4 DEF Writer
        <3>6. PICK force \in BOOLEAN : force = ~r.sequential
            OBVIOUS
        <3>7. PICK b : b = O!Colour(q, px, force)
            OBVIOUS
        <3>8. Coloured(n, q, px, force, b)
            BY <3>5, <3>7, Colours
        <3>9. c = [b EXCEPT !.linear = TRUE, !.sequential = TRUE]
            BY <1>5, <2>1, <3>1, <3>3, <3>6, <3>7 DEF O!BeginRun
        <3>10. /\ c = [t |-> b.t, track |-> b.track, linear |-> TRUE, sequential |-> TRUE, it |-> b.it]
               /\ c.t = b.t /\ c.track = b.track /\ c.linear = TRUE /\ c.sequential = TRUE /\ c.it = b.it
            BY <3>8, <3>9 DEF Coloured, Writer
        <3>11. Writer(n, c)
            BY <3>8, <3>10 DEF Coloured, Writer
        <3>12. /\ plain => NoStyle(q, px)
               /\ clear => force = TRUE \/ q.t.attr = q.track
            <4>1. ASSUME clear, ~ force PROVE q.t.attr = q.track
                BY <4>1, <1>10, <3>2, <3>4, <3>6
            <4>2. plain => NoStyle(q, px)
                BY <1>9, <3>2, <3>4 DEF NoStyle
            <4> QED
                BY <4>1, <4>2
        <3>13. (plain => b.t.attr.style = {}) /\ (clear => b.t.attr = O!Attr(px))
            BY <1>9, <3>8, <3>12 DEF Coloured
        <3>14. b.t.cells = r.t.cells /\ b.t.at = i - 1 /\ b.it = r.it /\ b.track = O!Attr(px)
            BY <3>2, <3>4, <3>8 DEF Coloured
        <3> QED
            BY <2>1, <3>10, <3>11, <3>13, <3>14
    <2>2. CASE ~begins
        <3>1. c = r /\ r.sequential /\ O!Attr(f.data[i - 1]) = O!Attr(px)
            BY <1>4, <1>5, <2>2
        <3>2. r.sequential \in BOOLEAN
            BY <1>2 DEF Writer
        <3> QED
            BY <1>2, <1>9, <1>10, <3>1, <3>2 DEF NoStyle
    <2> QED
        BY <2>1, <2>2
<1>12. /\ Writer(n, d) /\ d.t.at = i - 1 /\ d.t.attr = c.t.attr /\ d.t.cells = r.t.cells
       /\ d.sequential = TRUE /\ d.it = r.it /\ d.track = O!Attr(px)
    <2>1. /\ Writer(n, d) /\ d.t.at = i - 1 /\ d.t.attr = c.t.attr /\ d.t.cells = c.t.cells
          /\ d.sequential = c.sequential /\ d.it = c.it /\ d.track = c.track
        <3>1. Writer(n, c) /\ n \in Nat /\ c.t.at = i - 1
            BY <1>1, <1>11
        <3>2. ~begins /\ i > 1 => c.t.waits = ((i - 1) % w = 0)
            BY <1>11
        <3>3. Followed(n, c, i, d)
            BY <1>1, <1>6, <3>1, <3>2, Follows
        <3> QED
            BY <3>3 DEF Followed
    <2> QED
        BY <1>11, <2>1
<1>13. /\ Writer(n, e) /\ e.t.at = i /\ e.t.waits = (i % w = 0) /\ e.t.attr = d.t.attr
       /\ \A j \in 1..n : e.t.cells[j] = IF j = i THEN [v |-> O!Glyph(px), attr |-> d.t.attr]
                                         ELSE d.t.cells[j]
       /\ e.linear = d.linear /\ e.sequential = d.sequential /\ e.it = d.it /\ e.track = d.track
    <2>1. Writer(n, d) /\ d.t.at = i - 1
        BY <1>12
    <2> QED
        BY <1>1, <1>7, <2>1, Pushes
<1>14. PICK k : k = O!Changed(r, f, i, packed)
    OBVIOUS
<1>15. /\ k = [t |-> e.t, track |-> e.track, linear |-> e.linear, sequential |-> e.sequential,
               it |-> O!Increment(packed, r.it)]
       /\ k.t = e.t /\ k.track = e.track /\ k.linear = e.linear /\ k.sequential = e.sequential
       /\ k.it = O!Increment(packed, r.it)
    BY <1>8, <1>12, <1>13, <1>14 DEF Writer
<1>16. Writer(n, k)
    BY <1>13, <1>15 DEF Writer
<1>17. ShownTo(i, clear, f, k.t.cells)
    <2>1. /\ k.t.cells[i] = [v |-> O!Glyph(px), attr |-> d.t.attr]
          /\ \A j \in 1..n : j # i => k.t.cells[j] = r.t.cells[j]
        BY <1>12, <1>13, <1>15
    <2>2. k.t.cells[i].v = O!Glyph(f.data[i]) /\ (clear => k.t.cells[i].attr = O!Attr(f.data[i]))
        BY <1>3, <1>11, <1>12, <2>1
    <2>3. PICK new : new = k.t.cells
        OBVIOUS
    <2>4. PICK old : old = r.t.cells
        OBVIOUS
    <2>5. \A j \in 1..n : j # i => new[j] = old[j]
        BY <2>1, <2>3, <2>4
    <2>6. ShownTo(i - 1, clear, f, old)
        BY <1>2, <2>4
    <2>7. new[i].v = O!Glyph(f.data[i]) /\ (clear => new[i].attr = O!Attr(f.data[i]))
        BY <2>2, <2>3
    <2>8. ShownTo(i, clear, f, new)
        <3>1. ShownAt(n, i, clear, f, old, new)
            BY <2>5, <2>7 DEF ShownAt
        <3> QED
            BY <1>1, <2>6, <3>1, ShownOn
    <2> QED
        BY <2>3, <2>8
<1>18. \A j \in (i + 1)..n : k.t.cells[j] = cells[j]
    <2>1. \A j \in (i + 1)..n : j \in 1..n /\ j # i /\ j \in ((i - 1) + 1)..n
        BY <1>1
    <2>2. \A j \in ((i - 1) + 1)..n : r.t.cells[j] = cells[j]
        BY DEF Diffed
    <2>3. \A j \in 1..n : j # i => k.t.cells[j] = r.t.cells[j]
        BY <1>12, <1>13, <1>15
    <2> QED
        BY <2>1, <2>2, <2>3
<1>19. i < n => Stands(n, g.data, p, packed, k.it, i + 1)
    <2>1. Stands(n, g.data, p, packed, r.it, i)
        BY <1>1 DEF Diffed
    <2>2. PackedBy(n, P, g.data, p) /\ packed = p[n]
        BY DEF Undrawn
    <2> QED
        BY <1>15, <2>1, <2>2, Iterates
<1>20. plain => k.t.attr.style = {} /\ k.track.style = {} /\ \A j \in 1..n : f.data[j].style = {}
    <2>1. plain => O!Attr(px).style = {} /\ \A j \in 1..n : f.data[j].style = {}
        BY <1>3 DEF Diffed, O!Attr
    <2> QED
        BY <1>11, <1>12, <1>13, <1>15, <2>1
<1>21. /\ k.t.at = i /\ k.t.waits = (i % w = 0) /\ k.track = O!Attr(f.data[i])
       /\ clear => k.t.attr = O!Attr(f.data[i])
    BY <1>3, <1>11, <1>12, <1>13, <1>15
<1>22. Diffed(n, w, f, g, p, packed, plain, clear, cells, k, i)
    BY <1>1, <1>9, <1>16, <1>17, <1>18, <1>19, <1>20, <1>21 DEF Diffed
<1> QED
    BY <1>14, <1>22

-----------------------------------------------------------------------------
(* The output: all pixels of a frame.                                      *)

Opening(t, packed) == [t |-> O!MoveCursor(t, 0), track |-> O!Reset, linear |-> FALSE,
                     sequential |-> FALSE, it |-> O!Begin(packed)]
\* What is sent after 0, 1, ... m pixels
Sends(m, t, f, packed, clean, sent) ==
    sent = [i \in 0..m |-> IF i = 0 THEN Opening(t, packed)
                           ELSE IF clean THEN O!CleanPixel(sent[i - 1], f, i)
                           ELSE O!DeltaPixel(sent[i - 1], f, i, packed)]

LEMMA SendsExists ==
    \A t, f, packed, clean : \A m \in Nat : \E sent : Sends(m, t, f, packed, clean, sent)
<1> TAKE t, f, packed, clean
<1> DEFINE T == {m \in Nat : \E sent : Sends(m, t, f, packed, clean, sent)}
<1>1. 0 \in T
    <2>1. Sends(0, t, f, packed, clean, [i \in 0..0 |-> Opening(t, packed)])
        BY DEF Sends
    <2> QED
        BY <2>1
<1>2. ASSUME NEW m \in Nat, m \in T
      PROVE  m + 1 \in T
    <2>1. PICK s : Sends(m, t, f, packed, clean, s)
        BY <1>2
    <2> DEFINE OnePixel(r, i) == IF clean THEN O!CleanPixel(r, f, i) ELSE O!DeltaPixel(r, f, i, packed)
               g == [i \in 0..(m + 1) |-> IF i = m + 1 THEN OnePixel(s[m], m + 1) ELSE s[i]]
    <2> HIDE DEF OnePixel
    <2>2. /\ g = [i \in 0..(m + 1) |-> g[i]] /\ g[m + 1] = OnePixel(s[m], m + 1)
          /\ \A i \in 0..m : g[i] = s[i]
        OBVIOUS
    <2> HIDE DEF g
    <2>3. \A i \in 0..m : s[i] = IF i = 0 THEN Opening(t, packed) ELSE OnePixel(s[i - 1], i)
        BY <2>1 DEF Sends, OnePixel
    <2>4. ASSUME NEW i \in 0..(m + 1)
          PROVE  g[i] = IF i = 0 THEN Opening(t, packed) ELSE OnePixel(g[i - 1], i)
        <3>1. CASE i = m + 1
            <4>1. i # 0 /\ i - 1 = m /\ m \in 0..m
                BY <3>1
            <4> QED
                BY <2>2, <3>1, <4>1
        <3>2. CASE i # m + 1
            <4>1. i \in 0..m /\ (i # 0 => i - 1 \in 0..m)
                BY <3>2
            <4> QED
                BY <2>2, <2>3, <4>1
        <3> QED
            BY <3>1, <3>2
    <2>5. Sends(m + 1, t, f, packed, clean, g)
        BY <2>2, <2>4 DEF Sends, OnePixel
    <2> QED
        BY <2>5
<1>3. Nat \subseteq T
    <2> HIDE DEF T
    <2> QED
        BY <1>1, <1>2, Induction
<1> QED
    BY <1>3

\* A frame is sent pixel by pixel.
SentBy(n, t, f, packed, clean, s) ==
    /\ s[0] = Opening(t, packed)
    /\ \A i \in 1..n : s[i] = IF clean THEN O!CleanPixel(s[i - 1], f, i)
                              ELSE O!DeltaPixel(s[i - 1], f, i, packed)

LEMMA SentIs ==
    ASSUME NEW t, NEW f, NEW packed, NEW clean, NEW n \in Nat, f.w * f.h = n
    PROVE  \E s : O!Sent(t, f, packed, clean) = s[n].t /\ SentBy(n, t, f, packed, clean, s)
<1>1. PICK s : s = CHOOSE q : Sends(n, t, f, packed, clean, q)
    OBVIOUS
<1>2. O!Sent(t, f, packed, clean) = s[n].t
    BY <1>1 DEF O!Sent, Sends, Opening
<1>3. Sends(n, t, f, packed, clean, s)
    BY <1>1, SendsExists
<1>4. \A i \in 0..n : s[i] = IF i = 0 THEN Opening(t, packed)
                             ELSE IF clean THEN O!CleanPixel(s[i - 1], f, i)
                             ELSE O!DeltaPixel(s[i - 1], f, i, packed)
    BY <1>3 DEF Sends
<1>5. 0 \in 0..n /\ \A i \in 1..n : i \in 0..n /\ i # 0
    OBVIOUS
<1> QED
    BY <1>2, <1>4, <1>5 DEF SentBy

Started(n, t, packed, r) ==
    /\ Writer(n, r) /\ r.t.at = 0 /\ r.t.cells = t.cells /\ r.t.attr = t.attr
    /\ r.track = O!Reset /\ r.sequential = FALSE /\ r.it = O!Begin(packed)

LEMMA StartIs ==
    ASSUME NEW n, NEW t, Terminal(n, t), NEW packed
    PROVE  Started(n, t, packed, Opening(t, packed))
<1> PICK r : r = Opening(t, packed)
    OBVIOUS
<1>1. PICK u : u = O!MoveCursor(t, 0)
    OBVIOUS
<1>2. Moved(n, t, 0, u)
    BY <1>1, Moves
<1>3. HasAttr(O!Reset)
    BY DEF HasAttr, O!Reset
<1>4. /\ r = [t |-> u, track |-> O!Reset, linear |-> FALSE, sequential |-> FALSE, it |-> O!Begin(packed)]
      /\ r.t = u /\ r.track = O!Reset /\ r.linear = FALSE /\ r.sequential = FALSE /\ r.it = O!Begin(packed)
    BY <1>1 DEF Opening
<1> QED
    BY <1>2, <1>3, <1>4 DEF Moved, Writer, Started

\* Nothing has a style.
Unstyled(n, f, t) == t.attr.style = {} /\ \A j \in 1..n : f.data[j].style = {}
\* The first colours are not left to what the terminal has.
ColoursSet(f, t) == \/ t.attr = O!Reset
                    \/ f.data[1].fg # O!Reset.fg /\ f.data[1].bg # O!Reset.bg
Shows(n, f, plain, clear, u) ==
    Terminal(n, u) /\ ShownTo(n, clear, f, u.cells) /\ (plain => u.attr.style = {})

\* A clean redraw shows the frame.
LEMMA CleanShows ==
    ASSUME NEW n, NEW w, NEW f, Framed(n, w, f), n > 0, f.w * f.h = n, NEW packed,
           NEW plain \in BOOLEAN, NEW clear \in BOOLEAN, clear => plain,
           NEW t, Terminal(n, t), plain => Unstyled(n, f, t),
           clear => ColoursSet(f, t)
    PROVE  Shows(n, f, plain, clear, O!Sent(t, f, packed, TRUE))
<1> PICK u : u = O!Sent(t, f, packed, TRUE)
    OBVIOUS
<1> USE DEF Unstyled, ColoursSet, Shows
<1>1. n \in Nat
    BY DEF Framed
<1>2. PICK s : u = s[n].t /\ SentBy(n, t, f, packed, TRUE, s)
    BY <1>1, SentIs
<1> DEFINE T == {i \in Nat : i <= n => Cleaned(n, w, f, plain, clear, s[i], i)}
<1>3. 0 \in T
    <2>1. PICK r : r = s[0]
        OBVIOUS
    <2>2. /\ Writer(n, r) /\ r.t.at = 0 /\ r.t.cells = t.cells /\ r.t.attr = t.attr
          /\ r.track = O!Reset /\ r.sequential = FALSE /\ r.it = O!Begin(packed)
        <3>1. r = Opening(t, packed)
            BY <1>2, <2>1 DEF SentBy
        <3>2. Started(n, t, packed, r)
            BY <3>1, StartIs
        <3> QED
            BY <3>2 DEF Started
    <2>3. O!Reset.style = {}
        BY DEF O!Reset
    <2>4. ShownTo(0, clear, f, r.t.cells)
        BY DEF ShownTo
    <2>5. Cleaned(n, w, f, plain, clear, r, 0)
        BY <2>2, <2>3, <2>4 DEF Cleaned
    <2> QED
        BY <2>1, <2>5
<1>4. ASSUME NEW m \in Nat, m \in T
      PROVE  m + 1 \in T
    <2>1. SUFFICES ASSUME m + 1 <= n PROVE Cleaned(n, w, f, plain, clear, s[m + 1], m + 1)
        OBVIOUS
    <2>2. PICK r : r = s[m]
        OBVIOUS
    <2>3. PICK i \in 1..n : i = m + 1
        BY <1>1, <2>1
    <2>4. Cleaned(n, w, f, plain, clear, r, i - 1)
        BY <1>1, <1>4, <2>1, <2>2, <2>3
    <2>5. s[i] = O!CleanPixel(r, f, i)
        BY <1>2, <2>2, <2>3 DEF SentBy
    <2>6. Cleaned(n, w, f, plain, clear, O!CleanPixel(r, f, i), i)
        BY <2>4, CleanGoesOn
    <2> QED
        BY <2>3, <2>5, <2>6
<1>5. Nat \subseteq T
    <2> HIDE DEF T
    <2> QED
        BY <1>3, <1>4, Induction
<1>6. PICK r : r = s[n]
    OBVIOUS
<1>7. Cleaned(n, w, f, plain, clear, r, n)
    BY <1>1, <1>5, <1>6
<1> QED
    BY <1>2, <1>6, <1>7 DEF Cleaned, Writer

\* What is sent of the difference to the frame before shows the frame.
LEMMA DiffShows ==
    ASSUME NEW n, NEW w, NEW f, Framed(n, w, f), n > 0, f.w * f.h = n,
           NEW P, NEW g, NEW p, NEW packed, NEW plain \in BOOLEAN, NEW clear \in BOOLEAN, clear => plain,
           NEW t, Terminal(n, t), plain => Unstyled(n, f, t),
           NEW cells, cells = t.cells, Undrawn(n, P, g, p, packed, clear, cells)
    PROVE  Shows(n, f, plain, clear, O!Sent(t, f, packed, FALSE))
<1> PICK u : u = O!Sent(t, f, packed, FALSE)
    OBVIOUS
<1> USE DEF Unstyled, Shows
<1>1. n \in Nat
    BY DEF Framed
<1>2. PICK s : u = s[n].t /\ SentBy(n, t, f, packed, FALSE, s)
    BY <1>1, SentIs
<1>3. PackedBy(n, P, g.data, p) /\ packed = p[n]
    BY DEF Undrawn
<1> DEFINE T == {i \in Nat : i <= n => Diffed(n, w, f, g, p, packed, plain, clear, cells, s[i], i)}
<1>4. 0 \in T
    <2>1. PICK r : r = s[0]
        OBVIOUS
    <2>2. /\ Writer(n, r) /\ r.t.at = 0 /\ r.t.cells = t.cells /\ r.t.attr = t.attr
          /\ r.track = O!Reset /\ r.sequential = FALSE /\ r.it = O!Begin(packed)
        <3>1. r = Opening(t, packed)
            BY <1>2, <2>1 DEF SentBy
        <3>2. Started(n, t, packed, r)
            BY <3>1, StartIs
        <3> QED
            BY <3>2 DEF Started
    <2>3. O!Reset.style = {}
        BY DEF O!Reset
    <2>4. ShownTo(0, clear, f, r.t.cells)
        BY DEF ShownTo
    <2>5. Stands(n, g.data, p, packed, r.it, 0 + 1)
        BY <1>3, <2>2, Iterates
    <2>6. Diffed(n, w, f, g, p, packed, plain, clear, cells, r, 0)
        BY <2>2, <2>3, <2>4, <2>5 DEF Diffed
    <2> QED
        BY <2>1, <2>6
<1>5. ASSUME NEW m \in Nat, m \in T
      PROVE  m + 1 \in T
    <2>1. SUFFICES ASSUME m + 1 <= n
                   PROVE  Diffed(n, w, f, g, p, packed, plain, clear, cells, s[m + 1], m + 1)
        OBVIOUS
    <2>2. PICK r : r = s[m]
        OBVIOUS
    <2>3. PICK i \in 1..n : i = m + 1
        BY <1>1, <2>1
    <2>4. Diffed(n, w, f, g, p, packed, plain, clear, cells, r, i - 1)
        BY <1>1, <1>5, <2>1, <2>2, <2>3
    <2>5. s[i] = O!DeltaPixel(r, f, i, packed)
        BY <1>2, <2>2, <2>3 DEF SentBy
    <2>6. O!Value(packed, r.it) = g.data[i]
        <3>1. PICK it : it = r.it
            OBVIOUS
        <3>2. i - 1 < n /\ (i - 1) + 1 = i
            BY <1>1
        <3>3. Stands(n, g.data, p, packed, it, i)
            BY <2>4, <3>1, <3>2 DEF Diffed
        <3> QED
            BY <1>3, <3>1, <3>3, Iterates
    <2>7. CASE f.data[i] = g.data[i]
        <3>1. s[i] = O!Same(r, f, i, packed)
            BY <2>5, <2>6, <2>7 DEF O!DeltaPixel
        <3>2. Diffed(n, w, f, g, p, packed, plain, clear, cells, O!Same(r, f, i, packed), i)
            BY <2>4, <2>7, SameGoesOn
        <3> QED
            BY <2>3, <3>1, <3>2
    <2>8. CASE f.data[i] # g.data[i]
        <3>1. s[i] = O!Changed(r, f, i, packed)
            BY <2>5, <2>6, <2>8 DEF O!DeltaPixel
        <3>2. Diffed(n, w, f, g, p, packed, plain, clear, cells, O!Changed(r, f, i, packed), i)
            BY <2>4, ChangedGoesOn
        <3> QED
            BY <2>3, <3>1, <3>2
    <2> QED
        BY <2>7, <2>8
<1>6. Nat \subseteq T
    <2> HIDE DEF T
    <2> QED
        BY <1>4, <1>5, Induction
<1>7. PICK r : r = s[n]
    OBVIOUS
<1>8. Diffed(n, w, f, g, p, packed, plain, clear, cells, r, n)
    BY <1>1, <1>6, <1>7
<1> QED
    BY <1>2, <1>7, <1>8 DEF Diffed, Writer

-----------------------------------------------------------------------------
(* The output: the terminal shows the last frame.                          *)

LEMMA SceneIs ==
    ASSUME NEW s \in O!Scenes, NEW n, n = s.size[1] * s.size[2], NEW f, f = O!FrameOf(s)
    PROVE  /\ s # O!NoScene /\ n \in Nat \ {0} /\ f.w * f.h = n
           /\ \E w : Framed(n, w, f)
           /\ \E P : Frames(n, P, f.data)
           /\ \A i \in 1..n : f.data[i] = O!Seen(s, i)
<1> DEFINE Is(w, h, data, P) == /\ s.size = <<w, h>> /\ f = [w |-> w, h |-> h, data |-> data]
                                /\ w * h \in Nat \ {0} /\ Frames(w * h, P, data)
                                /\ \A i \in 1..(w * h) : data[i] = O!Seen(s, i)
<1>0. PICK w \in Nat \ {0}, h \in Nat \ {0} : \E data, P : Is(w, h, data, P)
    BY FrameIs
<1>1. PICK data, P : Is(w, h, data, P)
    BY <1>0
<1>2. n = w * h /\ f.w = w /\ f.h = h /\ f.data = data
    BY <1>1
<1>3. s # O!NoScene
    <2>1. O!NoScene.size = <<0, 0>>
        BY DEF O!NoScene
    <2> QED
        BY <1>1, <2>1
<1>4. Framed(n, w, f)
    BY <1>1, <1>2 DEF Framed, Frames
<1> QED
    BY <1>1, <1>2, <1>3, <1>4

\* Between two writes, the last frame is what was packed; ScreenShown speaks of the terminal.
OutputInv ==
    /\ size \in Sizes /\ Terminal(size[1] * size[2], term)
    /\ styled \in BOOLEAN /\ undone \in BOOLEAN
    /\ ~styled => term.attr.style = {}
    /\ IF scene = O!NoScene THEN size[1] * size[2] # swap.size
       ELSE /\ scene \in O!Scenes /\ scene.size = size /\ swap.size = size[1] * size[2]
            /\ swap.packed = O!Pack(O!FrameOf(scene).data)
    /\ ScreenShown

LEMMA JunkIs ==
    ASSUME NEW n, NEW spot, NEW waits, NEW attr, HasAttr(attr), NEW t,
           t = [cells |-> [i \in 1..n |-> O!Junk], at |-> spot, waits |-> waits, attr |-> attr]
    PROVE  Terminal(n, t) /\ t.attr = attr
<1>1. PICK cells : cells = [i \in 1..n |-> O!Junk]
    OBVIOUS
<1>2. t = [cells |-> cells, at |-> spot, waits |-> waits, attr |-> attr] /\ DOMAIN cells = 1..n
    BY <1>1
<1> QED
    BY <1>2 DEF Terminal

LEMMA OutputInit == O!InitOutput => OutputInv
<1> SUFFICES ASSUME O!InitOutput
             PROVE  OutputInv
    OBVIOUS
<1>1. PICK n : n = size[1] * size[2]
    OBVIOUS
<1>2. n # 0 /\ size \in Sizes
    BY <1>1, OutputAssumption DEF O!InitOutput
<1>3. HasAttr(O!Reset) /\ O!Reset.style = {}
    BY DEF HasAttr, O!Reset
<1>4. Terminal(n, term) /\ term.attr = O!Reset
    BY <1>1, <1>3, JunkIs DEF O!InitOutput
<1>5. scene = O!NoScene /\ swap.size = 0 /\ styled = FALSE /\ undone = FALSE
    BY DEF O!InitOutput
<1> QED
    BY <1>1, <1>2, <1>3, <1>4, <1>5 DEF OutputInv, ScreenShown, O!ScreenShown

LEMMA WriteShows ==
    ASSUME OutputInv, NEW s \in O!Scenes, O!Write(s)
    PROVE  OutputInv'
<1>1. PICK n : n = size[1] * size[2]
    OBVIOUS
<1>2. PICK f : f = O!FrameOf(s)
    OBVIOUS
<1>3. s.size = size /\ size' = size /\ scene' = s /\ swap' = [packed |-> O!Pack(f.data), size |-> f.w * f.h]
    BY <1>2 DEF O!Write, O!WriteFrame
<1>4. /\ s # O!NoScene /\ n \in Nat \ {0} /\ f.w * f.h = n /\ (\E P : Frames(n, P, f.data))
      /\ \A i \in 1..n : f.data[i] = O!Seen(s, i)
    BY <1>1, <1>2, <1>3, SceneIs
<1>5. PICK w : Framed(n, w, f)
    BY <1>1, <1>2, <1>3, SceneIs
<1>6. PICK clean \in BOOLEAN : clean <=> n # swap.size
    OBVIOUS
<1>7. PICK plain \in BOOLEAN : plain <=> ~styled'
    OBVIOUS
<1>8. PICK clear \in BOOLEAN : clear <=> plain /\ ~undone'
    OBVIOUS
<1>9. PICK t : t = term
    OBVIOUS
<1>10. PICK u : u = term'
    OBVIOUS
<1>11. /\ u = O!Sent(t, f, swap.packed, n # swap.size)
       /\ styled' = (styled \/ \E i \in DOMAIN f.data : f.data[i].style # {})
       /\ undone' = IF n # swap.size
                    THEN /\ t.attr # O!Reset
                         /\ f.data[1].fg = O!Reset.fg \/ f.data[1].bg = O!Reset.bg
                    ELSE undone
    BY <1>1, <1>2, <1>9, <1>10 DEF O!Write, O!WriteFrame
<1>12. Terminal(n, t) /\ (plain => Unstyled(n, f, t))
    <2>1. Terminal(n, t)
        BY <1>1, <1>9 DEF OutputInv
    <2>2. ASSUME plain PROVE Unstyled(n, f, t)
        <3>1. ~styled /\ \A i \in DOMAIN f.data : f.data[i].style = {}
            BY <1>7, <1>11, <2>2
        <3>2. t.attr.style = {}
            BY <1>9, <3>1 DEF OutputInv
        <3> QED
            BY <1>5, <3>1, <3>2 DEF Framed, Unstyled
    <2> QED
        BY <2>1, <2>2
<1>13. Shows(n, f, plain, clear, u)
    <2>1. CASE clean
        <3>1. PICK packed : packed = swap.packed
            OBVIOUS
        <3>2. u = O!Sent(t, f, packed, TRUE)
            BY <1>6, <1>11, <2>1, <3>1
        <3>3. clear => ColoursSet(f, t)
            BY <1>6, <1>8, <1>11, <2>1 DEF ColoursSet
        <3>4. n > 0 /\ f.w * f.h = n /\ (clear => plain)
            BY <1>4, <1>8
        <3>5. Shows(n, f, plain, clear, O!Sent(t, f, packed, TRUE))
            BY <1>5, <1>12, <3>3, <3>4, CleanShows
        <3> QED
            BY <3>2, <3>5
    <2>2. CASE ~clean
        <3>1. n = swap.size /\ undone' = undone
            BY <1>6, <1>11, <2>2
        <3>2. PICK old : old = scene
            OBVIOUS
        <3>3. old \in O!Scenes /\ old.size = size /\ swap.packed = O!Pack(O!FrameOf(old).data)
            BY <1>1, <3>1, <3>2 DEF OutputInv
        <3>4. PICK g : g = O!FrameOf(old)
            OBVIOUS
        <3>5. /\ old # O!NoScene /\ (\E P : Frames(n, P, g.data))
              /\ \A i \in 1..n : g.data[i] = O!Seen(old, i)
            BY <1>1, <3>3, <3>4, SceneIs
        <3>6. PICK P : Frames(n, P, g.data)
            BY <3>5
        <3>7. PICK data : data = g.data
            OBVIOUS
        <3>8. PICK p : O!Pack(data) = p[n] /\ PackedBy(n, P, data, p)
            BY <3>6, <3>7, PackIs
        <3>9. PICK packed : packed = swap.packed
            OBVIOUS
        <3>10. PICK cells : cells = t.cells
            OBVIOUS
        <3>11. ShownTo(n, clear, g, cells)
            <4>1. DOMAIN cells = 1..n
                BY <1>12, <3>10 DEF Terminal
            <4>2. \A i \in 1..n : /\ cells[i].v = O!Glyph(O!Seen(old, i))
                                  /\ styled \/ undone \/ cells[i].attr = O!Attr(O!Seen(old, i))
                BY <1>9, <3>2, <3>5, <3>10, <4>1 DEF OutputInv, ScreenShown, O!ScreenShown
            <4>3. clear => ~styled /\ ~undone
                <5>1. plain => ~styled
                    BY <1>7, <1>11
                <5>2. clear => ~undone
                    BY <1>8, <3>1
                <5> QED
                    BY <1>8, <5>1, <5>2
            <4> SUFFICES ASSUME NEW i \in 1..n
                         PROVE  /\ cells[i].v = O!Glyph(g.data[i])
                                /\ clear => cells[i].attr = O!Attr(g.data[i])
                BY DEF ShownTo
            <4>4. g.data[i] = O!Seen(old, i)
                BY <3>5
            <4> QED
                BY <4>2, <4>3, <4>4
        <3>12. Undrawn(n, P, g, p, packed, clear, cells)
            BY <3>3, <3>4, <3>7, <3>8, <3>9, <3>11 DEF Undrawn
        <3>13. u = O!Sent(t, f, packed, FALSE)
            BY <1>6, <1>11, <2>2, <3>9
        <3>14. n > 0 /\ f.w * f.h = n /\ (clear => plain)
            BY <1>4, <1>8
        <3>15. Shows(n, f, plain, clear, O!Sent(t, f, packed, FALSE))
            BY <1>5, <1>12, <3>10, <3>12, <3>14, DiffShows
        <3> QED
            BY <3>13, <3>15
    <2> QED
        BY <2>1, <2>2
<1>14. ScreenShown'
    <2> SUFFICES ASSUME NEW i \in DOMAIN u.cells
                 PROVE  /\ u.cells[i].v = O!Glyph(O!Seen(s, i))
                        /\ styled' \/ undone' \/ u.cells[i].attr = O!Attr(O!Seen(s, i))
        BY <1>3, <1>10 DEF ScreenShown, O!ScreenShown
    <2>1. i \in 1..n
        BY <1>13 DEF Shows, Terminal
    <2>2. f.data[i] = O!Seen(s, i)
        BY <1>4, <2>1
    <2> QED
        BY <1>7, <1>8, <1>13, <2>1, <2>2 DEF Shows, ShownTo
<1>15. styled' \in BOOLEAN /\ undone' \in BOOLEAN
    BY <1>11 DEF OutputInv
<1>16. size' \in Sizes /\ Terminal(n, term') /\ (~styled' => term'.attr.style = {})
    BY <1>1, <1>3, <1>7, <1>10, <1>13 DEF OutputInv, Shows
<1>17. /\ scene' # O!NoScene /\ scene' \in O!Scenes /\ scene'.size = size' /\ swap'.size = n
       /\ swap'.packed = O!Pack(O!FrameOf(scene').data)
    BY <1>2, <1>3, <1>4
<1> QED
    BY <1>1, <1>3, <1>14, <1>15, <1>16, <1>17 DEF OutputInv

LEMMA ResizeShows ==
    ASSUME OutputInv, NEW z \in Sizes, O!Resize(z)
    PROVE  OutputInv'
<1>1. PICK n : n = z[1] * z[2]
    OBVIOUS
<1>2. PICK attr : attr = term.attr
    OBVIOUS
<1>3. HasAttr(attr) /\ (~styled => attr.style = {})
    BY <1>2 DEF OutputInv, Terminal
<1>4. term' = [cells |-> [i \in 1..n |-> O!Junk], at |-> 0, waits |-> FALSE, attr |-> attr]
    <2>1. PICK cells, spot, waits : term = [cells |-> cells, at |-> spot, waits |-> waits, attr |-> attr]
        BY <1>2 DEF OutputInv, Terminal
    <2> QED
        BY <1>1, <2>1 DEF O!Resize
<1>5. Terminal(n, term') /\ term'.attr = attr
    BY <1>3, <1>4, JunkIs
<1>6. n # size[1] * size[2] /\ swap.size = size[1] * size[2]
    BY <1>1 DEF O!Resize, OutputInv
<1>7. size' = z /\ scene' = O!NoScene /\ swap' = swap /\ styled' = styled /\ undone' = undone
    BY DEF O!Resize
<1> QED
    BY <1>1, <1>3, <1>5, <1>6, <1>7 DEF OutputInv, ScreenShown, O!ScreenShown

\* Whatever is drawn, at whatever size, the terminal shows the last frame that was written.
THEOREM ScreenHolds == O!OutputSpec => []ScreenShown
<1>1. O!InitOutput => OutputInv
    BY OutputInit
<1>2. OutputInv /\ [O!OutputStep]_outputVars => OutputInv'
    <2> SUFFICES ASSUME OutputInv, [O!OutputStep]_outputVars
                 PROVE  OutputInv'
        OBVIOUS
    <2>1. ASSUME NEW s \in O!Scenes, O!Write(s) PROVE OutputInv'
        BY <2>1, WriteShows
    <2>2. ASSUME NEW z \in Sizes, O!Resize(z) PROVE OutputInv'
        BY <2>2, ResizeShows
    <2>3. CASE UNCHANGED outputVars
        BY <2>3 DEF outputVars, OutputInv, ScreenShown, O!ScreenShown
    <2> QED
        BY <2>1, <2>2, <2>3 DEF O!OutputStep
<1>3. OutputInv => ScreenShown
    BY DEF OutputInv
<1> QED
    BY <1>1, <1>2, <1>3, PTL DEF O!OutputSpec, outputVars, O!outputVars
=============================================================================
