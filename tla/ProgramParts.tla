---------------------------- MODULE ProgramParts ----------------------------
(***************************************************************************)
(* Three parts of the program that share no state with each other nor with *)
(* the interface: the registry of signals, the terminal's output and the   *)
(* logs.                                                                   *)
(***************************************************************************)
EXTENDS Naturals

CONSTANTS Specifiers, Events, Dispatches, Signatures, Owners, Listeners, Threads,
          MaxStorages, MaxStates, MaxSigCalls, Registry
ASSUME RegistryAssumption ==
    /\ DOMAIN Registry.exact \subseteq Events
    /\ \A e \in DOMAIN Registry.exact : Registry.exact[e] \in Signatures
    /\ Registry.default \in Signatures \cup {"none"}
    /\ MaxStorages \in Nat
VARIABLES sigAlive, sigs, sigVerify, owners, states, handles, sigReleased, doing, heard, direct, made,
          sigCalls
registryVars == <<sigAlive, sigs, sigVerify, owners, states, handles, sigReleased, doing, heard,
                  direct, made, sigCalls>>
R == INSTANCE SignalRegistry WITH alive <- sigAlive, verify <- sigVerify, calls <- sigCalls,
                                  released <- sigReleased, MaxCalls <- MaxSigCalls

CONSTANTS Sizes, Bases, Views, MaxFrames
ASSUME OutputAssumption ==
    /\ Sizes \subseteq (Nat \ {0}) \X (Nat \ {0})
    /\ \A px \in Bases : "len" \notin DOMAIN px
    /\ \A v \in Views : v.w \in Nat /\ v.h \in Nat
VARIABLES size, term, swap, scene, styled, undone, frames
outputVars == <<size, term, swap, scene, styled, undone, frames>>
O == INSTANCE TerminalOutput

CONSTANTS Loggers, Pagers, Sinkers, RingSize, MaxLogs, MaxPages
ASSUME LogsAssumption == Loggers \cap {"root", "nil"} = {}
VARIABLES logNext, logPrev, memlock, ring, logpc, behind, logged, logGone, pagepc, ptr, held,
          found, since, pages, sinkLock, logSinks, sinkpc, copy, clock, freed
logsVars == <<logNext, logPrev, memlock, ring, logpc, behind, logged, logGone, pagepc, ptr, held,
              found, since, pages, sinkLock, logSinks, sinkpc, copy, clock, freed>>
L == INSTANCE Logs WITH next <- logNext, prev <- logPrev, gone <- logGone, sinks <- logSinks

-----------------------------------------------------------------------------
\* A callback gets arguments of the types it was written for.
ArgumentsMatch == R!ArgumentsMatch
\* Signals and Handles hold what is registered, and each callback has one that closes it.
OwnersRegistered == R!OwnersRegistered /\ R!HandlesOwn
\* The terminal shows the last frame.
ScreenShown == O!ScreenShown
\* One thread at a time is at a ring, a page shows all of them, and no sink is lost.
LogsWhole == L!RingExclusive /\ L!PageWhole /\ L!SinksKept
=============================================================================
