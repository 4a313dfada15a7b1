------------------------------ MODULE MCSignals ------------------------------
(***************************************************************************)
(* A signal with one specifier and handles that listen for it.             *)
(***************************************************************************)
EXTENDS Signals

CONSTANTS key, t1, t2

\* A synchronous signal; one drained by any worker that drops what does not fit;
\* two drained by the main worker, which drop or replace what is old and are
\* triggered by the main thread.
MCFlagSets == {{}, {"Async", "DropIfFull"}, {"Deferred"}, {"Deferred", "Combine"}}
MCMainOnly == {{"Deferred"}, {"Deferred", "Combine"}}

\* Signals drained by any worker that make room by taking the oldest out.
EvictingFlagSets == {{"Async"}, {"Async", "Combine"}}

NoFlagSets == {}

MCKeys == {key}
MCSpecifiers == [t \in Triggers |-> IF t = t1 THEN {key} ELSE {Generic}]
MCDispatch == [h \in Handles |-> key]
=============================================================================
