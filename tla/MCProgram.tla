------------------------------ MODULE MCProgram ------------------------------
(***************************************************************************)
(* Parts of the program that share no state, for one run of TLC: the       *)
(* interface, the registry of signals, the terminal's output and the logs. *)
(* In a behaviour only one of them takes steps.                            *)
(***************************************************************************)
EXTENDS MCInterface, ProgramParts

Parts == {"interface", "registry", "output", "rings", "sinks"}
VARIABLE part  \* the one that does

ProgramInit == /\ part \in Parts /\ Init /\ R!InitRegistry /\ O!InitOutput /\ L!InitLogs
               \* One initial state of the parts that rest is enough.
               /\ part # "output" => size = CHOOSE s \in Sizes : TRUE

ProgramNext ==
    /\ \/ part = "interface" /\ Next /\ UNCHANGED <<registryVars, outputVars, logsVars>>
       \/ part = "registry" /\ R!RegistryStep /\ UNCHANGED <<vars, outputVars, logsVars>>
       \/ part = "output" /\ O!OutputStep /\ UNCHANGED <<vars, registryVars, logsVars>>
       \/ part = "rings" /\ L!RingsStep /\ UNCHANGED <<vars, registryVars, outputVars>>
       \/ part = "sinks" /\ L!SinksStep /\ UNCHANGED <<vars, registryVars, outputVars>>
    /\ UNCHANGED part

ProgramSpec ==
    ProgramInit /\ [][ProgramNext]_<<part, vars, registryVars, outputVars, logsVars>>
-----------------------------------------------------------------------------
(* A small instance of each.                                               *)

MCRegistry == [exact |-> [e \in {"x"} |-> "a"], default |-> "b"]

Px(v, fg, bg, fa, a, style) == [v |-> v, fg |-> fg, bg |-> bg, fa |-> fa, a |-> a, style |-> style]
View(w, d) == [w |-> w, h |-> Len(d) \div w, data |-> d]
MCBases == {Px(" ", "white", "black", 1, 1, {}), Px("c", "red", "blue", 1, 1, {})}
MCViews ==
    LET A == Px("a", "white", "black", 1, 1, {})
        B == Px("tab", "white", "black", 1, 1, {"bold"})
        C == Px("b", "red", "black", 1, 0, {})
        S == Px("x", "white", "blue", 0, 1, {})
        N == Px(" ", "white", "black", 0, 0, {})
    IN  {View(2, <<A, C, C, A>>), View(2, <<S, N, A, B>>), View(3, <<A, A, C>>), View(1, <<C, A>>)}
MCSizes == {<<3, 2>>, <<2, 2>>}
=============================================================================
