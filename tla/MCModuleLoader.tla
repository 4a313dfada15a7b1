--------------------------- MODULE MCModuleLoader ---------------------------
(***************************************************************************)
(* Three modules and a fourth, d, that is the first one with a name: their *)
(* dependencies a chain, a shared dependency, a cycle or a list with a     *)
(* module that is not loaded before those that need it.                    *)
(***************************************************************************)
EXTENDS ModuleLoader

CONSTANTS a, b, c, d

Graph(da, db, dc) == [m \in Modules |-> CASE m \in {a, d} -> da [] m = b -> db [] m = c -> dc]

MCType == [m \in {d} |-> a]

MCGraphs == {Graph(<<b>>, <<c>>, <<>>),
             Graph(<<b>>, <<a>>, <<>>),
             Graph(<<c, b>>, <<c>>, <<a>>)}

MCResults == [m \in Modules |-> CASE m \in {a, d} -> {"Ok"}
                                 [] m = b -> {"Failure"}
                                 [] m = c -> {"Ok", "throw"}]

\* Dependencies first, one alone, and the one with a name.
MCLists == {<<c, b, a>>, <<c>>, <<d>>}
=============================================================================
