----------------------------- MODULE MCServices ------------------------------
(***************************************************************************)
(* The system's services that are loaded as modules: the network, and the  *)
(* audio, which has nothing to do with it.  In a behaviour only one of     *)
(* them takes steps.                                                       *)
(***************************************************************************)
EXTENDS MCNetwork

VARIABLE part  \* the one that does

CONSTANTS Nodes, DeviceOf, NameOf, FilterNames, Totals, Room, Backlog, MaxEvents, MaxCalls
ASSUME AudioAssumption == /\ DeviceOf \in [Nodes -> {"Input", "Output"}] /\ DOMAIN NameOf = Nodes
                          /\ Totals \subseteq Nat \ {0} /\ Room \in Nat \ {0}
VARIABLES list, memory, nodes, active, default, status, float32, pipeline, voices, invoked, midway,
          told, said, slot, over, happened, called
audioVars == <<list, memory, nodes, active, default, status, float32, pipeline, voices, invoked,
               midway, told, said, slot, over, happened, called>>
A == INSTANCE Audio

ServicesInit == /\ part \in {"network", "audio"} /\ Init /\ A!InitAudio
                /\ part = "network" => slot  \* one initial state of what rests is enough
ServicesNext == /\ \/ part = "network" /\ Next /\ UNCHANGED audioVars
                   \/ part = "audio" /\ A!AudioStep /\ UNCHANGED <<wsVars, httpVars>>
                /\ UNCHANGED part

\* Where a part rests nothing that its fairness asks for is enabled.
ServicesSpec == /\ ServicesInit /\ [][ServicesNext]_<<part, wsVars, httpVars, audioVars>>
                /\ WS!Fairness /\ HTTP!Fairness /\ A!AudioFairness
-----------------------------------------------------------------------------
\* A stream that runs can be stopped.  What the audio signals finds a slot only in a program
\* that connects one: there, whoever listens knows the status of each stream and the default
\* devices; elsewhere the first device ends the program, and no stream ever runs.
AudioTold == A!Unheard /\ A!ToldStatus /\ A!Stoppable /\ A!DefaultTold
\* What is transmitted ends.
VoicesEnd == A!VoicesEnd
-----------------------------------------------------------------------------
\* Two outputs and an input, that is named like one of them.
MCDeviceOf == [n \in Nodes |-> IF n = "n3" THEN "Input" ELSE "Output"]
MCNameOf == [n \in Nodes |-> IF n = "n1" THEN "a" ELSE "b"]
=============================================================================
