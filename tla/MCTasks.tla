------------------------------- MODULE MCTasks -------------------------------
(***************************************************************************)
(* The two things a task goes through that share no state: the ring that   *)
(* hands it to its worker, and the block it shares with its futures.  In a *)
(* behaviour only one of them takes steps.                                 *)
(***************************************************************************)
EXTENDS TaskRing, Future

VARIABLE part  \* the one that does

\* While the ring takes steps, how the task was launched does not matter.
TasksInit == /\ part \in {"ring", "future"} /\ Init /\ InitFuture
             /\ part = "ring" => shape = CHOOSE s \in Shapes : TRUE

TasksNext == /\ \/ part = "ring" /\ Next /\ UNCHANGED futureVars
                \/ part = "future" /\ FutureNext /\ UNCHANGED vars
             /\ UNCHANGED part

\* Where the ring rests nothing that its fairness asks for is enabled.
TasksSpec == /\ TasksInit /\ [][TasksNext]_<<part, vars, futureVars>>
             /\ \A p \in Producers : WF_vars(ProducerStep(p))
             /\ \A c \in Consumers : WF_vars(ConsumerStep(c))
             /\ WF_futureVars(part = "future" /\ TaskStep)
             /\ \A u \in Users : WF_futureVars(UserStep(u))
=============================================================================
