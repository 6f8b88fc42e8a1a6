------------------------------ MODULE MCAgents ------------------------------
(***************************************************************************)
(* The tasks of the Agent, with failing writes, and the plans they end     *)
(* with, checked in one run.  They share no state here: a behaviour is one *)
(* of one of them, chosen at the start.                                    *)
(***************************************************************************)
EXTENDS AgentTasks, AgentPatch

VARIABLE part

AgentsInit == Init /\ PlansInit /\ part \in {"tasks", "plans"}

Tasks == part = "tasks" /\ Next /\ UNCHANGED <<part, plans>>
Plans == part = "plans" /\ PlansNext /\ UNCHANGED <<part, vars>>
\* Only the tasks must never be stuck.
Rest == part = "plans" /\ UNCHANGED <<part, vars, plans>>

AgentsSpec == AgentsInit /\ [][Tasks \/ Plans \/ Rest]_<<part, vars, plans>>
=============================================================================
