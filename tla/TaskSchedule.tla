----------------------------- MODULE TaskSchedule -----------------------------
(***************************************************************************)
(* What the task queue of a build promises, without nodes, leases,         *)
(* messages or source RPMs: tasks with a waiting relation that never       *)
(* deadlocks.  BuildTasks implements it.                                   *)
(***************************************************************************)
EXTENDS FiniteSets

CONSTANTS Task, Planned   \* Planned: what each task waits for at first

VARIABLES
    phase,   \* "open", "running", "settled", or "withdrawn" by the user
    waits    \* waits[t]: the tasks t waits for

Acyclic(graph) ==
    \A S \in SUBSET Task : S # {} => \E t \in S : graph[t] \cap S = {}

Init ==
    /\ phase = [t \in Task |-> "open"]
    /\ waits = Planned

\* Only a task that waits for nothing runs.  It may be handed out again.
Start(t) ==
    /\ phase[t] \in {"open", "running"}
    /\ waits[t] = {}
    /\ phase' = [phase EXCEPT ![t] = "running"]
    /\ UNCHANGED waits

\* A task settles, alone or with open tasks that cannot be built without it;
\* nobody waits for them any more.
Settle(t, others) ==
    /\ \A u \in others : phase[u] = "open"
    /\ phase' = [u \in Task |-> IF u \in {t} \cup others THEN "settled" ELSE phase[u]]
    /\ waits' = [u \in Task |-> waits[u] \ ({t} \cup others)]

\* Settled tasks are opened again.  They may wait for more than before, in
\* any order that makes no cycle and for no task that is settled.
Reopen(again) ==
    /\ again # {}
    /\ \A t \in again : phase[t] = "settled"
    /\ phase' = [t \in Task |-> IF t \in again THEN "open" ELSE phase[t]]
    /\ waits' \in [Task -> SUBSET Task]
    /\ \A t \in Task \ again : waits'[t] = waits[t]
    /\ \A t \in again : waits[t] \subseteq waits'[t]
    /\ \A t \in Task : \A d \in waits'[t] : phase'[d] # "settled"
    /\ Acyclic(waits')

\* The user withdraws every open task.
Withdraw ==
    /\ phase' = [t \in Task |-> IF phase[t] = "open" THEN "withdrawn" ELSE phase[t]]
    /\ UNCHANGED waits

Next ==
    \/ \E t \in Task : Start(t)
    \/ \E t \in Task : \E others \in SUBSET Task : Settle(t, others)
    \/ \E again \in SUBSET Task : Reopen(again)
    \/ Withdraw

Spec == Init /\ [][Next]_<<phase, waits>>
==============================================================================
