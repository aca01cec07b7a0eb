----------------------------- MODULE MCSignTasks -----------------------------
(* Instances of SignTasks for TLC.                                          *)
EXTENDS SignTasks

KeysQuiet ==
    /\ generated = {} /\ storing = {}
    /\ genPoll = [n \in Node |-> None]
    /\ \A g \in GenTask : genStatus[g] # "IDLE"

\* Keys do not look at the build, and the build only looks at the keys when
\* a task is created: the build is explored once the keys are settled, after
\* one history of theirs.
KeysFirst ==
    rpms # {} => /\ KeysQuiet /\ ~keysRaced /\ keyFaults = 0
                 /\ \E g \in GenTask, n \in Node :
                       /\ keys = {<<g, n>>}
                       /\ g = CHOOSE h \in GenTask : TRUE
                       /\ n = CHOOSE o \in Node : TRUE
                       /\ \A h \in GenTask \ {g} : genStatus[h] = "none"

\* Tasks and packages are interchangeable: the first one comes first.
InOrder ==
    /\ \A t \in SignTask : signStatus[t] # "none" => signStatus[CHOOSE u \in SignTask : TRUE] # "none"
    /\ \A p \in rpms : (CHOOSE q \in Package : TRUE) \in rpms

KeysFirstInOrder == KeysFirst /\ InOrder
=============================================================================
