--------------------------- MODULE MCBuildArtifacts ---------------------------
(***************************************************************************)
(* A project for i686 (with multilib packages), x86_64 and aarch64, and    *)
(* one for x86_64.                                                         *)
(***************************************************************************)
EXTENDS BuildArtifacts, TLC

CONSTANTS a1, x1, c1, x2, Arm

Indexes == (a1 :> 1) @@ (x1 :> 1) @@ (c1 :> 1) @@ (x2 :> 2)
Arches == (a1 :> I686) @@ (x1 :> X86) @@ (c1 :> Arm) @@ (x2 :> X86)
Alike == Permutations(Worker)

\* Three of the tasks are handed out.  A restart, a fault (a call that raises, a
\* worker that dies, a second result) or a cancellation; with the tasks of one
\* project also a restart and one of these, and then one task at a time.
Bounded ==
    LET cancelled == IF \E t \in Task : status[t] = "CANCELLED" THEN 1 ELSE 0
        disturbances == restarts + faults + cancelled
    IN  \/ attempt[c1] = 0 /\ disturbances <= 1
        \/ /\ attempt[x2] = 0 /\ ordered = Task /\ disturbances <= restarts + 1
           /\ disturbances = 2 => Cardinality(posted) + Cardinality(Busy) <= 1
===============================================================================
