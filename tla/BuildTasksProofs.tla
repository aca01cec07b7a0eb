--------------------------- MODULE BuildTasksProofs ---------------------------
(***************************************************************************)
(* The tasks of a build, for every set of tasks, every plan and every      *)
(* value of the bounds: their dependencies never make a cycle and never    *)
(* name a settled task, a project stops with its source, and the build     *)
(* implements TaskSchedule.                                                *)
(*                                                                         *)
(* Before that (BuildStart), for every request: the tasks are one grid of  *)
(* projects and targets and are planned once, a package has its own dist,  *)
(* and what a module takes over it takes over as a whole.                  *)
(***************************************************************************)
EXTENDS BuildTasks, BuildStart, BuildPlanProofs, FiniteSetTheorems, TLAPS

------------------------------------------------------------------------------
(* Types                                                                   *)

\* What the three transactions of a worker have in common.
LEMMA ProcessType ==
    ASSUME TypeOK, NEW m \in queue, Process(m) \/ DropMessage(m)
    PROVE  TypeOK'
<1>1. m \in Message
  BY DEF TypeOK
<1>2. m.task \in Task /\ m.report \in Status /\ m.srpm \in BOOLEAN
  BY <1>1, BuildAssumption DEF Message, Status, Settled
<1>3. queue' \subseteq Message /\ faults' \in 0..MaxFaults
  BY BuildAssumption DEF TypeOK, Process, ProcessResult, ProcessError, DropMessage,
                         Acknowledge, Charge
<1>4. CASE DropMessage(m)
  BY <1>3, <1>4 DEF DropMessage, TypeOK
<1>5. CASE ProcessResult(m)
  <2>1. /\ status' \in [Task -> Status]
        /\ deps' \in [Task -> SUBSET Task]
    <3>1. PICK stopped : Settle(m.task, m.report, stopped)
      BY <1>5 DEF ProcessResult
    <3>2. QED
      BY <1>2, <3>1 DEF Settle, TypeOK, Status, Settled
  <2>2. url' \in [Task -> BOOLEAN] /\ srpm' \in [Task -> BOOLEAN]
    BY <1>5 DEF ProcessResult, TypeOK
  <2>3. closings' \in Nat
    BY <1>5 DEF ProcessResult, CloseBuild, TypeOK
  <2>4. QED
    BY <1>3, <1>5, <2>1, <2>2, <2>3 DEF ProcessResult, TypeOK
<1>6. CASE ProcessError(m)
  <2>1. /\ status' \in [Task -> Status]
        /\ deps' \in [Task -> SUBSET Task]
    <3>1. PICK stopped : Settle(m.task, "FAILED", stopped)
      BY <1>6 DEF ProcessError
    <3>2. QED
      BY <1>2, <3>1 DEF Settle, TypeOK, Status, Settled
  <2>2. srpm' \in [Task -> BOOLEAN]
    BY <1>2, <1>6 DEF ProcessError, Stores, TypeOK
  <2>3. closings' \in Nat
    BY <1>6 DEF ProcessError, CloseBuild, TypeOK
  <2>4. lease' \in [Task -> {"none", "fresh", "long", "expired"}]
    BY <1>6 DEF ProcessError, TypeOK
  <2>5. QED
    BY <1>3, <1>6, <2>1, <2>2, <2>3, <2>4 DEF ProcessError, TypeOK
<1>7. QED
  BY <1>4, <1>5, <1>6 DEF Process

LEMMA NodeType ==
    ASSUME TypeOK, NEW t \in Task,
           \/ \E req \in Requests : GetTask(req)
           \/ Ping(t) \/ Expire(t) \/ Abandon(t)
           \/ \E r \in Results : PostDone(t, r)
    PROVE  TypeOK'
<1>1. CASE \E req \in Requests : GetTask(req)
  BY <1>1, BuildAssumption DEF GetTask, TypeOK, Status, Unfinished
<1>2. CASE Ping(t)
  BY <1>2 DEF Ping, TypeOK
<1>3. CASE Expire(t)
  BY <1>3, BuildAssumption DEF Expire, Charge, TypeOK
<1>4. CASE Abandon(t)
  BY <1>4, BuildAssumption DEF Abandon, Charge, TypeOK
<1>5. CASE \E r \in Results : PostDone(t, r)
  BY <1>5 DEF PostDone, TypeOK, Message
<1>6. QED
  BY <1>1, <1>2, <1>3, <1>4, <1>5

LEMMA UserType ==
    ASSUME TypeOK, RestartFailed \/ RestartParallel \/ Cancel
    PROVE  TypeOK'
<1>1. ASSUME NEW new \in [Task -> SUBSET Task], Restart(new)
      PROVE  TypeOK'
  BY <1>1, BuildAssumption DEF Restart, TypeOK, Status, Unfinished
<1>2. CASE RestartFailed
  <2>1. [t \in Task |-> ChainDeps(status, t)] \in [Task -> SUBSET Task]
    BY NewDepsType
  <2>2. QED
    BY <1>1, <1>2, <2>1 DEF RestartFailed
<1>3. CASE RestartParallel
  <2>1. [t \in Task |-> ParallelDeps(status, t)] \in [Task -> SUBSET Task]
    BY NewDepsType
  <2>2. QED
    BY <1>1, <1>3, <2>1 DEF RestartParallel
<1>4. CASE Cancel
  BY <1>4, BuildAssumption DEF Cancel, TypeOK, Status, Settled
<1>5. QED
  BY <1>2, <1>3, <1>4

\* Every variable keeps its type, whatever the plan and the bounds.
THEOREM TypeCorrect == Spec => []TypeOK
<1>1. Init => TypeOK
  BY PlannedDepsType, BuildAssumption DEF Init, TypeOK, Status, Unfinished
<1>2. TypeOK /\ [Next]_vars => TypeOK'
  <2> SUFFICES ASSUME TypeOK, [Next]_vars PROVE TypeOK'
    OBVIOUS
  <2>1. CASE UNCHANGED vars
    BY <2>1 DEF vars, TypeOK
  <2>2. CASE Next
    BY <2>2, ProcessType, NodeType, UserType, PlanAssumption DEF Next, Process
  <2>3. QED
    BY <2>1, <2>2
<1>3. QED
  BY <1>1, <1>2, PTL DEF Spec

------------------------------------------------------------------------------
(* Waiting                                                                 *)

\* The inductive invariant.  No conjunct is inductive alone: a restart keeps
\* the graph free of cycles because no old row names a failed task, and
\* finds no row of a started task because only failed tasks get new ones.
WaitInv == WaitsOnUnsettled /\ NoDependencyCycle /\ StartedWaitsForNothing

------------------------------------------------------------------------------
(* Settling tasks                                                          *)

LEMMA FewerDeps ==
    ASSUME NEW g, NEW h, Acyclic(g), \A t \in Task : h[t] \subseteq g[t]
    PROVE  Acyclic(h)
BY DEF Acyclic

\* Each worker transaction that is not rolled back settles the message's
\* task, with idle tasks only.
LEMMA ProcessSettles ==
    ASSUME TypeOK, NEW m \in queue, Process(m)
    PROVE  \E t \in Task, report \in {"COMPLETED", "FAILED", "EXCLUDED"}, stopped \in SUBSET Task :
             /\ \A u \in stopped : status[u] = "IDLE"
             /\ Settle(t, report, stopped)
<1>1. m.task \in Task /\ m.report \in {"COMPLETED", "FAILED", "EXCLUDED"}
  BY BuildAssumption DEF TypeOK, Message
<1>2. CASE ProcessResult(m)
  <2> DEFINE stopped == IF ~url[m.task] /\ ~(srpm[m.task] \/ Stores(m)) /\ m.report = "FAILED"
                        THEN IdleSiblings(m.task) ELSE {}
  <2>1. Settle(m.task, m.report, stopped)
    BY <1>2 DEF ProcessResult
  <2>2. stopped \in SUBSET Task /\ \A u \in stopped : status[u] = "IDLE"
    BY DEF IdleSiblings, Project
  <2>3. QED
    BY <1>1, <2>1, <2>2
<1>3. CASE ProcessError(m)
  <2> DEFINE stopped == IF \A u \in SameRef(m.task) : status[u] = "IDLE"
                        THEN SameRef(m.task) ELSE {}
  <2>1. Settle(m.task, "FAILED", stopped)
    BY <1>3 DEF ProcessError
  <2>2. stopped \in SUBSET Task /\ \A u \in stopped : status[u] = "IDLE"
    BY DEF SameRef
  <2>3. QED
    BY <1>1, <2>1, <2>2
<1>4. QED
  BY <1>2, <1>3 DEF Process

LEMMA SettleKeepsWaits ==
    ASSUME TypeOK, WaitInv, NEW t \in Task,
           NEW report \in {"COMPLETED", "FAILED", "EXCLUDED"},
           NEW stopped \in SUBSET Task, Settle(t, report, stopped)
    PROVE  WaitInv'
<1>1. deps' = [u \in Task |-> deps[u] \ ({t} \cup stopped)]
  BY DEF Settle
<1>2. status' = [u \in Task |-> IF u = t THEN report
                                ELSE IF u \in stopped THEN "FAILED" ELSE status[u]]
  BY DEF Settle
<1>3. WaitsOnUnsettled'
  BY <1>1, <1>2 DEF WaitInv, WaitsOnUnsettled, TypeOK
<1>4. NoDependencyCycle'
  <2>1. \A u \in Task : deps'[u] \subseteq deps[u]
    BY <1>1
  <2>2. QED
    BY <2>1, FewerDeps DEF WaitInv, NoDependencyCycle
<1>5. StartedWaitsForNothing'
  BY <1>1, <1>2 DEF WaitInv, StartedWaitsForNothing
<1>6. QED
  BY <1>3, <1>4, <1>5 DEF WaitInv

------------------------------------------------------------------------------
(* Restarting tasks                                                        *)

LEMMA RestartKeepsWaits ==
    ASSUME TypeOK, WaitInv, NEW new, NewRowsOrder(status, new), Restart(new)
    PROVE  WaitInv'
<1> DEFINE F == Failed(status)
<1>1. deps' = [t \in Task |-> deps[t] \cup new[t]]
  BY DEF Restart
<1>2. status' = [t \in Task |-> IF t \in F THEN "IDLE" ELSE status[t]]
  BY DEF Restart
<1>3. \A t \in Task : deps[t] \cap F = {}
  BY DEF WaitInv, WaitsOnUnsettled, Unfinished, Failed
<1>4. WaitsOnUnsettled'
  <2> SUFFICES ASSUME NEW t \in Task, NEW d \in deps'[t]
               PROVE  status'[d] \in Unfinished \cup {"CANCELLED"}
    BY DEF WaitsOnUnsettled
  <2>1. CASE d \in deps[t]
    <3>1. d \in Task /\ d \notin F
      BY <2>1, <1>3 DEF TypeOK
    <3>2. status[d] \in Unfinished \cup {"CANCELLED"}
      BY <2>1 DEF WaitInv, WaitsOnUnsettled
    <3>3. QED
      BY <3>1, <3>2, <1>2
  <2>2. CASE d \in new[t]
    <3>1. d \in Task /\ status[d] \in {"IDLE", "FAILED"}
      BY <2>2 DEF NewRowsOrder
    <3>2. QED
      BY <3>1, <1>2 DEF Unfinished, Failed
  <2>3. QED
    BY <2>1, <2>2, <1>1
<1>5. NoDependencyCycle'
  <2> SUFFICES ASSUME NEW S \in SUBSET Task, S # {}
               PROVE  \E t \in S : deps'[t] \cap S = {}
    BY DEF NoDependencyCycle, Acyclic
  <2>1. CASE S \subseteq F
    <3>1. PICK t \in S : new[t] \cap S = {}
      BY <2>1 DEF NewRowsOrder
    <3>2. QED
      BY <2>1, <3>1, <1>1, <1>3
  <2>2. CASE ~(S \subseteq F)
    <3>1. PICK t \in S \ F : deps[t] \cap (S \ F) = {}
      <4>1. S \ F \in SUBSET Task /\ S \ F # {}
        BY <2>2
      <4>2. QED
        BY <4>1 DEF WaitInv, NoDependencyCycle, Acyclic
    <3>2. new[t] = {}
      BY <3>1 DEF NewRowsOrder
    <3>3. deps'[t] \cap S = {}
      BY <3>1, <3>2, <1>1, <1>3
    <3>4. QED
      BY <3>1, <3>3
  <2>3. QED
    BY <2>1, <2>2
<1>6. StartedWaitsForNothing'
  <2> SUFFICES ASSUME NEW t \in Task, status'[t] = "STARTED" PROVE deps'[t] = {}
    BY DEF StartedWaitsForNothing
  <2>1. status[t] = "STARTED" /\ t \notin F
    BY <1>2
  <2>2. deps[t] = {} /\ new[t] = {}
    BY <2>1 DEF WaitInv, StartedWaitsForNothing, NewRowsOrder
  <2>3. QED
    BY <2>2, <1>1
<1>7. QED
  BY <1>4, <1>5, <1>6 DEF WaitInv

------------------------------------------------------------------------------
(* The invariant                                                           *)

LEMMA WaitInit == Init => WaitInv
<1> SUFFICES ASSUME Init PROVE WaitInv
  OBVIOUS
<1>1. WaitsOnUnsettled
  BY PlannedDepsType DEF Init, WaitsOnUnsettled, Unfinished
<1>2. NoDependencyCycle
  BY PlanAcyclic DEF Init, NoDependencyCycle, Acyclic
<1>3. StartedWaitsForNothing
  BY DEF Init, StartedWaitsForNothing
<1>4. QED
  BY <1>1, <1>2, <1>3 DEF WaitInv

LEMMA WaitStep == TypeOK /\ WaitInv /\ [Next]_vars => WaitInv'
<1> SUFFICES ASSUME TypeOK, WaitInv, [Next]_vars PROVE WaitInv'
  OBVIOUS
<1>0. CASE UNCHANGED <<status, deps>>
  BY <1>0 DEF WaitInv, WaitsOnUnsettled, NoDependencyCycle, StartedWaitsForNothing
<1>1. ASSUME NEW req \in Requests, GetTask(req) PROVE WaitInv'
  <2>1. PICK t \in Task : Available(t) /\ status' = [status EXCEPT ![t] = "STARTED"]
    BY <1>1, BuildAssumption DEF GetTask
  <2>2. deps' = deps
    BY <1>1 DEF GetTask
  <2>3. WaitsOnUnsettled'
    BY <2>1, <2>2 DEF WaitInv, WaitsOnUnsettled, Unfinished, TypeOK
  <2>4. StartedWaitsForNothing'
    BY <2>1, <2>2 DEF WaitInv, StartedWaitsForNothing, Available, TypeOK
  <2>5. QED
    BY <2>2, <2>3, <2>4 DEF WaitInv, NoDependencyCycle
<1>2. ASSUME NEW t \in Task, Ping(t) \/ Expire(t) \/ Abandon(t) PROVE WaitInv'
  BY <1>0, <1>2 DEF Ping, Expire, Abandon
<1>3. ASSUME NEW t \in Task, NEW r \in Results, PostDone(t, r) PROVE WaitInv'
  BY <1>0, <1>3 DEF PostDone
<1>4. ASSUME NEW m \in queue, Process(m) PROVE WaitInv'
  BY <1>4, ProcessSettles, SettleKeepsWaits
<1>5. ASSUME NEW m \in queue, DropMessage(m) PROVE WaitInv'
  BY <1>0, <1>5 DEF DropMessage
<1>6. CASE RestartFailed
  BY <1>6, ChainOrders, RestartKeepsWaits DEF RestartFailed
<1>7. CASE RestartParallel
  BY <1>7, ParallelOrders, RestartKeepsWaits DEF RestartParallel
<1>8. CASE Cancel
  <2>1. deps' = deps /\ status' = [t \in Task |-> IF status[t] = "IDLE" THEN "CANCELLED"
                                                  ELSE status[t]]
    BY <1>8 DEF Cancel
  <2>2. WaitsOnUnsettled' /\ StartedWaitsForNothing'
    BY <2>1 DEF WaitInv, WaitsOnUnsettled, StartedWaitsForNothing, TypeOK
  <2>3. QED
    BY <2>1, <2>2 DEF WaitInv, NoDependencyCycle
<1>9. CASE UNCHANGED vars
  BY <1>0, <1>9 DEF vars
<1>10. QED
  BY <1>1, <1>2, <1>3, <1>4, <1>5, <1>6, <1>7, <1>8, <1>9 DEF Next, Process

THEOREM WaitInvariant == Spec => [](TypeOK /\ WaitInv)
<1>1. Init => WaitInv
  BY WaitInit
<1>2. TypeOK /\ WaitInv /\ [Next]_vars => WaitInv'
  BY WaitStep
<1>3. QED
  BY <1>1, <1>2, TypeCorrect, PTL DEF Spec

\* Whatever fails and is restarted, tasks never wait for each other.
THEOREM NoCycles == Spec => []NoDependencyCycle
BY WaitInvariant, PTL DEF WaitInv

\* A dependency row never names a completed, failed or excluded task.
THEOREM NoStaleRows == Spec => []WaitsOnUnsettled
BY WaitInvariant, PTL DEF WaitInv

\* A task that was handed out never gets a dependency.
THEOREM StartedIsFree == Spec => []StartedWaitsForNothing
BY WaitInvariant, PTL DEF WaitInv

\* A build without cancelled tasks always has an unfinished task that waits
\* for nothing: the first unfinished one of a graph without cycles, whose
\* rows name unfinished tasks only.
THEOREM NeverBlocked == Spec => []BuildNeverBlocked
<1>1. TypeOK /\ WaitInv => BuildNeverBlocked
  <2> SUFFICES ASSUME TypeOK, WaitInv, \E t \in Task : ~Finished(t),
                      \A t \in Task : status[t] # "CANCELLED"
               PROVE  \E t \in Task : ~Finished(t) /\ deps[t] = {}
    BY DEF BuildNeverBlocked
  <2> DEFINE Open == {t \in Task : ~Finished(t)}
  <2>1. PICK t \in Open : deps[t] \cap Open = {}
    <3>1. Open \in SUBSET Task /\ Open # {}
      OBVIOUS
    <3>2. QED
      BY <3>1 DEF WaitInv, NoDependencyCycle, Acyclic
  <2>2. deps[t] \subseteq Open
    <3> SUFFICES ASSUME NEW d \in deps[t] PROVE d \in Open
      OBVIOUS
    <3>1. d \in Task
      BY DEF TypeOK
    <3>2. status[d] \in Unfinished
      BY <3>1 DEF WaitInv, WaitsOnUnsettled
    <3>3. QED
      BY <3>1, <3>2 DEF Finished, Settled, Unfinished
  <2>3. QED
    BY <2>1, <2>2
<1>2. QED
  BY <1>1, WaitInvariant, PTL

------------------------------------------------------------------------------
(* The planner's order                                                     *)

\* Before the first restart a row the planner wrote goes only when the task
\* it names is finished.
OrderInv == restarts = 0 => \A t \in Task : \A d \in PlannedDeps(t) : d \in deps[t] \/ Finished(d)

LEMMA OrderStep == TypeOK /\ OrderInv /\ [Next]_vars => OrderInv'
<1> SUFFICES ASSUME TypeOK, OrderInv, [Next]_vars, restarts' = 0,
                    NEW t \in Task, NEW d \in PlannedDeps(t)
             PROVE  d \in deps'[t] \/ status'[d] \in Settled
  BY DEF OrderInv, Finished
<1>0. d \in Task
  BY PlannedDepsType
<1>1. restarts = 0 => d \in deps[t] \/ status[d] \in Settled
  BY DEF OrderInv, Finished
<1>2. CASE UNCHANGED <<status, deps, restarts>>
  BY <1>1, <1>2
<1>3. ASSUME NEW req \in Requests, GetTask(req) PROVE d \in deps'[t] \/ status'[d] \in Settled
  BY <1>0, <1>1, <1>3, BuildAssumption
     DEF GetTask, Available, TypeOK, Unfinished, Settled
<1>4. ASSUME NEW u \in Task, Ping(u) \/ Expire(u) \/ Abandon(u)
      PROVE  d \in deps'[t] \/ status'[d] \in Settled
  BY <1>2, <1>4 DEF Ping, Expire, Abandon
<1>5. ASSUME NEW u \in Task, NEW r \in Results, PostDone(u, r)
      PROVE  d \in deps'[t] \/ status'[d] \in Settled
  BY <1>2, <1>5 DEF PostDone
<1>6. ASSUME NEW m \in queue, Process(m) PROVE d \in deps'[t] \/ status'[d] \in Settled
  <2>1. restarts = 0
    BY <1>6 DEF Process, ProcessResult, ProcessError
  <2>2. PICK u \in Task, report \in {"COMPLETED", "FAILED", "EXCLUDED"},
             stopped \in SUBSET Task : Settle(u, report, stopped)
    BY <1>6, ProcessSettles
  <2>3. CASE d = u \/ d \in stopped
    BY <1>0, <2>2, <2>3 DEF Settle, Settled
  <2>4. CASE ~(d = u \/ d \in stopped)
    BY <1>0, <1>1, <2>1, <2>2, <2>4 DEF Settle
  <2>5. QED
    BY <2>3, <2>4
<1>7. ASSUME NEW m \in queue, DropMessage(m) PROVE d \in deps'[t] \/ status'[d] \in Settled
  BY <1>2, <1>7 DEF DropMessage
<1>8. CASE RestartFailed \/ RestartParallel
  BY <1>8 DEF RestartFailed, RestartParallel, Restart, TypeOK
<1>9. CASE Cancel
  BY <1>0, <1>1, <1>9 DEF Cancel, Settled
<1>10. CASE UNCHANGED vars
  BY <1>2, <1>10 DEF vars
<1>11. QED
  BY <1>3, <1>4, <1>5, <1>6, <1>7, <1>8, <1>9, <1>10 DEF Next, Process

\* In the first attempt no task starts before what the planner put before it.
THEOREM OrderOfPlan == Spec => []PlannedOrder
<1>1. Init => OrderInv
  BY DEF Init, OrderInv
<1>2. TypeOK /\ OrderInv /\ [Next]_vars => OrderInv'
  BY OrderStep
<1>3. TypeOK /\ WaitInv /\ OrderInv => PlannedOrder
  BY DEF WaitInv, StartedWaitsForNothing, OrderInv, PlannedOrder
<1>4. QED
  BY <1>1, <1>2, <1>3, TypeCorrect, WaitInvariant, PTL DEF Spec

------------------------------------------------------------------------------
(* Stopping with the source task                                           *)

\* What the planner makes of a build for one platform: each project has a ref of
\* its own and one source task.  (With more platforms a ref has several source
\* tasks, and a task of another platform may keep fast_fail_other_tasks_by_ref
\* from stopping anything.)
OneProjectPerRef ==
    /\ \A t, u \in Task :
          RefOf[t] = RefOf[u] <=> PlatformOf[t] = PlatformOf[u] /\ IndexOf[t] = IndexOf[u]
    /\ \A t \in Task : \A s \in SourceTask(t) : ArchOf[t] = Src => s = t

\* A node that excludes an architecture has the source RPM by then.
ExcludedHaveSource == \A r \in Results : r.report = "EXCLUDED" => r.srpm

\* Nodes and messages are about tasks that were handed out; a cancel request
\* takes all idle tasks.
Untouched == {"IDLE", "CANCELLED"}
IdleInv ==
    /\ \A t \in Task : status[t] \in Untouched => building[t] = 0 /\ \A m \in queue : m.task # t
    /\ \A t, u \in Task : status[t] = "CANCELLED" => status[u] # "IDLE"

\* A project whose source task is finished well has the URL; before that none of
\* its tasks is touched.
SourceInv ==
    \A t \in Task : \A s \in SourceTask(t) :
        /\ status[s] \in {"COMPLETED", "EXCLUDED"} => url[t]
        /\ url[s] => url[t]
        /\ ~Finished(s) /\ s # t => status[t] \in Untouched
        /\ ~Finished(t) /\ ~url[t] => status[s] # "FAILED"

FirstInv == restarts = 0 => IdleInv /\ SourceInv

LEMMA SourceTasks ==
  ASSUME OneProjectPerRef, NEW t \in Task, NEW s \in SourceTask(t)
  PROVE  /\ s \in Task /\ ArchOf[s] = Src /\ RefOf[s] = RefOf[t] /\ PlatformOf[s] = PlatformOf[t]
         /\ s # t => s \in PlannedDeps(t)
         /\ \A u \in Task : RefOf[u] = RefOf[s] => s \in SourceTask(u) /\ u \in Project(s)
  BY DEF OneProjectPerRef, SourceTask, PlannedDeps, Project

\* What a worker does in its transaction to the statuses, and to the URL.
LEMMA WorkerWrites ==
  ASSUME TypeOK, NEW m \in queue, Process(m), ExcludedHaveSource
  PROVE  \E stopped \in SUBSET Task, report \in {"COMPLETED", "FAILED", "EXCLUDED"} :
           /\ m.task \in Task
           /\ \A u \in stopped : status[u] = "IDLE" /\ RefOf[u] = RefOf[m.task] /\ u # m.task
           /\ \A u \in Task : status'[u] = IF u = m.task THEN report
                                           ELSE IF u \in stopped THEN "FAILED" ELSE status[u]
           /\ report # "FAILED" => \A u \in Project(m.task) : url[m.task] \/ url'[u]
           /\ \A u \in Task :
                 url'[u] = (url[u] \/ (u \in Project(m.task) /\ url'[m.task] /\ ~url[m.task]))
           /\ report = "FAILED" =>
                 \/ url[m.task] \/ (\A u \in Project(m.task) : url'[u])
                 \/ IdleSiblings(m.task) \subseteq stopped
                 \/ \E u \in SameRef(m.task) : status[u] # "IDLE"
<1> DEFINE t == m.task
<1>1. /\ t \in Task /\ m.report \in {"COMPLETED", "FAILED", "EXCLUDED"} /\ m.srpm \in BOOLEAN
      /\ m.report = "EXCLUDED" => m.srpm
  BY BuildAssumption DEF TypeOK, Message, ExcludedHaveSource
<1>2. t \in Project(t)
  BY <1>1 DEF Project
<1>3. CASE ProcessResult(m)
  <2> DEFINE stored == srpm[t] \/ Stores(m)
             stopped == IF ~url[t] /\ ~stored /\ m.report = "FAILED" THEN IdleSiblings(t) ELSE {}
  <2>1. /\ Settle(t, m.report, stopped)
        /\ m.report = "COMPLETED" => m.srpm \/ url[t]
        /\ url' = [u \in Task |-> url[u] \/ (~url[t] /\ stored /\ u \in Project(t))]
    BY <1>3 DEF ProcessResult
  <2>2. /\ stopped \in SUBSET Task
        /\ \A u \in stopped : status[u] = "IDLE" /\ RefOf[u] = RefOf[t] /\ u # t
    BY DEF IdleSiblings, Project
  <2>3. \A u \in Task : status'[u] = IF u = t THEN m.report
                                     ELSE IF u \in stopped THEN "FAILED" ELSE status[u]
    BY <2>1 DEF Settle
  <2>4. \A u \in Task : url'[u] = (url[u] \/ (~url[t] /\ stored /\ u \in Project(t)))
    BY <2>1
  <2>5. Project(t) \subseteq Task
    BY DEF Project
  <2>6. m.report # "FAILED" => stored \/ url[t]
    BY <1>1, <2>1 DEF Stores
  <2>7. \A u \in Task : url'[u] = (url[u] \/ (u \in Project(t) /\ url'[t] /\ ~url[t]))
    BY <1>1, <1>2, <2>4, <2>5 DEF TypeOK
  <2>8. m.report # "FAILED" => \A u \in Project(t) : url[t] \/ url'[u]
    BY <2>4, <2>5, <2>6
  <2>9. m.report = "FAILED" => \/ url[t] \/ (\A u \in Project(t) : url'[u])
                               \/ IdleSiblings(t) \subseteq stopped
    BY <2>4, <2>5
  <2>10. QED
    BY <1>1, <2>2, <2>3, <2>7, <2>8, <2>9
<1>4. CASE ProcessError(m)
  <2> DEFINE stopped == IF \A u \in SameRef(t) : status[u] = "IDLE" THEN SameRef(t) ELSE {}
  <2>1. Settle(t, "FAILED", stopped) /\ url' = url
    BY <1>4 DEF ProcessError
  <2>2. /\ stopped \in SUBSET Task
        /\ \A u \in stopped : status[u] = "IDLE" /\ RefOf[u] = RefOf[t] /\ u # t
    BY DEF SameRef
  <2>3. \A u \in Task : status'[u] = IF u = t THEN "FAILED"
                                     ELSE IF u \in stopped THEN "FAILED" ELSE status[u]
    BY <2>1 DEF Settle
  <2>4. IdleSiblings(t) \subseteq SameRef(t)
    BY DEF IdleSiblings, Project, SameRef
  <2>5. IdleSiblings(t) \subseteq stopped \/ \E u \in SameRef(t) : status[u] # "IDLE"
    BY <2>4
  <2>6. \A u \in Task : url'[u] = (url[u] \/ (u \in Project(t) /\ url'[t] /\ ~url[t]))
    BY <1>1, <2>1 DEF TypeOK
  <2>7. PICK report \in {"COMPLETED", "FAILED", "EXCLUDED"} : report = "FAILED"
    OBVIOUS
  <2>8. \A u \in Task : status'[u] = IF u = t THEN report
                                     ELSE IF u \in stopped THEN "FAILED" ELSE status[u]
    BY <2>3, <2>7
  <2> HIDE DEF stopped
  <2>9. QED
    BY <1>1, <2>2, <2>5, <2>6, <2>7, <2>8
<1>5. QED
  BY <1>3, <1>4 DEF Process

\* A worker that fails the source task stops all that is not touched yet; and
\* nobody else's failure stops a source task.
LEMMA WorkerStops ==
  ASSUME TypeOK, OneProjectPerRef, ExcludedHaveSource, IdleInv, SourceInv,
         NEW m \in queue, Process(m)
  PROVE  SourceInv'
<1>1. PICK stopped \in SUBSET Task, report \in {"COMPLETED", "FAILED", "EXCLUDED"} :
           /\ m.task \in Task
           /\ \A u \in stopped : status[u] = "IDLE" /\ RefOf[u] = RefOf[m.task] /\ u # m.task
           /\ \A u \in Task : status'[u] = IF u = m.task THEN report
                                           ELSE IF u \in stopped THEN "FAILED" ELSE status[u]
           /\ report # "FAILED" => \A u \in Project(m.task) : url[m.task] \/ url'[u]
           /\ \A u \in Task :
                 url'[u] = (url[u] \/ (u \in Project(m.task) /\ url'[m.task] /\ ~url[m.task]))
           /\ report = "FAILED" =>
                 \/ url[m.task] \/ (\A u \in Project(m.task) : url'[u])
                 \/ IdleSiblings(m.task) \subseteq stopped
                 \/ \E u \in SameRef(m.task) : status[u] # "IDLE"
  BY WorkerWrites
<1> DEFINE x == m.task
<1>2. status[x] \notin Untouched
  BY <1>1 DEF IdleInv
<1> SUFFICES ASSUME NEW t \in Task, NEW s \in SourceTask(t)
             PROVE  /\ status'[s] \in {"COMPLETED", "EXCLUDED"} => url'[t]
                    /\ url'[s] => url'[t]
                    /\ status'[s] \notin Settled /\ s # t => status'[t] \in Untouched
                    /\ status'[t] \notin Settled /\ ~url'[t] => status'[s] # "FAILED"
  BY DEF SourceInv, Finished
<1>3. /\ s \in Task /\ ArchOf[s] = Src /\ RefOf[s] = RefOf[t] /\ PlatformOf[s] = PlatformOf[t]
      /\ \A u \in Task : RefOf[u] = RefOf[s] => s \in SourceTask(u) /\ u \in Project(s)
  BY SourceTasks
<1>4. /\ status[s] \in {"COMPLETED", "EXCLUDED"} => url[t]
      /\ url[s] => url[t]
      /\ status[s] \notin Settled /\ s # t => status[t] \in Untouched
      /\ status[t] \notin Settled /\ ~url[t] => status[s] # "FAILED"
  BY DEF SourceInv, Finished
<1>5. url[t] => url'[t]
  BY <1>1
<1>6. url'[s] => url'[t]
  BY <1>1, <1>3, <1>4, <1>5 DEF Project
<1>7. status'[s] \in {"COMPLETED", "EXCLUDED"} => url'[t]
  <2>1. CASE s = x
    <3>1. t \in Project(x) /\ url[s] => url'[t]
      BY <1>3, <1>4, <1>5, <2>1
    <3>2. QED
      BY <1>1, <1>3, <3>1, <2>1
  <2>2. CASE s # x
    BY <1>1, <1>3, <1>4, <1>5, <2>2
  <2>3. QED
    BY <2>1, <2>2
\* Who touches another task of the project finds its source task settled.
<1>8. ASSUME RefOf[x] = RefOf[s], x # s PROVE status[s] \in Settled
  <2>1. s \in SourceTask(x)
    BY <1>1, <1>3, <1>8
  <2>2. QED
    BY <1>1, <1>2, <1>8, <2>1 DEF SourceInv, Finished
<1>9. ASSUME status'[s] \notin Settled, s # t PROVE status'[t] \in Untouched
  <2>1. s # x /\ s \notin stopped /\ status[s] \notin Settled
    BY <1>1, <1>3, <1>9 DEF Settled
  <2>2. RefOf[x] # RefOf[s]
    BY <1>8, <2>1
  <2>3. t # x /\ t \notin stopped
    BY <1>1, <1>3, <2>2
  <2>4. QED
    BY <1>1, <1>4, <1>9, <2>1, <2>3
<1>10. ASSUME status'[t] \notin Settled, ~url'[t], status'[s] = "FAILED" PROVE FALSE
  <2>1. t # x /\ t \notin stopped /\ status[t] \notin Settled /\ ~url[t] /\ ~url[s]
    BY <1>1, <1>4, <1>5, <1>10 DEF Settled
  <2>2. status[s] \notin {"COMPLETED", "EXCLUDED", "FAILED"}
    BY <1>4, <2>1
  <2>3. s = x
    <3>1. CASE s \in stopped
      BY <1>1, <1>8, <3>1 DEF Settled
    <3>2. CASE s \notin stopped /\ s # x
      BY <1>1, <1>3, <1>10, <2>2, <3>2
    <3>3. QED
      BY <3>1, <3>2
  <2>4. status[s] \notin Settled /\ report = "FAILED"
    BY <1>1, <1>2, <1>3, <1>10, <2>2, <2>3 DEF Settled, Untouched, TypeOK, Status, Unfinished
  <2>5. status[t] = "IDLE"
    BY <1>4, <2>1, <2>3, <2>4 DEF Settled, Untouched
  <2>6. t \in Project(s) /\ t \in IdleSiblings(s)
    BY <1>3, <2>1, <2>3, <2>5 DEF IdleSiblings
  <2>7. PICK u \in SameRef(s) : status[u] # "IDLE"
    BY <1>1, <1>10, <2>1, <2>3, <2>4, <2>6
  <2>8. u \in Task /\ u # s /\ s \in SourceTask(u)
    BY <1>3, <2>7 DEF SameRef
  <2>9. status[u] = "CANCELLED"
    BY <2>4, <2>7, <2>8 DEF SourceInv, Finished, Untouched
  <2>10. QED
    BY <2>5, <2>8, <2>9 DEF IdleInv
<1>11. QED
  BY <1>6, <1>7, <1>9, <1>10

LEMMA FirstStep ==
  ASSUME OneProjectPerRef, ExcludedHaveSource, TypeOK, WaitInv, OrderInv, FirstInv, [Next]_vars
  PROVE  FirstInv'
<1> SUFFICES ASSUME restarts' = 0 PROVE IdleInv' /\ SourceInv'
  BY DEF FirstInv
<1>0. CASE RestartFailed \/ RestartParallel
  BY <1>0 DEF RestartFailed, RestartParallel, Restart, TypeOK
<1> SUFFICES ASSUME ~(RestartFailed \/ RestartParallel) PROVE IdleInv' /\ SourceInv'
  BY <1>0
<1>1. IdleInv /\ SourceInv /\ restarts = 0
  BY DEF FirstInv, Next, vars, GetTask, Ping, Expire, Abandon, PostDone, ProcessResult,
         ProcessError, DropMessage, Cancel
\* Nodes and the broker only: messages are about tasks that are being built.
<1>2. ASSUME UNCHANGED <<status, url>>,
             \A t \in Task : building[t] = 0 => building'[t] = 0,
             \A m \in queue' : m \in queue \/ (m.task \in Task /\ building[m.task] > 0)
      PROVE  IdleInv' /\ SourceInv'
  <2>1. SourceInv'
    BY <1>1, <1>2 DEF SourceInv, Finished
  <2>2. IdleInv'
    BY <1>1, <1>2 DEF IdleInv, TypeOK
  <2>3. QED
    BY <2>1, <2>2
<1>3. ASSUME NEW req \in Requests, GetTask(req) PROVE IdleInv' /\ SourceInv'
  <2>1. PICK g \in req :
            /\ deps[g] = {} /\ status[g] \in Unfinished
            /\ status' = [status EXCEPT ![g] = "STARTED"]
            /\ building' = [building EXCEPT ![g] = @ + 1]
            /\ UNCHANGED <<url, queue>>
    BY <1>3 DEF GetTask, Available
  <2>2. g \in Task
    BY BuildAssumption, <2>1
  <2>3. \A t \in Task : status'[t] = IF t = g THEN "STARTED" ELSE status[t]
    BY <2>1, <2>2 DEF TypeOK
  <2>4. IdleInv'
    BY <1>1, <2>1, <2>2, <2>3 DEF IdleInv, Untouched, TypeOK, Unfinished
  <2>5. ASSUME NEW t \in Task, NEW s \in SourceTask(t)
        PROVE  /\ status'[s] \in {"COMPLETED", "EXCLUDED"} => url'[t]
               /\ url'[s] => url'[t]
               /\ status'[s] \notin Settled /\ s # t => status'[t] \in Untouched
               /\ status'[t] \notin Settled /\ ~url'[t] => status'[s] # "FAILED"
    <3>1. s \in Task /\ (s # t => s \in PlannedDeps(t))
      BY SourceTasks
    <3>2. /\ status[s] \in {"COMPLETED", "EXCLUDED"} => url[t]
          /\ url[s] => url[t]
          /\ status[s] \notin Settled /\ s # t => status[t] \in Untouched
          /\ status[t] \notin Settled /\ ~url[t] => status[s] # "FAILED"
      BY <1>1 DEF SourceInv, Finished
    <3>3. CASE t = g
      <4>1. s # t => status[s] \in Settled
        BY <1>1, <2>1, <3>1, <3>3 DEF OrderInv, Finished
      <4>2. status[t] \notin Settled
        BY <2>1, <3>3 DEF Unfinished, Settled
      <4>3. QED
        BY <2>1, <2>3, <3>1, <3>2, <3>3, <4>1, <4>2
    <3>4. CASE t # g
      BY <2>1, <2>3, <3>1, <3>2, <3>4 DEF Unfinished, Settled
    <3>5. QED
      BY <3>3, <3>4
  <2>6. SourceInv'
    BY <2>5 DEF SourceInv, Finished
  <2>7. QED
    BY <2>4, <2>6
<1>4. ASSUME NEW u \in Task, Ping(u) \/ Expire(u) \/ Abandon(u) PROVE IdleInv' /\ SourceInv'
  <2>1. /\ UNCHANGED <<status, url, queue>>
        /\ building' = building \/ (building[u] > 0 /\ building' = [building EXCEPT ![u] = @ - 1])
    BY <1>4 DEF Ping, Expire, Abandon
  <2>2. \A t \in Task : building[t] = 0 => building'[t] = 0
    BY <2>1 DEF TypeOK
  <2>3. QED
    BY <1>2, <2>1, <2>2
<1>5. ASSUME NEW u \in Task, NEW r \in Results, PostDone(u, r) PROVE IdleInv' /\ SourceInv'
  BY <1>2, <1>5 DEF PostDone, TypeOK
<1>6. ASSUME NEW m \in queue, Process(m) PROVE IdleInv' /\ SourceInv'
  <2>1. SourceInv'
    BY <1>1, <1>6, WorkerStops
  <2>2. PICK stopped \in SUBSET Task, report \in {"COMPLETED", "FAILED", "EXCLUDED"} :
           \A u \in Task : status'[u] = IF u = m.task THEN report
                                         ELSE IF u \in stopped THEN "FAILED" ELSE status[u]
    BY <1>6, WorkerWrites
  <2>3. queue' \subseteq queue /\ building' = building
    BY <1>6 DEF Process, ProcessResult, ProcessError, Acknowledge
  <2>4. \A u \in Task : status'[u] \in Untouched => status'[u] = status[u]
    BY <2>2 DEF Untouched
  <2>5. IdleInv'
    BY <1>1, <2>3, <2>4 DEF IdleInv, Untouched
  <2>6. QED
    BY <2>1, <2>5
<1>7. ASSUME NEW m \in queue, DropMessage(m) PROVE IdleInv' /\ SourceInv'
  BY <1>2, <1>7 DEF DropMessage
<1>8. CASE Cancel
  <2>1. /\ status' = [t \in Task |-> IF status[t] = "IDLE" THEN "CANCELLED" ELSE status[t]]
        /\ UNCHANGED <<url, queue, building>>
    BY <1>8 DEF Cancel
  <2>2. \A t \in Task : SourceTask(t) \subseteq Task
    BY DEF SourceTask
  <2>3. IdleInv'
    BY <1>1, <2>1 DEF IdleInv, Untouched
  <2>4. SourceInv'
    BY <1>1, <2>1, <2>2 DEF SourceInv, Finished, Untouched, Settled
  <2>5. QED
    BY <2>3, <2>4
<1>9. CASE UNCHANGED vars
  BY <1>2, <1>9 DEF vars, TypeOK
<1>10. QED
  BY <1>3, <1>4, <1>5, <1>6, <1>7, <1>8, <1>9 DEF Next, Process

\* In the first attempt a project whose source task failed before there was a
\* source RPM has no task left that nodes could take, in a build for one platform:
\* with the source task everything stops that waits for it
\* (__update_built_srpm_url, fast_fail_other_tasks_by_ref).
THEOREM ProjectsStopWithSource ==
  ASSUME OneProjectPerRef, ExcludedHaveSource
  PROVE  Spec => []StopsWithItsSource
<1>1. Init => FirstInv
  BY DEF Init, FirstInv, IdleInv, SourceInv, Finished, Settled, SourceTask, Untouched
<1>2. TypeOK /\ WaitInv /\ OrderInv /\ FirstInv /\ [Next]_vars => FirstInv'
  BY FirstStep
<1>3. FirstInv => StopsWithItsSource
  BY DEF FirstInv, SourceInv, StopsWithItsSource
<1>4. Init => OrderInv
  BY DEF Init, OrderInv
<1>5. TypeOK /\ OrderInv /\ [Next]_vars => OrderInv'
  BY OrderStep
<1>6. QED
  BY <1>1, <1>2, <1>3, <1>4, <1>5, TypeCorrect, WaitInvariant, PTL DEF Spec

------------------------------------------------------------------------------
(* Closing the build                                                       *)

\* Only a worker finishes the last task of a build nobody cancelled, and the
\* worker that does closes it.
THEOREM ClosedWhenFinished == Spec => []FinishedBuildIsClosed
<1>1. Init => FinishedBuildIsClosed
  BY PlanAssumption DEF Init, FinishedBuildIsClosed, AllFinished, Finished, Settled
<1>2. TypeOK /\ FinishedBuildIsClosed /\ [Next]_vars => FinishedBuildIsClosed'
  <2> SUFFICES ASSUME TypeOK, FinishedBuildIsClosed, [Next]_vars,
                      \A t \in Task : status'[t] \in Settled, cancels' = 0
               PROVE  closings' > 0
    BY DEF FinishedBuildIsClosed, AllFinished, Finished
  <2>0. CASE UNCHANGED <<status, cancels, closings>>
    BY <2>0 DEF FinishedBuildIsClosed, AllFinished, Finished
  <2>1. ASSUME NEW req \in Requests, GetTask(req) PROVE closings' > 0
    BY <2>1, BuildAssumption DEF GetTask, TypeOK, Settled
  <2>2. ASSUME NEW t \in Task, Ping(t) \/ Expire(t) \/ Abandon(t) PROVE closings' > 0
    BY <2>0, <2>2 DEF Ping, Expire, Abandon
  <2>3. ASSUME NEW t \in Task, NEW r \in Results, PostDone(t, r) PROVE closings' > 0
    BY <2>0, <2>3 DEF PostDone
  <2>4. ASSUME NEW m \in queue, Process(m) PROVE closings' > 0
    <3>1. closings \in Nat /\ CloseBuild
      BY <2>4 DEF Process, ProcessResult, ProcessError, TypeOK
    <3>2. closings' = closings + 1
      BY <3>1 DEF CloseBuild
    <3>3. QED
      BY <3>1, <3>2
  <2>5. ASSUME NEW m \in queue, DropMessage(m) PROVE closings' > 0
    BY <2>0, <2>5 DEF DropMessage
  <2>6. CASE RestartFailed \/ RestartParallel
    <3>1. PICK new : Restart(new)
      BY <2>6 DEF RestartFailed, RestartParallel
    <3>2. PICK t \in Task : t \in Failed(status)
      BY <3>1 DEF Restart, Failed
    <3>3. status'[t] = "IDLE"
      BY <3>1, <3>2 DEF Restart
    <3>4. QED
      BY <3>3 DEF Settled
  <2>7. CASE Cancel
    BY <2>7 DEF Cancel, TypeOK
  <2>8. CASE UNCHANGED vars
    BY <2>0, <2>8 DEF vars
  <2>9. QED
    BY <2>1, <2>2, <2>3, <2>4, <2>5, <2>6, <2>7, <2>8 DEF Next, Process
<1>3. QED
  BY <1>1, <1>2, TypeCorrect, PTL DEF Spec

------------------------------------------------------------------------------
(* Refinement                                                              *)

LEMMA InitRefines == Init => Schedule!Init
BY DEF Init, Schedule!Init, PhaseOf

LEMMA SettleRefines ==
    ASSUME TypeOK, NEW t \in Task,
           NEW report \in {"COMPLETED", "FAILED", "EXCLUDED"}, NEW stopped \in SUBSET Task,
           \A u \in stopped : status[u] = "IDLE", Settle(t, report, stopped)
    PROVE  Schedule!Next
<1>1. Schedule!Settle(t, stopped)
  BY DEF Settle, Schedule!Settle, PhaseOf
<1>2. QED
  BY <1>1 DEF Schedule!Next

LEMMA RestartRefines ==
    ASSUME TypeOK, TypeOK', WaitInv', NEW new, Restart(new), NewRowsOrder(status, new)
    PROVE  Schedule!Next
<1> DEFINE F == Failed(status)
           ph == [t \in Task |-> PhaseOf(status[t])]
           phn == [t \in Task |-> PhaseOf(status'[t])]
<1>1. F # {} /\ F \subseteq Task
  BY DEF Restart, Failed
<1>2. \A t \in F : ph[t] = "settled"
  BY DEF Failed, PhaseOf
<1>3. phn = [t \in Task |-> IF t \in F THEN "open" ELSE ph[t]]
  BY DEF Restart, PhaseOf
<1>4. deps' \in [Task -> SUBSET Task]
  BY DEF TypeOK
<1>5. /\ \A t \in Task \ F : deps'[t] = deps[t]
      /\ \A t \in F : deps[t] \subseteq deps'[t]
  BY <1>1 DEF Restart, NewRowsOrder
<1>6. \A t \in Task : \A d \in deps'[t] : phn[d] # "settled"
  <2> SUFFICES ASSUME NEW t \in Task, NEW d \in deps'[t] PROVE phn[d] # "settled"
    OBVIOUS
  <2>1. d \in Task
    BY <1>4
  <2>2. status'[d] \in {"IDLE", "STARTED", "CANCELLED"}
    BY DEF WaitInv, WaitsOnUnsettled, Unfinished
  <2>3. QED
    BY <2>1, <2>2 DEF PhaseOf
<1>7. Schedule!Acyclic(deps')
  BY DEF WaitInv, NoDependencyCycle, Acyclic, Schedule!Acyclic
<1>8. Schedule!Reopen(F)
  BY <1>1, <1>2, <1>3, <1>4, <1>5, <1>6, <1>7 DEF Schedule!Reopen
<1>9. QED
  BY <1>1, <1>8 DEF Schedule!Next

LEMMA StepRefines ==
    TypeOK /\ TypeOK' /\ WaitInv /\ WaitInv' /\ [Next]_vars
        => [Schedule!Next]_<<[t \in Task |-> PhaseOf(status[t])], deps>>
<1> DEFINE Step == [Schedule!Next]_<<[t \in Task |-> PhaseOf(status[t])], deps>>
<1> SUFFICES ASSUME TypeOK, TypeOK', WaitInv, WaitInv', [Next]_vars PROVE Step
  OBVIOUS
<1>0. CASE UNCHANGED <<status, deps>>
  BY <1>0
<1>1. ASSUME NEW req \in Requests, GetTask(req) PROVE Step
  <2>1. PICK t \in Task : /\ Available(t)
                          /\ status' = [status EXCEPT ![t] = "STARTED"]
                          /\ deps' = deps
    BY <1>1, BuildAssumption DEF GetTask
  <2>2. Schedule!Start(t)
    BY <2>1 DEF Schedule!Start, Available, Unfinished, PhaseOf, TypeOK
  <2>3. QED
    BY <2>2 DEF Schedule!Next
<1>2. ASSUME NEW t \in Task, Ping(t) \/ Expire(t) \/ Abandon(t) PROVE Step
  BY <1>0, <1>2 DEF Ping, Expire, Abandon
<1>3. ASSUME NEW t \in Task, NEW r \in Results, PostDone(t, r) PROVE Step
  BY <1>0, <1>3 DEF PostDone
<1>4. ASSUME NEW m \in queue, Process(m) PROVE Step
  BY <1>4, ProcessSettles, SettleRefines
<1>5. ASSUME NEW m \in queue, DropMessage(m) PROVE Step
  BY <1>0, <1>5 DEF DropMessage
<1>6. CASE RestartFailed
  BY <1>6, ChainOrders, RestartRefines DEF RestartFailed
<1>7. CASE RestartParallel
  BY <1>7, ParallelOrders, RestartRefines DEF RestartParallel
<1>8. CASE Cancel
  <2>1. Schedule!Withdraw
    BY <1>8 DEF Cancel, Schedule!Withdraw, PhaseOf
  <2>2. QED
    BY <2>1 DEF Schedule!Next
<1>9. CASE UNCHANGED vars
  BY <1>0, <1>9 DEF vars
<1>10. QED
  BY <1>1, <1>2, <1>3, <1>4, <1>5, <1>6, <1>7, <1>8, <1>9 DEF Next, Process

\* The build implements the schedule: tasks start only when they wait for
\* nothing, open again only after they settled, and never wait in a circle.
THEOREM BuildImplementsSchedule == Spec => ImplementsSchedule
<1>1. Init => Schedule!Init
  BY InitRefines
<1>2. TypeOK /\ TypeOK' /\ WaitInv /\ WaitInv' /\ [Next]_vars
        => [Schedule!Next]_<<[t \in Task |-> PhaseOf(status[t])], deps>>
  BY StepRefines
<1>3. QED
  BY <1>1, <1>2, WaitInvariant, PTL DEF Spec, ImplementsSchedule, Schedule!Spec

------------------------------------------------------------------------------
(* Folds.  The planner is a fold of folds: over the requested tasks, over   *)
(* platforms and over the projects of a module.                             *)

\* Steps from 0 to n.
LEMMA UpTo ==
    ASSUME NEW n \in Nat, NEW S, 0 \in S, \A i \in 1..n : i - 1 \in S => i \in S
    PROVE  \A i \in 0..n : i \in S
<1> DEFINE B == {i \in 0..n : i \notin S}
<1>1. SUFFICES ASSUME B # {} PROVE FALSE
  OBVIOUS
<1>2. PICK m \in B : \A i \in B : m <= i
  <2>1. B \subseteq Nat
    OBVIOUS
  <2> HIDE DEF B
  <2>2. QED
    BY <1>1, <2>1, Smallest
<1>3. m # 0 /\ m \in 1..n
  BY <1>2
<1>4. m - 1 \in 0..n /\ m - 1 \notin B
  BY <1>2, <1>3
<1>5. QED
  BY <1>3, <1>4, <1>2

LEMMA Maximum ==
    ASSUME NEW n \in Nat, NEW t \in SUBSET (1..n), t # {}
    PROVE  Max(t) \in t /\ \A x \in t : x <= Max(t)
<1> DEFINE S == {n - x : x \in t}
<1>0. \A x \in t : x \in Nat /\ n - x \in Nat
  OBVIOUS
<1>1. S \subseteq Nat /\ S # {}
  BY <1>0
<1>2. PICK m \in S : \A k \in S : m <= k
  <2> HIDE DEF S
  <2>1. QED
    BY <1>1, Smallest
<1>3. PICK x \in t : m = n - x
  BY <1>2
<1>4. ASSUME NEW y \in t PROVE x >= y
  <2>1. n - x <= n - y
    BY <1>2, <1>3
  <2>2. QED
    BY <1>0, <2>1
<1>5. \E z \in t : \A y \in t : z >= y
  BY <1>4
<1>6. Max(t) \in t /\ \A y \in t : Max(t) >= y
  BY <1>5 DEF Max
<1>7. QED
  BY <1>6

\* The step of each fold of the planner
FoldStep(fold, r, x) ==
    CASE fold.over = "projects" -> AddSingleProject(r, fold.prefix, fold.tag)
      [] fold.over = "platforms" -> AddModuleOn(r, fold.task, x.name, fold.refs)
      [] fold.over = "tasks" -> IF r.error THEN r
            ELSE AddGitProject(r, Request[fold.build].tasks[x], fold.refs[x])
      [] fold.over = "count" -> r + (IF IsModule(Request[fold.build].tasks[x])
            THEN Cardinality(EnabledIn(fold.refs[x])) ELSE 1)

\* The function by which the library defines a fold, which exists.
IsFold(fold, base, s, n, g) ==
    g = [t \in SUBSET (1..n) |->
           IF t = {} THEN base ELSE FoldStep(fold, g[t \ {Max(t)}], s[Max(t)])]
LEMMA FoldExists ==
    ASSUME NEW fold, NEW base, NEW s, NEW n \in Nat
    PROVE  \E g : IsFold(fold, base, s, n, g)
<1> DEFINE Is(m, g) == g = [t \in SUBSET (1..m) |->
              IF t = {} THEN base ELSE FoldStep(fold, g[t \ {Max(t)}], s[Max(t)])]
           S == {m \in 0..n : \E g : Is(m, g)}
<1>1. 0 \in S
  <2>1. Is(0, [t \in SUBSET (1..0) |-> base])
    <3> DEFINE g == [t \in SUBSET (1..0) |-> base]
    <3>1. \A t \in SUBSET (1..0) : t = {}
      OBVIOUS
    <3>2. g = [t \in SUBSET (1..0) |->
                 IF t = {} THEN base ELSE FoldStep(fold, g[t \ {Max(t)}], s[Max(t)])]
      BY <3>1
    <3>3. QED
      BY <3>2
  <2>2. QED
    BY <2>1
<1>2. ASSUME NEW m \in 1..n, m - 1 \in S PROVE m \in S
  <2>1. PICK g : Is(m - 1, g)
    BY <1>2
  <2> DEFINE h == [t \in SUBSET (1..m) |->
                      IF m \in t THEN FoldStep(fold, g[t \ {m}], s[m]) ELSE g[t]]
  <2>2. \A t \in SUBSET (1..m) : m \notin t => t \in SUBSET (1..(m - 1))
    OBVIOUS
  <2>3. ASSUME NEW t \in SUBSET (1..m)
        PROVE  h[t] = IF t = {} THEN base ELSE FoldStep(fold, h[t \ {Max(t)}], s[Max(t)])
    <3>1. CASE m \in t
      <4>1. Max(t) = m
        <5>1. m \in Nat /\ t \in SUBSET (1..m) /\ t # {}
          BY <3>1
        <5>2. Max(t) \in t /\ \A x \in t : x <= Max(t)
          BY <5>1, Maximum
        <5>3. Max(t) \in 1..m /\ m <= Max(t)
          BY <3>1, <5>2
        <5>4. QED
          BY <5>3
      <4>2. h[t \ {m}] = g[t \ {m}]
        OBVIOUS
      <4>3. h[t] = FoldStep(fold, g[t \ {m}], s[m])
        BY <3>1
      <4>4. t # {}
        BY <3>1
      <4> HIDE DEF h
      <4>5. QED
        BY <4>1, <4>2, <4>3, <4>4
    <3>2. CASE m \notin t
      <4>1. t \in SUBSET (1..(m - 1)) /\ h[t] = g[t]
        BY <2>2, <3>2
      <4>2. g[t] = IF t = {} THEN base ELSE FoldStep(fold, g[t \ {Max(t)}], s[Max(t)])
        BY <2>1, <4>1
      <4>3. h[t \ {Max(t)}] = g[t \ {Max(t)}]
        BY <3>2
      <4> HIDE DEF h
      <4>4. QED
        BY <4>1, <4>2, <4>3
    <3>3. QED
      BY <3>1, <3>2
  <2>4. h = [t \in SUBSET (1..m) |-> h[t]]
    OBVIOUS
  <2> HIDE DEF h
  <2>5. Is(m, h)
    BY <2>3, <2>4
  <2>6. m \in 0..n
    OBVIOUS
  <2> HIDE DEF Is
  <2>7. QED
    BY <2>5, <2>6
<1> HIDE DEF Is
<1>3. n \in S
  <2> HIDE DEF S
  <2>1. \A i \in 0..n : i \in S
    BY <1>1, <1>2, UpTo
  <2>2. QED
    BY <2>1
<1>4. QED
  BY <1>3 DEF Is, IsFold

\* What it does, from one element to the next.
Runs(fold, base, s, n, c, result) ==
    c[0] = base /\ c[n] = result /\ \A i \in 1..n : c[i] = FoldStep(fold, c[i - 1], s[i])
LEMMA FoldRuns ==
    ASSUME NEW fold, NEW base, NEW s, NEW n \in Nat, NEW g,
           IsFold(fold, base, s, n, g)
    PROVE  \E c : Runs(fold, base, s, n, c, g[1..n])
<1> DEFINE c == [i \in 0..n |-> g[1..i]]
<1>0. g = [t \in SUBSET (1..n) |->
             IF t = {} THEN base ELSE FoldStep(fold, g[t \ {Max(t)}], s[Max(t)])]
  BY DEF IsFold
<1>1. c[0] = base /\ c[n] = g[1..n]
  <2>1. c[0] = g[1..0] /\ c[n] = g[1..n]
    OBVIOUS
  <2>2. 1..0 = {} /\ {} \in SUBSET (1..n)
    OBVIOUS
  <2>3. g[{}] = base
    BY <1>0, <2>2
  <2>4. QED
    BY <2>1, <2>2, <2>3
<1>2. ASSUME NEW i \in 1..n PROVE c[i] = FoldStep(fold, c[i - 1], s[i])
  <2>1. 1..i \in SUBSET (1..n) /\ 1..i # {} /\ i \in 1..i
    OBVIOUS
  <2>2. Max(1..i) = i
    <3>1. i \in Nat /\ 1..i \in SUBSET (1..i)
      OBVIOUS
    <3>2. Max(1..i) \in 1..i /\ \A x \in 1..i : x <= Max(1..i)
      BY <2>1, <3>1, Maximum
    <3>3. QED
      BY <2>1, <3>2
  <2>3. (1..i) \ {i} = 1..(i - 1)
    OBVIOUS
  <2>4. g[1..i] = FoldStep(fold, g[(1..i) \ {Max(1..i)}], s[Max(1..i)])
    BY <1>0, <2>1
  <2>5. c[i] = g[1..i] /\ c[i - 1] = g[1..(i - 1)]
    <3>1. i \in 0..n /\ i - 1 \in 0..n
      OBVIOUS
    <3>2. \A k \in 0..n : c[k] = g[1..k]
      OBVIOUS
    <3> HIDE DEF c
    <3>3. QED
      BY <3>1, <3>2, Zenon
  <2> HIDE DEF c
  <2>6. QED
    BY <2>2, <2>3, <2>4, <2>5
<1> HIDE DEF c
<1>3. QED
  BY <1>1, <1>2 DEF Runs

\* The projects of a module, the platforms of a module, and the tasks of a build.
LEMMA ProjectsRun ==
    ASSUME NEW s, NEW t, NEW platform, NEW refs
    PROVE  \E c : LET n == Cardinality(EnabledIn(refs)) IN
              /\ n \in Nat /\ (EnabledIn(refs) # {} => n > 0)
              /\ c[0] = IndexModule(s, t, platform, refs) /\ c[n] = AddModuleOn(s, t, platform, refs)
              /\ \A i \in 1..n : c[i] = AddSingleProject(c[i - 1], platform, t.tag)
<1> DEFINE E == EnabledIn(refs)
           n == Cardinality(E)
           order == SetToSeq(E)
           base == IndexModule(s, t, platform, refs)
<1>1. E \subseteq Component /\ IsFiniteSet(E)
  <2>1. E \in SUBSET Component
    BY DEF EnabledIn
  <2>2. QED
    BY <2>1, FS_Subset, IndexAssumption
<1>2. n \in Nat /\ (E # {} => n > 0) /\ ExistsBijection(1..n, E)
  <2> HIDE DEF E
  <2>1. n \in Nat /\ ExistsBijection(1..n, E)
    BY <1>1, FS_CardinalityType
  <2>2. n = 0 <=> E = {}
    BY <1>1, FS_EmptySet
  <2>3. QED
    BY <2>1, <2>2
<1>3. DOMAIN order = 1..n
  <2> HIDE DEF E
  <2>1. \E f \in [1..n -> E] : IsInjective(f)
    BY <1>2 DEF ExistsBijection, Bijection, Injection, IsInjective
  <2>2. order \in [1..n -> E]
    BY <2>1 DEF SetToSeq
  <2>3. QED
    BY <2>2
<1> DEFINE fold == [over |-> "projects", prefix |-> platform, tag |-> t.tag]
           h == CHOOSE g : g = [q \in SUBSET (DOMAIN order) |->
                  IF q = {} THEN base ELSE AddSingleProject(g[q \ {Max(q)}], platform, t.tag)]
<1>4. \A r, x : FoldStep(fold, r, x) = AddSingleProject(r, platform, t.tag)
  BY DEF FoldStep
<1>5. AddModuleOn(s, t, platform, refs) = h[DOMAIN order]
  BY DEF AddModuleOn, FoldLeft, MapThenFoldSet
<1>6. IsFold(fold, base, order, n, h)
  <2> HIDE DEF n, order, base, fold
  <2>1. PICK g : IsFold(fold, base, order, n, g)
    BY <1>2, FoldExists
  <2>2. g = [q \in SUBSET (1..n) |->
            IF q = {} THEN base ELSE AddSingleProject(g[q \ {Max(q)}], platform, t.tag)]
    BY <2>1, <1>4 DEF IsFold
  <2>3. h = [q \in SUBSET (1..n) |->
            IF q = {} THEN base ELSE AddSingleProject(h[q \ {Max(q)}], platform, t.tag)]
    BY <2>2, <1>3
  <2> HIDE DEF h
  <2>4. QED
    BY <2>3, <1>4 DEF IsFold
<1> HIDE DEF E, h, n, order, base, fold
<1>7. PICK c : Runs(fold, base, order, n, c, h[1..n])
  BY <1>2, <1>6, FoldRuns
<1>8. /\ c[0] = base /\ c[n] = AddModuleOn(s, t, platform, refs)
      /\ \A i \in 1..n : c[i] = AddSingleProject(c[i - 1], platform, t.tag)
  BY <1>3, <1>4, <1>5, <1>7 DEF Runs
<1>9. QED
  BY <1>2, <1>8 DEF E, n, base

PlatformSteps(s, t, refs, c) ==
    LET platforms == Request[s.build].platforms
        n == Len(platforms)
        shared == Request[s.build].definitions IN
    /\ n \in Nat /\ n > 0
    /\ c[0] = [s EXCEPT !.dist = IF shared THEN s.buildDist ELSE NoDist]
    /\ AddSingleModule(s, t, refs) = [c[n] EXCEPT !.buildDist = IF shared THEN c[n].dist ELSE @]
    /\ \A i \in 1..n : c[i] = AddModuleOn(c[i - 1], t, platforms[i].name, refs)
LEMMA PlatformsRun ==
    ASSUME NEW s, NEW t, NEW refs, s.build \in Build
    PROVE  \E c : PlatformSteps(s, t, refs, c)
<1> DEFINE platforms == Request[s.build].platforms
           n == Len(platforms)
           shared == Request[s.build].definitions
           base == [s EXCEPT !.dist = IF shared THEN s.buildDist ELSE NoDist]
<1>1. n \in Nat /\ n > 0 /\ DOMAIN platforms = 1..n
  <2>1. platforms \in Seq([name : Platform, arches : Seq(STRING)]) /\ platforms # <<>>
    BY StartAssumption
  <2> HIDE DEF platforms
  <2>2. QED
    BY <2>1
<1> DEFINE fold == [over |-> "platforms", task |-> t, refs |-> refs]
           h == CHOOSE g : g = [q \in SUBSET (DOMAIN platforms) |->
                  IF q = {} THEN base ELSE AddModuleOn(g[q \ {Max(q)}], t, platforms[Max(q)].name, refs)]
           end == h[DOMAIN platforms]
<1>2. \A r, x : FoldStep(fold, r, x) = AddModuleOn(r, t, x.name, refs)
  BY DEF FoldStep
<1>3. AddSingleModule(s, t, refs) = [end EXCEPT !.buildDist = IF shared THEN end.dist ELSE @]
  BY DEF AddSingleModule, FoldLeft, MapThenFoldSet
<1>4. IsFold(fold, base, platforms, n, h)
  <2> HIDE DEF n, platforms, base, fold
  <2>1. PICK g : IsFold(fold, base, platforms, n, g)
    BY <1>1, FoldExists
  <2>2. g = [q \in SUBSET (1..n) |->
            IF q = {} THEN base ELSE AddModuleOn(g[q \ {Max(q)}], t, platforms[Max(q)].name, refs)]
    BY <2>1, <1>2 DEF IsFold
  <2>3. h = [q \in SUBSET (1..n) |->
            IF q = {} THEN base ELSE AddModuleOn(h[q \ {Max(q)}], t, platforms[Max(q)].name, refs)]
    BY <2>2, <1>1
  <2> HIDE DEF h
  <2>4. QED
    BY <2>3, <1>2, ZenonT(60) DEF IsFold
<1> HIDE DEF h
<1>5. PICK c : Runs(fold, base, platforms, n, c, h[1..n])
  <2> HIDE DEF n, platforms, base, fold
  <2>1. QED
    BY <1>1, <1>4, FoldRuns
<1>6. /\ c[0] = base /\ c[n] = end
      /\ \A i \in 1..n : c[i] = AddModuleOn(c[i - 1], t, platforms[i].name, refs)
  <2> HIDE DEF n, platforms, base, fold
  <2>1. QED
    BY <1>1, <1>2, <1>5 DEF Runs
<1> HIDE DEF end
<1>7. QED
  BY <1>1, <1>3, <1>6 DEF PlatformSteps

TaskSteps(b, refs, index, knows, failing, c) ==
    LET n == Len(Request[b].tasks) IN
    /\ n \in Nat /\ DOMAIN Request[b].tasks = 1..n
    /\ c[0] = NewPlanner(b, index, knows, failing)
    /\ c[n] = PlanBuild(b, refs, index, knows, failing)
    /\ \A i \in 1..n : c[i] = IF c[i - 1].error THEN c[i - 1]
                             ELSE AddGitProject(c[i - 1], Request[b].tasks[i], refs[i])
LEMMA TasksRun ==
    ASSUME NEW b \in Build, NEW refs, NEW index, NEW knows, NEW failing
    PROVE  \E c : TaskSteps(b, refs, index, knows, failing, c)
<1> DEFINE n == Len(Request[b].tasks)
           order == [i \in DOMAIN Request[b].tasks |-> i]
           base == NewPlanner(b, index, knows, failing)
           Cell(r, i) == IF r.error THEN r ELSE AddGitProject(r, Request[b].tasks[i], refs[i])
<1>1. n \in Nat /\ DOMAIN Request[b].tasks = 1..n
  BY StartAssumption
<1>2. DOMAIN order = 1..n /\ \A i \in 1..n : order[i] = i
  BY <1>1
<1> DEFINE fold == [over |-> "tasks", build |-> b, refs |-> refs]
           h == CHOOSE g : g = [q \in SUBSET (DOMAIN order) |->
                  IF q = {} THEN base ELSE Cell(g[q \ {Max(q)}], order[Max(q)])]
<1>3. \A r, x : FoldStep(fold, r, x) = Cell(r, x)
  BY DEF FoldStep
<1>4. PlanBuild(b, refs, index, knows, failing) = h[DOMAIN order]
  BY DEF PlanBuild, FoldLeft, MapThenFoldSet
<1>5. IsFold(fold, base, order, n, h)
  <2> HIDE DEF n, order, base, fold, Cell
  <2>1. PICK g : IsFold(fold, base, order, n, g)
    BY <1>1, FoldExists
  <2>2. g = [q \in SUBSET (1..n) |->
            IF q = {} THEN base ELSE Cell(g[q \ {Max(q)}], order[Max(q)])]
    BY <2>1, <1>3 DEF IsFold
  <2>3. h = [q \in SUBSET (1..n) |->
            IF q = {} THEN base ELSE Cell(h[q \ {Max(q)}], order[Max(q)])]
    BY <2>2, <1>2
  <2> HIDE DEF h
  <2>4. QED
    BY <2>3, <1>3 DEF IsFold
<1>6. PICK c : Runs(fold, base, order, n, c, h[1..n])
  <2> HIDE DEF n, order, base, fold, h
  <2>1. QED
    BY <1>1, <1>5, FoldRuns
<1>7. /\ c[0] = base /\ c[n] = h[DOMAIN order]
      /\ \A i \in 1..n : c[i] = Cell(c[i - 1], i)
  <2> HIDE DEF n, order, base, fold, h, Cell
  <2>1. QED
    BY <1>2, <1>3, <1>6 DEF Runs
<1> HIDE DEF h
<1>8. QED
  BY <1>1, <1>4, <1>7 DEF TaskSteps

CountSteps(b, refs, c) ==
    LET n == Len(Request[b].tasks) IN
    /\ c[0] = 0 /\ c[n] = Projects(b, refs)
    /\ \A i \in 1..n : c[i] = c[i - 1] +
          (IF IsModule(Request[b].tasks[i]) THEN Cardinality(EnabledIn(refs[i])) ELSE 1)
LEMMA CountRun ==
    ASSUME NEW b \in Build, NEW refs
    PROVE  \E c : CountSteps(b, refs, c)
<1> DEFINE n == Len(Request[b].tasks)
           order == [i \in DOMAIN Request[b].tasks |-> i]
           Size(i) == IF IsModule(Request[b].tasks[i]) THEN Cardinality(EnabledIn(refs[i])) ELSE 1
<1>1. n \in Nat /\ DOMAIN Request[b].tasks = 1..n
  BY StartAssumption
<1>2. DOMAIN order = 1..n /\ \A i \in 1..n : order[i] = i
  BY <1>1
<1> DEFINE fold == [over |-> "count", build |-> b, refs |-> refs]
           h == CHOOSE g : g = [q \in SUBSET (DOMAIN order) |->
                  IF q = {} THEN 0 ELSE g[q \ {Max(q)}] + Size(order[Max(q)])]
<1>3. \A r, x : FoldStep(fold, r, x) = r + Size(x)
  BY DEF FoldStep
<1>4. Projects(b, refs) = h[DOMAIN order]
  BY DEF Projects, FoldLeft, MapThenFoldSet
<1>5. IsFold(fold, 0, order, n, h)
  <2> HIDE DEF n, order, fold, Size
  <2>1. PICK g : IsFold(fold, 0, order, n, g)
    BY <1>1, FoldExists
  <2>2. g = [q \in SUBSET (1..n) |->
            IF q = {} THEN 0 ELSE g[q \ {Max(q)}] + Size(order[Max(q)])]
    BY <2>1, <1>3 DEF IsFold
  <2>3. h = [q \in SUBSET (1..n) |->
            IF q = {} THEN 0 ELSE h[q \ {Max(q)}] + Size(order[Max(q)])]
    BY <2>2, <1>2
  <2> HIDE DEF h
  <2>4. QED
    BY <2>3, <1>3 DEF IsFold
<1>6. PICK c : Runs(fold, 0, order, n, c, h[1..n])
  <2> HIDE DEF n, order, fold, h
  <2>1. QED
    BY <1>1, <1>5, FoldRuns
<1>7. /\ c[0] = 0 /\ c[n] = h[DOMAIN order]
      /\ \A i \in 1..n : c[i] = c[i - 1] + Size(i)
  <2> HIDE DEF n, order, fold, h, Size
  <2>1. QED
    BY <1>2, <1>3, <1>6 DEF Runs
<1> HIDE DEF h
<1>8. QED
  BY <1>1, <1>4, <1>7 DEF CountSteps

------------------------------------------------------------------------------
(* One requested package, one module on one platform.                       *)

PlannerFields ==
    {"build", "index", "known", "failing", "error", "arches", "modules", "tasks", "next", "nr",
     "dist", "dists", "buildDist"}
WithSource(b) == [p \in PlatformsOf(b) |-> <<"src">> \o RequestedArches(b, p)]
Listed(b) == {WithSource(b), [p \in PlatformsOf(b) |-> RequestedArches(b, p)]}

\* The part of the planner's state that is the same for the whole build, and
\* its architectures.
Planner(s, b, index, knows, failing) ==
    /\ DOMAIN s = PlannerFields
    /\ s.build = b /\ s.index = index /\ s.known = knows /\ s.failing = failing
    /\ s.arches \in Listed(b)
    /\ s.next \in Nat

\* Names of architectures are strings.
Str == STRING

LEMMA Concatenated ==
    ASSUME NEW S, NEW u \in Seq(S), NEW q \in Seq(S)
    PROVE  /\ u \o q \in Seq(S) /\ Len(u \o q) = Len(u) + Len(q)
           /\ \A j \in 1..(Len(u) + Len(q)) : (u \o q)[j] = IF j <= Len(u) THEN u[j] ELSE q[j - Len(u)]
OBVIOUS

LEMMA Prepend ==
    ASSUME NEW S, NEW x, NEW q \in Seq(S)
    PROVE  LET r == <<x>> \o q IN
           /\ Len(r) = Len(q) + 1 /\ DOMAIN r = 1..(Len(q) + 1)
           /\ r[1] = x /\ \A j \in 1..Len(q) : r[j + 1] = q[j]
           /\ Range(r) = Range(q) \cup {x}
<1> DEFINE T == S \cup {x}
           n == Len(q)
           u == <<x>>
           r == u \o q
<1>1. q \in Seq(T) /\ n \in Nat /\ DOMAIN q = 1..n
  OBVIOUS
<1>2. u \in Seq(T) /\ Len(u) = 1 /\ u[1] = x
  OBVIOUS
<1>3. r \in Seq(T) /\ Len(r) = n + 1 /\ \A j \in 1..(n + 1) : r[j] = IF j <= 1 THEN u[j] ELSE q[j - 1]
  <2> HIDE DEF T, u
  <2>1. u \o q \in Seq(T) /\ Len(u \o q) = Len(u) + Len(q)
    BY <1>1, <1>2, Concatenated
  <2>2. \A j \in 1..(Len(u) + Len(q)) : (u \o q)[j] = IF j <= Len(u) THEN u[j] ELSE q[j - Len(u)]
    BY <1>1, <1>2, Concatenated
  <2>3. QED
    BY <1>1, <1>2, <2>1, <2>2
<1> HIDE DEF T, n, u, r
<1>4. DOMAIN r = 1..(n + 1)
  BY <1>1, <1>3
<1>5. r[1] = x
  BY <1>1, <1>2, <1>3
<1>6. ASSUME NEW j \in 1..n PROVE r[j + 1] = q[j]
  <2>1. j + 1 \in 1..(1 + n) /\ ~ (j + 1 <= 1) /\ (j + 1) - 1 = j
    BY <1>1
  <2>2. QED
    BY <1>1, <1>3, <2>1
<1>7. ASSUME NEW y \in Range(r) PROVE y \in Range(q) \cup {x}
  <2>1. PICK j \in 1..(n + 1) : y = r[j]
    BY <1>4 DEF Range
  <2>2. j = 1 \/ (j - 1 \in 1..n /\ r[j] = q[j - 1])
    BY <1>1, <1>3
  <2>3. QED
    BY <2>1, <2>2, <1>5, <1>1 DEF Range
<1>8. ASSUME NEW y \in Range(q) PROVE y \in Range(r)
  <2>1. PICK j \in 1..n : y = q[j]
    BY <1>1 DEF Range
  <2>2. r[j + 1] = y /\ j + 1 \in DOMAIN r
    BY <1>1, <1>4, <1>6, <2>1
  <2>3. QED
    BY <2>2 DEF Range
<1>9. x \in Range(r)
  <2>1. 1 \in DOMAIN r
    BY <1>1, <1>4
  <2>2. QED
    BY <2>1, <1>5 DEF Range
<1>10. Range(r) = Range(q) \cup {x}
  BY <1>7, <1>8, <1>9
<1>11. QED
  BY <1>3, <1>4, <1>5, <1>6, <1>10 DEF n, r, u

LEMMA RequestOf ==
    ASSUME NEW b \in Build, NEW i \in DOMAIN Request[b].platforms
    PROVE  LET p == Request[b].platforms[i] IN
           /\ p.name \in PlatformsOf(b) /\ p.name \in Platform /\ p.arches \in Seq(Str)
           /\ RequestedArches(b, p.name) = p.arches
           /\ "src" \notin Range(p.arches) /\ "noarch" \notin Range(p.arches)
<1> DEFINE ps == Request[b].platforms
           p == ps[i]
<1>1. ps \in Seq([name : Platform, arches : Seq(Str)])
  BY StartAssumption DEF Str
<1>2. p \in [name : Platform, arches : Seq(Str)] /\ p \in Range(ps)
  <2>1. i \in DOMAIN ps
    OBVIOUS
  <2> DEFINE Named == [name : Platform, arches : Seq(Str)]
  <2> HIDE DEF ps
  <2>0. ps \in Seq(Named)
    BY <1>1
  <2> HIDE DEF Named
  <2>2. ps[i] \in Named
    BY <2>0, <2>1
  <2>3. ps[i] \in Range(ps)
    BY <2>1 DEF Range
  <2>4. QED
    BY <2>2, <2>3 DEF Named
<1>3. \A q \in Range(ps) : q.name = p.name => q = p
  <2>1. \A j \in DOMAIN ps : ps[j].name = ps[i].name => i = j
    BY StartAssumption
  <2> HIDE DEF ps
  <2>2. QED
    BY <2>1 DEF Range
<1>4. RequestedArches(b, p.name) = p.arches
  <2>1. (CHOOSE q \in Range(ps) : q.name = p.name) = p
    <3> HIDE DEF ps
    <3>1. QED
      BY <1>2, <1>3
  <2>2. QED
    BY <2>1 DEF RequestedArches
<1>5. Range(p.arches) \cap {"src", "noarch"} = {}
  BY <1>2, StartAssumption
<1>6. p.name \in PlatformsOf(b)
  BY <1>2 DEF PlatformsOf
<1>7. p.name \in Platform /\ p.arches \in Seq(Str)
  <2> HIDE DEF p
  <2>1. QED
    BY <1>2
<1>8. QED
  BY <1>4, <1>5, <1>6, <1>7

LEMMA PlatformsAre ==
    ASSUME NEW b \in Build, NEW name \in PlatformsOf(b)
    PROVE  \E i \in DOMAIN Request[b].platforms : Request[b].platforms[i].name = name
<1>1. PICK p \in Range(Request[b].platforms) : p.name = name
  BY DEF PlatformsOf
<1>2. QED
  BY <1>1 DEF Range

LEMMA WithSourceOf ==
    ASSUME NEW b \in Build, NEW name \in PlatformsOf(b)
    PROVE  /\ name \in Platform
           /\ RequestedArches(b, name) \in Seq(Str)
           /\ "src" \notin Range(RequestedArches(b, name)) /\ "noarch" \notin Range(RequestedArches(b, name))
           /\ WithSource(b)[name] = <<"src">> \o RequestedArches(b, name)
           /\ Range(WithSource(b)[name]) = Range(RequestedArches(b, name)) \cup {"src"}
           /\ RequestedArches(b, name) # <<>> =>
                 /\ Last(WithSource(b)[name]) = Last(RequestedArches(b, name))
                 /\ Last(RequestedArches(b, name)) \in Range(RequestedArches(b, name))
<1>1. PICK i \in DOMAIN Request[b].platforms : Request[b].platforms[i].name = name
  BY PlatformsAre
<1> DEFINE q == RequestedArches(b, name)
<1>2. name \in Platform /\ q \in Seq(Str) /\ "src" \notin Range(q) /\ "noarch" \notin Range(q)
  BY <1>1, RequestOf
<1>3. WithSource(b)[name] = <<"src">> \o q
  BY DEF WithSource
<1> HIDE DEF q
<1>4. Range(<<"src">> \o q) = Range(q) \cup {"src"}
  BY <1>2, Prepend
<1>5. q # <<>> => Last(<<"src">> \o q) = Last(q) /\ Last(q) \in Range(q)
  <2>1. SUFFICES ASSUME q # <<>> PROVE Last(<<"src">> \o q) = Last(q) /\ Last(q) \in Range(q)
    OBVIOUS
  <2>2. Len(q) \in Nat \ {0} /\ DOMAIN q = 1..Len(q)
    BY <1>2, <2>1
  <2> DEFINE r == <<"src">> \o q
  <2>3. Len(r) = Len(q) + 1 /\ \A j \in 1..Len(q) : r[j + 1] = q[j]
    BY <1>2, Prepend
  <2> HIDE DEF r
  <2>4. Len(q) \in 1..Len(q)
    BY <2>2
  <2>5. r[Len(r)] = q[Len(q)] /\ q[Len(q)] \in Range(q)
    BY <2>2, <2>3, <2>4 DEF Range
  <2>6. QED
    BY <2>5 DEF Last, r
<1>6. QED
  BY <1>2, <1>3, <1>4, <1>5 DEF q

\* What _add_single_project leaves alone and what it adds.
ProjectAdded(s, r, b) ==
    /\ r.arches = WithSource(b) /\ r.next = s.next + 1
    /\ r.modules = s.modules /\ r.nr = s.nr /\ r.dists = s.dists /\ r.buildDist = s.buildDist
    /\ r.tasks = s.tasks \cup {[index |-> s.next, platform |-> g[1], arch |-> g[2], nr |-> s.nr] : g \in Targets(b)}
LEMMA SingleProject ==
    ASSUME NEW s, NEW prefix, NEW tag, NEW b \in Build, NEW index, NEW knows, NEW failing,
           Planner(s, b, index, knows, failing)
    PROVE  /\ Planner(AddSingleProject(s, prefix, tag), b, index, knows, failing)
           /\ ProjectAdded(s, AddSingleProject(s, prefix, tag), b)
<1> DEFINE r == AddSingleProject(s, prefix, tag)
           arches == [p \in DOMAIN s.arches |->
                        IF "src" \in Range(s.arches[p]) THEN s.arches[p] ELSE <<"src">> \o s.arches[p]]
           added == UNION {{BuildTask(s, p, a) : a \in Range(arches[p])} : p \in DOMAIN arches}
<1>1. DOMAIN s = PlannerFields
  BY DEF Planner
<1>2. /\ DOMAIN r = PlannerFields
      /\ r.build = s.build /\ r.index = s.index /\ r.known = s.known /\ r.failing = s.failing
      /\ r.arches = arches /\ r.next = s.next + 1 /\ r.tasks = s.tasks \cup added
      /\ r.modules = s.modules /\ r.nr = s.nr /\ r.dists = s.dists /\ r.buildDist = s.buildDist
  BY <1>1 DEF AddSingleProject, PlannerFields
<1>3. arches = WithSource(b)
  <2>1. DOMAIN s.arches = PlatformsOf(b)
    BY DEF Planner, Listed, WithSource
  <2>2. ASSUME NEW p \in PlatformsOf(b) PROVE arches[p] = <<"src">> \o RequestedArches(b, p)
    BY <2>1, WithSourceOf DEF Planner, Listed
  <2>3. QED
    BY <2>1, <2>2 DEF WithSource
<1>4. added = {[index |-> s.next, platform |-> g[1], arch |-> g[2], nr |-> s.nr] : g \in Targets(b)}
  <2> DEFINE Cell(p, a) == [index |-> s.next, platform |-> p, arch |-> a, nr |-> s.nr]
  <2>1. added = UNION {{Cell(p, a) : a \in Range(RequestedArches(b, p)) \cup {"src"}} : p \in PlatformsOf(b)}
    <3>1. DOMAIN arches = PlatformsOf(b)
      BY <1>3 DEF WithSource
    <3>2. \A p \in PlatformsOf(b) : Range(arches[p]) = Range(RequestedArches(b, p)) \cup {"src"}
      BY <1>3, WithSourceOf
    <3>3. \A p, a : BuildTask(s, p, a) = Cell(p, a)
      BY DEF BuildTask
    <3> HIDE DEF arches, Cell
    <3>4. QED
      BY <3>1, <3>2, <3>3
  <2>2. Targets(b) = UNION {{p} \X (Range(RequestedArches(b, p)) \cup {"src"}) : p \in PlatformsOf(b)}
    <3> DEFINE ps == Request[b].platforms
    <3>1. \A q \in Range(ps) : q.name \in PlatformsOf(b) /\ RequestedArches(b, q.name) = q.arches
      <4>1. \A q \in Range(ps) : \E i \in DOMAIN ps : q = ps[i]
        BY DEF Range
      <4>2. QED
        BY <4>1, RequestOf
    <3>2. \A p \in PlatformsOf(b) : \E q \in Range(ps) : q.name = p
      BY DEF PlatformsOf
    <3> DEFINE Of(p) == {p} \X (Range(RequestedArches(b, p)) \cup {"src"})
               At1(q) == {q.name} \X (Range(q.arches) \cup {"src"})
    <3>a. \A q \in Range(ps) : q.name \in PlatformsOf(b) /\ At1(q) = Of(q.name)
      BY <3>1
    <3> HIDE DEF ps, Of, At1
    <3>b. {At1(q) : q \in Range(ps)} = {Of(p) : p \in PlatformsOf(b)}
      BY <3>a, <3>2
    <3>3. {{q.name} \X (Range(q.arches) \cup {"src"}) : q \in Range(ps)}
          = {{p} \X (Range(RequestedArches(b, p)) \cup {"src"}) : p \in PlatformsOf(b)}
      BY <3>b DEF Of, At1
    <3>4. QED
      BY <3>3 DEF Targets, ps
  <2> DEFINE A(p) == Range(RequestedArches(b, p)) \cup {"src"}
  <2>3. UNION {{Cell(p, a) : a \in A(p)} : p \in PlatformsOf(b)}
        = {Cell(g[1], g[2]) : g \in UNION {{p} \X A(p) : p \in PlatformsOf(b)}}
    <3> HIDE DEF A, Cell
    <3> DEFINE G == UNION {{p} \X A(p) : p \in PlatformsOf(b)}
               T == {Cell(g[1], g[2]) : g \in G}
    <3>1. ASSUME NEW p \in PlatformsOf(b), NEW a \in A(p) PROVE Cell(p, a) \in T
      <4>1. <<p, a>> \in G /\ <<p, a>>[1] = p /\ <<p, a>>[2] = a
        OBVIOUS
      <4> HIDE DEF G
      <4>2. QED
        BY <4>1
    <3>2. ASSUME NEW g \in G PROVE g[1] \in PlatformsOf(b) /\ g[2] \in A(g[1])
      OBVIOUS
    <3>3. ASSUME NEW x \in T PROVE \E p \in PlatformsOf(b) : \E a \in A(p) : x = Cell(p, a)
      <4>1. PICK g \in G : x = Cell(g[1], g[2])
        OBVIOUS
      <4> HIDE DEF G
      <4>2. QED
        BY <3>2, <4>1
    <3> HIDE DEF T
    <3>4. UNION {{Cell(p, a) : a \in A(p)} : p \in PlatformsOf(b)} = T
      BY <3>1, <3>3
    <3>5. QED
      BY <3>4 DEF T
  <2>4. QED
    BY <2>1, <2>2, <2>3
<1>5. Planner(r, b, index, knows, failing)
  <2> HIDE DEF r, arches
  <2>1. QED
    BY <1>2, <1>3 DEF Planner, Listed
<1>6. QED
  BY <1>2, <1>3, <1>4, <1>5 DEF ProjectAdded

\* A task for every project so far, platform and architecture.
Grid(s, b) ==
    \E nrOf : s.tasks = {[index |-> i, platform |-> g[1], arch |-> g[2], nr |-> nrOf[i]] :
                           i \in 0..(s.next - 1), g \in Targets(b)}
LEMMA SameGrid ==
    ASSUME NEW s, NEW r, NEW b, Grid(s, b), r.tasks = s.tasks, r.next = s.next
    PROVE  Grid(r, b)
<1>1. PICK nrOf : s.tasks = {[index |-> i, platform |-> g[1], arch |-> g[2], nr |-> nrOf[i]] :
                               i \in 0..(s.next - 1), g \in Targets(b)}
  BY DEF Grid
<1>2. r.tasks = {[index |-> i, platform |-> g[1], arch |-> g[2], nr |-> nrOf[i]] :
                   i \in 0..(r.next - 1), g \in Targets(b)}
  BY <1>1
<1>3. QED
  BY <1>2 DEF Grid

LEMMA GridGrows ==
    ASSUME NEW s, NEW prefix, NEW tag, NEW b \in Build, NEW index, NEW knows, NEW failing,
           Planner(s, b, index, knows, failing), Grid(s, b)
    PROVE  Grid(AddSingleProject(s, prefix, tag), b)
<1> DEFINE r == AddSingleProject(s, prefix, tag)
           Cell(i, g, nr) == [index |-> i, platform |-> g[1], arch |-> g[2], nr |-> nr]
           n == s.next
           G == Targets(b)
<1>1. /\ r.next = n + 1 /\ n \in Nat
      /\ r.tasks = s.tasks \cup {Cell(n, g, s.nr) : g \in G}
  BY SingleProject DEF Planner, ProjectAdded
<1>2. PICK nrOf : s.tasks = {Cell(i, g, nrOf[i]) : i \in 0..(n - 1), g \in G}
  BY DEF Grid
<1> DEFINE nrs == [i \in 0..n |-> IF i = n THEN s.nr ELSE nrOf[i]]
<1>3. nrs[n] = s.nr /\ \A i \in 0..(n - 1) : nrs[i] = nrOf[i]
  BY <1>1
<1>4. 0..(r.next - 1) = (0..(n - 1)) \cup {n}
  BY <1>1
<1> HIDE DEF nrs, Cell, n, G, r
<1>5. r.tasks = {Cell(i, g, nrs[i]) : i \in (0..(n - 1)) \cup {n}, g \in G}
  BY <1>1, <1>2, <1>3
<1>6. r.tasks = {Cell(i, g, nrs[i]) : i \in 0..(r.next - 1), g \in G}
  BY <1>4, <1>5
<1>7. QED
  BY <1>6 DEF Grid, Cell, G, r

\* The dist of a project: one that is set, else the tag's, else the macro of the
\* module whose projects these are, if it is the only one.
ProjectDist(s, r, b, index, prefix, tag) ==
    LET p == Request[b].platforms[1] IN
    /\ s.dist # NoDist => r.dist = s.dist
    /\ s.dist = NoDist /\ tag # NoDist => r.dist = tag
    /\ s.dist = NoDist /\ tag = NoDist /\ prefix = None => r.dist = NoDist
    /\ (/\ s.dist = NoDist /\ tag = NoDist /\ prefix # None
        /\ OnOnePlatform(b) /\ p.arches # <<>> /\ s.nr \in Nat
        /\ \A m \in s.modules : m.nr = s.nr
        /\ \E m \in s.modules : m.platform = p.name /\ m.arch = Last(p.arches))
       => r.dist = [module |-> s.nr, index |-> index[p.name], prefix |-> prefix]
LEMMA SingleDist ==
    ASSUME NEW s, NEW prefix, NEW tag, NEW b \in Build, NEW index, NEW knows, NEW failing,
           Planner(s, b, index, knows, failing)
    PROVE  ProjectDist(s, AddSingleProject(s, prefix, tag), b, index, prefix, tag)
<1> DEFINE r == AddSingleProject(s, prefix, tag)
           ps == Request[s.build].platforms
           p == ps[1]
           arches == [q \in DOMAIN s.arches |->
                        IF "src" \in Range(s.arches[q]) THEN s.arches[q] ELSE <<"src">> \o s.arches[q]]
           withModules == {i \in DOMAIN ps : ModulesOf(s, ps[i].name, Last(arches[ps[i].name])) # {}}
           last == ps[Max(withModules)].name
           macro == IF withModules = {} \/ prefix = None THEN NoDist
                    ELSE CalcDistMacro(s, last, Last(arches[last]), prefix)
<1>1. DOMAIN s = PlannerFields /\ s.build = b /\ s.index = index
  BY DEF Planner
<1>2. r.dist = TakeDist(s.dist, tag, macro)
  <2>1. r = [s EXCEPT
               !.arches = arches,
               !.error = @ \/ (prefix = None /\ withModules # {}),
               !.dist = TakeDist(@, tag, macro),
               !.tasks = @ \cup UNION {{BuildTask(s, q, a) : a \in Range(arches[q])} : q \in DOMAIN arches},
               !.next = @ + 1]
    BY DEF AddSingleProject
  <2> HIDE DEF macro, arches, withModules, r
  <2>2. QED
    BY <1>1, <2>1 DEF PlannerFields
<1>3. arches = WithSource(b)
  <2>1. r.arches = arches
    BY <1>1 DEF AddSingleProject, PlannerFields
  <2> HIDE DEF arches
  <2>2. QED
    BY <2>1, SingleProject DEF ProjectAdded
<1>4. ASSUME prefix # None, OnOnePlatform(b), p.arches # <<>>, s.nr \in Nat,
             \A m \in s.modules : m.nr = s.nr,
             \E m \in s.modules : m.platform = p.name /\ m.arch = Last(p.arches)
      PROVE  macro = [module |-> s.nr, index |-> index[p.name], prefix |-> prefix]
  <2>1. DOMAIN ps = {1}
    <3>1. ps \in Seq([name : Platform, arches : Seq(STRING)]) /\ Len(ps) = 1
      BY <1>1, <1>4, StartAssumption DEF OnOnePlatform
    <3> HIDE DEF ps
    <3>2. DOMAIN ps = 1..1
      BY <3>1
    <3>3. QED
      BY <3>2
  <2>2. RequestedArches(b, p.name) = p.arches /\ p.name \in PlatformsOf(b)
    BY <1>1, <2>1, RequestOf
  <2>3. Last(arches[p.name]) = Last(p.arches)
    BY <1>3, <1>4, <2>2, WithSourceOf
  <2> DEFINE M == ModulesOf(s, p.name, Last(p.arches))
  <2>4. M # {} /\ {m.nr : m \in M} = {s.nr}
    <3>1. M # {} /\ \A m \in M : m.nr = s.nr
      BY <1>4 DEF ModulesOf
    <3> HIDE DEF M
    <3> DEFINE N == {m.nr : m \in M}
    <3>2. PICK k : k \in M /\ k.nr = s.nr
      BY <3>1
    <3>3. s.nr \in N
      BY <3>2
    <3>4. \A v \in N : v = s.nr
      BY <3>1
    <3> HIDE DEF N
    <3>5. N = {s.nr}
      BY <3>3, <3>4
    <3>6. QED
      BY <3>1, <3>5 DEF N
  <2>5. withModules = {1}
    <3>1. \A i \in DOMAIN ps : i = 1 /\ ModulesOf(s, ps[i].name, Last(arches[ps[i].name])) = M
      <4>1. ModulesOf(s, p.name, Last(arches[p.name])) = M
        BY <2>3
      <4>2. \A i \in DOMAIN ps : i = 1
        BY <2>1
      <4>3. \A i \in DOMAIN ps : ps[i] = p
        BY <4>2
      <4> HIDE DEF M, ps, arches, p
      <4>4. QED
        BY <4>1, <4>2, <4>3
    <3>2. QED
      BY <3>1, <2>1, <2>4
  <2>6. Max({1}) = 1
    <3>1. Max({1}) \in {1}
      BY Maximum
    <3>2. QED
      BY <3>1
  <2>7. Min({s.nr}) = s.nr
    <3>1. \A x \in {s.nr} : s.nr <= x
      BY <1>4
    <3>2. (CHOOSE x \in {s.nr} : \A y \in {s.nr} : x <= y) = s.nr
      BY <3>1
    <3>3. QED
      BY <3>2 DEF Min
  <2>8. last = p.name
    BY <2>5, <2>6
  <2>9. macro = CalcDistMacro(s, p.name, Last(p.arches), prefix)
    <3> HIDE DEF last, withModules, arches
    <3>1. QED
      BY <1>4, <2>3, <2>5, <2>8
  <2>10. QED
    BY <2>9, <2>4, <2>7, <1>1 DEF CalcDistMacro
<1>5. prefix = None => macro = NoDist
  OBVIOUS
<1> HIDE DEF macro, r
<1>6. QED
  BY <1>1, <1>2, <1>4, <1>5 DEF TakeDist, ProjectDist, r

\* The modules so far, each with the index that its task has.
MadeOf(s, b, refs) ==
    /\ s.nr \in Nat
    /\ \A m \in s.modules :
          /\ m.nr \in 1..s.nr /\ IsModule(Request[b].tasks[m.nr])
          /\ m.arch \in Arches(b) \cup {"src"}
          /\ m.lists = PrepareModuleIndex(s.known, s.failing, refs[m.nr], m.arch, Request[b].beta)
Progress(s, b, refs, index, knows, failing) ==
    Planner(s, b, index, knows, failing) /\ Grid(s, b) /\ MadeOf(s, b, refs)

\* A project keeps it.
LEMMA ProjectProgress ==
    ASSUME NEW s, NEW prefix, NEW tag, NEW b \in Build, NEW refs, NEW index, NEW knows, NEW failing,
           Progress(s, b, refs, index, knows, failing)
    PROVE  Progress(AddSingleProject(s, prefix, tag), b, refs, index, knows, failing)
<1> DEFINE r == AddSingleProject(s, prefix, tag)
<1>0. Planner(s, b, index, knows, failing) /\ Grid(s, b) /\ MadeOf(s, b, refs)
  BY DEF Progress
<1>1. Planner(r, b, index, knows, failing) /\ r.modules = s.modules /\ r.nr = s.nr
  BY <1>0, SingleProject DEF ProjectAdded
<1>2. r.known = s.known /\ r.failing = s.failing
  <2> HIDE DEF r
  <2>1. QED
    BY <1>0, <1>1 DEF Planner
<1>3. MadeOf(r, b, refs)
  <2> HIDE DEF r
  <2>1. QED
    BY <1>0, <1>1, <1>2 DEF MadeOf
<1>4. Grid(r, b)
  BY <1>0, GridGrows
<1>5. QED
  BY <1>1, <1>3, <1>4 DEF Progress

\* So do the module's own modules, one for every architecture.
ModulesAdded(s, r, b, platform) ==
    /\ r.next = s.next /\ r.nr = s.nr /\ r.dist = s.dist /\ r.dists = s.dists /\ r.buildDist = s.buildDist
    /\ s.modules = {} => \A m \in r.modules : m.nr = s.nr
    /\ RequestedArches(b, platform) # <<>> =>
         \E m \in r.modules : m.platform = platform /\ m.arch = Last(RequestedArches(b, platform))
LEMMA ModuleIndexed ==
    ASSUME NEW s, NEW t, NEW platform, NEW b \in Build, NEW refs, NEW index, NEW knows, NEW failing,
           Progress(s, b, refs, index, knows, failing), platform \in PlatformsOf(b),
           s.nr \in 1..Len(Request[b].tasks), IsModule(Request[b].tasks[s.nr])
    PROVE  /\ Progress(IndexModule(s, t, platform, refs[s.nr]), b, refs, index, knows, failing)
           /\ ModulesAdded(s, IndexModule(s, t, platform, refs[s.nr]), b, platform)
<1> DEFINE r == IndexModule(s, t, platform, refs[s.nr])
           lists(a) == PrepareModuleIndex(s.known, s.failing, refs[s.nr], a, Request[b].beta)
           new == {RpmModule(s, platform, a, lists(a)) : a \in Range(s.arches[platform])}
<1>1. Planner(s, b, index, knows, failing) /\ Grid(s, b) /\ MadeOf(s, b, refs)
  BY DEF Progress
<1>2. DOMAIN s = PlannerFields /\ s.build = b
  BY <1>1 DEF Planner
<1>3. /\ DOMAIN r = PlannerFields
      /\ r.build = s.build /\ r.index = s.index /\ r.known = s.known /\ r.failing = s.failing
      /\ r.arches = s.arches /\ r.next = s.next /\ r.tasks = s.tasks /\ r.dist = s.dist
      /\ r.modules = s.modules \cup new /\ r.nr = s.nr /\ r.dists = s.dists /\ r.buildDist = s.buildDist
  <2>1. r = [s EXCEPT !.error = @ \/ ~t.devel, !.modules = @ \cup new]
    BY <1>2 DEF IndexModule
  <2> HIDE DEF new, r
  <2>2. QED
    BY <1>2, <2>1 DEF PlannerFields
<1>4. /\ Range(s.arches[platform]) \subseteq Arches(b) \cup {"src"}
      /\ Range(RequestedArches(b, platform)) \subseteq Range(s.arches[platform])
  <2>1. s.arches[platform] = RequestedArches(b, platform) \/ s.arches[platform] = WithSource(b)[platform]
    BY <1>1 DEF Planner, Listed
  <2>2. Range(RequestedArches(b, platform)) \subseteq Arches(b)
    <3>1. PICK i \in DOMAIN Request[b].platforms : Request[b].platforms[i].name = platform
      BY PlatformsAre
    <3>2. RequestedArches(b, platform) = Request[b].platforms[i].arches
      BY <3>1, RequestOf
    <3>3. QED
      BY <3>2 DEF Arches, Range
  <2>3. Range(WithSource(b)[platform]) = Range(RequestedArches(b, platform)) \cup {"src"}
    BY WithSourceOf
  <2>4. QED
    BY <2>1, <2>2, <2>3
<1>5. \A m \in new : /\ m.nr = s.nr /\ m.platform = platform /\ m.arch \in Range(s.arches[platform])
                     /\ m.lists = lists(m.arch)
  <2>1. ASSUME NEW a \in Range(s.arches[platform])
        PROVE  LET m == RpmModule(s, platform, a, lists(a)) IN
               m.nr = s.nr /\ m.platform = platform /\ m.arch = a /\ m.lists = lists(a)
    BY DEF RpmModule
  <2> HIDE DEF lists
  <2>2. QED
    BY <2>1
<1>6. \A a \in Range(s.arches[platform]) : \E m \in new : m.platform = platform /\ m.arch = a
  <2>1. ASSUME NEW a \in Range(s.arches[platform])
        PROVE  LET m == RpmModule(s, platform, a, lists(a)) IN m.platform = platform /\ m.arch = a
    BY DEF RpmModule
  <2> HIDE DEF lists
  <2>2. QED
    BY <2>1
<1> HIDE DEF new, r
<1>7. MadeOf(r, b, refs)
  <2>1. ASSUME NEW m \in r.modules
        PROVE  /\ m.nr \in 1..s.nr /\ IsModule(Request[b].tasks[m.nr])
               /\ m.arch \in Arches(b) \cup {"src"}
               /\ m.lists = PrepareModuleIndex(s.known, s.failing, refs[m.nr], m.arch, Request[b].beta)
    <3>1. CASE m \in s.modules
      BY <1>1, <3>1 DEF MadeOf
    <3>2. CASE m \in new
      <4>1. m.nr = s.nr /\ s.nr \in 1..s.nr
        BY <1>5, <3>2
      <4>2. m.arch \in Arches(b) \cup {"src"} /\ m.lists = lists(m.arch)
        BY <1>4, <1>5, <3>2
      <4>3. QED
        BY <4>1, <4>2
    <3>3. QED
      BY <1>3, <3>1, <3>2
  <2>2. QED
    BY <1>1, <1>3, <2>1 DEF MadeOf
<1>8. Planner(r, b, index, knows, failing) /\ Grid(r, b)
  BY <1>1, <1>3 DEF Planner, Grid
<1>9. s.modules = {} => \A m \in r.modules : m.nr = s.nr
  BY <1>3, <1>5
<1>10. ASSUME RequestedArches(b, platform) # <<>>
       PROVE  \E m \in r.modules : m.platform = platform /\ m.arch = Last(RequestedArches(b, platform))
  <2>1. Last(RequestedArches(b, platform)) \in Range(s.arches[platform])
    BY <1>4, <1>10, WithSourceOf
  <2>2. QED
    BY <1>3, <1>6, <2>1
<1>11. QED
  BY <1>3, <1>7, <1>8, <1>9, <1>10 DEF Progress, ModulesAdded, r

\* A module on one platform: IndexModule and its projects.
FirstPlatform(b) == Request[b].platforms[1]
ModuleMacro(b, nr, index) ==
    [module |-> nr, index |-> index[FirstPlatform(b).name], prefix |-> FirstPlatform(b).name]
ModuleOnAdded(s, r, t, b, enabled, index, platform) ==
    /\ r.nr = s.nr /\ r.dists = s.dists /\ r.buildDist = s.buildDist
    /\ r.next = s.next + Cardinality(enabled)
    /\ s.dist # NoDist => r.dist = s.dist
    /\ s.dist = NoDist /\ t.tag # NoDist => r.dist = t.tag
    /\ (/\ s.dist = NoDist /\ t.tag = NoDist /\ OnOnePlatform(b) /\ FirstPlatform(b).arches # <<>>
        /\ platform = FirstPlatform(b).name /\ s.modules = {})
       => r.dist = ModuleMacro(b, s.nr, index)
LEMMA ModuleOn ==
    ASSUME NEW s, NEW t, NEW platform, NEW b \in Build, NEW refs, NEW knows, NEW failing,
           NEW index \in [Platform -> Nat],
           Progress(s, b, refs, index, knows, failing), platform \in PlatformsOf(b),
           s.nr \in 1..Len(Request[b].tasks), IsModule(Request[b].tasks[s.nr]),
           EnabledIn(refs[s.nr]) # {}
    PROVE  /\ Progress(AddModuleOn(s, t, platform, refs[s.nr]), b, refs, index, knows, failing)
           /\ ModuleOnAdded(s, AddModuleOn(s, t, platform, refs[s.nr]), t, b, EnabledIn(refs[s.nr]), index, platform)
<1> DEFINE r == AddModuleOn(s, t, platform, refs[s.nr])
           first == IndexModule(s, t, platform, refs[s.nr])
           n == Cardinality(EnabledIn(refs[s.nr]))
           macro == ModuleMacro(b, s.nr, index)
           Alone == /\ OnOnePlatform(b) /\ FirstPlatform(b).arches # <<>>
                    /\ platform = FirstPlatform(b).name /\ s.modules = {}
<1>1. /\ Progress(first, b, refs, index, knows, failing)
      /\ first.next = s.next /\ first.nr = s.nr /\ first.dist = s.dist
      /\ first.dists = s.dists /\ first.buildDist = s.buildDist
      /\ s.modules = {} => \A m \in first.modules : m.nr = s.nr
      /\ RequestedArches(b, platform) # <<>> =>
           \E m \in first.modules : m.platform = platform /\ m.arch = Last(RequestedArches(b, platform))
  <2>1. Progress(first, b, refs, index, knows, failing) /\ ModulesAdded(s, first, b, platform)
    BY ModuleIndexed
  <2> HIDE DEF first
  <2>2. QED
    BY <2>1 DEF ModulesAdded
<1>2. PICK c : /\ n \in Nat /\ n > 0
               /\ c[0] = first /\ c[n] = r
               /\ \A i \in 1..n : c[i] = AddSingleProject(c[i - 1], platform, t.tag)
  BY ProjectsRun
<1> DEFINE SoFar(d, i) ==
             /\ s.dist # NoDist => d = s.dist
             /\ s.dist = NoDist /\ i = 0 => d = NoDist
             /\ s.dist = NoDist /\ i > 0 /\ t.tag # NoDist => d = t.tag
             /\ s.dist = NoDist /\ i > 0 /\ t.tag = NoDist /\ Alone => d = macro
           At1(x, i) == /\ Progress(x, b, refs, index, knows, failing)
                        /\ x.nr = s.nr /\ x.dists = s.dists /\ x.buildDist = s.buildDist
                        /\ x.next = s.next + i /\ x.modules = first.modules
                        /\ SoFar(x.dist, i)
           S == {i \in 0..n : At1(c[i], i)}
<1>3. s.next \in Nat /\ s.nr \in Nat
  BY DEF Progress, Planner
<1>4. platform # None
  <2>1. platform \in Platform
    BY WithSourceOf
  <2>2. QED
    BY <2>1, StartAssumption
<1>5. Alone => FirstPlatform(b).arches = RequestedArches(b, platform)
  <2>1. SUFFICES ASSUME Alone PROVE FirstPlatform(b).arches = RequestedArches(b, platform)
    OBVIOUS
  <2>2. 1 \in DOMAIN Request[b].platforms
    <3>1. Request[b].platforms \in Seq([name : Platform, arches : Seq(STRING)]) /\ Len(Request[b].platforms) = 1
      BY <2>1, StartAssumption DEF OnOnePlatform
    <3>2. QED
      BY <3>1
  <2>3. QED
    BY <2>1, <2>2, RequestOf DEF FirstPlatform
<1>6. Alone => macro # NoDist
  <2>1. SUFFICES ASSUME Alone PROVE macro # NoDist
    OBVIOUS
  <2>2. platform \in Platform /\ index[platform] \in Nat
    BY WithSourceOf
  <2>3. macro = [module |-> s.nr, index |-> index[platform], prefix |-> platform]
    BY <2>1 DEF ModuleMacro
  <2>4. macro \in [module : Nat, index : Nat, prefix : Platform]
    BY <1>3, <2>2, <2>3
  <2>5. QED
    BY <2>4, StartAssumption
<1> HIDE DEF macro
<1>7. At1(c[0], 0)
  <2> HIDE DEF first
  <2>1. QED
    BY <1>1, <1>2, <1>3
<1>8. ASSUME NEW i \in 1..n, At1(c[i - 1], i - 1)
      PROVE  At1(c[i], i)
  <2> DEFINE x == c[i - 1]
             y == AddSingleProject(x, platform, t.tag)
  <2>1. c[i] = y
    BY <1>2
  <2>2. /\ Progress(x, b, refs, index, knows, failing) /\ Planner(x, b, index, knows, failing)
        /\ x.nr = s.nr /\ x.next = s.next + (i - 1) /\ x.modules = first.modules
        /\ x.dists = s.dists /\ x.buildDist = s.buildDist /\ SoFar(x.dist, i - 1)
    <3>1. At1(x, i - 1)
      BY <1>8
    <3> HIDE DEF x, first, SoFar
    <3>2. QED
      BY <3>1 DEF Progress
  <2>3. Progress(y, b, refs, index, knows, failing)
    BY <2>2, ProjectProgress
  <2>4. /\ y.next = x.next + 1 /\ y.modules = x.modules /\ y.nr = x.nr
        /\ y.dists = x.dists /\ y.buildDist = x.buildDist
    <3> HIDE DEF x
    <3>1. ProjectAdded(x, y, b)
      BY <2>2, SingleProject
    <3> HIDE DEF y
    <3>2. QED
      BY <3>1 DEF ProjectAdded
  <2>5. SoFar(y.dist, i)
    <3>0. ProjectDist(x, y, b, index, platform, t.tag)
      <4> HIDE DEF x
      <4>1. QED
        BY <2>2, SingleDist
    <3>1. /\ x.dist # NoDist => y.dist = x.dist
          /\ x.dist = NoDist /\ t.tag # NoDist => y.dist = t.tag
      BY <3>0 DEF ProjectDist
    <3>2. ASSUME x.dist = NoDist, t.tag = NoDist, Alone PROVE y.dist = macro
      <4>1. \A m \in x.modules : m.nr = x.nr
        BY <1>1, <2>2, <3>2
      <4>2. \E m \in x.modules : m.platform = platform /\ m.arch = Last(FirstPlatform(b).arches)
        BY <1>1, <1>5, <2>2, <3>2
      <4>3. x.nr \in Nat
        BY <1>3, <2>2
      <4>4. y.dist = [module |-> x.nr, index |-> index[platform], prefix |-> platform]
        BY <1>4, <3>0, <3>2, <4>1, <4>2, <4>3 DEF FirstPlatform, ProjectDist
      <4>5. QED
        BY <2>2, <3>2, <4>4 DEF macro, ModuleMacro
    <3> HIDE DEF x, y, Alone
    <3>3. i > 0 /\ (i - 1 = 0 \/ i - 1 > 0)
      BY <1>2
    <3>4. QED
      BY <1>6, <2>2, <3>1, <3>2, <3>3
  <2> HIDE DEF x, y, first, SoFar
  <2>6. y.next = s.next + i
    BY <1>2, <1>3, <2>2, <2>4
  <2>7. At1(y, i)
    BY <2>2, <2>3, <2>4, <2>5, <2>6
  <2>8. QED
    BY <2>1, <2>7
<1>9. At1(c[n], n)
  <2> HIDE DEF At1
  <2>1. 0 \in S /\ \A i \in 1..n : i - 1 \in S => i \in S
    <3>1. 0 \in 0..n /\ \A i \in 1..n : i \in 0..n
      BY <1>2
    <3>2. QED
      BY <1>2, <1>7, <1>8, <3>1
  <2>2. \A i \in 0..n : i \in S
    <3> HIDE DEF S
    <3>1. QED
      BY <1>2, <2>1, UpTo
  <2>3. n \in 0..n
    BY <1>2
  <2>4. n \in S
    BY <2>2, <2>3
  <2>5. QED
    BY <2>4
<1>10. QED
  <2> HIDE DEF first, r
  <2>1. At1(r, n) /\ n > 0
    BY <1>2, <1>9
  <2>2. QED
    BY <2>1 DEF r, macro, ModuleOnAdded

\* A module on all platforms.
BaseDist(s, b) == IF Request[b].definitions THEN s.buildDist ELSE NoDist
ModuleAdded(s, r, t, b, enabled, index) ==
    /\ r.nr = s.nr /\ r.dists = s.dists
    /\ r.buildDist = IF Request[b].definitions THEN r.dist ELSE s.buildDist
    /\ OnOnePlatform(b) => r.next = s.next + Cardinality(enabled)
    /\ BaseDist(s, b) # NoDist => r.dist = BaseDist(s, b)
    /\ BaseDist(s, b) = NoDist /\ t.tag # NoDist => r.dist = t.tag
    /\ (/\ BaseDist(s, b) = NoDist /\ t.tag = NoDist /\ OnOnePlatform(b)
        /\ FirstPlatform(b).arches # <<>> /\ s.modules = {})
       => r.dist = ModuleMacro(b, s.nr, index)
LEMMA SingleModule ==
    ASSUME NEW s, NEW t, NEW b \in Build, NEW refs, NEW knows, NEW failing,
           NEW index \in [Platform -> Nat],
           Progress(s, b, refs, index, knows, failing),
           s.nr \in 1..Len(Request[b].tasks), IsModule(Request[b].tasks[s.nr]),
           EnabledIn(refs[s.nr]) # {}
    PROVE  /\ Progress(AddSingleModule(s, t, refs[s.nr]), b, refs, index, knows, failing)
           /\ ModuleAdded(s, AddSingleModule(s, t, refs[s.nr]), t, b, EnabledIn(refs[s.nr]), index)
<1> DEFINE r == AddSingleModule(s, t, refs[s.nr])
           base == BaseDist(s, b)
           platforms == Request[b].platforms
           k == Len(platforms)
           enabled == EnabledIn(refs[s.nr])
           first == [s EXCEPT !.dist = base]
<1>1. DOMAIN s = PlannerFields /\ s.build = b
  BY DEF Progress, Planner
<1>a. PICK d : PlatformSteps(s, t, refs[s.nr], d)
  <2>1. s.build \in Build
    BY <1>1
  <2>2. QED
    BY <2>1, PlatformsRun
<1>2.          /\ k \in Nat /\ k > 0
               /\ d[0] = first
               /\ r = [d[k] EXCEPT !.buildDist = IF Request[b].definitions THEN d[k].dist ELSE @]
               /\ \A j \in 1..k : d[j] = AddModuleOn(d[j - 1], t, platforms[j].name, refs[s.nr])
  BY <1>1, <1>a DEF BaseDist, PlatformSteps
<1>3. \A j \in 1..k : platforms[j].name \in PlatformsOf(b)
  <2>1. platforms \in Seq([name : Platform, arches : Seq(STRING)])
    BY StartAssumption
  <2>2. DOMAIN platforms = 1..k
    BY <2>1
  <2>3. QED
    BY <2>2, RequestOf
<1> DEFINE At2(x, j) ==
             /\ Progress(x, b, refs, index, knows, failing)
             /\ x.nr = s.nr /\ x.dists = s.dists /\ x.buildDist = s.buildDist
             /\ base # NoDist => x.dist = base
             /\ base = NoDist /\ j = 0 => x.dist = NoDist
             /\ base = NoDist /\ j > 0 /\ t.tag # NoDist => x.dist = t.tag
             /\ j = 0 => x.next = s.next /\ x.modules = s.modules
             /\ j = 1 => x.next = s.next + Cardinality(enabled)
             /\ (/\ j = 1 /\ base = NoDist /\ t.tag = NoDist /\ OnOnePlatform(b)
                 /\ FirstPlatform(b).arches # <<>> /\ s.modules = {})
                => x.dist = ModuleMacro(b, s.nr, index)
           S == {j \in 0..k : At2(d[j], j)}
<1>4. At2(d[0], 0)
  <2>1. /\ DOMAIN first = PlannerFields
        /\ first.build = s.build /\ first.index = s.index /\ first.known = s.known /\ first.failing = s.failing
        /\ first.arches = s.arches /\ first.next = s.next /\ first.tasks = s.tasks /\ first.dist = base
        /\ first.modules = s.modules /\ first.nr = s.nr /\ first.dists = s.dists /\ first.buildDist = s.buildDist
    <3> HIDE DEF base
    <3>1. QED
      BY <1>1 DEF PlannerFields
  <2> HIDE DEF first, base
  <2>2. Planner(s, b, index, knows, failing) /\ Grid(s, b) /\ MadeOf(s, b, refs)
    BY DEF Progress
  <2>3. Planner(first, b, index, knows, failing) /\ Grid(first, b) /\ MadeOf(first, b, refs)
    <3>1. Planner(first, b, index, knows, failing)
      BY <2>1, <2>2 DEF Planner
    <3>2. Grid(first, b)
      BY <2>1, <2>2, SameGrid
    <3>3. MadeOf(first, b, refs)
      BY <2>1, <2>2 DEF MadeOf
    <3>4. QED
      BY <3>1, <3>2, <3>3
  <2>4. Progress(first, b, refs, index, knows, failing)
    BY <2>3 DEF Progress
  <2>5. QED
    BY <1>2, <2>1, <2>4
<1> HIDE DEF base, first, platforms, k
<1>5. ASSUME NEW j \in 1..k, At2(d[j - 1], j - 1)
      PROVE  At2(d[j], j)
  <2> DEFINE x == d[j - 1]
             p == platforms[j].name
             y == AddModuleOn(x, t, p, refs[x.nr])
  <2>1. Progress(x, b, refs, index, knows, failing) /\ x.nr = s.nr
    BY <1>5
  <2>2. d[j] = y /\ p \in PlatformsOf(b)
    BY <1>2, <1>3, <2>1
  <2>3. /\ Progress(y, b, refs, index, knows, failing)
        /\ ModuleOnAdded(x, y, t, b, EnabledIn(refs[x.nr]), index, p)
    <3> HIDE DEF x, p
    <3>1. QED
      BY <2>1, <2>2, ModuleOn
  <2>4. j = 1 => p = FirstPlatform(b).name
    BY DEF FirstPlatform, platforms
  <2>5. j \in Nat /\ j > 0 /\ (j = 1 <=> j - 1 = 0) /\ (j - 1 > 0 \/ j - 1 = 0)
    BY <1>2
  <2>6. At2(x, j - 1)
    BY <1>5
  <2> HIDE DEF x, y, p
  <2>7. ModuleOnAdded(x, y, t, b, enabled, index, p)
    BY <2>1, <2>3
  <2> HIDE DEF enabled
  <2>8. At2(y, j)
    BY <2>1, <2>3, <2>4, <2>5, <2>6, <2>7 DEF ModuleOnAdded
  <2>9. QED
    BY <2>2, <2>8
<1>6. At2(d[k], k)
  <2> HIDE DEF At2
  <2>1. 0 \in S /\ \A j \in 1..k : j - 1 \in S => j \in S
    <3>1. 0 \in 0..k /\ \A j \in 1..k : j \in 0..k
      BY <1>2
    <3>2. QED
      BY <1>4, <1>5, <3>1
  <2>2. \A j \in 0..k : j \in S
    <3> HIDE DEF S
    <3>1. QED
      BY <1>2, <2>1, UpTo
  <2>3. k \in 0..k
    BY <1>2
  <2>4. k \in S
    BY <2>2, <2>3
  <2>5. QED
    BY <2>4
<1> DEFINE z == d[k]
<1>7. DOMAIN z = PlannerFields /\ Planner(z, b, index, knows, failing) /\ Grid(z, b) /\ MadeOf(z, b, refs)
  BY <1>6 DEF Progress, Planner
<1>8. /\ DOMAIN r = PlannerFields
      /\ r.build = z.build /\ r.index = z.index /\ r.known = z.known /\ r.failing = z.failing
      /\ r.arches = z.arches /\ r.next = z.next /\ r.tasks = z.tasks /\ r.dist = z.dist
      /\ r.modules = z.modules /\ r.nr = z.nr /\ r.dists = z.dists
      /\ r.buildDist = IF Request[b].definitions THEN z.dist ELSE z.buildDist
  <2>1. r = [z EXCEPT !.buildDist = IF Request[b].definitions THEN z.dist ELSE @]
    BY <1>2
  <2> HIDE DEF z, r
  <2>2. QED
    BY <1>7, <2>1 DEF PlannerFields
<1>9. At2(z, k)
  BY <1>6
<1>10. OnOnePlatform(b) => k = 1
  BY DEF OnOnePlatform, k, platforms
<1> HIDE DEF z, r
<1>11. Progress(r, b, refs, index, knows, failing)
  <2>1. Planner(r, b, index, knows, failing)
    BY <1>7, <1>8 DEF Planner
  <2>2. Grid(r, b)
    <3>1. r.tasks = z.tasks /\ r.next = z.next /\ Grid(z, b)
      BY <1>7, <1>8
    <3>2. QED
      BY <3>1, SameGrid
  <2>3. MadeOf(r, b, refs)
    BY <1>7, <1>8 DEF MadeOf
  <2>4. QED
    BY <2>1, <2>2, <2>3 DEF Progress
<1>12. ModuleAdded(s, r, t, b, EnabledIn(refs[s.nr]), index)
  <2> HIDE DEF enabled
  <2>1. ModuleAdded(s, r, t, b, enabled, index)
    BY <1>2, <1>8, <1>9, <1>10 DEF ModuleAdded, base
  <2>2. QED
    BY <2>1 DEF enabled
<1>13. QED
  BY <1>11, <1>12 DEF r

\* A requested package or module, the nr-th.
Size(b, refs, nr) == IF IsModule(Request[b].tasks[nr]) THEN Cardinality(EnabledIn(refs[nr])) ELSE 1
GitAdded(s, r, b, refs, nr, index) ==
    LET t == Request[b].tasks[nr] IN
    /\ r.nr = nr /\ r.dists = Append(s.dists, r.dist)
    /\ OnOnePlatform(b) => r.next = s.next + Size(b, refs, nr)
    /\ ~IsModule(t) =>
          /\ r.buildDist = s.buildDist
          /\ t.dist # NoDist => r.dist = t.dist
          /\ t.dist = NoDist => r.dist = t.tag
    /\ IsModule(t) =>
          /\ r.buildDist = IF Request[b].definitions THEN r.dist ELSE s.buildDist
          /\ BaseDist(s, b) # NoDist => r.dist = BaseDist(s, b)
          /\ BaseDist(s, b) = NoDist /\ t.tag # NoDist => r.dist = t.tag
          /\ (/\ BaseDist(s, b) = NoDist /\ t.tag = NoDist /\ OnOnePlatform(b)
              /\ FirstPlatform(b).arches # <<>> /\ s.modules = {})
             => r.dist = ModuleMacro(b, nr, index)
LEMMA GitProject ==
    ASSUME NEW s, NEW b \in Build, NEW refs, NEW knows, NEW failing, NEW index \in [Platform -> Nat],
           NEW nr \in 1..Len(Request[b].tasks), s.nr = nr - 1,
           Progress(s, b, refs, index, knows, failing),
           IsModule(Request[b].tasks[nr]) => EnabledIn(refs[nr]) # {}
    PROVE  /\ Progress(AddGitProject(s, Request[b].tasks[nr], refs[nr]), b, refs, index, knows, failing)
           /\ GitAdded(s, AddGitProject(s, Request[b].tasks[nr], refs[nr]), b, refs, nr, index)
<1> DEFINE t == Request[b].tasks[nr]
           begun == [s EXCEPT !.nr = @ + 1]
           git == [begun EXCEPT !.dist = t.dist]
           added == IF IsModule(t) THEN AddSingleModule(begun, t, refs[nr])
                    ELSE AddSingleProject(git, None, t.tag)
           r == AddGitProject(s, t, refs[nr])
<1>1. /\ DOMAIN s = PlannerFields /\ Planner(s, b, index, knows, failing) /\ Grid(s, b) /\ MadeOf(s, b, refs)
      /\ nr \in Nat
  BY DEF Progress, Planner
<1>2. /\ DOMAIN begun = PlannerFields
      /\ begun.build = s.build /\ begun.index = s.index /\ begun.known = s.known /\ begun.failing = s.failing
      /\ begun.arches = s.arches /\ begun.next = s.next /\ begun.tasks = s.tasks
      /\ begun.modules = s.modules /\ begun.nr = nr /\ begun.dists = s.dists /\ begun.buildDist = s.buildDist
  BY <1>1 DEF PlannerFields
<1>3. /\ DOMAIN git = PlannerFields
      /\ git.build = s.build /\ git.index = s.index /\ git.known = s.known /\ git.failing = s.failing
      /\ git.arches = s.arches /\ git.next = s.next /\ git.tasks = s.tasks /\ git.dist = t.dist
      /\ git.modules = s.modules /\ git.nr = nr /\ git.dists = s.dists /\ git.buildDist = s.buildDist
  <2> HIDE DEF begun, t
  <2>1. QED
    BY <1>2 DEF PlannerFields
<1>4. r = [added EXCEPT !.dists = Append(@, added.dist)]
  BY DEF AddGitProject
<1> HIDE DEF begun, git, added, r, t
<1>5. \A x : /\ x.build = s.build /\ x.index = s.index /\ x.known = s.known /\ x.failing = s.failing
             /\ x.arches = s.arches /\ x.next = s.next /\ x.tasks = s.tasks
             /\ x.modules = s.modules /\ x.nr = nr /\ DOMAIN x = PlannerFields
             => Progress(x, b, refs, index, knows, failing)
  <2>1. SUFFICES ASSUME NEW x,
               x.build = s.build, x.index = s.index, x.known = s.known, x.failing = s.failing,
               x.arches = s.arches, x.next = s.next, x.tasks = s.tasks,
               x.modules = s.modules, x.nr = nr, DOMAIN x = PlannerFields
        PROVE  Progress(x, b, refs, index, knows, failing)
    OBVIOUS
  <2>2. Planner(x, b, index, knows, failing)
    BY <1>1, <2>1 DEF Planner
  <2>3. Grid(x, b)
    <3>1. x.tasks = s.tasks /\ x.next = s.next /\ Grid(s, b)
      BY <1>1, <2>1
    <3>2. QED
      BY <3>1, SameGrid
  <2>4. MadeOf(x, b, refs)
    <3>1. ASSUME NEW m \in s.modules
          PROVE  /\ m.nr \in 1..nr /\ IsModule(Request[b].tasks[m.nr])
                 /\ m.arch \in Arches(b) \cup {"src"}
                 /\ m.lists = PrepareModuleIndex(s.known, s.failing, refs[m.nr], m.arch, Request[b].beta)
      <4>1. m.nr \in 1..s.nr
        BY <1>1 DEF MadeOf
      <4>2. m.nr \in 1..nr
        BY <1>1, <4>1
      <4>3. QED
        BY <1>1, <4>2 DEF MadeOf
    <3>2. QED
      BY <1>1, <2>1, <3>1 DEF MadeOf
  <2>5. QED
    BY <2>2, <2>3, <2>4 DEF Progress
<1>6. /\ Progress(begun, b, refs, index, knows, failing)
      /\ Progress(git, b, refs, index, knows, failing)
  BY <1>2, <1>3, <1>5
<1>7. /\ Progress(added, b, refs, index, knows, failing)
      /\ added.nr = nr /\ added.dists = s.dists
      /\ OnOnePlatform(b) => added.next = s.next + Size(b, refs, nr)
      /\ ~IsModule(t) =>
            /\ added.buildDist = s.buildDist
            /\ t.dist # NoDist => added.dist = t.dist
            /\ t.dist = NoDist => added.dist = t.tag
      /\ IsModule(t) =>
            /\ added.buildDist = IF Request[b].definitions THEN added.dist ELSE s.buildDist
            /\ BaseDist(s, b) # NoDist => added.dist = BaseDist(s, b)
            /\ BaseDist(s, b) = NoDist /\ t.tag # NoDist => added.dist = t.tag
            /\ (/\ BaseDist(s, b) = NoDist /\ t.tag = NoDist /\ OnOnePlatform(b)
                /\ FirstPlatform(b).arches # <<>> /\ s.modules = {})
               => added.dist = ModuleMacro(b, nr, index)
  <2>1. CASE IsModule(t)
    <3>1. added = AddSingleModule(begun, t, refs[begun.nr])
      BY <1>2, <2>1 DEF added
    <3>2. begun.nr \in 1..Len(Request[b].tasks) /\ IsModule(Request[b].tasks[begun.nr]) /\ EnabledIn(refs[begun.nr]) # {}
      BY <1>2, <2>1 DEF t
    <3>3. /\ Progress(added, b, refs, index, knows, failing)
          /\ ModuleAdded(begun, added, t, b, EnabledIn(refs[begun.nr]), index)
      BY <1>6, <3>1, <3>2, SingleModule
    <3>4. BaseDist(begun, b) = BaseDist(s, b)
      BY <1>2 DEF BaseDist
    <3>5. Size(b, refs, nr) = Cardinality(EnabledIn(refs[begun.nr]))
      BY <1>2, <2>1 DEF Size, t
    <3> DEFINE enabled == EnabledIn(refs[begun.nr])
    <3> HIDE DEF enabled
    <3>6. ModuleAdded(begun, added, t, b, enabled, index) /\ Size(b, refs, nr) = Cardinality(enabled)
      BY <3>3, <3>5 DEF enabled
    <3>7. QED
      BY <1>2, <2>1, <3>3, <3>4, <3>6 DEF ModuleAdded
  <2>2. CASE ~IsModule(t)
    <3>1. added = AddSingleProject(git, None, t.tag)
      BY <2>2 DEF added
    <3>2. Planner(git, b, index, knows, failing)
      BY <1>6 DEF Progress
    <3>3. /\ Progress(added, b, refs, index, knows, failing)
          /\ ProjectAdded(git, added, b)
          /\ ProjectDist(git, added, b, index, None, t.tag)
      BY <1>6, <3>1, <3>2, ProjectProgress, SingleProject, SingleDist
    <3>4. Size(b, refs, nr) = 1
      BY <2>2 DEF Size, t
    <3>5. added.nr = nr /\ added.dists = s.dists /\ added.next = s.next + 1 /\ added.buildDist = s.buildDist
      BY <1>3, <3>3 DEF ProjectAdded
    <3>6. (t.dist # NoDist => added.dist = t.dist) /\ (t.dist = NoDist => added.dist = t.tag)
      <4>1. /\ git.dist # NoDist => added.dist = git.dist
            /\ git.dist = NoDist /\ t.tag # NoDist => added.dist = t.tag
            /\ git.dist = NoDist /\ t.tag = NoDist => added.dist = NoDist
        BY <3>3 DEF ProjectDist
      <4>2. QED
        BY <1>3, <4>1
    <3>7. QED
      BY <2>2, <3>3, <3>4, <3>5, <3>6
  <2>3. QED
    BY <2>1, <2>2
<1>8. DOMAIN added = PlannerFields
  BY <1>7 DEF Progress, Planner
<1>9. /\ DOMAIN r = PlannerFields
      /\ r.build = added.build /\ r.index = added.index /\ r.known = added.known /\ r.failing = added.failing
      /\ r.arches = added.arches /\ r.next = added.next /\ r.tasks = added.tasks /\ r.dist = added.dist
      /\ r.modules = added.modules /\ r.nr = added.nr /\ r.buildDist = added.buildDist
      /\ r.dists = Append(added.dists, added.dist)
  BY <1>4, <1>8 DEF PlannerFields
<1>10. Progress(r, b, refs, index, knows, failing)
  <2>1. Planner(added, b, index, knows, failing) /\ Grid(added, b) /\ MadeOf(added, b, refs)
    BY <1>7 DEF Progress
  <2>2. Planner(r, b, index, knows, failing)
    BY <1>9, <2>1 DEF Planner
  <2>3. Grid(r, b)
    <3>1. r.tasks = added.tasks /\ r.next = added.next
      BY <1>9
    <3>2. QED
      BY <2>1, <3>1, SameGrid
  <2>4. MadeOf(r, b, refs)
    BY <1>9, <2>1 DEF MadeOf
  <2>5. QED
    BY <2>2, <2>3, <2>4 DEF Progress
<1>11. GitAdded(s, r, b, refs, nr, index)
  BY <1>7, <1>9 DEF GitAdded, t
<1>12. QED
  BY <1>10, <1>11 DEF r, t

\* What has been settled after the first i requested tasks.
NoModuleUpTo(b, i) == \A j \in 1..i : ~IsModule(Request[b].tasks[j])
Planned(s, b, refs, index, knows, failing, i) ==
    /\ Progress(s, b, refs, index, knows, failing)
    /\ s.nr = i
    /\ \E S : s.dists \in Seq(S)
    /\ Len(s.dists) = i
    /\ \A j \in 1..i : DistOf(b, j, s)
    /\ NoModuleUpTo(b, i) => s.buildDist = Request[b].dist
    /\ Request[b].definitions /\ Request[b].dist # NoDist => s.buildDist = Request[b].dist

LEMMA TaskPlanned ==
    ASSUME NEW s, NEW b \in Build, NEW refs, NEW knows, NEW failing, NEW index \in [Platform -> Nat],
           NEW nr \in 1..Len(Request[b].tasks),
           Planned(s, b, refs, index, knows, failing, nr - 1),
           IsModule(Request[b].tasks[nr]) => EnabledIn(refs[nr]) # {}
    PROVE  /\ Planned(AddGitProject(s, Request[b].tasks[nr], refs[nr]), b, refs, index, knows, failing, nr)
           /\ OnOnePlatform(b) =>
                AddGitProject(s, Request[b].tasks[nr], refs[nr]).next = s.next + Size(b, refs, nr)
<1> DEFINE t == Request[b].tasks[nr]
           r == AddGitProject(s, t, refs[nr])
<1>1. Progress(s, b, refs, index, knows, failing) /\ s.nr = nr - 1 /\ nr \in Nat
  BY DEF Planned
<1>2. Progress(r, b, refs, index, knows, failing) /\ GitAdded(s, r, b, refs, nr, index)
  BY <1>1, GitProject
<1> HIDE DEF r
<1>3. /\ r.nr = nr /\ r.dists = Append(s.dists, r.dist)
      /\ OnOnePlatform(b) => r.next = s.next + Size(b, refs, nr)
  BY <1>2 DEF GitAdded
<1>4. r.index = index /\ s.index = index
  BY <1>1, <1>2 DEF Progress, Planner
<1>5. PICK S : s.dists \in Seq(S)
  BY DEF Planned
<1>6. /\ r.dists \in Seq(S \cup {r.dist}) /\ Len(r.dists) = nr
      /\ r.dists[nr] = r.dist /\ \A j \in 1..(nr - 1) : r.dists[j] = s.dists[j]
  <2>1. ASSUME NEW q, NEW T, NEW x, q \in Seq(T)
        PROVE  /\ Append(q, x) \in Seq(T \cup {x}) /\ Len(Append(q, x)) = Len(q) + 1
               /\ Append(q, x)[Len(q) + 1] = x /\ \A j \in 1..Len(q) : Append(q, x)[j] = q[j]
    <3>1. q \in Seq(T \cup {x}) /\ Len(q) \in Nat
      BY <2>1
    <3> DEFINE U == T \cup {x}
    <3>2. x \in U /\ q \in Seq(U)
      BY <3>1
    <3> HIDE DEF U
    <3>3. /\ Append(q, x) \in Seq(U) /\ Len(Append(q, x)) = Len(q) + 1
          /\ Append(q, x)[Len(q) + 1] = x
      BY <3>1, <3>2
    <3>4. \A j \in 1..Len(q) : Append(q, x)[j] = q[j]
      BY <3>1, <3>2
    <3>5. QED
      BY <3>3, <3>4 DEF U
  <2>2. Len(s.dists) = nr - 1 /\ Len(s.dists) + 1 = nr
    BY <1>1 DEF Planned
  <2>3. QED
    BY <1>3, <1>5, <2>1, <2>2
<1>7. ASSUME NEW j \in 1..(nr - 1) PROVE DistOf(b, j, r)
  <2>1. DistOf(b, j, s)
    BY DEF Planned
  <2>2. r.dists[j] = s.dists[j] /\ r.index = s.index
    BY <1>4, <1>6
  <2>3. QED
    BY <2>1, <2>2 DEF DistOf
<1>8. NoModuleUpTo(b, nr) => NoModuleUpTo(b, nr - 1) /\ ~IsModule(t)
  <2>1. nr \in 1..nr /\ \A j \in 1..(nr - 1) : j \in 1..nr
    BY <1>1
  <2>2. QED
    BY <2>1 DEF NoModuleUpTo
<1>9. ASSUME IsModule(t), OnlyModule(b, nr) PROVE s.buildDist = Request[b].dist /\ s.modules = {}
  <2>1. DOMAIN Request[b].tasks = 1..Len(Request[b].tasks) /\ Len(Request[b].tasks) \in Nat
    BY StartAssumption
  <2>2. \A j \in 1..(nr - 1) : j \in DOMAIN Request[b].tasks /\ j # nr
    BY <1>1, <2>1
  <2>3. NoModuleUpTo(b, nr - 1)
    BY <1>9, <2>2 DEF NoModuleUpTo, OnlyModule
  <2>4. \A m \in s.modules : m.nr \in 1..(nr - 1) /\ IsModule(Request[b].tasks[m.nr])
    BY <1>1 DEF Progress, MadeOf
  <2>5. s.modules = {}
    BY <2>3, <2>4 DEF NoModuleUpTo
  <2>6. QED
    BY <2>3, <2>5 DEF Planned
<1>10. Request[b].definitions /\ Request[b].dist # NoDist => s.buildDist = Request[b].dist
  BY DEF Planned
<1>11. /\ ~IsModule(t) => /\ r.buildDist = s.buildDist
                          /\ t.dist # NoDist => r.dist = t.dist
                          /\ t.dist = NoDist => r.dist = t.tag
       /\ IsModule(t) =>
            /\ r.buildDist = IF Request[b].definitions THEN r.dist ELSE s.buildDist
            /\ BaseDist(s, b) # NoDist => r.dist = BaseDist(s, b)
            /\ BaseDist(s, b) = NoDist /\ t.tag # NoDist => r.dist = t.tag
            /\ (/\ BaseDist(s, b) = NoDist /\ t.tag = NoDist /\ OnOnePlatform(b)
                /\ FirstPlatform(b).arches # <<>> /\ s.modules = {})
               => r.dist = ModuleMacro(b, nr, index)
  BY <1>2 DEF GitAdded
<1> HIDE DEF t
<1>12. DistOf(b, nr, r)
  <2>1. CASE ~IsModule(t)
    BY <1>6, <1>11, <2>1 DEF DistOf, UsersDist, t
  <2>2. CASE IsModule(t)
    <3>1. ASSUME UsersDist(b, t) # NoDist PROVE r.dist = UsersDist(b, t)
      BY <1>10, <1>11, <2>2, <3>1 DEF UsersDist, BaseDist
    <3>2. ASSUME UsersDist(b, t) = NoDist, OnlyModule(b, nr) \/ ~Request[b].definitions
          PROVE  BaseDist(s, b) = NoDist
      BY <1>9, <2>2, <3>2 DEF UsersDist, BaseDist
    <3>3. ASSUME UsersDist(b, t) = NoDist, t.tag # NoDist, OnlyModule(b, nr) \/ ~Request[b].definitions
          PROVE  r.dist = t.tag
      BY <1>11, <2>2, <3>2, <3>3
    <3>4. ASSUME UsersDist(b, t) = NoDist, t.tag = NoDist, OnlyModule(b, nr), OnOnePlatform(b),
                 FirstPlatform(b).arches # <<>>
          PROVE  r.dist = ModuleMacro(b, nr, index)
      BY <1>9, <1>11, <2>2, <3>2, <3>4
    <3>5. QED
      BY <1>4, <1>6, <2>2, <3>1, <3>3, <3>4 DEF DistOf, FirstPlatform, ModuleMacro, t
  <2>3. QED
    BY <2>1, <2>2
<1>13. \A j \in 1..nr : DistOf(b, j, r)
  <2>1. \A j \in 1..nr : j = nr \/ j \in 1..(nr - 1)
    BY <1>1
  <2>2. QED
    BY <1>7, <1>12, <2>1
<1>14. NoModuleUpTo(b, nr) => r.buildDist = Request[b].dist
  BY <1>8, <1>11 DEF Planned
<1>15. Request[b].definitions /\ Request[b].dist # NoDist => r.buildDist = Request[b].dist
  BY <1>10, <1>11 DEF BaseDist
<1>16. Planned(r, b, refs, index, knows, failing, nr)
  BY <1>2, <1>3, <1>6, <1>13, <1>14, <1>15 DEF Planned
<1>17. QED
  BY <1>3, <1>16 DEF r, t

\* The plan of a build, if no requested task ends it.
Enabled(b, refs) ==
    \A i \in DOMAIN Request[b].tasks : IsModule(Request[b].tasks[i]) => EnabledIn(refs[i]) # {}
LEMMA PlanIsPlanned ==
    ASSUME NEW b \in Build, NEW refs, NEW knows, NEW failing, NEW index \in [Platform -> Nat],
           Enabled(b, refs), ~PlanBuild(b, refs, index, knows, failing).error
    PROVE  /\ Planned(PlanBuild(b, refs, index, knows, failing), b, refs, index, knows, failing, Len(Request[b].tasks))
           /\ OnOnePlatform(b) => PlanBuild(b, refs, index, knows, failing).next = Projects(b, refs)
<1> DEFINE n == Len(Request[b].tasks)
           plan == PlanBuild(b, refs, index, knows, failing)
<1>1. PICK c : TaskSteps(b, refs, index, knows, failing, c)
  BY TasksRun
<1>2. /\ n \in Nat /\ DOMAIN Request[b].tasks = 1..n
      /\ c[0] = NewPlanner(b, index, knows, failing) /\ c[n] = plan
      /\ \A i \in 1..n : c[i] = IF c[i - 1].error THEN c[i - 1]
                               ELSE AddGitProject(c[i - 1], Request[b].tasks[i], refs[i])
  BY <1>1 DEF TaskSteps
<1>3. PICK d : CountSteps(b, refs, d)
  BY CountRun
<1>4. d[0] = 0 /\ d[n] = Projects(b, refs) /\ \A i \in 1..n : d[i] = d[i - 1] + Size(b, refs, i)
  BY <1>3 DEF CountSteps, Size
<1> DEFINE Done(i) == c[i].error \/ (/\ Planned(c[i], b, refs, index, knows, failing, i)
                                     /\ OnOnePlatform(b) => c[i].next = d[i])
           S == {i \in 0..n : Done(i)}
<1>5. Done(0)
  <2> DEFINE s == NewPlanner(b, index, knows, failing)
  <2>1. /\ DOMAIN s = PlannerFields /\ s.build = b /\ s.index = index /\ s.known = knows /\ s.failing = failing
        /\ s.arches = [p \in PlatformsOf(b) |-> RequestedArches(b, p)]
        /\ s.modules = {} /\ s.tasks = {} /\ s.next = 0 /\ s.nr = 0 /\ s.dists = <<>> /\ s.buildDist = Request[b].dist
    BY DEF NewPlanner, PlannerFields
  <2> HIDE DEF s
  <2>2. Planner(s, b, index, knows, failing)
    BY <2>1 DEF Planner, Listed
  <2>3. Grid(s, b)
    <3>1. 0..(s.next - 1) = {}
      BY <2>1
    <3>2. QED
      BY <2>1, <3>1 DEF Grid
  <2>4. MadeOf(s, b, refs)
    BY <2>1 DEF MadeOf
  <2>5. s.dists \in Seq({}) /\ Len(s.dists) = 0 /\ 1..0 = {}
    BY <2>1
  <2>6. Planned(s, b, refs, index, knows, failing, 0)
    BY <2>1, <2>2, <2>3, <2>4, <2>5 DEF Planned, Progress
  <2>7. c[0] = s
    BY <1>2 DEF s
  <2>8. QED
    BY <1>4, <2>1, <2>6, <2>7
<1>6. ASSUME NEW i \in 1..n, Done(i - 1) PROVE Done(i)
  <2>1. CASE c[i - 1].error
    BY <1>2, <2>1
  <2>2. CASE ~c[i - 1].error
    <3> DEFINE s == c[i - 1]
               r == AddGitProject(s, Request[b].tasks[i], refs[i])
    <3>1. c[i] = r
      BY <1>2, <2>2
    <3>2. Planned(s, b, refs, index, knows, failing, i - 1) /\ (OnOnePlatform(b) => s.next = d[i - 1])
      BY <1>6, <2>2
    <3>3. IsModule(Request[b].tasks[i]) => EnabledIn(refs[i]) # {}
      BY <1>2 DEF Enabled
    <3>4. /\ Planned(r, b, refs, index, knows, failing, i)
          /\ OnOnePlatform(b) => r.next = s.next + Size(b, refs, i)
      <4> HIDE DEF s
      <4>1. QED
        BY <3>2, <3>3, TaskPlanned
    <3> HIDE DEF s, r
    <3>5. OnOnePlatform(b) => r.next = d[i]
      BY <1>4, <3>2, <3>4
    <3>6. QED
      BY <3>1, <3>4, <3>5
  <2>3. QED
    BY <2>1, <2>2
<1> HIDE DEF Done
<1>7. n \in S
  <2>1. 0 \in S /\ \A i \in 1..n : i - 1 \in S => i \in S
    <3>1. 0 \in 0..n /\ \A i \in 1..n : i \in 0..n
      BY <1>2
    <3>2. QED
      BY <1>5, <1>6, <3>1
  <2> HIDE DEF S
  <2>2. \A i \in 0..n : i \in S
    BY <1>2, <2>1, UpTo
  <2>3. n \in 0..n
    BY <1>2
  <2>4. QED
    BY <2>2, <2>3
<1>8. Done(n)
  BY <1>7
<1>9. QED
  <2> HIDE DEF plan
  <2>1. Planned(plan, b, refs, index, knows, failing, n) /\ (OnOnePlatform(b) => plan.next = d[n])
    <3>1. ~plan.error
      BY DEF plan
    <3>2. QED
      BY <1>2, <1>8, <3>1 DEF Done
  <2>2. QED
    BY <1>4, <2>1 DEF plan

------------------------------------------------------------------------------
(* What a plan is.                                                          *)

Filled(b, tasks, n) ==
    LET indexes == {t.index : t \in tasks} IN
    /\ indexes = 0..(n - 1)
    /\ {<<t.index, <<t.platform, t.arch>>>> : t \in tasks} = indexes \X Targets(b)
    /\ Cardinality(tasks) = Cardinality(indexes) * Cardinality(Targets(b))
LEMMA GridIs ==
    ASSUME NEW s, NEW b \in Build, Grid(s, b), s.next \in Nat
    PROVE  Filled(b, s.tasks, s.next)
<1> DEFINE I == 0..(s.next - 1)
           G == Targets(b)
           Cell(i, g, nr) == [index |-> i, platform |-> g[1], arch |-> g[2], nr |-> nr]
<1>1. PICK nrOf : s.tasks = {Cell(i, g, nrOf[i]) : i \in I, g \in G}
  BY DEF Grid
<1>2. \A g \in G : g = <<g[1], g[2]>>
  BY DEF Targets
<1>3. \E g : g \in G
  <2> DEFINE ps == Request[b].platforms
  <2>1. 1 \in DOMAIN ps
    <3>1. ps \in Seq([name : Platform, arches : Seq(STRING)]) /\ ps # <<>>
      BY StartAssumption
    <3> HIDE DEF ps
    <3>2. QED
      BY <3>1
  <2>2. ps[1] \in Range(ps)
    BY <2>1 DEF Range
  <2> DEFINE p == ps[1]
  <2> HIDE DEF ps
  <2>3. <<p.name, "src">> \in {p.name} \X (Range(p.arches) \cup {"src"})
    OBVIOUS
  <2>4. <<p.name, "src">> \in G
    BY <2>2, <2>3 DEF Targets, ps
  <2>5. QED
    BY <2>4
<1>4. IsFiniteSet(G)
  <2> DEFINE ps == Request[b].platforms
             Of(p) == {p.name} \X (Range(p.arches) \cup {"src"})
             sets == {Of(p) : p \in Range(ps)}
  <2>1. ASSUME NEW S, NEW q \in Seq(S) PROVE IsFiniteSet(Range(q))
    <3>1. Len(q) \in Nat /\ DOMAIN q = 1..Len(q)
      OBVIOUS
    <3>2. IsFiniteSet(1..Len(q))
      BY <3>1, FS_Interval
    <3>3. Range(q) = {q[i] : i \in 1..Len(q)}
      BY <3>1 DEF Range
    <3> DEFINE f == [i \in 1..Len(q) |-> q[i]]
    <3>4. f \in Surjection(1..Len(q), Range(q))
      BY <3>3 DEF Surjection
    <3> HIDE DEF f
    <3>5. QED
      BY <3>2, <3>4, FS_Surjection
  <2>2. ps \in Seq([name : Platform, arches : Seq(Str)])
    BY StartAssumption DEF Str
  <2>3. IsFiniteSet(Range(ps))
    BY <2>1, <2>2
  <2>4. IsFiniteSet(sets)
    <3> DEFINE f == [p \in Range(ps) |-> Of(p)]
    <3>1. f \in Surjection(Range(ps), sets)
      <4> HIDE DEF Of, ps
      <4>1. f \in [Range(ps) -> sets] /\ \A u \in sets : \E p \in Range(ps) : f[p] = u
        OBVIOUS
      <4>2. QED
        BY <4>1 DEF Surjection
    <3> HIDE DEF f, sets, ps
    <3>2. QED
      BY <2>3, <3>1, FS_Surjection
  <2>5. ASSUME NEW p \in Range(ps) PROVE IsFiniteSet(Of(p))
    <3>1. PICK i \in DOMAIN ps : p = ps[i]
      BY DEF Range
    <3>2. p.arches \in Seq(Str)
      BY <3>1, RequestOf
    <3>3. IsFiniteSet(Range(p.arches))
      BY <2>1, <3>2
    <3>4. IsFiniteSet({"src"}) /\ IsFiniteSet({p.name})
      BY FS_Singleton
    <3>5. IsFiniteSet(Range(p.arches) \cup {"src"})
      BY <3>3, <3>4, FS_Union
    <3>6. QED
      BY <3>4, <3>5, FS_Product
  <2>6. \A T \in sets : IsFiniteSet(T)
    <3> HIDE DEF Of, ps
    <3>1. QED
      BY <2>5
  <2>7. IsFiniteSet(UNION sets)
    <3> HIDE DEF sets
    <3>1. QED
      BY <2>4, <2>6, FS_UNION
  <2>8. QED
    BY <2>7 DEF Targets
<1> HIDE DEF G, I
<1>5. {t.index : t \in s.tasks} = I
  <2>1. \A i, g : Cell(i, g, nrOf[i]).index = i
    OBVIOUS
  <2> HIDE DEF Cell
  <2>2. ASSUME NEW t \in s.tasks PROVE t.index \in I
    <3>1. PICK i \in I, g \in G : t = Cell(i, g, nrOf[i])
      BY <1>1
    <3>2. QED
      BY <2>1, <3>1
  <2>3. ASSUME NEW i \in I PROVE \E t \in s.tasks : t.index = i
    <3>1. PICK g : g \in G
      BY <1>3
    <3>2. Cell(i, g, nrOf[i]) \in s.tasks
      BY <1>1, <3>1
    <3>3. QED
      BY <2>1, <3>2
  <2>4. QED
    BY <2>2, <2>3
<1>6. {<<t.index, <<t.platform, t.arch>>>> : t \in s.tasks} = I \X G
  <2>1. ASSUME NEW i \in I, NEW g \in G
        PROVE  LET t == Cell(i, g, nrOf[i]) IN <<t.index, <<t.platform, t.arch>>>> = <<i, g>>
    BY <1>2
  <2> HIDE DEF Cell
  <2> DEFINE Key(t) == <<t.index, <<t.platform, t.arch>>>>
  <2>2. \A i \in I, g \in G : Key(Cell(i, g, nrOf[i])) = <<i, g>>
    BY <2>1
  <2> HIDE DEF Key
  <2>3. {Key(t) : t \in s.tasks} = {<<i, g>> : i \in I, g \in G}
    BY <1>1, <2>2
  <2>4. {<<i, g>> : i \in I, g \in G} = I \X G
    OBVIOUS
  <2>5. QED
    BY <2>3, <2>4 DEF Key
<1>7. Cardinality(s.tasks) = Cardinality(I) * Cardinality(G)
  <2>1. IsFiniteSet(I)
    BY FS_Interval DEF I
  <2>2. IsFiniteSet(I \X G) /\ Cardinality(I \X G) = Cardinality(I) * Cardinality(G)
    BY <1>4, <2>1, FS_Product
  <2> DEFINE f == [x \in I \X G |-> Cell(x[1], x[2], nrOf[x[1]])]
  <2>3. f \in Bijection(I \X G, s.tasks)
    <3>1. \A x \in I \X G : x[1] \in I /\ x[2] \in G /\ x = <<x[1], x[2]>>
      OBVIOUS
    <3>2. f \in [I \X G -> s.tasks]
      <4> HIDE DEF Cell
      <4>1. QED
        BY <1>1, <3>1
    <3>3. \A u \in s.tasks : \E x \in I \X G : f[x] = u
      <4>1. ASSUME NEW i \in I, NEW g \in G
            PROVE  <<i, g>> \in I \X G /\ f[<<i, g>>] = Cell(i, g, nrOf[i])
        OBVIOUS
      <4> HIDE DEF f, Cell
      <4>2. ASSUME NEW u \in s.tasks PROVE \E x \in I \X G : f[x] = u
        <5>1. PICK i \in I, g \in G : u = Cell(i, g, nrOf[i])
          BY <1>1
        <5>2. QED
          BY <4>1, <5>1
      <4>3. QED
        BY <4>2
    <3>4. ASSUME NEW x \in I \X G, NEW y \in I \X G, f[x] = f[y] PROVE x = y
      <4>1. f[x] = Cell(x[1], x[2], nrOf[x[1]]) /\ f[y] = Cell(y[1], y[2], nrOf[y[1]])
        OBVIOUS
      <4> HIDE DEF f
      <4>2. Cell(x[1], x[2], nrOf[x[1]]) = Cell(y[1], y[2], nrOf[y[1]])
        BY <3>4, <4>1
      <4>3. x[1] = y[1] /\ x[2][1] = y[2][1] /\ x[2][2] = y[2][2]
        BY <4>2
      <4>4. x[2] = <<x[2][1], x[2][2]>> /\ y[2] = <<y[2][1], y[2][2]>>
        BY <1>2, <3>1
      <4>5. x[2] = y[2]
        BY <4>3, <4>4
      <4>6. QED
        BY <3>1, <4>3, <4>5
    <3> HIDE DEF f
    <3>5. QED
      <4>1. IsInjective(f)
        <5>1. DOMAIN f = I \X G
          BY <3>2
        <5>2. QED
          BY <3>4, <5>1 DEF IsInjective
      <4>2. f \in Surjection(I \X G, s.tasks)
        BY <3>2, <3>3 DEF Surjection
      <4>3. QED
        BY <3>2, <4>1, <4>2 DEF Bijection, Injection
  <2>4. ExistsBijection(I \X G, s.tasks)
    BY <2>3 DEF ExistsBijection
  <2>5. QED
    BY <2>2, <2>4, FS_Bijection
<1>8. QED
  BY <1>5, <1>6, <1>7 DEF I, G, Filled

\* What the preview takes over of a component, and the index for an
\* architecture: the packages of the version that was asked for.
All(c, v, arch) == Built(c, v, arch) \cup (IF arch = X86 THEN Multilib(c, v) ELSE {})
Part(c, v, kind, arch) == {a \in All(c, v, arch) : IsFiltered(a) <=> kind = "devel"}

LEMMA ArtifactIs ==
    ASSUME NEW c, NEW v, NEW name, NEW arch
    PROVE  LET a == Artifact(c, v, name, arch) IN
           /\ a.comp = c /\ a.name = name /\ a.arch = arch
           /\ \A to : [a EXCEPT !.arch = to] = Artifact(c, v, name, to)
BY DEF Artifact

LEMMA BuiltIs ==
    ASSUME NEW c, NEW v, NEW arch
    PROVE  /\ \A a \in Built(c, v, arch) : \E p \in PackagesOf[c] :
                 a = Artifact(c, v, p.name, IF p.kind = "noarch" THEN "noarch" ELSE arch)
           /\ \A p \in PackagesOf[c] :
                 Artifact(c, v, p.name, IF p.kind = "noarch" THEN "noarch" ELSE arch) \in Built(c, v, arch)
BY DEF Built
LEMMA MultilibIs ==
    ASSUME NEW c, NEW v
    PROVE  /\ \A a \in Multilib(c, v) : \E p \in PackagesOf[c] :
                 p.kind = "multilib" /\ a = Artifact(c, v, p.name, I686)
           /\ \A p \in PackagesOf[c] : p.kind = "multilib" => Artifact(c, v, p.name, I686) \in Multilib(c, v)
BY DEF Multilib

\* Every artifact is of its component.
LEMMA AllIsOf ==
    ASSUME NEW c, NEW v, NEW arch, NEW a \in All(c, v, arch)
    PROVE  /\ a.comp = c
           /\ \E p \in PackagesOf[c] : a.name = p.name
           /\ \/ \E p \in PackagesOf[c] : a = Artifact(c, v, p.name, IF p.kind = "noarch" THEN "noarch" ELSE arch)
              \/ arch = X86 /\ a \in Multilib(c, v)
<1>1. CASE a \in Built(c, v, arch)
  <2>1. PICK p \in PackagesOf[c] : a = Artifact(c, v, p.name, IF p.kind = "noarch" THEN "noarch" ELSE arch)
    BY <1>1, BuiltIs
  <2>2. QED
    BY <2>1, ArtifactIs
<1>2. CASE arch = X86 /\ a \in Multilib(c, v)
  <2>1. PICK p \in PackagesOf[c] : a = Artifact(c, v, p.name, I686)
    BY <1>2, MultilibIs
  <2>2. QED
    BY <1>2, <2>1, ArtifactIs
<1>3. QED
  BY <1>1, <1>2 DEF All

ForMachine(arch) == arch # "src"
AnswersWith(knows, d, kind, c, arch) ==
    Answer(knows, {}, d, kind, c, arch) = Part(c, knows[d][c], kind, arch)
LEMMA AnswerIs ==
    ASSUME NEW knows, NEW d, NEW kind \in Kind, NEW c, NEW arch, knows[d][c] # 0, ForMachine(arch)
    PROVE  AnswersWith(knows, d, kind, c, arch)
BY DEF AnswersWith, Answer, Part, All, ForMachine
LEMMA AnswerWithin ==
    ASSUME NEW knows, NEW d, NEW kind \in Kind, NEW c, NEW arch
    PROVE  Answer(knows, {}, d, kind, c, arch) \subseteq Part(c, knows[d][c], kind, arch)
BY DEF Answer, Part, All

LEMMA PartsAre ==
    ASSUME NEW c, NEW v, NEW arch
    PROVE  /\ \A k : Part(c, v, k, arch) \subseteq All(c, v, arch)
           /\ \A a \in All(c, v, arch) : a \in Part(c, v, IF IsFiltered(a) THEN "devel" ELSE "plain", arch)
           /\ UNION {Part(c, v, k, arch) : k \in Kind} = All(c, v, arch)
<1>1. \A k : Part(c, v, k, arch) \subseteq All(c, v, arch)
  BY DEF Part
<1>2. ASSUME NEW a \in All(c, v, arch)
      PROVE  a \in Part(c, v, IF IsFiltered(a) THEN "devel" ELSE "plain", arch)
  BY DEF Part
<1>3. "devel" \in Kind /\ "plain" \in Kind
  BY DEF Kind
<1>4. QED
  BY <1>1, <1>2, <1>3

\* The preview's components, when the beholder answers.
LEMMA PreviewIs ==
    ASSUME NEW b \in Build, NEW t, NEW knows, ~Request[b].beta, NEW c \in Component, t.wants[c] \in Nat
    PROVE  LET ref == GetModulePreview(b, t, knows, {})[c] IN
           /\ \A a \in ref.added : a.comp = c
           /\ ref.added # {} =>
                /\ ~ref.enabled /\ t.wants[c] # 0 /\ knows["stable"][c] = t.wants[c]
                /\ ref.added = UNION {All(c, t.wants[c], RequestArch(a)) : a \in Arches(b)}
<1> DEFINE v == t.wants[c]
           old == GetModuleRef(knows, {}, c, v, Arches(b), Request[b].beta)
           ref == GetModulePreview(b, t, knows, {})[c]
           added == IF v = 0 THEN {} ELSE CompareModuleData(knows, {}, c, v, Arches(b), Request[b].beta)
<1>1. ref = [old EXCEPT !.enabled = @ /\ c \notin t.left]
  BY DEF GetModulePreview
<1>2. old = [enabled |-> added = {}, added |-> added]
  BY DEF GetModuleRef
<1> HIDE DEF added, old
<1>3. ref.added = added /\ (ref.enabled => added = {})
  <2> HIDE DEF ref
  <2>1. QED
    BY <1>1, <1>2
<1>4. {d \in Dist : knows[d][c] = v /\ (d = "beta" => Request[b].beta)} =
      IF knows["stable"][c] = v THEN {"stable"} ELSE {}
  BY DEF Dist
<1>5. \A a \in Arches(b) : RequestArch(a) # "src"
  <2>1. ASSUME NEW a \in Arches(b) PROVE a # "src"
    <3>1. PICK p \in Range(Request[b].platforms) : a \in Range(p.arches)
      BY DEF Arches
    <3>2. PICK i \in DOMAIN Request[b].platforms : p = Request[b].platforms[i]
      BY DEF Range
    <3>3. QED
      BY <3>1, <3>2, RequestOf
  <2>2. X86 # "src"
    BY IndexAssumption
  <2>3. QED
    BY <2>1, <2>2 DEF RequestArch
<1>6. ASSUME added # {}
      PROVE  v # 0 /\ knows["stable"][c] = v /\ added = UNION {All(c, v, RequestArch(a)) : a \in Arches(b)}
  <2> DEFINE ds == {d \in Dist : knows[d][c] = v /\ (d = "beta" => Request[b].beta)}
             An(d, k, a) == Answer(knows, {}, d, k, c, RequestArch(a))
  <2>1. v # 0 /\ added = UNION {An(d, k, a) : d \in ds, k \in Kind, a \in Arches(b)}
    BY <1>6 DEF added, CompareModuleData
  <2>2. knows["stable"][c] = v /\ ds = {"stable"}
    <3>1. ds # {}
      <4> HIDE DEF ds, An
      <4>1. QED
        BY <1>6, <2>1
    <3>2. QED
      BY <1>4, <3>1
  <2>3. \A k \in Kind, a \in Arches(b) : An("stable", k, a) = Part(c, v, k, RequestArch(a))
    <3>1. ASSUME NEW k \in Kind, NEW a \in Arches(b)
          PROVE  An("stable", k, a) = Part(c, v, k, RequestArch(a))
      <4> DEFINE ra == RequestArch(a)
                 d == "stable"
      <4>1. knows[d][c] = v
        BY <2>2
      <4>2. knows[d][c] # 0 /\ ForMachine(ra)
        BY <1>5, <2>1, <2>2 DEF ForMachine
      <4> HIDE DEF ra, d
      <4>3. AnswersWith(knows, d, k, c, ra)
        BY <4>2, AnswerIs
      <4>4. Answer(knows, {}, d, k, c, ra) = Part(c, v, k, ra)
        BY <4>1, <4>3 DEF AnswersWith
      <4>5. QED
        BY <4>4 DEF ra, d
    <3>2. QED
      BY <3>1
  <2> HIDE DEF An, ds
  <2>4. added = UNION {Part(c, v, k, RequestArch(a)) : k \in Kind, a \in Arches(b)}
    BY <2>1, <2>2, <2>3
  <2>5. \A a \in Arches(b) : UNION {Part(c, v, k, RequestArch(a)) : k \in Kind} = All(c, v, RequestArch(a))
    BY PartsAre
  <2>6. added = UNION {All(c, v, RequestArch(a)) : a \in Arches(b)}
    BY <2>4, <2>5
  <2>7. QED
    BY <2>1, <2>2, <2>6
<1>7. \A a \in added : a.comp = c
  <2>1. SUFFICES ASSUME NEW a \in added PROVE a.comp = c
    OBVIOUS
  <2>2. PICK x \in Arches(b) : a \in All(c, v, RequestArch(x))
    BY <1>6
  <2>3. QED
    BY <2>2, AllIsOf
<1> HIDE DEF ref
<1>8. QED
  BY <1>3, <1>6, <1>7 DEF ref

\* What prepare_module_index lists of a component whose packages are taken over.
Allowed(arch) == {arch, "src", "noarch"}
Packages(c, v, kind, arch) ==
    IF Part(c, v, kind, RequestArch(arch)) = {} THEN {}
    ELSE Part(c, v, kind, RequestArch(arch)) \cup {SourceOf(c, v)}
ForArch(a, arch) == IF a.arch = X86 /\ arch = I686 THEN [a EXCEPT !.arch = I686] ELSE a
ListedOf(knows, refs, kind, c, arch) ==
    {a \in refs[c].added \cup Prebuilt(knows, {}, kind, c, arch, FALSE) :
        a.arch \in Allowed(arch) /\ AddRpmArtifact(kind, a)}
    \cup (IF arch = X86 /\ kind = MultilibKind(c) THEN MultilibOf(knows, {}, refs[c]) ELSE {})

LEMMA PrebuiltIs ==
    ASSUME NEW knows, NEW kind \in Kind, NEW c, NEW arch
    PROVE  /\ \A a \in Prebuilt(knows, {}, kind, c, arch, FALSE) : a.comp = c
           /\ knows["stable"][c] # 0 /\ RequestArch(arch) # "src" /\ c \notin Renamed =>
                Prebuilt(knows, {}, kind, c, arch, FALSE) =
                  {ForArch(a, arch) : a \in Packages(c, knows["stable"][c], kind, arch)}
<1> DEFINE ra == RequestArch(arch)
           v == knows["stable"][c]
           answer == Answer(knows, {}, "stable", kind, c, ra)
           found == IF c \in Renamed THEN {} ELSE IF answer = {} THEN {} ELSE answer \cup {SourceOf(c, v)}
<1>1. Prebuilt(knows, {}, kind, c, arch, FALSE) = {ForArch(a, arch) : a \in found}
  BY DEF Prebuilt, ForArch
<1>2. answer \subseteq Part(c, v, kind, ra) /\ (v # 0 /\ ra # "src" => answer = Part(c, v, kind, ra))
  <2> DEFINE d == "stable"
  <2>1. knows[d][c] = v
    OBVIOUS
  <2> HIDE DEF ra, v, d, answer
  <2>2. Answer(knows, {}, d, kind, c, ra) \subseteq Part(c, knows[d][c], kind, ra)
    BY AnswerWithin
  <2>5. ASSUME knows[d][c] # 0, ra # "src"
        PROVE  Answer(knows, {}, d, kind, c, ra) = Part(c, knows[d][c], kind, ra)
    <3>1. ForMachine(ra)
      BY <2>5 DEF ForMachine
    <3>2. AnswersWith(knows, d, kind, c, ra)
      BY <2>5, <3>1, AnswerIs
    <3>3. QED
      BY <3>2 DEF AnswersWith
  <2>3. answer = Answer(knows, {}, d, kind, c, ra)
    BY DEF answer, d
  <2>4. QED
    BY <2>1, <2>2, <2>3, <2>5
<1>3. \A a \in found : a.comp = c /\ ForArch(a, arch).comp = c
  <2>1. ASSUME NEW a \in answer PROVE \E name, x : a = Artifact(c, v, name, x)
    <3>1. a \in All(c, v, ra)
      BY <1>2, PartsAre
    <3>2. (\E p \in PackagesOf[c] : a = Artifact(c, v, p.name, IF p.kind = "noarch" THEN "noarch" ELSE ra))
          \/ a \in Multilib(c, v)
      BY <3>1, AllIsOf
    <3>3. QED
      BY <3>2, MultilibIs
  <2>2. SourceOf(c, v) = Artifact(c, v, c, "src")
    BY DEF SourceOf
  <2>3. ASSUME NEW a \in found PROVE \E name, x : a = Artifact(c, v, name, x)
    <3> HIDE DEF answer
    <3>1. QED
      BY <2>1, <2>2
  <2>4. ASSUME NEW name, NEW x
        PROVE  LET a == Artifact(c, v, name, x) IN a.comp = c /\ ForArch(a, arch).comp = c
    BY ArtifactIs DEF ForArch
  <2> HIDE DEF found
  <2>5. QED
    BY <2>3, <2>4
<1> HIDE DEF answer, ra, v
<1>4. \A a \in Prebuilt(knows, {}, kind, c, arch, FALSE) : a.comp = c
  <2> HIDE DEF found
  <2>1. QED
    BY <1>1, <1>3
<1>5. ASSUME v # 0, ra # "src", c \notin Renamed
      PROVE  found = Packages(c, v, kind, arch)
  BY <1>2, <1>5 DEF Packages, ra
<1> HIDE DEF found
<1>6. QED
  BY <1>1, <1>4, <1>5 DEF v, ra

\* Whatever is listed of a component is of it, so the others do not matter.
LEMMA ListsAre ==
    ASSUME NEW b \in Build, NEW t, NEW knows, ~Request[b].beta, t.wants \in [Component -> Nat],
           NEW c \in Component, NEW arch,
           ~GetModulePreview(b, t, knows, {})[c].enabled
    PROVE  LET refs == GetModulePreview(b, t, knows, {})
               lists == PrepareModuleIndex(knows, {}, refs, arch, Request[b].beta) IN
           {a \in lists["plain"] \cup lists["devel"] : a.comp = c} =
              ListedOf(knows, refs, "plain", c, arch) \cup ListedOf(knows, refs, "devel", c, arch)
<1> DEFINE refs == GetModulePreview(b, t, knows, {})
           lists == PrepareModuleIndex(knows, {}, refs, arch, Request[b].beta)
           C == {e \in Component : ~refs[e].enabled}
           L(k, e) == ListedOf(knows, refs, k, e, arch)
<1>1. ASSUME NEW k \in Kind, NEW e \in Component PROVE \A a \in L(k, e) : a.comp = e
  <2>1. t.wants[e] \in Nat
    OBVIOUS
  <2>2. \A a \in refs[e].added : a.comp = e
    BY <2>1, PreviewIs
  <2>3. \A a \in Prebuilt(knows, {}, k, e, arch, FALSE) : a.comp = e
    BY PrebuiltIs
  <2>4. MultilibOf(knows, {}, refs[e]) \subseteq refs[e].added
    BY DEF MultilibOf
  <2> HIDE DEF refs
  <2>5. QED
    BY <2>2, <2>3, <2>4 DEF ListedOf
<1>2. \A k \in Kind : lists[k] = UNION {L(k, e) : e \in C}
  <2>1. Request[b].beta = FALSE \/ Request[b].beta # FALSE
    OBVIOUS
  <2>2. \A k, e : Prebuilt(knows, {}, k, e, arch, Request[b].beta) = Prebuilt(knows, {}, k, e, arch, FALSE)
    BY DEF Prebuilt
  <2> HIDE DEF refs
  <2>3. QED
    BY <2>2 DEF PrepareModuleIndex, ListedOf, Allowed
<1>3. "plain" \in Kind /\ "devel" \in Kind /\ c \in C
  BY DEF Kind
<1> HIDE DEF C, L, lists
<1>4. lists["plain"] = UNION {L("plain", e) : e \in C} /\ lists["devel"] = UNION {L("devel", e) : e \in C}
  BY <1>2, <1>3
<1>5. C \subseteq Component
  BY DEF C
<1>6. {a \in lists["plain"] \cup lists["devel"] : a.comp = c} = L("plain", c) \cup L("devel", c)
  BY <1>1, <1>3, <1>4, <1>5
<1>7. QED
  BY <1>6 DEF lists, L

LEMMA ArchesAre ==
    ASSUME NEW b \in Build, NEW a \in Arches(b)
    PROVE  /\ a # "src" /\ a # "noarch"
           /\ RequestArch(a) # "src" /\ RequestArch(a) # "noarch" /\ RequestArch(a) # I686
<1>1. PICK p \in Range(Request[b].platforms) : a \in Range(p.arches)
  BY DEF Arches
<1>2. PICK i \in DOMAIN Request[b].platforms : p = Request[b].platforms[i]
  BY DEF Range
<1>3. a # "src" /\ a # "noarch"
  BY <1>1, <1>2, RequestOf
<1>4. X86 # "src" /\ X86 # "noarch" /\ X86 # I686
  BY IndexAssumption
<1>5. QED
  BY <1>3, <1>4 DEF RequestArch

\* A package as it is for an architecture.
BuiltFor(c, v, p, arch) == Artifact(c, v, p.name, IF p.kind = "noarch" THEN "noarch" ELSE arch)

LEMMA AddedIs ==
    ASSUME NEW b \in Build, NEW c, NEW v, NEW arch \in Arches(b), NEW x \in Arches(b),
           NEW a \in All(c, v, RequestArch(x))
    PROVE  /\ a.arch \in Allowed(arch) => a \in Built(c, v, arch)
           /\ a.arch = I686 => a \in Multilib(c, v)
<1> DEFINE ra == RequestArch(x)
<1>1. ra # "src" /\ ra # "noarch" /\ ra # I686 /\ I686 # "noarch" /\ I686 # "src"
  BY ArchesAre, IndexAssumption
<1>2. CASE \E p \in PackagesOf[c] : a = BuiltFor(c, v, p, ra)
  <2>1. PICK p \in PackagesOf[c] : a = BuiltFor(c, v, p, ra)
    BY <1>2
  <2>2. a.arch = IF p.kind = "noarch" THEN "noarch" ELSE ra
    BY <2>1, ArtifactIs DEF BuiltFor
  <2>3. BuiltFor(c, v, p, arch) \in Built(c, v, arch)
    BY BuiltIs DEF BuiltFor
  <2>4. a.arch \in Allowed(arch) => a = BuiltFor(c, v, p, arch)
    <3> HIDE DEF ra
    <3>1. QED
      BY <1>1, <2>1, <2>2 DEF Allowed, BuiltFor
  <2> HIDE DEF ra
  <2>5. QED
    BY <1>1, <2>2, <2>3, <2>4
<1>3. CASE a \in Multilib(c, v)
  <2>1. PICK p \in PackagesOf[c] : p.kind = "multilib" /\ a = Artifact(c, v, p.name, I686)
    BY <1>3, MultilibIs
  <2>2. a.arch = I686
    BY <2>1, ArtifactIs
  <2>3. a = BuiltFor(c, v, p, I686)
    BY <2>1 DEF BuiltFor
  <2>4. BuiltFor(c, v, p, arch) \in Built(c, v, arch)
    BY BuiltIs DEF BuiltFor
  <2>5. a.arch \in Allowed(arch) => I686 = arch
    BY <1>1, <2>2 DEF Allowed
  <2>6. QED
    BY <1>3, <2>3, <2>4, <2>5
<1>4. QED
  BY <1>2, <1>3, AllIsOf DEF BuiltFor

\* The packages the beholder lists for the architecture, as they are listed.
LEMMA PackageIs ==
    ASSUME NEW b \in Build, NEW c, NEW v, NEW arch \in Arches(b), NEW kind,
           NEW a \in Packages(c, v, kind, arch), ForArch(a, arch).arch \in Allowed(arch)
    PROVE  ForArch(a, arch) \in Built(c, v, arch) \cup {SourceOf(c, v)}
<1> DEFINE ra == RequestArch(arch)
           y == ForArch(a, arch)
<1>1. ra # "src" /\ ra # "noarch" /\ ra # I686 /\ I686 # "noarch" /\ I686 # "src" /\ X86 # I686 /\ X86 # "src" /\ X86 # "noarch"
  BY ArchesAre, IndexAssumption
<1>2. a = SourceOf(c, v) \/ a \in All(c, v, ra)
  BY DEF Packages, Part
<1>3. CASE a = SourceOf(c, v)
  <2>1. a.arch = "src"
    BY <1>3, ArtifactIs DEF SourceOf
  <2>2. ForArch(a, arch) = a
    BY <1>1, <2>1 DEF ForArch
  <2>3. QED
    BY <1>3, <2>2
<1>4. CASE a \in All(c, v, ra)
  <2>1. CASE arch = I686
    <3>1. ra = X86
      BY <2>1 DEF RequestArch
    <3>2. CASE \E p \in PackagesOf[c] : a = BuiltFor(c, v, p, ra)
      <4>1. PICK p \in PackagesOf[c] : a = BuiltFor(c, v, p, ra)
        BY <3>2
      <4>2. BuiltFor(c, v, p, I686) \in Built(c, v, arch)
        BY <2>1, BuiltIs DEF BuiltFor
      <4>3. CASE p.kind = "noarch"
        <5>1. a = Artifact(c, v, p.name, "noarch") /\ BuiltFor(c, v, p, I686) = a
          BY <4>1, <4>3 DEF BuiltFor
        <5>2. a.arch = "noarch"
          BY <5>1, ArtifactIs
        <5>3. y = a
          BY <1>1, <5>2 DEF ForArch
        <5>4. QED
          BY <4>2, <5>1, <5>3
      <4>4. CASE p.kind # "noarch"
        <5>1. a = Artifact(c, v, p.name, X86) /\ BuiltFor(c, v, p, I686) = Artifact(c, v, p.name, I686)
          BY <3>1, <4>1, <4>4 DEF BuiltFor
        <5>2. a.arch = X86 /\ [a EXCEPT !.arch = I686] = Artifact(c, v, p.name, I686)
          BY <5>1, ArtifactIs
        <5>3. y = [a EXCEPT !.arch = I686]
          BY <2>1, <5>2 DEF ForArch
        <5>4. QED
          BY <4>2, <5>1, <5>2, <5>3
      <4>5. QED
        BY <4>3, <4>4
    <3>3. CASE a \in Multilib(c, v)
      <4>1. PICK p \in PackagesOf[c] : p.kind = "multilib" /\ a = Artifact(c, v, p.name, I686)
        BY <3>3, MultilibIs
      <4>2. a.arch = I686 /\ a = BuiltFor(c, v, p, I686)
        BY <4>1, ArtifactIs DEF BuiltFor
      <4>3. y = a
        BY <1>1, <4>2 DEF ForArch
      <4>4. BuiltFor(c, v, p, I686) \in Built(c, v, arch)
        BY <2>1, BuiltIs DEF BuiltFor
      <4>5. QED
        BY <4>2, <4>3, <4>4
    <3>4. QED
      BY <1>4, <3>2, <3>3, AllIsOf DEF BuiltFor
  <2>2. CASE arch # I686
    <3>1. y = a
      BY <2>2 DEF ForArch
    <3>2. a.arch \in Allowed(arch) => a \in Built(c, v, arch)
      BY <1>4, AddedIs
    <3>3. QED
      BY <3>1, <3>2
  <2>3. QED
    BY <2>1, <2>2
<1>5. QED
  BY <1>2, <1>3, <1>4

\* Each package of the architecture is listed by one of the two modules.
LEMMA PackageListed ==
    ASSUME NEW b \in Build, NEW c, NEW v, NEW arch \in Arches(b), NEW p \in PackagesOf[c]
    PROVE  LET kind == IF p.name \in Filtered THEN "devel" ELSE "plain"
               x == BuiltFor(c, v, p, RequestArch(arch)) IN
           /\ x \in Packages(c, v, kind, arch) /\ SourceOf(c, v) \in Packages(c, v, kind, arch)
           /\ ForArch(x, arch) = BuiltFor(c, v, p, arch)
           /\ ForArch(SourceOf(c, v), arch) = SourceOf(c, v)
           /\ BuiltFor(c, v, p, arch).arch \in Allowed(arch)
           /\ AddRpmArtifact(kind, BuiltFor(c, v, p, arch))
<1> DEFINE kind == IF p.name \in Filtered THEN "devel" ELSE "plain"
           ra == RequestArch(arch)
           x == BuiltFor(c, v, p, ra)
           y == BuiltFor(c, v, p, arch)
           dest(to) == IF p.kind = "noarch" THEN "noarch" ELSE to
<1>1. X86 # I686 /\ X86 # "src" /\ X86 # "noarch"
  BY IndexAssumption
<1>2. /\ x.name = p.name /\ x.arch = dest(ra) /\ y.name = p.name /\ y.arch = dest(arch)
      /\ [x EXCEPT !.arch = I686] = Artifact(c, v, p.name, I686)
  BY ArtifactIs DEF BuiltFor
<1>3. x \in All(c, v, ra)
  BY BuiltIs DEF BuiltFor, All
<1>4. x \in Part(c, v, kind, ra)
  <2>1. IsFiltered(x) <=> p.name \in Filtered
    BY <1>2 DEF IsFiltered
  <2> HIDE DEF x, ra
  <2>2. QED
    BY <1>3, <2>1 DEF Part
<1>5. x \in Packages(c, v, kind, arch) /\ SourceOf(c, v) \in Packages(c, v, kind, arch)
  <2> HIDE DEF x, kind
  <2>1. QED
    BY <1>4 DEF Packages
<1>6. ForArch(x, arch) = y
  <2>1. CASE p.kind = "noarch"
    <3>1. x = y /\ x.arch = "noarch"
      BY <1>2, <2>1 DEF BuiltFor
    <3>2. QED
      BY <1>1, <3>1 DEF ForArch
  <2>2. CASE p.kind # "noarch" /\ arch = I686
    <3>1. x.arch = X86 /\ y = Artifact(c, v, p.name, I686)
      BY <1>2, <2>2 DEF BuiltFor, RequestArch
    <3>2. QED
      BY <1>2, <2>2, <3>1 DEF ForArch
  <2>3. CASE arch # I686
    <3>1. ra = arch
      BY <2>3 DEF RequestArch
    <3>2. QED
      BY <2>3, <3>1 DEF ForArch
  <2>4. QED
    BY <2>1, <2>2, <2>3
<1>7. ForArch(SourceOf(c, v), arch) = SourceOf(c, v)
  <2>1. SourceOf(c, v).arch = "src"
    BY ArtifactIs DEF SourceOf
  <2>2. QED
    BY <1>1, <2>1 DEF ForArch
<1>8. y.arch \in Allowed(arch)
  BY <1>2 DEF Allowed
<1>9. AddRpmArtifact(kind, y)
  BY <1>2 DEF AddRpmArtifact, IsFiltered
<1>10. QED
  BY <1>5, <1>6, <1>7, <1>8, <1>9

LEMMA WholeIs ==
    ASSUME NEW b \in Build, NEW t, NEW knows, ~Request[b].beta, t.wants \in [Component -> Nat],
           NEW c \in Component \ Renamed, SourceIsListed(c), NEW arch \in Arches(b),
           GetModulePreview(b, t, knows, {})[c].added # {}
    PROVE  LET refs == GetModulePreview(b, t, knows, {})
               v == t.wants[c] IN
           ListedOf(knows, refs, "plain", c, arch) \cup ListedOf(knows, refs, "devel", c, arch) =
             Built(c, v, arch) \cup {SourceOf(c, v)} \cup (IF arch = X86 THEN Multilib(c, v) ELSE {})
<1> DEFINE refs == GetModulePreview(b, t, knows, {})
           v == t.wants[c]
           added == refs[c].added
           L(k) == ListedOf(knows, refs, k, c, arch)
           Multi == MultilibOf(knows, {}, refs[c])
           whole == Built(c, v, arch) \cup {SourceOf(c, v)} \cup (IF arch = X86 THEN Multilib(c, v) ELSE {})
<1>1. /\ v # 0 /\ knows["stable"][c] = v
      /\ added = UNION {All(c, v, RequestArch(a)) : a \in Arches(b)}
  <2>1. c \in Component /\ t.wants[c] \in Nat
    OBVIOUS
  <2>2. QED
    BY <2>1, PreviewIs
<1>2. ASSUME NEW a \in added
      PROVE  /\ a.arch \in Allowed(arch) => a \in Built(c, v, arch)
             /\ a.arch = I686 => a \in Multilib(c, v)
             /\ a.comp = c
  <2> HIDE DEF added, v
  <2>1. PICK x \in Arches(b) : a \in All(c, v, RequestArch(x))
    BY <1>1
  <2>2. QED
    <3>1. a.comp = c
      BY <2>1, AllIsOf
    <3>2. /\ a.arch \in Allowed(arch) => a \in Built(c, v, arch)
          /\ a.arch = I686 => a \in Multilib(c, v)
      BY <2>1, AddedIs
    <3>3. QED
      BY <3>1, <3>2
<1>3. \A k \in Kind : Prebuilt(knows, {}, k, c, arch, FALSE) = {ForArch(a, arch) : a \in Packages(c, v, k, arch)}
  <2>1. RequestArch(arch) # "src"
    BY ArchesAre
  <2>2. knows["stable"][c] # 0 /\ c \notin Renamed
    BY <1>1
  <2>3. ASSUME NEW k \in Kind
        PROVE  Prebuilt(knows, {}, k, c, arch, FALSE) =
                  {ForArch(a, arch) : a \in Packages(c, knows["stable"][c], k, arch)}
    BY <2>1, <2>2, PrebuiltIs
  <2> HIDE DEF v
  <2>4. QED
    BY <1>1, <2>3
<1>4. Multi \subseteq added /\ (\A a \in Multi : a.arch = I686)
  BY DEF MultilibOf
<1>5. \A k \in Kind : L(k) =
         {a \in added \cup {ForArch(x, arch) : x \in Packages(c, v, k, arch)} :
             a.arch \in Allowed(arch) /\ AddRpmArtifact(k, a)}
         \cup (IF arch = X86 /\ k = MultilibKind(c) THEN Multi ELSE {})
  <2> HIDE DEF v, refs
  <2>1. QED
    BY <1>3 DEF ListedOf
<1>6. MultilibKind(c) \in Kind /\ Kind = {"plain", "devel"}
  BY DEF MultilibKind, Kind
<1>7. ASSUME arch = X86 PROVE Multilib(c, v) \subseteq Multi
  <2> DEFINE known1(e) == UNION {Answer(knows, {}, "stable", k, e, X86) : k \in Kind}
             comps == {a.comp : a \in added}
             names == {a.name : a \in UNION {Answer(knows, {}, "stable", k, e, X86) : k \in Kind, e \in comps}}
  <2>1. ASSUME NEW x \in Multilib(c, v) PROVE x \in added /\ x.arch = I686 /\ x.name \in names
    <3>1. X86 # I686 /\ X86 # "src"
      BY IndexAssumption
    <3>2. RequestArch(arch) = X86 /\ x \in All(c, v, X86)
      BY <1>7, <2>1, <3>1 DEF RequestArch, All
    <3>3. x \in added
      <4> HIDE DEF added, v
      <4>1. QED
        BY <1>1, <3>2
    <3>4. x.arch = I686 /\ x.comp = c
      <4>1. PICK p \in PackagesOf[c] : x = Artifact(c, v, p.name, I686)
        BY MultilibIs
      <4>2. QED
        BY <4>1, ArtifactIs
    <3>5. c \in comps
      <4> HIDE DEF added
      <4>1. QED
        BY <3>3, <3>4
    <3>6. \E k \in Kind : x \in Part(c, v, k, X86)
      BY <3>2, PartsAre DEF Kind
    <3>7. \E k \in Kind : x \in Answer(knows, {}, "stable", k, c, X86)
      <4> DEFINE d == "stable"
      <4>1. knows[d][c] = v
        BY <1>1
      <4>2. knows[d][c] # 0
        BY <1>1
      <4>3. \E k \in Kind : x \in Part(c, knows[d][c], k, X86)
        BY <3>6, <4>1
      <4> HIDE DEF d, v, added, names, comps
      <4>4. ASSUME NEW k \in Kind PROVE Answer(knows, {}, d, k, c, X86) = Part(c, knows[d][c], k, X86)
        <5>1. ForMachine(X86)
          BY <3>1 DEF ForMachine
        <5>2. AnswersWith(knows, d, k, c, X86)
          BY <4>2, <5>1, AnswerIs
        <5>3. QED
          BY <5>2 DEF AnswersWith
      <4>5. \E k \in Kind : x \in Answer(knows, {}, d, k, c, X86)
        BY <4>3, <4>4
      <4>6. QED
        BY <4>5 DEF d
    <3>8. x.name \in names
      <4> HIDE DEF comps
      <4>1. QED
        BY <3>5, <3>7
    <3>9. QED
      BY <3>3, <3>4, <3>8
  <2>2. Multi = {a \in added : a.arch = I686 /\ a.name \in names}
    BY DEF MultilibOf
  <2> HIDE DEF Multi, added, names, v
  <2>3. QED
    BY <2>1, <2>2
<1> HIDE DEF refs, v, added, Multi, L
<1>8. ASSUME NEW k \in Kind, NEW a \in L(k) PROVE a \in whole
  <2>1. CASE a \in added /\ a.arch \in Allowed(arch)
    BY <1>2, <2>1
  <2>2. CASE arch = X86 /\ a \in Multi
    BY <1>2, <1>4, <2>2
  <2>3. ASSUME NEW x \in Packages(c, v, k, arch), a = ForArch(x, arch), a.arch \in Allowed(arch) PROVE a \in whole
    BY <2>3, PackageIs
  <2> HIDE DEF whole
  <2>4. QED
    BY <1>5, <2>1, <2>2, <2>3
<1>9. ASSUME NEW x \in Built(c, v, arch) PROVE \E k \in Kind : x \in L(k)
  <2>1. PICK p \in PackagesOf[c] : x = BuiltFor(c, v, p, arch)
    BY BuiltIs DEF BuiltFor
  <2> DEFINE kind == IF p.name \in Filtered THEN "devel" ELSE "plain"
             z == BuiltFor(c, v, p, RequestArch(arch))
  <2>2. /\ z \in Packages(c, v, kind, arch) /\ ForArch(z, arch) = x
        /\ x.arch \in Allowed(arch) /\ AddRpmArtifact(kind, x)
    BY <2>1, PackageListed, ZenonT(60)
  <2>3. kind \in Kind
    BY DEF Kind
  <2> HIDE DEF kind, z
  <2>4. x \in L(kind)
    BY <1>5, <2>2, <2>3
  <2>5. QED
    BY <2>3, <2>4
<1>10. \E k \in Kind : SourceOf(c, v) \in L(k)
  <2>1. \E p \in PackagesOf[c] : c \in Filtered \/ p.name \notin Filtered
    <3>1. CASE c \notin Filtered
      BY <3>1 DEF SourceIsListed
    <3>2. CASE c \in Filtered
      <4>1. PICK a \in added : TRUE
        BY DEF added, refs
      <4>2. PICK x \in Arches(b) : a \in All(c, v, RequestArch(x))
        BY <1>1, <4>1
      <4>3. QED
        BY <3>2, <4>2, AllIsOf
    <3>3. QED
      BY <3>1, <3>2
  <2>2. PICK p \in PackagesOf[c] : c \in Filtered \/ p.name \notin Filtered
    BY <2>1
  <2> DEFINE kind == IF p.name \in Filtered THEN "devel" ELSE "plain"
             s == SourceOf(c, v)
  <2>3. s \in Packages(c, v, kind, arch) /\ ForArch(s, arch) = s
    BY PackageListed
  <2>4. s.arch = "src" /\ s.name = c
    BY ArtifactIs DEF SourceOf
  <2>5. s.arch \in Allowed(arch) /\ AddRpmArtifact(kind, s)
    <3> HIDE DEF s
    <3>1. QED
      BY <2>2, <2>4 DEF Allowed, AddRpmArtifact, IsFiltered
  <2>6. kind \in Kind
    BY DEF Kind
  <2> HIDE DEF kind, s
  <2>7. s \in L(kind)
    BY <1>5, <2>3, <2>5, <2>6
  <2>8. QED
    BY <2>6, <2>7 DEF s
<1>11. ASSUME arch = X86, NEW x \in Multilib(c, v) PROVE \E k \in Kind : x \in L(k)
  BY <1>5, <1>6, <1>7, <1>11
<1>12. L("plain") \cup L("devel") = whole
  BY <1>6, <1>8, <1>9, <1>10, <1>11
<1>13. QED
  BY <1>12 DEF L, refs, v

------------------------------------------------------------------------------
(* The messages, the workers and what they commit.                          *)

Stages == {"idle", "read", "increment", "plan", "repos", "commit", "ack"}
Holder(x) ==
    /\ DOMAIN x = {"build", "stage", "index", "stale", "plan"}
    /\ x.stage \in Stages /\ x.index \in [Platform -> Nat] /\ x.stale \in BOOLEAN
    /\ x.stage # "idle" => x.build \in Build
StartType ==
    /\ row \in [Build -> {"none", "unsent", "sent"}]
    /\ DOMAIN preview = Build
    /\ messages \subseteq Build
    /\ buildIndex \in [Platform -> Nat]
    /\ DOMAIN worker = Worker /\ \A w \in Worker : Holder(worker[w])
    /\ DOMAIN plans = Build

\* A build that is started has been requested, and its preview stays.
PreviewOf(b, p) ==
    /\ p.refs = [i \in DOMAIN Request[b].tasks |-> GetModulePreview(b, Request[b].tasks[i], p.known, p.failing)]
    /\ Enabled(b, p.refs)
Requested ==
    /\ \A b \in messages : row[b] # "none"
    /\ \A w \in Worker : ~At(w, "idle") => row[worker[w].build] # "none"
    /\ \A b \in Build : row[b] # "none" => PreviewOf(b, preview[b])

\* A build's repositories are created once, and only the worker that has
\* created them commits.
Once ==
    /\ \A b \in Build : plans[b] # <<>> => b \in inPulp /\ \E x : plans[b] = <<x>>
    /\ \A w \in Worker : At(w, "commit") =>
          /\ worker[w].build \in inPulp /\ plans[worker[w].build] = <<>>
          /\ \A v \in Worker : At(v, "commit") /\ worker[v].build = worker[w].build => v = w

\* What is committed has been planned for the preview.
PlanIs(b, refs, plan) ==
    /\ plan.index \in [Platform -> Nat]
    /\ Planned(plan, b, refs, plan.index, plan.known, plan.failing, Len(Request[b].tasks))
    /\ OnOnePlatform(b) => plan.next = Projects(b, refs)
PlansHold ==
    /\ \A w \in Worker : worker[w].stage \in {"repos", "commit"} =>
          /\ PlanIs(worker[w].build, preview[worker[w].build].refs, worker[w].plan)
          /\ worker[w].plan.index = worker[w].index
    /\ \A b \in Build : \A x \in Range(plans[b]) :
          row[b] # "none" /\ PlanIs(b, preview[b].refs, x.plan)

\* An index that was drawn is not above the platform's, so the next one is new;
\* a worker that nobody has overtaken between its two statements holds the last.
DrawnFor(b) ==
    {worker[w].index : w \in {w \in Worker :
        worker[w].build = b /\ worker[w].stage \in {"plan", "repos", "commit"} /\ ~worker[w].stale}}
    \cup {x.plan.index : x \in {x \in Range(plans[b]) : ~x.stale}}
UpToDate ==
    \A w \in Worker : At(w, "increment") /\ ~worker[w].stale =>
        \A p \in PlatformsOf(worker[w].build) : worker[w].index[p] = buildIndex[p]
NotAbove ==
    \A b \in Build : HasModules(b) => \A i \in DrawnFor(b) : \A p \in PlatformsOf(b) : i[p] <= buildIndex[p]
AllDiffer ==
    \A b, c \in Build : HasModules(b) /\ HasModules(c) /\ b # c =>
        \A i \in DrawnFor(b), j \in DrawnFor(c) : \A p \in PlatformsOf(b) \cap PlatformsOf(c) : i[p] # j[p]
IndexesDiffer == UpToDate /\ NotAbove /\ AllDiffer

StartInvariant == StartType /\ Requested /\ Once /\ PlansHold /\ IndexesDiffer

\* What the actions of a worker do to the workers.
OnlyMoves(w) ==
    /\ DOMAIN worker' = Worker
    /\ \A v \in Worker : v # w => worker'[v] = worker[v]
Becomes(w, x) ==
    /\ worker'[w].build = x.build /\ worker'[w].stage = x.stage /\ worker'[w].index = x.index
    /\ worker'[w].stale = x.stale /\ worker'[w].plan = x.plan
    /\ Holder(worker'[w])
LEMMA Moved ==
    ASSUME NEW w \in Worker, StartType, NEW x, Move(w, x), Holder(x)
    PROVE  OnlyMoves(w) /\ Becomes(w, x)
<1>1. worker' = [worker EXCEPT ![w] = x] /\ DOMAIN worker = Worker
  BY DEF Move, StartType
<1>2. worker'[w] = x
  BY <1>1
<1>3. QED
  BY <1>1, <1>2 DEF OnlyMoves, Becomes

LEMMA IdleIs ==
    /\ Holder(Idle) /\ Idle.stage = "idle"
    /\ \A b \in Build : \A to \in Stages :
          LET x == [Idle EXCEPT !.build = b, !.stage = to] IN
          Holder(x) /\ x.build = b /\ x.stage = to
<1>1. NoIndex \in [Platform -> Nat]
  BY DEF NoIndex
<1> HIDE DEF NoIndex
<1>2. QED
  BY <1>1 DEF Idle, Holder, Stages

\* Nothing is drawn anew.
LEMMA DrawsLess ==
    ASSUME IndexesDiffer, buildIndex' = buildIndex, UpToDate',
           \A b \in Build : HasModules(b) => DrawnFor(b)' \subseteq DrawnFor(b)
    PROVE  IndexesDiffer'
<1>1. NotAbove'
  BY DEF IndexesDiffer, NotAbove
<1>2. AllDiffer'
  <2>1. SUFFICES ASSUME NEW b \in Build, NEW c \in Build, HasModules(b), HasModules(c), b # c,
                        NEW i \in DrawnFor(b)', NEW j \in DrawnFor(c)',
                        NEW p \in PlatformsOf(b) \cap PlatformsOf(c)
                 PROVE  i[p] # j[p]
    BY DEF AllDiffer
  <2>2. i \in DrawnFor(b) /\ j \in DrawnFor(c)
    BY <2>1
  <2>3. QED
    BY <2>1, <2>2 DEF IndexesDiffer, AllDiffer
<1>3. QED
  BY <1>1, <1>2 DEF IndexesDiffer

LEMMA StartBegins ==
    StartInit => StartInvariant
<1>1. SUFFICES ASSUME StartInit PROVE StartInvariant
  OBVIOUS
<1>2. /\ row = [b \in Build |-> "none"] /\ preview = [b \in Build |-> <<>>] /\ messages = {}
      /\ buildIndex = NoIndex /\ worker = [w \in Worker |-> Idle] /\ plans = [b \in Build |-> <<>>]
  BY <1>1 DEF StartInit
<1>3. \A w \in Worker : worker[w] = Idle /\ worker[w].stage = "idle" /\ Holder(worker[w])
  BY <1>2, IdleIs
<1>4. StartType
  <2>1. buildIndex \in [Platform -> Nat]
    BY <1>2 DEF NoIndex
  <2>2. QED
    BY <1>2, <1>3, <2>1 DEF StartType
<1>5. Requested
  BY <1>2, <1>3 DEF Requested, At
<1>6. Once
  BY <1>2, <1>3 DEF Once, At
<1>7. \A b \in Build : Range(plans[b]) = {}
  BY <1>2 DEF Range
<1>8. PlansHold
  BY <1>3, <1>7 DEF PlansHold
<1>9. IndexesDiffer
  <2>1. \A b \in Build : DrawnFor(b) = {}
    BY <1>3, <1>7 DEF DrawnFor
  <2>2. UpToDate
    BY <1>3 DEF UpToDate, At
  <2>3. QED
    BY <2>1, <2>2 DEF IndexesDiffer, NotAbove, AllDiffer
<1>10. QED
  BY <1>4, <1>5, <1>6, <1>8, <1>9 DEF StartInvariant

\* A worker moves on, to a state that is allowed.
MayBe(w, x) ==
    /\ x.stage # "idle" => row[x.build] # "none"
    /\ x.stage = "commit" =>
          /\ x.build \in inPulp' /\ plans[x.build] = <<>>
          /\ \A v \in Worker : At(v, "commit") /\ worker[v].build = x.build => v = w
    /\ x.stage \in {"repos", "commit"} =>
          PlanIs(x.build, preview[x.build].refs, x.plan) /\ x.plan.index = x.index
    /\ x.stage = "increment" => x.index = buildIndex
    /\ x.stage \in {"plan", "repos", "commit"} /\ HasModules(x.build) =>
          /\ x.build = worker[w].build /\ x.index = worker[w].index /\ x.stale = worker[w].stale
          /\ worker[w].stage \in {"plan", "repos", "commit"}
LEMMA MovesOn ==
    ASSUME StartInvariant, NEW w \in Worker, NEW x, OnlyMoves(w), Becomes(w, x), MayBe(w, x),
           UNCHANGED <<row, preview, buildIndex, plans>>, inPulp \subseteq inPulp',
           messages' \subseteq Build, \A b \in messages' : row[b] # "none"
    PROVE  StartInvariant'
<1>1. StartType /\ Requested /\ Once /\ PlansHold /\ IndexesDiffer
  BY DEF StartInvariant
<1>2. /\ DOMAIN worker' = Worker /\ \A v \in Worker : v # w => worker'[v] = worker[v]
      /\ worker'[w].build = x.build /\ worker'[w].stage = x.stage /\ worker'[w].index = x.index
      /\ worker'[w].stale = x.stale /\ worker'[w].plan = x.plan /\ Holder(worker'[w])
  BY DEF OnlyMoves, Becomes
<1>3. StartType'
  <2>1. \A v \in Worker : Holder(worker'[v])
    BY <1>1, <1>2 DEF StartType
  <2>2. QED
    BY <1>1, <1>2, <2>1 DEF StartType
<1>4. Requested'
  <2>1. \A v \in Worker : ~At(v, "idle")' => row[worker'[v].build] # "none"
    BY <1>1, <1>2 DEF Requested, At, MayBe
  <2>2. QED
    BY <1>1, <2>1 DEF Requested
<1>5. Once'
  <2>1. \A b \in Build : plans[b] # <<>> => b \in inPulp' /\ \E y : plans[b] = <<y>>
    BY <1>1 DEF Once
  <2>2. ASSUME NEW v \in Worker, At(v, "commit")'
        PROVE  /\ worker'[v].build \in inPulp' /\ plans[worker'[v].build] = <<>>
               /\ \A u \in Worker : At(u, "commit")' /\ worker'[u].build = worker'[v].build => u = v
    <3>1. CASE v = w
      BY <1>2, <2>2, <3>1 DEF At, MayBe
    <3>2. CASE v # w
      <4>1. worker'[v] = worker[v] /\ At(v, "commit")
        BY <1>2, <2>2, <3>2 DEF At
      <4>2. worker'[v].build \in inPulp' /\ plans[worker'[v].build] = <<>>
        BY <1>1, <4>1 DEF Once
      <4>3. ASSUME NEW u \in Worker, At(u, "commit")', worker'[u].build = worker'[v].build PROVE u = v
        <5>1. CASE u = w
          BY <1>2, <4>1, <4>3, <5>1 DEF At, MayBe
        <5>2. CASE u # w
          BY <1>1, <1>2, <4>1, <4>3, <5>2 DEF At, Once
        <5>3. QED
          BY <5>1, <5>2
      <4>4. QED
        BY <4>2, <4>3
    <3>3. QED
      BY <3>1, <3>2
  <2>3. QED
    BY <2>1, <2>2 DEF Once
<1>6. PlansHold'
  <2>1. ASSUME NEW v \in Worker, worker'[v].stage \in {"repos", "commit"}
        PROVE  /\ PlanIs(worker'[v].build, preview[worker'[v].build].refs, worker'[v].plan)
               /\ worker'[v].plan.index = worker'[v].index
    <3>1. CASE v = w
      BY <1>2, <2>1, <3>1 DEF MayBe
    <3>2. CASE v # w
      BY <1>1, <1>2, <2>1, <3>2 DEF PlansHold
    <3>3. QED
      BY <3>1, <3>2
  <2>2. QED
    BY <1>1, <2>1 DEF PlansHold
<1>7. UpToDate'
  <2>1. SUFFICES ASSUME NEW v \in Worker, worker'[v].stage = "increment", ~worker'[v].stale,
                        NEW p \in PlatformsOf(worker'[v].build)
                 PROVE  worker'[v].index[p] = buildIndex[p]
    BY DEF UpToDate, At
  <2>2. CASE v = w
    BY <1>2, <2>1, <2>2 DEF MayBe
  <2>3. CASE v # w
    BY <1>1, <1>2, <2>1, <2>3 DEF IndexesDiffer, UpToDate, At
  <2>4. QED
    BY <2>2, <2>3
<1>8. ASSUME NEW b \in Build, HasModules(b), NEW i \in DrawnFor(b)' PROVE i \in DrawnFor(b)
  <2>1. CASE \E y \in Range(plans[b]) : ~y.stale /\ i = y.plan.index
    BY <2>1 DEF DrawnFor
  <2>2. ASSUME NEW v \in Worker, worker'[v].build = b, worker'[v].stage \in {"plan", "repos", "commit"},
               ~worker'[v].stale, i = worker'[v].index
        PROVE  i \in DrawnFor(b)
    <3>1. CASE v = w
      <4>1. /\ worker[w].build = b /\ worker[w].stage \in {"plan", "repos", "commit"}
            /\ ~worker[w].stale /\ i = worker[w].index
        BY <1>2, <1>8, <2>2, <3>1 DEF MayBe
      <4>2. QED
        BY <4>1 DEF DrawnFor
    <3>2. CASE v # w
      <4>1. worker'[v] = worker[v]
        BY <1>2, <3>2
      <4>2. QED
        BY <2>2, <4>1 DEF DrawnFor
    <3>3. QED
      BY <3>1, <3>2
  <2>3. QED
    BY <1>8, <2>1, <2>2 DEF DrawnFor
<1>9. IndexesDiffer'
  BY <1>1, <1>7, <1>8, DrawsLess
<1>10. QED
  BY <1>3, <1>4, <1>5, <1>6, <1>9 DEF StartInvariant

\* A worker that is given up or is done.
LEMMA GivesUp ==
    ASSUME StartInvariant, NEW w \in Worker, Move(w, Idle),
           UNCHANGED <<row, preview, buildIndex, plans>>, inPulp \subseteq inPulp',
           messages' \subseteq Build, \A b \in messages' : row[b] # "none"
    PROVE  StartInvariant'
<1>1. StartType
  BY DEF StartInvariant
<1>2. OnlyMoves(w) /\ Becomes(w, Idle)
  BY <1>1, Moved, IdleIs
<1>3. MayBe(w, Idle)
  BY IdleIs DEF MayBe
<1>4. QED
  BY <1>2, <1>3, MovesOn

LEMMA CreateBuildStep ==
    ASSUME StartInvariant, NEW b \in Build, NEW failing, CreateBuild(b, failing)
    PROVE  StartInvariant'
<1> DEFINE refs == [i \in DOMAIN Request[b].tasks |-> GetModulePreview(b, Request[b].tasks[i], known, failing)]
           new == [known |-> known, failing |-> failing, refs |-> refs]
<1>1. StartType /\ Requested /\ Once /\ PlansHold /\ IndexesDiffer
  BY DEF StartInvariant
<1>2. /\ row[b] = "none" /\ row' = [row EXCEPT ![b] = "unsent"] /\ preview' = [preview EXCEPT ![b] = new]
      /\ UNCHANGED <<messages, buildIndex, worker, inPulp, plans>>
      /\ \A i \in DOMAIN Request[b].tasks : IsModule(Request[b].tasks[i]) => EnabledIn(refs[i]) # {}
  BY DEF CreateBuild
<1>3. PreviewOf(b, new)
  <2>1. new.refs = refs /\ new.known = known /\ new.failing = failing
    OBVIOUS
  <2>2. Enabled(b, refs)
    BY <1>2 DEF Enabled
  <2> HIDE DEF new
  <2>3. QED
    BY <2>1, <2>2 DEF PreviewOf
<1> HIDE DEF new, refs
<1>4. /\ row'[b] = "unsent" /\ preview'[b] = new
      /\ \A c \in Build : c # b => row'[c] = row[c] /\ preview'[c] = preview[c]
      /\ row' \in [Build -> {"none", "unsent", "sent"}] /\ DOMAIN preview' = Build
  BY <1>1, <1>2 DEF StartType
<1>5. StartType'
  BY <1>1, <1>2, <1>4 DEF StartType
<1>6. Requested'
  <2>1. \A c \in Build : row[c] # "none" => row'[c] # "none"
    BY <1>4
  <2>2. \A c \in messages : row'[c] # "none"
    BY <1>1, <2>1 DEF Requested, StartType
  <2>3. ASSUME NEW w \in Worker, ~At(w, "idle") PROVE row'[worker[w].build] # "none"
    <3>1. worker[w].build \in Build
      BY <1>1, <2>3 DEF StartType, Holder, At
    <3>2. QED
      BY <1>1, <2>1, <2>3, <3>1 DEF Requested
  <2>4. \A c \in Build : row'[c] # "none" => PreviewOf(c, preview'[c])
    BY <1>1, <1>3, <1>4 DEF Requested
  <2>5. QED
    BY <1>2, <2>2, <2>3, <2>4 DEF Requested, At
<1>7. Once'
  BY <1>1, <1>2 DEF Once, At
<1>8. PlansHold'
  <2>1. ASSUME NEW w \in Worker, worker[w].stage \in {"repos", "commit"}
        PROVE  worker[w].build \in Build /\ worker[w].build # b
    BY <1>1, <1>2, <2>1 DEF Requested, At, StartType, Holder
  <2>2. \A w \in Worker : worker'[w].stage \in {"repos", "commit"} =>
          /\ PlanIs(worker'[w].build, preview'[worker'[w].build].refs, worker'[w].plan)
          /\ worker'[w].plan.index = worker'[w].index
    BY <1>1, <1>2, <1>4, <2>1 DEF PlansHold
  <2>3. \A c \in Build : \A x \in Range(plans[c]) : row'[c] # "none" /\ PlanIs(c, preview'[c].refs, x.plan)
    BY <1>1, <1>2, <1>4 DEF PlansHold
  <2>4. QED
    BY <1>2, <2>2, <2>3 DEF PlansHold
<1>9. IndexesDiffer'
  BY <1>1, <1>2 DEF IndexesDiffer, UpToDate, NotAbove, AllDiffer, DrawnFor, At
<1>10. QED
  BY <1>5, <1>6, <1>7, <1>8, <1>9 DEF StartInvariant

\* A step that leaves the workers, their plans and previews alone.
LEMMA SendStep ==
    ASSUME StartInvariant, row' \in [Build -> {"none", "unsent", "sent"}],
           \A b \in Build : row'[b] = "none" <=> row[b] = "none",
           messages' \subseteq Build, \A b \in messages' : row[b] # "none",
           UNCHANGED <<preview, buildIndex, worker, inPulp, plans>>
    PROVE  StartInvariant'
<1>1. StartType /\ Requested /\ Once /\ PlansHold /\ IndexesDiffer
  BY DEF StartInvariant
<1>2. StartType'
  BY <1>1 DEF StartType
<1>3. Requested'
  <2>1. ASSUME NEW w \in Worker, ~At(w, "idle") PROVE row'[worker[w].build] # "none"
    BY <1>1, <2>1 DEF Requested, At, StartType, Holder
  <2>2. QED
    BY <1>1, <2>1 DEF Requested, At
<1>4. Once'
  BY <1>1 DEF Once, At
<1>5. PlansHold'
  BY <1>1 DEF PlansHold
<1>6. IndexesDiffer'
  BY <1>1 DEF IndexesDiffer, UpToDate, NotAbove, AllDiffer, DrawnFor, At
<1>7. QED
  BY <1>2, <1>3, <1>4, <1>5, <1>6 DEF StartInvariant

LEMMA FetchStep ==
    ASSUME StartInvariant, NEW b \in Build, NEW w \in Worker, Fetch(w, b)
    PROVE  StartInvariant'
<1> DEFINE to == IF HasModules(b) THEN "read" ELSE "plan"
           x == [Idle EXCEPT !.build = b, !.stage = to]
<1>1. StartType /\ Requested
  BY DEF StartInvariant
<1>2. /\ b \in messages /\ messages' = messages \ {b} /\ Move(w, x)
      /\ UNCHANGED <<row, preview, buildIndex, plans, inPulp>>
  BY DEF Fetch, Stay
<1>3. to \in Stages /\ (to = "read" \/ (to = "plan" /\ ~HasModules(b)))
  BY DEF Stages
<1> HIDE DEF to
<1>4. Holder(x) /\ x.build = b /\ x.stage = to
  BY <1>3, IdleIs
<1> HIDE DEF x
<1>5. OnlyMoves(w) /\ Becomes(w, x)
  BY <1>1, <1>2, <1>4, Moved
<1>6. MayBe(w, x)
  BY <1>1, <1>2, <1>3, <1>4 DEF MayBe, Requested
<1>7. messages' \subseteq Build /\ \A c \in messages' : row[c] # "none"
  BY <1>1, <1>2 DEF StartType, Requested
<1>8. QED
  BY <1>2, <1>5, <1>6, <1>7, MovesOn

\* The messages of a worker's step.
LEMMA SameMessages ==
    ASSUME StartInvariant, messages' = messages
    PROVE  messages' \subseteq Build /\ \A b \in messages' : row[b] # "none"
BY DEF StartInvariant, StartType, Requested

LEMMA ReadIndexStep ==
    ASSUME StartInvariant, NEW w \in Worker, ReadIndex(w)
    PROVE  StartInvariant'
<1> DEFINE x == [worker[w] EXCEPT !.stage = "increment", !.index = buildIndex]
<1>1. StartType /\ Requested
  BY DEF StartInvariant
<1>2. worker[w].stage = "read" /\ Move(w, x) /\ UNCHANGED <<row, preview, buildIndex, plans, inPulp, messages>>
  BY DEF ReadIndex, Stay, At
<1>3. Holder(worker[w]) /\ buildIndex \in [Platform -> Nat]
  BY <1>1 DEF StartType
<1>4. Holder(x) /\ x.stage = "increment" /\ x.index = buildIndex /\ x.build = worker[w].build
  BY <1>2, <1>3 DEF Holder, Stages
<1>5. row[worker[w].build] # "none"
  BY <1>1, <1>2 DEF Requested, At
<1> HIDE DEF x
<1>6. OnlyMoves(w) /\ Becomes(w, x)
  BY <1>1, <1>2, <1>4, Moved
<1>7. MayBe(w, x)
  BY <1>4, <1>5 DEF MayBe
<1>8. QED
  BY <1>2, <1>6, <1>7, SameMessages, MovesOn

PlanDone(b, refs, index, plan) == PlanIs(b, refs, plan) /\ plan.index = index
LEMMA PlanIsDone ==
    ASSUME NEW b \in Build, NEW refs, NEW index \in [Platform -> Nat], NEW knows, NEW failing,
           Enabled(b, refs), ~PlanBuild(b, refs, index, knows, failing).error
    PROVE  PlanDone(b, refs, index, PlanBuild(b, refs, index, knows, failing))
<1> DEFINE plan == PlanBuild(b, refs, index, knows, failing)
<1>1. /\ Planned(plan, b, refs, index, knows, failing, Len(Request[b].tasks))
      /\ OnOnePlatform(b) => plan.next = Projects(b, refs)
  BY PlanIsPlanned
<1> HIDE DEF plan
<1>2. plan.index = index /\ plan.known = knows /\ plan.failing = failing
  BY <1>1 DEF Planned, Progress, Planner
<1>3. PlanIs(b, refs, plan)
  BY <1>1, <1>2 DEF PlanIs
<1>4. PlanDone(b, refs, index, plan)
  BY <1>2, <1>3 DEF PlanDone
<1>5. QED
  BY <1>4 DEF plan

LEMMA PlanStart ==
    ASSUME StartInvariant, NEW w \in Worker, NEW failing, Plan(w, failing)
    PROVE  StartInvariant'
<1> DEFINE b == worker[w].build
           refs == preview[b].refs
           index == worker[w].index
           plan == PlanBuild(b, refs, index, known, failing)
           x == [worker[w] EXCEPT !.stage = "repos", !.plan = plan]
<1>1. StartType /\ Requested
  BY DEF StartInvariant
<1>2. /\ worker[w].stage = "plan" /\ Move(w, IF plan.error THEN Idle ELSE x)
      /\ UNCHANGED <<row, preview, buildIndex, plans, inPulp, messages>>
  BY DEF Plan, Stay, At
<1>3. Holder(worker[w]) /\ b \in Build /\ index \in [Platform -> Nat]
  BY <1>1, <1>2 DEF StartType, Holder
<1>4. CASE plan.error
  BY <1>2, <1>4, SameMessages, GivesUp
<1>5. CASE ~plan.error
  <2>1. row[b] # "none" /\ Enabled(b, refs)
    BY <1>1, <1>2, <1>3 DEF Requested, At, PreviewOf
  <2>2. PlanIs(b, refs, plan) /\ plan.index = index
    <3> HIDE DEF b, refs, index
    <3> DEFINE Named(b0, refs0, index0, known0, failing0) ==
             /\ b0 \in Build /\ index0 \in [Platform -> Nat]
             /\ b0 = b /\ refs0 = refs /\ index0 = index /\ known0 = known /\ failing0 = failing
    <3>0. PICK b0, refs0, index0, known0, failing0 : Named(b0, refs0, index0, known0, failing0)
      BY <1>3
    <3>1. /\ b0 \in Build /\ index0 \in [Platform -> Nat]
          /\ b0 = b /\ refs0 = refs /\ index0 = index /\ known0 = known /\ failing0 = failing
      BY <3>0
    <3> HIDE DEF Named
    <3> DEFINE plan0 == PlanBuild(b0, refs0, index0, known0, failing0)
    <3>2. plan = plan0
      BY <3>1
    <3>3. ~plan0.error
      BY <1>5, <3>2
    <3>4. Enabled(b0, refs0)
      BY <2>1, <3>1
    <3> HIDE DEF plan
    <3>5. PlanDone(b0, refs0, index0, plan0)
      BY <3>1, <3>3, <3>4, PlanIsDone
    <3> HIDE DEF plan0
    <3>6. PlanIs(b0, refs0, plan0) /\ plan0.index = index0
      BY <3>5 DEF PlanDone
    <3>8. QED
      BY <3>1, <3>2, <3>6
  <2> HIDE DEF plan
  <2>3. /\ Holder(x) /\ x.stage = "repos" /\ x.build = b /\ x.index = index /\ x.plan = plan
        /\ x.stale = worker[w].stale
    BY <1>3 DEF Holder, Stages
  <2> HIDE DEF x
  <2>4. OnlyMoves(w) /\ Becomes(w, x)
    BY <1>1, <1>2, <1>5, <2>3, Moved
  <2>5. MayBe(w, x)
    BY <1>2, <2>1, <2>2, <2>3 DEF MayBe
  <2>6. QED
    BY <1>2, <2>4, <2>5, SameMessages, MovesOn
<1>6. QED
  BY <1>4, <1>5

LEMMA ReposStep ==
    ASSUME StartInvariant, NEW w \in Worker, InitBuildRepos(w)
    PROVE  StartInvariant'
<1> DEFINE b == worker[w].build
           x == [worker[w] EXCEPT !.stage = "commit"]
<1>1. StartType /\ Requested /\ Once /\ PlansHold
  BY DEF StartInvariant
<1>2. /\ worker[w].stage = "repos" /\ inPulp' = inPulp \cup {b}
      /\ Move(w, IF b \in inPulp THEN Idle ELSE x)
      /\ UNCHANGED <<row, preview, buildIndex, plans, messages>>
  BY DEF InitBuildRepos, Stay, At
<1>3. Holder(worker[w]) /\ b \in Build
  BY <1>1, <1>2 DEF StartType, Holder
<1>4. CASE b \in inPulp
  BY <1>2, <1>4, SameMessages, GivesUp
<1>5. CASE b \notin inPulp
  <2>1. /\ Holder(x) /\ x.stage = "commit" /\ x.build = b /\ x.index = worker[w].index
        /\ x.plan = worker[w].plan /\ x.stale = worker[w].stale
    BY <1>3 DEF Holder, Stages
  <2>2. row[b] # "none"
    BY <1>1, <1>2 DEF Requested, At
  <2>3. plans[b] = <<>> /\ \A v \in Worker : At(v, "commit") => worker[v].build # b
    BY <1>1, <1>3, <1>5 DEF Once
  <2>4. PlanIs(b, preview[b].refs, worker[w].plan) /\ worker[w].plan.index = worker[w].index
    BY <1>1, <1>2 DEF PlansHold
  <2> HIDE DEF x
  <2>5. OnlyMoves(w) /\ Becomes(w, x)
    BY <1>1, <1>2, <1>5, <2>1, Moved
  <2>6. MayBe(w, x)
    BY <1>2, <2>1, <2>2, <2>3, <2>4 DEF MayBe
  <2>7. QED
    BY <1>2, <2>5, <2>6, SameMessages, MovesOn
<1>6. QED
  BY <1>4, <1>5

LEMMA GivenUpStep ==
    ASSUME StartInvariant, NEW w \in Worker, PulpFails(w) \/ Ack(w) \/ Crash(w)
    PROVE  StartInvariant'
<1>1. StartType /\ Requested
  BY DEF StartInvariant
<1>2. CASE PulpFails(w)
  <2>1. /\ Move(w, Idle) /\ UNCHANGED <<row, preview, buildIndex, plans, messages>> /\ inPulp \subseteq inPulp'
    BY <1>2 DEF PulpFails, Stay
  <2>2. QED
    BY <2>1, SameMessages, GivesUp
<1>3. CASE Ack(w)
  <2>1. /\ Move(w, Idle) /\ UNCHANGED <<row, preview, buildIndex, plans, messages>> /\ inPulp \subseteq inPulp'
    BY <1>3 DEF Ack, Stay
  <2>2. QED
    BY <2>1, SameMessages, GivesUp
<1>4. CASE Crash(w)
  <2>1. /\ Move(w, Idle) /\ UNCHANGED <<row, preview, buildIndex, plans>> /\ inPulp \subseteq inPulp'
        /\ ~At(w, "idle") /\ messages' = messages \cup {worker[w].build}
    BY <1>4 DEF Crash
  <2>2. worker[w].build \in Build /\ row[worker[w].build] # "none"
    BY <1>1, <2>1 DEF StartType, Holder, Requested, At
  <2>3. messages' \subseteq Build /\ \A b \in messages' : row[b] # "none"
    BY <1>1, <2>1, <2>2 DEF StartType, Requested
  <2>4. QED
    BY <2>1, <2>3, GivesUp
<1>5. QED
  BY <1>2, <1>3, <1>4

LEMMA CommitStep ==
    ASSUME StartInvariant, NEW w \in Worker, Commit(w)
    PROVE  StartInvariant'
<1> DEFINE b == worker[w].build
           new == [plan |-> worker[w].plan, stale |-> worker[w].stale]
           x == [worker[w] EXCEPT !.stage = "ack"]
<1>1. StartType /\ Requested /\ Once /\ PlansHold /\ IndexesDiffer
  BY DEF StartInvariant
<1>2. /\ worker[w].stage = "commit" /\ Move(w, x) /\ plans' = [plans EXCEPT ![b] = Append(plans[b], new)]
      /\ UNCHANGED <<row, preview, buildIndex, inPulp, messages>>
  BY DEF Commit, Stay, At
<1>3. Holder(worker[w]) /\ b \in Build /\ DOMAIN plans = Build
  BY <1>1, <1>2 DEF StartType, Holder
<1>4. /\ plans[b] = <<>> /\ b \in inPulp /\ row[b] # "none"
      /\ \A v \in Worker : At(v, "commit") /\ worker[v].build = b => v = w
      /\ PlanIs(b, preview[b].refs, worker[w].plan) /\ worker[w].plan.index = worker[w].index
  BY <1>1, <1>2 DEF Once, Requested, PlansHold, At
<1>5. /\ Holder(x) /\ x.stage = "ack" /\ x.build = b
  BY <1>3 DEF Holder, Stages
<1>6. new.plan = worker[w].plan /\ new.stale = worker[w].stale
  OBVIOUS
<1> HIDE DEF new, x
<1>7. Append(<<>>, new) = <<new>>
  OBVIOUS
<1>8. /\ plans'[b] = <<new>> /\ DOMAIN plans' = Build /\ \A c \in Build : c # b => plans'[c] = plans[c]
  BY <1>2, <1>3, <1>4, <1>7
<1>9. Range(plans'[b]) = {new}
  <2>1. Range(<<new>>) = {new}
    BY DEF Range
  <2>2. QED
    BY <1>8, <2>1
<1>10. /\ DOMAIN worker' = Worker /\ \A v \in Worker : v # w => worker'[v] = worker[v]
       /\ worker'[w].stage = "ack" /\ worker'[w].build = b /\ Holder(worker'[w])
  BY <1>1, <1>2, <1>5, Moved DEF OnlyMoves, Becomes
<1> HIDE DEF b
<1>11. StartType'
  BY <1>1, <1>2, <1>8, <1>10 DEF StartType
<1>12. Requested'
  BY <1>1, <1>2, <1>4, <1>10 DEF Requested, At
<1>13. Once'
  <2>1. \A c \in Build : plans'[c] # <<>> => c \in inPulp' /\ \E y : plans'[c] = <<y>>
    BY <1>1, <1>2, <1>4, <1>8 DEF Once
  <2>2. ASSUME NEW v \in Worker, At(v, "commit")'
        PROVE  /\ worker'[v].build \in inPulp' /\ plans'[worker'[v].build] = <<>>
               /\ \A u \in Worker : At(u, "commit")' /\ worker'[u].build = worker'[v].build => u = v
    <3>1. v # w /\ worker'[v] = worker[v] /\ At(v, "commit")
      BY <1>10, <2>2 DEF At
    <3>2. worker[v].build # b /\ worker[v].build \in Build
      BY <1>1, <1>4, <3>1 DEF StartType, Holder, At
    <3>3. worker'[v].build \in inPulp' /\ plans'[worker'[v].build] = <<>>
      BY <1>1, <1>2, <1>8, <3>1, <3>2 DEF Once
    <3>4. ASSUME NEW u \in Worker, At(u, "commit")', worker'[u].build = worker'[v].build PROVE u = v
      BY <1>1, <1>10, <3>1, <3>4 DEF Once, At
    <3>5. QED
      BY <3>3, <3>4
  <2>3. QED
    BY <2>1, <2>2 DEF Once
<1>14. PlansHold'
  <2>1. ASSUME NEW v \in Worker, worker'[v].stage \in {"repos", "commit"}
        PROVE  /\ PlanIs(worker'[v].build, preview'[worker'[v].build].refs, worker'[v].plan)
               /\ worker'[v].plan.index = worker'[v].index
    BY <1>1, <1>2, <1>10, <2>1 DEF PlansHold
  <2>2. ASSUME NEW c \in Build, NEW y \in Range(plans'[c])
        PROVE  row'[c] # "none" /\ PlanIs(c, preview'[c].refs, y.plan)
    <3>1. CASE c = b
      BY <1>2, <1>4, <1>6, <1>9, <2>2, <3>1
    <3>2. CASE c # b
      BY <1>1, <1>2, <1>8, <2>2, <3>2 DEF PlansHold
    <3>3. QED
      BY <3>1, <3>2
  <2>3. QED
    BY <2>1, <2>2 DEF PlansHold
<1>15. UpToDate'
  BY <1>1, <1>2, <1>10 DEF IndexesDiffer, UpToDate, At
<1>16. ASSUME NEW c \in Build, NEW i \in DrawnFor(c)' PROVE i \in DrawnFor(c)
  <2>1. ASSUME NEW v \in Worker, worker'[v].build = c, worker'[v].stage \in {"plan", "repos", "commit"},
               ~worker'[v].stale, i = worker'[v].index
        PROVE  i \in DrawnFor(c)
    <3>1. v # w /\ worker'[v] = worker[v]
      BY <1>10, <2>1
    <3>2. QED
      BY <2>1, <3>1 DEF DrawnFor
  <2>2. ASSUME NEW y \in Range(plans'[c]), ~y.stale, i = y.plan.index
        PROVE  i \in DrawnFor(c)
    <3>1. CASE c = b
      <4>1. y = new /\ i = worker[w].index /\ ~worker[w].stale
        BY <1>4, <1>6, <1>9, <2>2, <3>1
      <4>2. worker[w].build = c
        BY <3>1 DEF b
      <4>3. QED
        BY <1>2, <4>1, <4>2 DEF DrawnFor
    <3>2. CASE c # b
      <4>1. y \in Range(plans[c])
        BY <1>8, <2>2, <3>2
      <4>2. QED
        BY <2>2, <4>1 DEF DrawnFor
    <3>3. QED
      BY <3>1, <3>2
  <2>3. QED
    BY <1>16, <2>1, <2>2 DEF DrawnFor
<1>17. IndexesDiffer'
  BY <1>1, <1>2, <1>15, <1>16, DrawsLess
<1>18. QED
  BY <1>11, <1>12, <1>13, <1>14, <1>17 DEF StartInvariant

LEMMA OwnPlatforms ==
    ASSUME NEW b \in Build
    PROVE  PlatformsOf(b) \subseteq Platform
BY WithSourceOf

\* What a build has drawn is an index of each platform.
LEMMA DrawnIs ==
    ASSUME StartType, PlansHold, NEW b \in Build, NEW i \in DrawnFor(b)
    PROVE  i \in [Platform -> Nat]
<1>1. ASSUME NEW v \in Worker, i = worker[v].index PROVE i \in [Platform -> Nat]
  BY <1>1 DEF StartType, Holder
<1>2. ASSUME NEW y \in Range(plans[b]), i = y.plan.index PROVE i \in [Platform -> Nat]
  BY <1>2 DEF PlansHold, PlanIs
<1>3. QED
  BY <1>1, <1>2 DEF DrawnFor

LEMMA IncrementStep ==
    ASSUME StartInvariant, NEW w \in Worker, Increment(w)
    PROVE  StartInvariant'
<1> DEFINE b == worker[w].build
           ours == PlatformsOf(b)
           Up(index) == [p \in Platform |-> IF p \in ours THEN index[p] + 1 ELSE index[p]]
           x == [worker[w] EXCEPT !.stage = "plan", !.index = Up(worker[w].index)]
           Late(v) == [worker[v] EXCEPT !.stale = @ \/ (At(v, "increment") /\ ours \cap PlatformsOf(worker[v].build) # {})]
<1>1. StartType /\ Requested /\ Once /\ PlansHold /\ IndexesDiffer
  BY DEF StartInvariant
<1>2. /\ worker[w].stage = "increment" /\ buildIndex' = Up(buildIndex)
      /\ worker' = [v \in Worker |-> IF v = w THEN x ELSE Late(v)]
      /\ UNCHANGED <<row, preview, inPulp, messages, plans>>
  BY DEF Increment, Stay, At
<1>3. Holder(worker[w]) /\ b \in Build /\ buildIndex \in [Platform -> Nat] /\ ours \subseteq Platform
  BY <1>1, <1>2, OwnPlatforms DEF StartType, Holder
<1>4. \A index \in [Platform -> Nat] : /\ Up(index) \in [Platform -> Nat]
                                       /\ \A p \in Platform : index[p] <= Up(index)[p]
                                       /\ \A p \in ours : Up(index)[p] = index[p] + 1
                                       /\ \A p \in Platform \ ours : Up(index)[p] = index[p]
  BY <1>3
<1> HIDE DEF Up
<1>5. /\ Holder(x) /\ x.stage = "plan" /\ x.build = b /\ x.index = Up(worker[w].index)
      /\ x.stale = worker[w].stale
  BY <1>3, <1>4 DEF Holder, Stages
<1>6. ASSUME NEW v \in Worker
      PROVE  /\ Holder(Late(v)) /\ Late(v).stage = worker[v].stage /\ Late(v).build = worker[v].build
             /\ Late(v).index = worker[v].index /\ Late(v).plan = worker[v].plan
             /\ ~Late(v).stale => /\ ~worker[v].stale
                                  /\ At(v, "increment") => ours \cap PlatformsOf(worker[v].build) = {}
  <2>1. Holder(worker[v])
    BY <1>1 DEF StartType
  <2>2. QED
    BY <2>1 DEF Holder
<1>7. /\ DOMAIN worker' = Worker /\ worker'[w] = x
      /\ \A v \in Worker : v # w => worker'[v] = Late(v)
  BY <1>2
<1> HIDE DEF x, Late, b
<1>8. \A v \in Worker : Holder(worker'[v]) /\ worker'[v].build = worker[v].build
  BY <1>5, <1>6, <1>7 DEF b
<1>9. ASSUME NEW v \in Worker, v # w
      PROVE  /\ worker'[v].stage = worker[v].stage /\ worker'[v].build = worker[v].build
             /\ worker'[v].index = worker[v].index /\ worker'[v].plan = worker[v].plan
             /\ ~worker'[v].stale => /\ ~worker[v].stale
                                     /\ At(v, "increment") => ours \cap PlatformsOf(worker[v].build) = {}
  BY <1>6, <1>7, <1>9
<1>10. buildIndex' \in [Platform -> Nat]
  BY <1>2, <1>3, <1>4
<1>11. StartType'
  BY <1>1, <1>2, <1>7, <1>8, <1>10 DEF StartType
<1>12. Requested'
  <2>1. ASSUME NEW v \in Worker, worker'[v].stage # "idle" PROVE row[worker'[v].build] # "none"
    BY <1>1, <1>2, <1>8, <1>9, <2>1 DEF Requested, At
  <2>2. QED
    BY <1>1, <1>2, <2>1 DEF Requested, At
<1>13. \A v \in Worker : worker'[v].stage \in {"repos", "commit"} => v # w /\ worker'[v].stage = worker[v].stage
  BY <1>5, <1>7, <1>9
<1>14. Once'
  BY <1>1, <1>2, <1>8, <1>13 DEF Once, At
<1>15. PlansHold'
  <2>1. ASSUME NEW v \in Worker, worker'[v].stage \in {"repos", "commit"}
        PROVE  /\ PlanIs(worker'[v].build, preview'[worker'[v].build].refs, worker'[v].plan)
               /\ worker'[v].plan.index = worker'[v].index
    BY <1>1, <1>2, <1>9, <1>13, <2>1 DEF PlansHold
  <2>2. QED
    BY <1>1, <1>2, <2>1 DEF PlansHold
<1>16. UpToDate'
  <2>1. SUFFICES ASSUME NEW v \in Worker, worker'[v].stage = "increment", ~worker'[v].stale,
                        NEW p \in PlatformsOf(worker'[v].build)
                 PROVE  worker'[v].index[p] = buildIndex'[p]
    BY DEF UpToDate, At
  <2>2. v # w
    BY <1>5, <1>7, <2>1
  <2>3. At(v, "increment") /\ ~worker[v].stale /\ p \notin ours /\ p \in PlatformsOf(worker[v].build)
    BY <1>9, <2>1, <2>2 DEF At
  <2>4. worker[v].build \in Build
    BY <1>1, <2>3 DEF StartType, Holder, At
  <2>5. p \in Platform
    BY <2>3, <2>4, OwnPlatforms
  <2>6. worker[v].index[p] = buildIndex[p] /\ buildIndex'[p] = buildIndex[p]
    BY <1>1, <1>2, <1>3, <1>4, <2>3, <2>5 DEF IndexesDiffer, UpToDate
  <2>7. QED
    BY <1>9, <2>2, <2>6
<1> DEFINE New(i) == \A p \in ours : i[p] = buildIndex[p] + 1
<1>17. ASSUME NEW c \in Build, NEW i \in DrawnFor(c)' PROVE i \in DrawnFor(c) \/ (c = b /\ New(i))
  <2>1. ASSUME NEW v \in Worker, worker'[v].build = c, worker'[v].stage \in {"plan", "repos", "commit"},
               ~worker'[v].stale, i = worker'[v].index
        PROVE  i \in DrawnFor(c) \/ (c = b /\ New(i))
    <3>1. CASE v = w
      <4>1. c = b /\ i = Up(worker[w].index) /\ ~worker[w].stale /\ At(w, "increment")
        BY <1>2, <1>5, <1>7, <2>1, <3>1 DEF At
      <4>2. worker[w].index \in [Platform -> Nat]
        BY <1>3 DEF Holder
      <4>3. \A p \in PlatformsOf(worker[w].build) : worker[w].index[p] = buildIndex[p]
        BY <1>1, <4>1 DEF IndexesDiffer, UpToDate
      <4>4. \A p \in ours : i[p] = buildIndex[p] + 1
        BY <1>4, <4>1, <4>2, <4>3 DEF b
      <4>5. QED
        BY <4>1, <4>4
    <3>2. CASE v # w
      <4>1. /\ worker[v].build = c /\ worker[v].stage \in {"plan", "repos", "commit"}
            /\ ~worker[v].stale /\ i = worker[v].index
        BY <1>9, <2>1, <3>2
      <4>2. QED
        BY <4>1 DEF DrawnFor
    <3>3. QED
      BY <3>1, <3>2
  <2>2. ASSUME NEW y \in Range(plans[c]), ~y.stale, i = y.plan.index PROVE i \in DrawnFor(c)
    BY <2>2 DEF DrawnFor
  <2>3. QED
    BY <1>2, <1>17, <2>1, <2>2 DEF DrawnFor
<1>18. ASSUME NEW c \in Build, HasModules(c), NEW i \in DrawnFor(c), NEW p \in PlatformsOf(c)
       PROVE  i[p] \in Nat /\ i[p] <= buildIndex[p] /\ p \in Platform
  <2>0. p \in Platform
    BY <1>18, OwnPlatforms
  <2>1. i \in [Platform -> Nat] /\ p \in Platform
    BY <1>1, <1>18, <2>0, DrawnIs
  <2>2. QED
    BY <1>1, <1>18, <2>1 DEF IndexesDiffer, NotAbove
<1>19. NotAbove'
  <2>1. SUFFICES ASSUME NEW c \in Build, HasModules(c), NEW i \in DrawnFor(c)', NEW p \in PlatformsOf(c)
                 PROVE  i[p] <= buildIndex'[p]
    BY DEF NotAbove
  <2>2. CASE i \in DrawnFor(c)
    BY <1>2, <1>3, <1>4, <1>10, <1>18, <2>1, <2>2
  <2>3. CASE c = b /\ New(i)
    <3>1. p \in ours
      BY <2>1, <2>3
    <3>2. i[p] = buildIndex[p] + 1 /\ p \in Platform
      BY <1>3, <2>3, <3>1
    <3>3. buildIndex'[p] = buildIndex[p] + 1 /\ buildIndex[p] \in Nat
      BY <1>2, <1>3, <1>4, <3>1, <3>2
    <3>4. QED
      BY <3>2, <3>3
  <2>4. QED
    BY <1>17, <2>1, <2>2, <2>3
<1>20. AllDiffer'
  <2>1. SUFFICES ASSUME NEW c \in Build, NEW d \in Build, HasModules(c), HasModules(d), c # d,
                        NEW i \in DrawnFor(c)', NEW j \in DrawnFor(d)',
                        NEW p \in PlatformsOf(c) \cap PlatformsOf(d)
                 PROVE  i[p] # j[p]
    BY DEF AllDiffer
  <2>2. CASE i \in DrawnFor(c) /\ j \in DrawnFor(d)
    BY <1>1, <2>1, <2>2 DEF IndexesDiffer, AllDiffer
  <2>3. CASE c = b /\ New(i) /\ j \in DrawnFor(d)
    <3>1. i[p] = buildIndex[p] + 1
      BY <2>1, <2>3
    <3>2. j[p] \in Nat /\ j[p] <= buildIndex[p] /\ p \in Platform
      BY <1>18, <2>1, <2>3
    <3>3. buildIndex[p] \in Nat
      BY <1>3, <3>2
    <3>4. QED
      BY <3>1, <3>2, <3>3
  <2>4. CASE d = b /\ New(j) /\ i \in DrawnFor(c)
    <3>1. j[p] = buildIndex[p] + 1
      BY <2>1, <2>4
    <3>2. i[p] \in Nat /\ i[p] <= buildIndex[p] /\ p \in Platform
      BY <1>18, <2>1, <2>4
    <3>3. buildIndex[p] \in Nat
      BY <1>3, <3>2
    <3>4. QED
      BY <3>1, <3>2, <3>3
  <2>5. QED
    BY <1>17, <2>1, <2>2, <2>3, <2>4
<1>21. IndexesDiffer'
  BY <1>16, <1>19, <1>20 DEF IndexesDiffer
<1>22. QED
  BY <1>11, <1>12, <1>14, <1>15, <1>21 DEF StartInvariant

LEMMA StartStep ==
    StartInvariant /\ [StartNext]_startVars => StartInvariant'
<1>1. SUFFICES ASSUME StartInvariant, [StartNext]_startVars PROVE StartInvariant'
  OBVIOUS
<1>2. StartType /\ Requested
  BY <1>1 DEF StartInvariant
<1>3. ASSUME NEW b \in Build, NEW failing \in Failures \cup {{}}, CreateBuild(b, failing) PROVE StartInvariant'
  BY <1>1, <1>3, CreateBuildStep
<1>4. ASSUME NEW b \in Build, SendStartBuild(b) PROVE StartInvariant'
  <2>1. /\ row[b] = "unsent" /\ row' = [row EXCEPT ![b] = "sent"] /\ messages' = messages \cup {b}
        /\ UNCHANGED <<preview, buildIndex, worker, inPulp, plans>>
    BY <1>4 DEF SendStartBuild
  <2>2. /\ row' \in [Build -> {"none", "unsent", "sent"}]
        /\ \A c \in Build : row'[c] = "none" <=> row[c] = "none"
    BY <1>2, <2>1 DEF StartType
  <2>3. messages' \subseteq Build /\ \A c \in messages' : row[c] # "none"
    BY <1>2, <2>1 DEF StartType, Requested
  <2>4. QED
    BY <1>1, <2>1, <2>2, <2>3, SendStep
<1>5. CASE BeholderChanges \/ UNCHANGED startVars
  <2>1. UNCHANGED <<row, preview, messages, buildIndex, worker, inPulp, plans>>
    BY <1>5 DEF BeholderChanges, startVars
  <2>2. /\ row' \in [Build -> {"none", "unsent", "sent"}]
        /\ \A c \in Build : row'[c] = "none" <=> row[c] = "none"
        /\ messages' \subseteq Build /\ \A c \in messages' : row[c] # "none"
    BY <1>2, <2>1 DEF StartType, Requested
  <2>3. QED
    BY <1>1, <2>1, <2>2, SendStep
<1>6. ASSUME NEW b \in Build, NEW w \in Worker, Fetch(w, b) PROVE StartInvariant'
  BY <1>1, <1>6, FetchStep
<1>7. ASSUME NEW w \in Worker, NEW failing \in Failures \cup {{}}, Plan(w, failing) PROVE StartInvariant'
  BY <1>1, <1>7, PlanStart
<1>8. ASSUME NEW w \in Worker,
             ReadIndex(w) \/ Increment(w) \/ InitBuildRepos(w) \/ PulpFails(w) \/ Commit(w) \/ Ack(w) \/ Crash(w)
      PROVE  StartInvariant'
  BY <1>1, <1>8, ReadIndexStep, IncrementStep, ReposStep, CommitStep, GivenUpStep
<1>9. QED
  BY <1>1, <1>3, <1>4, <1>5, <1>6, <1>7, <1>8 DEF StartNext

\* A build is planned from its own preview by the one worker that creates its
\* repositories, and the indexes its modules draw are drawn by no other build.
THEOREM StartHolds ==
    StartSpec => []StartInvariant
<1>1. QED
  BY StartBegins, StartStep, PTL DEF StartSpec

(* A committed plan is one that holds for the preview.                      *)
LEMMA CommittedIs ==
    ASSUME StartInvariant, NEW b \in Build, NEW x \in Range(plans[b])
    PROVE  /\ plans[b] = <<x>> /\ PreviewOf(b, preview[b]) /\ PlanIs(b, preview[b].refs, x.plan)
<1>1. Requested /\ Once /\ PlansHold
  BY DEF StartInvariant
<1>2. plans[b] # <<>>
  BY DEF Range
<1>3. PICK y : plans[b] = <<y>>
  BY <1>1, <1>2 DEF Once
<1>4. x = y
  BY <1>3 DEF Range
<1>5. QED
  BY <1>1, <1>3, <1>4 DEF Requested, PlansHold

\* The tasks of a plan.
GridOf(b, tasks, refs) ==
    LET indexes == {t.index : t \in tasks} IN
    /\ {<<t.index, <<t.platform, t.arch>>>> : t \in tasks} = indexes \X Targets(b)
    /\ Cardinality(tasks) = Cardinality(indexes) * Cardinality(Targets(b))
    /\ OnOnePlatform(b) => indexes = 0..(Projects(b, refs) - 1)
LEMMA PlanGrid ==
    ASSUME NEW b \in Build, NEW refs, NEW plan, PlanIs(b, refs, plan)
    PROVE  GridOf(b, plan.tasks, refs)
<1> DEFINE indexes == {t.index : t \in plan.tasks}
           cells == {<<t.index, <<t.platform, t.arch>>>> : t \in plan.tasks}
           targets == Targets(b)
           projects == Projects(b, refs)
<1>1. Grid(plan, b) /\ plan.next \in Nat /\ (OnOnePlatform(b) => plan.next = projects)
  BY DEF PlanIs, Planned, Progress, Planner
<1>2. /\ indexes = 0..(plan.next - 1) /\ cells = indexes \X targets
      /\ Cardinality(plan.tasks) = Cardinality(indexes) * Cardinality(targets)
  <2>1. Filled(b, plan.tasks, plan.next)
    BY <1>1, GridIs
  <2>2. QED
    BY <2>1 DEF Filled
<1>3. GridOf(b, plan.tasks, refs) <=>
        /\ cells = indexes \X targets
        /\ Cardinality(plan.tasks) = Cardinality(indexes) * Cardinality(targets)
        /\ OnOnePlatform(b) => indexes = 0..(projects - 1)
  BY DEF GridOf
<1> HIDE DEF indexes, cells, targets, projects
<1>4. QED
  BY <1>1, <1>2, <1>3

LEMMA GridHolds ==
    StartInvariant => TasksAreGrid
<1>1. SUFFICES ASSUME StartInvariant, NEW b \in Build
               PROVE  /\ Len(plans[b]) <= 1
                      /\ \A x \in Range(plans[b]) : GridOf(b, x.plan.tasks, preview[b].refs)
  BY DEF TasksAreGrid, GridOf
<1>2. Len(plans[b]) <= 1
  <2>1. CASE plans[b] = <<>>
    BY <2>1
  <2>2. CASE plans[b] # <<>>
    <3>1. PICK y : plans[b] = <<y>>
      BY <1>1, <2>2 DEF StartInvariant, Once
    <3>2. QED
      BY <3>1
  <2>3. QED
    BY <2>1, <2>2
<1>3. ASSUME NEW x \in Range(plans[b]) PROVE GridOf(b, x.plan.tasks, preview[b].refs)
  <2>1. PlanIs(b, preview[b].refs, x.plan)
    BY <1>1, <1>3, CommittedIs
  <2>2. PICK refs, plan : refs = preview[b].refs /\ plan = x.plan
    OBVIOUS
  <2>3. PlanIs(b, refs, plan)
    BY <2>1, <2>2
  <2>4. GridOf(b, plan.tasks, refs)
    BY <2>3, PlanGrid
  <2>5. QED
    BY <2>2, <2>4
<1>4. QED
  BY <1>2, <1>3

\* A build gets its tasks once, whatever happens to its messages and workers:
\* one for every project, platform and architecture, sources included.
THEOREM StartTasksAreGrid ==
    StartSpec => []TasksAreGrid
<1>1. QED
  BY StartHolds, GridHolds, PTL

LEMMA DistHolds ==
    StartInvariant => DistIsOwn
<1>1. SUFFICES ASSUME StartInvariant PROVE DistIsOwn
  OBVIOUS
<1>2. ASSUME NEW b \in Build, NEW x \in Range(plans[b]), NEW i \in DOMAIN Request[b].tasks
      PROVE  DistOf(b, i, x.plan)
  <2>1. PlanIs(b, preview[b].refs, x.plan)
    BY <1>1, <1>2, CommittedIs
  <2>2. \A j \in 1..Len(Request[b].tasks) : DistOf(b, j, x.plan)
    BY <2>1 DEF PlanIs, Planned
  <2>3. DOMAIN Request[b].tasks = 1..Len(Request[b].tasks)
    BY StartAssumption
  <2>4. QED
    BY <2>2, <2>3
<1>3. ASSUME NEW b \in Build, NEW c \in Build, HasModules(b), HasModules(c), b # c,
             NEW x \in Range(plans[b]), NEW y \in Range(plans[c]), ~x.stale, ~y.stale,
             NEW p \in PlatformsOf(b) \cap PlatformsOf(c)
      PROVE  x.plan.index[p] # y.plan.index[p]
  <2>1. x.plan.index \in DrawnFor(b) /\ y.plan.index \in DrawnFor(c)
    BY <1>3 DEF DrawnFor
  <2>2. QED
    BY <1>1, <1>3, <2>1 DEF StartInvariant, IndexesDiffer, AllDiffer
<1>4. QED
  BY <1>2, <1>3 DEF DistIsOwn

\* Every package has the dist of the user, its tag or the build's own module,
\* and no two builds name their modules by the same index of a platform.
THEOREM StartDistIsOwn ==
    StartSpec => []DistIsOwn
<1>1. QED
  BY StartHolds, DistHolds, PTL

\* The packages of a component that a module index lists are the whole of it.
WholeIn(lists, c, v, arch) ==
    {a \in lists["plain"] \cup lists["devel"] : a.comp = c} =
        Built(c, v, arch) \cup {SourceOf(c, v)} \cup (IF arch = X86 THEN Multilib(c, v) ELSE {})
LEMMA WholeInIndex ==
    ASSUME NEW b \in Build, NEW t, NEW knows, ~Request[b].beta, t.wants \in [Component -> Nat],
           NEW c \in Component \ Renamed, SourceIsListed(c), NEW arch \in Arches(b),
           GetModulePreview(b, t, knows, {})[c].added # {}
    PROVE  WholeIn(PrepareModuleIndex(knows, {}, GetModulePreview(b, t, knows, {}), arch, Request[b].beta),
                   c, t.wants[c], arch)
<1> DEFINE refs == GetModulePreview(b, t, knows, {})
           lists == PrepareModuleIndex(knows, {}, refs, arch, Request[b].beta)
           v == t.wants[c]
           whole == Built(c, v, arch) \cup {SourceOf(c, v)} \cup (IF arch = X86 THEN Multilib(c, v) ELSE {})
           both == ListedOf(knows, refs, "plain", c, arch) \cup ListedOf(knows, refs, "devel", c, arch)
           found == {a \in lists["plain"] \cup lists["devel"] : a.comp = c}
<1>1. v \in Nat /\ c \in Component
  OBVIOUS
<1>2. ~refs[c].enabled
  BY <1>1, PreviewIs
<1>3. found = both
  BY <1>1, <1>2, ListsAre
<1>4. both = whole
  BY WholeIs
<1>5. WholeIn(lists, c, v, arch) <=> found = whole
  BY DEF WholeIn
<1> HIDE DEF found, both, whole
<1>6. QED
  BY <1>3, <1>4, <1>5

LEMMA PlanTakesOver ==
    ASSUME NEW b \in Build, NEW p, NEW plan, PreviewOf(b, p), PlanIs(b, p.refs, plan),
           plan.known = p.known, plan.failing = {}, p.failing = {}, ~Request[b].beta,
           NEW module \in plan.modules, module.arch # "src",
           NEW c \in Component \ Renamed, SourceIsListed(c), p.refs[module.nr][c].added # {}
    PROVE  WholeIn(module.lists, c, Request[b].tasks[module.nr].wants[c], module.arch)
<1> DEFINE t == Request[b].tasks[module.nr]
           refs == GetModulePreview(b, t, p.known, {})
<1>1. MadeOf(plan, b, p.refs) /\ plan.nr = Len(Request[b].tasks)
  BY DEF PlanIs, Planned, Progress
<1>2. /\ module.nr \in DOMAIN Request[b].tasks /\ module.arch \in Arches(b)
      /\ module.lists = PrepareModuleIndex(plan.known, plan.failing, p.refs[module.nr], module.arch, Request[b].beta)
  BY <1>1, StartAssumption DEF MadeOf
<1>3. p.refs[module.nr] = refs
  BY <1>2 DEF PreviewOf
<1>4. t.wants \in [Component -> Nat]
  <2>1. t \in Range(Request[b].tasks)
    BY <1>2 DEF Range
  <2>2. QED
    BY <2>1, StartAssumption
<1>5. PICK knows, arch, u : knows = p.known /\ arch = module.arch /\ u = t
  OBVIOUS
<1>6. WholeIn(PrepareModuleIndex(knows, {}, GetModulePreview(b, u, knows, {}), arch, Request[b].beta),
              c, u.wants[c], arch)
  <2>1. u.wants \in [Component -> Nat] /\ arch \in Arches(b) /\ GetModulePreview(b, u, knows, {})[c].added # {}
    BY <1>2, <1>3, <1>4, <1>5
  <2>2. QED
    BY <2>1, WholeInIndex
<1>7. QED
  BY <1>2, <1>3, <1>5, <1>6

LEMMA WholeHolds ==
    StartInvariant => PrebuiltIsWhole
<1>1. SUFFICES ASSUME StartInvariant, NEW b \in Build, NEW x \in Range(plans[b]),
                      x.plan.known = preview[b].known, x.plan.failing = {}, preview[b].failing = {},
                      ~Request[b].beta, NEW module \in x.plan.modules, NEW c \in Component \ Renamed,
                      module.arch # "src", preview[b].refs[module.nr][c].added # {}, SourceIsListed(c)
               PROVE  WholeIn(module.lists, c, Request[b].tasks[module.nr].wants[c], module.arch)
  BY DEF PrebuiltIsWhole, WholeIn
<1>2. PreviewOf(b, preview[b]) /\ PlanIs(b, preview[b].refs, x.plan)
  BY <1>1, CommittedIs
<1>3. PICK p, plan : p = preview[b] /\ plan = x.plan
  OBVIOUS
<1>4. /\ PreviewOf(b, p) /\ PlanIs(b, p.refs, plan) /\ plan.known = p.known /\ plan.failing = {} /\ p.failing = {}
      /\ module \in plan.modules /\ p.refs[module.nr][c].added # {}
  BY <1>1, <1>2, <1>3
<1>5. QED
  BY <1>1, <1>4, PlanTakesOver

\* What the preview takes over is in the module as a whole, if the beholder
\* knows the same and answers when the build is started.
THEOREM StartPrebuiltIsWhole ==
    StartSpec => []PrebuiltIsWhole
<1>1. QED
  BY StartHolds, WholeHolds, PTL
==============================================================================
