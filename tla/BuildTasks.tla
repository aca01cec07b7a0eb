------------------------------ MODULE BuildTasks ------------------------------
(***************************************************************************)
(* The life of the tasks of one build: build nodes poll for tasks, ping    *)
(* them and post results; dramatiq workers process the results; users      *)
(* restart the failed tasks or cancel the idle ones.                       *)
(*                                                                         *)
(* Every action is one database transaction, taken as atomic.  The         *)
(* interleavings inside the transactions of two workers are the subject of *)
(* BuildFinish.  A timestamp is what the poll query makes of it:           *)
(*   "none"     ts IS NULL                                                 *)
(*   "fresh"    ts was set to now less than 20 minutes ago                 *)
(*   "long"     ts was set three hours ahead by /build_done                *)
(*   "expired"  ts is older than 20 minutes                                *)
(***************************************************************************)
EXTENDS BuildPlan

CONSTANTS
    Requests,      \* the sets of tasks a node's poll may be answered from
                   \* (supported_arches, excluded_packages)
    Results,       \* [report, srpm] pairs a node may post
    MaxRestarts,   \* bound: restart requests
    MaxCancels,    \* bound: cancel requests
    MaxFaults      \* bound: silent or lost nodes, late queues, lost and
                   \* redelivered messages

ASSUME BuildAssumption ==
    /\ \A r \in Requests : r \subseteq Task
    /\ Results \subseteq [report : {"COMPLETED", "FAILED", "EXCLUDED"}, srpm : BOOLEAN]
    /\ MaxRestarts \in Nat /\ MaxCancels \in Nat /\ MaxFaults \in Nat

VARIABLES
    status,     \* BuildTask.status
    lease,      \* BuildTask.ts, abstracted as above
    deps,       \* rows of build_task_dependency: deps[t] are t's dependencies
    url,        \* url[t]: BuildTask.built_srpm_url is set
    srpm,       \* srpm[t]: t has a source RPM among its artifacts
    building,   \* building[t]: how many nodes are building t
    queue,      \* build_done messages the broker holds
    closings,   \* times a worker found every task finished: created the test
                \* tasks and set Build.finished_at
    restarts, cancels, faults   \* what the bounds count

vars == <<status, lease, deps, url, srpm, building, queue, closings,
          restarts, cancels, faults>>

Message == {[task |-> t, report |-> r.report, srpm |-> r.srpm] :
               t \in Task, r \in Results}

TypeOK ==
    /\ status \in [Task -> Status]
    /\ lease \in [Task -> {"none", "fresh", "long", "expired"}]
    /\ deps \in [Task -> SUBSET Task]
    /\ url \in [Task -> BOOLEAN]
    /\ srpm \in [Task -> BOOLEAN]
    /\ building \in [Task -> Nat]
    /\ queue \subseteq Message
    /\ closings \in Nat
    /\ restarts \in 0..MaxRestarts
    /\ cancels \in 0..MaxCancels
    /\ faults \in 0..MaxFaults

Init ==
    /\ status = [t \in Task |-> "IDLE"]
    /\ lease = [t \in Task |-> "none"]
    /\ deps = [t \in Task |-> PlannedDeps(t)]
    /\ url = [t \in Task |-> FALSE]
    /\ srpm = [t \in Task |-> FALSE]
    /\ building = [t \in Task |-> 0]
    /\ queue = {}
    /\ closings = 0
    /\ restarts = 0 /\ cancels = 0 /\ faults = 0

Finished(t) == status[t] \in Settled
AllFinished == \A t \in Task : Finished(t)

\* A fault costs one of MaxFaults; what happens without one is free.
Charge(isFault) ==
    /\ isFault => faults < MaxFaults
    /\ faults' = IF isFault THEN faults + 1 ELSE faults

------------------------------------------------------------------------------
(* Build nodes and time                                                    *)

\* Mutant: the poll query forgets the dependencies.
AvailableWaiting(t) == status[t] \in Unfinished /\ lease[t] \in {"none", "expired"}

\* get_available_build_task: no dependencies, not finished, not leased.
Available(t) ==
    /\ deps[t] = {}
    /\ status[t] \in Unfinished
    /\ lease[t] \in {"none", "expired"}

\* A node polls: the available task with the lowest id is handed out.
GetTask(req) ==
    \E t \in req :
        /\ Available(t)
        /\ \A u \in req : Available(u) => t <= u
        /\ status' = [status EXCEPT ![t] = "STARTED"]
        /\ lease' = [lease EXCEPT ![t] = "fresh"]
        /\ building' = [building EXCEPT ![t] = @ + 1]
        /\ UNCHANGED <<deps, url, srpm, queue, closings, restarts, cancels, faults>>

\* ping_tasks sets ts to now, whatever the status of the task.
Ping(t) ==
    /\ building[t] > 0
    /\ lease[t] # "fresh"
    /\ lease' = [lease EXCEPT ![t] = "fresh"]
    /\ UNCHANGED <<status, deps, url, srpm, building, queue, closings,
                   restarts, cancels, faults>>

\* t's result has waited in the queue for the three hours it was given.
QueueIsLate(t) == lease[t] = "long" /\ \E m \in queue : m.task = t

\* Time passes the lease.  A node that is building pings, and the queue is
\* meant to be served within three hours: otherwise it is a fault.
Expire(t) ==
    /\ lease[t] \in {"fresh", "long"}
    /\ Charge(building[t] > 0 \/ QueueIsLate(t))
    /\ lease' = [lease EXCEPT ![t] = "expired"]
    /\ UNCHANGED <<status, deps, url, srpm, building, queue, closings,
                   restarts, cancels>>

\* The node dies, or gives the task up without a result.
Abandon(t) ==
    /\ building[t] > 0
    /\ Charge(TRUE)
    /\ building' = [building EXCEPT ![t] = @ - 1]
    /\ UNCHANGED <<status, lease, deps, url, srpm, queue, closings,
                   restarts, cancels>>

\* POST /build_done: 409 for a finished task, else a long lease and a message.
PostDone(t, r) ==
    /\ building[t] > 0
    /\ building' = [building EXCEPT ![t] = @ - 1]
    /\ \/ /\ Finished(t)
          /\ UNCHANGED <<lease, queue>>
       \/ /\ ~Finished(t)
          /\ lease' = [lease EXCEPT ![t] = "long"]
          /\ queue' = queue \cup {[task |-> t, report |-> r.report, srpm |-> r.srpm]}
    /\ UNCHANGED <<status, deps, url, srpm, closings, restarts, cancels, faults>>

------------------------------------------------------------------------------
(* Workers: _build_done                                                    *)

\* The worker acknowledges m, or dies between commit and acknowledgement:
\* then the broker delivers m again.
Acknowledge(m) ==
    \/ queue' = queue \ {m} /\ Charge(FALSE)
    \/ queue' = queue /\ Charge(TRUE)

\* The tasks of t's project (one ref on one platform), which share one SRPM.
Project(t) == {u \in Task : RefOf[u] = RefOf[t] /\ PlatformOf[u] = PlatformOf[t]}
SameRef(t) == {u \in Task \ {t} : RefOf[u] = RefOf[t]}
IdleSiblings(t) == {u \in Project(t) \ {t} : status[u] = "IDLE"}

\* Mutant: the rows naming the stopped tasks stay.
SettleLeavingRows(t, report, stopped) ==
    /\ status' = [u \in Task |-> IF u = t THEN report
                                 ELSE IF u \in stopped THEN "FAILED"
                                 ELSE status[u]]
    /\ deps' = [u \in Task |-> deps[u] \ {t}]

\* The tasks in "stopped" fail with t, and nothing waits for them or for t.
Settle(t, report, stopped) ==
    /\ status' = [u \in Task |-> IF u = t THEN report
                                 ELSE IF u \in stopped THEN "FAILED"
                                 ELSE status[u]]
    /\ deps' = [u \in Task |-> deps[u] \ ({t} \cup stopped)]

\* Mutant: only completed tasks count as finished.
CloseCompletedBuild ==
    closings' = IF \A u \in Task : status'[u] = "COMPLETED" THEN closings + 1 ELSE closings

\* _all_build_tasks_completed in the same transaction: the worker that
\* leaves no unfinished task behind creates the test tasks and sets
\* finished_at.  Where all the tasks of the ref failed it assigns
\* task.build_srpm_url, which is no column: the URL stays.
CloseBuild ==
    closings' = IF \A u \in Task : status'[u] \in Settled
                THEN closings + 1 ELSE closings

\* A source RPM is stored by the "src" task and by the task that has no URL
\* to download one from.
Stores(m) == m.srpm /\ (~url[m.task] \/ ArchOf[m.task] = Src)

\* build_done followed by __update_built_srpm_url.  A completed build has
\* RPMs, and RPMs without any source RPM are refused (SrpmProvisionError).
ProcessResult(m) ==
    LET t      == m.task
        stored == srpm[t] \/ Stores(m)
        first  == ~url[t]
        share  == first /\ stored
        stopped == IF first /\ ~stored /\ m.report = "FAILED"
                   THEN IdleSiblings(t) ELSE {}
    IN
    /\ m.report = "COMPLETED" => m.srpm \/ url[t]
    /\ Settle(t, m.report, stopped)
    /\ url' = [u \in Task |-> url[u] \/ (share /\ u \in Project(t))]
    /\ srpm' = [u \in Task |-> \/ srpm[u]
                               \/ u = t /\ stored
                               \/ share /\ u \in IdleSiblings(t)]
    /\ CloseBuild
    /\ Acknowledge(m)
    /\ UNCHANGED <<lease, building, restarts, cancels>>

\* build_done raised: the task fails; when none of the ref's other tasks was
\* touched yet they fail with it (fast_fail_other_tasks_by_ref).  The RPMs
\* flushed before the exception stay.
ProcessError(m) ==
    LET t       == m.task
        stopped == IF \A u \in SameRef(t) : status[u] = "IDLE" THEN SameRef(t) ELSE {}
    IN
    /\ Settle(t, "FAILED", stopped)
    /\ lease' = [lease EXCEPT ![t] = "fresh"]
    /\ \E kept \in {FALSE, Stores(m)} : srpm' = [srpm EXCEPT ![t] = @ \/ kept]
    /\ CloseBuild
    /\ Acknowledge(m)
    /\ UNCHANGED <<url, building, restarts, cancels>>

\* The transaction is rolled back and, with max_retries=0, not tried again.
DropMessage(m) ==
    /\ Charge(TRUE)
    /\ queue' = queue \ {m}
    /\ UNCHANGED <<status, lease, deps, url, srpm, building, closings,
                   restarts, cancels>>

------------------------------------------------------------------------------
(* Users                                                                   *)

\* Both restarts: failed tasks are IDLE again with the new dependencies.
Restart(newDeps) ==
    /\ restarts < MaxRestarts
    /\ Failed(status) # {}
    /\ restarts' = restarts + 1
    /\ status' = [t \in Task |-> IF t \in Failed(status) THEN "IDLE" ELSE status[t]]
    /\ lease' = [t \in Task |-> IF t \in Failed(status) THEN "none" ELSE lease[t]]
    /\ deps' = [t \in Task |-> deps[t] \cup newDeps[t]]
    /\ url' = [t \in Task |-> url[t] /\ t \notin DropsSrpm(status)]
    /\ UNCHANGED <<srpm, building, queue, closings, cancels, faults>>

RestartFailed   == Restart([t \in Task |-> ChainDeps(status, t)])
RestartParallel == Restart([t \in Task |-> ParallelDeps(status, t)])

\* mark_build_tasks_as_cancelled: the dependency rows stay.
Cancel ==
    /\ cancels < MaxCancels
    /\ \E t \in Task : status[t] = "IDLE"
    /\ cancels' = cancels + 1
    /\ status' = [t \in Task |-> IF status[t] = "IDLE" THEN "CANCELLED" ELSE status[t]]
    /\ UNCHANGED <<lease, deps, url, srpm, building, queue, closings,
                   restarts, faults>>

Process(m) == ProcessResult(m) \/ ProcessError(m)

Next ==
    \/ \E req \in Requests : GetTask(req)
    \/ \E t \in Task : Ping(t) \/ Expire(t) \/ Abandon(t)
    \/ \E t \in Task, r \in Results : PostDone(t, r)
    \/ \E m \in queue : ProcessResult(m) \/ ProcessError(m) \/ DropMessage(m)
    \/ RestartFailed \/ RestartParallel \/ Cancel

Spec == Init /\ [][Next]_vars

\* Nodes keep polling and finish what they build, time passes, and the
\* workers serve the queue.
Fairness ==
    /\ \A req \in Requests : WF_vars(GetTask(req))
    /\ \A t \in Task : WF_vars(\E r \in Results : PostDone(t, r))
    /\ \A t \in Task : WF_vars(Expire(t))
    /\ \A m \in Message : WF_vars(m \in queue /\ Process(m))

FairSpec == Spec /\ Fairness
------------------------------------------------------------------------------
(* Properties                                                              *)

\* A dependency row never names a task whose result is in: the transaction
\* that settles a task deletes the rows naming it, and a restart adds rows
\* on restarted tasks only.  Cancelled tasks are the exception: the cancel
\* request leaves their rows.
WaitsOnUnsettled ==
    \A t \in Task : \A d \in deps[t] : status[d] \in Unfinished \cup {"CANCELLED"}

\* No sequence of builds, failures and restarts ever makes tasks wait for
\* each other: every set of tasks has one that waits for none of the set.
Acyclic(graph) ==
    \A S \in SUBSET Task : S # {} => \E t \in S : graph[t] \cap S = {}

NoDependencyCycle == Acyclic(deps)

\* A task that was handed out waits for nothing, whatever was restarted
\* since it was handed out.
StartedWaitsForNothing ==
    \A t \in Task : status[t] = "STARTED" => deps[t] = {}

\* While nothing was cancelled a build with unfinished tasks has one that a
\* node may take or is working on: the build never waits for itself.
BuildNeverBlocked ==
    (\E t \in Task : ~Finished(t)) /\ (\A t \in Task : status[t] # "CANCELLED")
        => \E t \in Task : ~Finished(t) /\ deps[t] = {}

\* Until the first restart a task is handed out only after everything the
\* planner put before it is finished: its own sources, and the earlier
\* projects of its arch.
PlannedOrder ==
    restarts = 0 => \A t \in Task : status[t] = "STARTED" =>
                        \A d \in PlannedDeps(t) : Finished(d)

\* A build none of whose tasks was cancelled is closed (test tasks created,
\* finished_at set) by the time all its tasks are finished.
FinishedBuildIsClosed ==
    AllFinished /\ cancels = 0 => closings > 0

\* On the first attempt a project goes on to the other arches only with the
\* source RPM: none of its tasks is open without the URL once its source
\* task failed.
StopsWithItsSource ==
    restarts = 0 =>
        \A t \in Task : ~Finished(t) /\ ~url[t] =>
            \A s \in SourceTask(t) : status[s] # "FAILED"

\* While nodes poll and workers run, every build that is not cancelled gets
\* finished for good.
EventuallyFinished == <>[](AllFinished \/ cancels > 0)
------------------------------------------------------------------------------
(* The promise this implements: an excluded, failed or completed task is   *)
(* settled, a cancelled one withdrawn.                                     *)

PhaseOf(st) ==
    CASE st = "IDLE" -> "open"
      [] st = "STARTED" -> "running"
      [] st = "CANCELLED" -> "withdrawn"
      [] OTHER -> "settled"

Schedule == INSTANCE TaskSchedule WITH
    Planned <- [t \in Task |-> PlannedDeps(t)],
    phase <- [t \in Task |-> PhaseOf(status[t])],
    waits <- deps

\* Whatever nodes, workers and users do, each step of the build is one the
\* schedule allows: tasks start only when they wait for nothing, are opened
\* again only after they settled, and never come to wait in a circle.
ImplementsSchedule == Schedule!Spec
==============================================================================
