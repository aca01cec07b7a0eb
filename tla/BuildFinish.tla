------------------------------ MODULE BuildFinish ------------------------------
(***************************************************************************)
(* The transactions on one build, statement by statement.  BuildTasks      *)
(* takes a worker's transaction and a restart request as atomic; here      *)
(* several worker processes and several requests run theirs side by side,  *)
(* under PostgreSQL's READ COMMITTED: a statement sees what was committed  *)
(* before it started and what its own transaction wrote, and a row written *)
(* or read FOR UPDATE is locked until the transaction ends.                *)
(*                                                                         *)
(* The variables status, deps and url hold what is committed.  Leases are  *)
(* those of BuildTasks and left out: a task is handed out when it is IDLE. *)
(***************************************************************************)
EXTENDS BuildPlan

CONSTANTS
    Results,       \* [report, srpm] pairs a node may post
    Worker,        \* dramatiq processes serving the queue, one thread each
    User,          \* restart requests that may be in flight together
    MaxRestarts,   \* bound: restart requests
    MaxCrashes,    \* bound: workers that die before they commit
    MaxRepeats,    \* bound: workers that die between commit and acknowledgement
    None           \* no job, no request in flight

ASSUME NoneAssumption == None \notin Task \cup [Task -> Status]
ASSUME FinishAssumption ==
    /\ Results \subseteq [report : {"COMPLETED", "FAILED", "EXCLUDED"}, srpm : BOOLEAN]
    /\ MaxRestarts \in Nat /\ MaxCrashes \in Nat /\ MaxRepeats \in Nat

VARIABLES
    status,     \* BuildTask.status, as committed
    deps,       \* rows of build_task_dependency, as committed
    url,        \* url[t]: BuildTask.built_srpm_url is set, as committed
    building,   \* tasks a node is building
    queue,      \* tasks whose result waits in the queue or is being processed
    job,        \* job[w]: the task w processes, whose row w has locked
    stage,      \* stage[w]: how far w's transaction is
    result,     \* result[w]: the status w gives its task, and whether a source RPM
                \* came with it
    stopped,    \* stopped[w]: the tasks that fail with it
    request,    \* request[r]: the statuses a restart request has read
    restarts,   \* restart requests so far
    overlapped, \* two restart requests were in flight together
    together,   \* two workers had a transaction open together
    crashes,
    repeats,    \* messages delivered again after they were processed
    closings,   \* committed transactions that closed the build
    overtaken,  \* a worker stopped a task that was handed out since it read it as idle
    outdated    \* a restart made tasks wait for one that had finished since it was read

vars == <<status, deps, url, building, queue, job, stage, result, stopped,
          request, restarts, overlapped, together, crashes, repeats, closings,
          overtaken, outdated>>

Stage == {"free", "locked", "decided", "written", "closing", "leaving"}
Report == [report : {"COMPLETED", "FAILED", "EXCLUDED"}, srpm : BOOLEAN]
NoReport == [report |-> "COMPLETED", srpm |-> TRUE]

TypeOK ==
    /\ status \in [Task -> Status]
    /\ deps \in [Task -> SUBSET Task]
    /\ url \in [Task -> BOOLEAN]
    /\ building \subseteq Task
    /\ queue \subseteq Task
    /\ job \in [Worker -> Task \cup {None}]
    /\ stage \in [Worker -> Stage]
    /\ result \in [Worker -> Report]
    /\ stopped \in [Worker -> SUBSET Task]
    /\ request \in [User -> [Task -> Status] \cup {None}]
    /\ restarts \in 0..MaxRestarts
    /\ overlapped \in BOOLEAN /\ together \in BOOLEAN
    /\ crashes \in 0..MaxCrashes
    /\ repeats \in 0..MaxRepeats
    /\ closings \in Nat
    /\ overtaken \in BOOLEAN /\ outdated \in BOOLEAN

Init ==
    /\ status = [t \in Task |-> "IDLE"]
    /\ deps = [t \in Task |-> PlannedDeps(t)]
    /\ url = [t \in Task |-> FALSE]
    /\ building = {} /\ queue = {}
    /\ job = [w \in Worker |-> None]
    /\ stage = [w \in Worker |-> "free"]
    /\ result = [w \in Worker |-> NoReport]
    /\ stopped = [w \in Worker |-> {}]
    /\ request = [r \in User |-> None]
    /\ restarts = 0 /\ overlapped = FALSE /\ together = FALSE /\ closings = 0
    /\ crashes = 0 /\ repeats = 0 /\ overtaken = FALSE /\ outdated = FALSE

Finished(t) == status[t] \in Settled

\* Rows a worker's open transaction has locked.
Locked(w) ==
    CASE stage[w] = "free" -> {}
      [] stage[w] \in {"locked", "decided"} -> {job[w]}
      [] OTHER -> {job[w]} \cup stopped[w]
FreeRow(t) == \A w \in Worker : t \notin Locked(w)

Project(t) == {u \in Task : RefOf[u] = RefOf[t] /\ PlatformOf[u] = PlatformOf[t]}
SameRef(t) == {u \in Task \ {t} : RefOf[u] = RefOf[t]}

------------------------------------------------------------------------------
(* Build nodes                                                             *)

\* get_available_build_task: one statement, SELECT ... FOR UPDATE.
GetTask(t) ==
    /\ status[t] = "IDLE" /\ deps[t] = {}
    /\ FreeRow(t)
    /\ status' = [status EXCEPT ![t] = "STARTED"]
    /\ building' = building \cup {t}
    /\ UNCHANGED <<deps, url, queue, job, stage, result, stopped, request,
                   restarts, overlapped, together, crashes, repeats, closings,
                   overtaken, outdated>>

\* POST /build_done: refused for a finished task.
PostDone(t) ==
    /\ t \in building
    /\ building' = building \ {t}
    /\ queue' = IF Finished(t) THEN queue ELSE queue \cup {t}
    /\ UNCHANGED <<status, deps, url, job, stage, result, stopped, request,
                   restarts, overlapped, together, crashes, repeats, closings,
                   overtaken, outdated>>

------------------------------------------------------------------------------
(* Workers                                                                 *)

\* A worker takes t's message and locks t's row.
Lock(w, t) ==
    /\ stage[w] = "free"
    /\ t \in queue /\ \A v \in Worker : job[v] # t
    /\ FreeRow(t)
    /\ job' = [job EXCEPT ![w] = t]
    /\ stage' = [stage EXCEPT ![w] = "locked"]
    /\ together' = (together \/ \E v \in Worker : stage[v] # "free")
    /\ UNCHANGED <<status, deps, url, building, queue, result, stopped, request,
                   restarts, overlapped, crashes, repeats, closings, overtaken, outdated>>

Decide(w, report, others) ==
    /\ stage[w] = "locked"
    /\ result' = [result EXCEPT ![w] = report]
    /\ stopped' = [stopped EXCEPT ![w] = others]
    /\ stage' = [stage EXCEPT ![w] = "decided"]
    /\ UNCHANGED <<status, deps, url, building, queue, job, request,
                   restarts, overlapped, together, crashes, repeats, closings,
                   overtaken, outdated>>

IdleSiblings(t) == {u \in Project(t) \ {t} : status[u] = "IDLE"}

\* The artifacts are processed; the idle tasks that have to fail with this
\* one are read.  A build that failed before there was a source RPM stops
\* its platform; an exception stops the ref if none of it was touched.
Reports(w, r) ==
    /\ Decide(w, [r EXCEPT !.srpm = @ /\ ~url[job[w]]],
              IF r.report = "FAILED" /\ ~r.srpm /\ ~url[job[w]] THEN IdleSiblings(job[w]) ELSE {})
    /\ r.report = "COMPLETED" => r.srpm \/ url[job[w]]
Raises(w) ==
    LET others == SameRef(job[w]) IN
    Decide(w, [report |-> "FAILED", srpm |-> FALSE],
           IF \A u \in others : status[u] = "IDLE" THEN others ELSE {})
Processes(w) == Raises(w) \/ \E r \in Results : Reports(w, r)

\* UPDATE of the tasks read: by id, whatever their status is by now.
Write(w) ==
    /\ stage[w] = "decided"
    /\ \A v \in Worker \ {w} : stopped[w] \cap Locked(v) = {}
    /\ stage' = [stage EXCEPT ![w] = "written"]
    /\ overtaken' = (overtaken \/ \E t \in stopped[w] : status[t] \notin {"IDLE", "FAILED"})
    /\ UNCHANGED <<status, deps, url, building, queue, job, result, stopped, request,
                   restarts, overlapped, together, crashes, repeats, closings, outdated>>

\* The statuses w's transaction sees: the committed ones and its own.
Seen(w) ==
    [t \in Task |-> IF t = job[w] THEN result[w].report
                    ELSE IF t \in stopped[w] THEN "FAILED" ELSE status[t]]

\* Mutant: started tasks count as completed.
NoneIdle(st) == \A t \in Task : st[t] # "IDLE"

\* _check_build_and_completed_tasks counts the tasks that are finished.
AllFinished(st) == \A t \in Task : st[t] \in Settled

\* Mutant: the count is taken before the session is flushed.
CheckUnflushed(w) ==
    /\ stage[w] = "written"
    /\ stage' = [stage EXCEPT ![w] = IF AllFinished(status) THEN "closing" ELSE "leaving"]
    /\ UNCHANGED <<status, deps, url, building, queue, job, result, stopped, request,
                   restarts, overlapped, together, crashes, repeats, closings,
                   overtaken, outdated>>

Check(w) ==
    /\ stage[w] = "written"
    /\ stage' = [stage EXCEPT ![w] =
                    IF AllFinished(Seen(w)) THEN "closing" ELSE "leaving"]
    /\ UNCHANGED <<status, deps, url, building, queue, job, result, stopped, request,
                   restarts, overlapped, together, crashes, repeats, closings,
                   overtaken, outdated>>

Release(w) ==
    /\ job' = [job EXCEPT ![w] = None]
    /\ stage' = [stage EXCEPT ![w] = "free"]
    /\ result' = [result EXCEPT ![w] = NoReport]
    /\ stopped' = [stopped EXCEPT ![w] = {}]

\* The transaction commits.  The message is acknowledged, unless the worker
\* dies before: then it will be delivered again.
Commit(w) ==
    /\ stage[w] \in {"closing", "leaving"}
    /\ status' = Seen(w)
    /\ deps' = [t \in Task |-> deps[t] \ ({job[w]} \cup stopped[w])]
    /\ url' = [t \in Task |-> \/ url[t]
                              \/ result[w].srpm /\ t \in Project(job[w])]
    /\ closings' = IF stage[w] = "closing" THEN closings + 1 ELSE closings
    /\ \/ queue' = queue \ {job[w]} /\ UNCHANGED repeats
       \/ repeats < MaxRepeats /\ repeats' = repeats + 1 /\ UNCHANGED queue
    /\ Release(w)
    /\ UNCHANGED <<building, request, restarts, overlapped, together, crashes,
                   overtaken, outdated>>

\* A worker dies: its transaction is rolled back, its message comes again.
Crash(w) ==
    /\ stage[w] # "free"
    /\ crashes < MaxCrashes
    /\ crashes' = crashes + 1
    /\ Release(w)
    /\ UNCHANGED <<status, deps, url, building, queue, request, restarts,
                   overlapped, together, repeats, closings, overtaken, outdated>>

------------------------------------------------------------------------------
(* Restart requests                                                        *)

\* get_failed_build_tasks_matrix: a plain SELECT.
ReadMatrix(r) ==
    /\ request[r] = None
    /\ restarts < MaxRestarts
    /\ Failed(status) # {}
    /\ request' = [request EXCEPT ![r] = status]
    /\ restarts' = restarts + 1
    /\ overlapped' = (overlapped \/ \E o \in User : request[o] # None)
    /\ UNCHANGED <<status, deps, url, building, queue, job, stage, result, stopped,
                   together, crashes, repeats, closings, overtaken, outdated>>

\* The rows of the tasks that had failed are written by id and committed.
WriteMatrix(r, newDeps) ==
    LET again == Failed(request[r]) IN
    /\ \A t \in again : FreeRow(t)
    /\ status' = [t \in Task |-> IF t \in again THEN "IDLE" ELSE status[t]]
    /\ deps' = [t \in Task |-> deps[t] \cup newDeps[t]]
    /\ url' = [t \in Task |-> url[t] /\ t \notin DropsSrpm(request[r])]
    /\ request' = [request EXCEPT ![r] = None]
    /\ outdated' = (outdated \/ \E t \in Task : \E u \in newDeps[t] \ again :
                                  request[r][u] = "IDLE" /\ Finished(u))
    /\ UNCHANGED <<building, queue, job, stage, result, stopped, restarts, overlapped,
                   together, crashes, repeats, closings, overtaken>>

RestartFailed(r)   == request[r] # None /\ WriteMatrix(r, [t \in Task |-> ChainDeps(request[r], t)])
RestartParallel(r) == request[r] # None /\ WriteMatrix(r, [t \in Task |-> ParallelDeps(request[r], t)])

\* A dependency row exists already: the INSERT fails and with it the request.
Conflict(r) ==
    /\ request[r] # None
    /\ \E t \in Task : deps[t] \cap (ChainDeps(request[r], t) \cup ParallelDeps(request[r], t)) # {}
    /\ request' = [request EXCEPT ![r] = None]
    /\ UNCHANGED <<status, deps, url, building, queue, job, stage, result, stopped,
                   restarts, overlapped, together, crashes, repeats, closings,
                   overtaken, outdated>>

Next ==
    \/ \E t \in Task : GetTask(t) \/ PostDone(t)
    \/ \E w \in Worker :
          \/ \E t \in Task : Lock(w, t)
          \/ Processes(w) \/ Write(w) \/ Check(w) \/ Commit(w) \/ Crash(w)
    \/ \E r \in User : ReadMatrix(r) \/ RestartFailed(r) \/ RestartParallel(r) \/ Conflict(r)

Spec == Init /\ [][Next]_vars
------------------------------------------------------------------------------
(* Properties                                                              *)

\* "The last completed task will trigger the creation of the test tasks of
\* the same build": when every task is finished and the queue is served, the
\* build was closed.
LastTaskClosesBuild ==
    AllFinished(status) /\ queue = {} => closings > 0

\* It takes two workers at the same time to leave a finished build open:
\* crashes, repeated messages and restarts alone never do.
OpenOnlyAfterOverlap == together \/ LastTaskClosesBuild

\* Two workers are never both about to close the build, unless one of them
\* processes a message again, restart requests overlapped or a worker stopped
\* tasks that nodes were building by then: the test tasks of an attempt are
\* created once.
OneWorkerCloses ==
    \A v, w \in Worker : stage[v] = "closing" /\ stage[w] = "closing" =>
        v = w \/ overlapped \/ repeats > 0 \/ overtaken

------------------------------------------------------------------------------
(* The promise: TaskSchedule, as for BuildTasks, without overlaps.         *)

PhaseOf(st) ==
    CASE st = "IDLE" -> "open"
      [] st = "STARTED" -> "running"
      [] OTHER -> "settled"

Schedule == INSTANCE TaskSchedule WITH
    Planned <- [t \in Task |-> PlannedDeps(t)],
    phase <- [t \in Task |-> PhaseOf(status[t])],
    waits <- deps

\* However the transactions interleave, each one commits a step of the
\* schedule, unless restart requests overlapped, a message was repeated, or what
\* a worker or a restart had read of other tasks had changed when it wrote.
CommitsScheduleSteps ==
    [][\/ UNCHANGED <<status, deps>> \/ Schedule!Next
       \/ overlapped \/ repeats > 0 \/ overtaken \/ outdated']_vars
==============================================================================
