---------------------------- MODULE BuildArtifacts ----------------------------
(***************************************************************************)
(* What a result of a build node does to packages: the repositories of the *)
(* build in Pulp, the rows of artifacts, the packages for several          *)
(* architectures, and the module that lists what was built.                *)
(*                                                                         *)
(* The transaction of PulpClient records nothing, because an empty record  *)
(* counts as none: what a worker changes in Pulp is there at once and      *)
(* stays when the processing raises.  Its database transaction ends with   *)
(* the result.                                                             *)
(*                                                                         *)
(* A task may have several results: two nodes built it, one after the      *)
(* lease of the other, or a message came again.  Only the API refuses the  *)
(* result of a finished task; a result that waits is processed.  And tasks *)
(* finish without a result, when they are cancelled or fast-failed.        *)
(*                                                                         *)
(* One platform and one module.  A completed task has one package of its   *)
(* architecture and one noarch package, which all tasks of the project     *)
(* build under one name.                                                   *)
(***************************************************************************)
EXTENDS Integers, FiniteSets

CONSTANTS
    Task, IndexOf, ArchOf,
    I686, X86,     \* architectures that share packages
    Multilib,      \* projects whose i686 packages are also for x86_64
    Worker,
    MaxRestarts, MaxFaults,
    None

Index == {IndexOf[t] : t \in Task}
Arch == {ArchOf[t] : t \in Task}

VARIABLES
    status,    \* BuildTask.status, as committed
    ordered,   \* tasks that wait for earlier projects of their architecture
    sourced,   \* projects with a source package: BuildTask.built_srpm_url
    attempt,   \* how often a task was handed out
    posted,    \* builds whose result is on its way
    rows,      \* artifacts of a task in the database, as packages
    repo,      \* packages in the repository of an architecture
    modules,   \* modules in that repository
    current,   \* RpmModule.pulp_href: the module the database knows of
    job,
    restarts, faults,
    raced,     \* architectures whose module was written by jobs that overlapped
    cut,       \* projects and architectures whose last task overlapped with another
               \* job, raised, was cancelled or fast-failed
    torn       \* tasks of jobs that were stopped between the rows and Pulp, and of
               \* projects of which a finished task was processed again
progress == <<status, ordered, sourced, attempt, posted, restarts, faults>>
history == <<raced, cut, torn>>
vars == <<progress, rows, repo, modules, current, job, history>>

Status == {"IDLE", "STARTED", "COMPLETED", "FAILED", "CANCELLED"}

Result == {"COMPLETED", "FAILED"}
\* A package in Pulp: the build it came from, and whether it is noarch
Package == [task : Task, nr : Nat, noarch : BOOLEAN]
\* What a module lists and repositories hold once: name, version and architecture
Nevra(p) == <<IndexOf[p.task], IF p.noarch THEN "noarch" ELSE ArchOf[p.task]>>
Built(t, nr) == {[task |-> t, nr |-> nr, noarch |-> n] : n \in BOOLEAN}
Noarch(packages) == {p \in packages : p.noarch}
TasksOf(i) == {t \in Task : IndexOf[t] = i}
TasksFor(a) == {t \in Task : ArchOf[t] = a}
Finished(t) == status[t] \notin {"IDLE", "STARTED"}
Busy == {w \in Worker : job[w] # None}
\* Rows of tasks no worker has locked
Free(ts) == \A w \in Busy : job[w].task \notin ts
Idle(ts) == {t \in ts : status[t] = "IDLE"}
\* Where tasks finish without a result of theirs
Places(ts) == {IndexOf[t] : t \in ts} \cup {ArchOf[t] : t \in ts}

\* A module: the result it was written for, whether its version is the final
\* one, and what it lists
BuildModule ==
    [by : (Task \X Nat) \cup {None}, final : BOOLEAN, lists : SUBSET (Index \X (Arch \cup {"noarch"}))]
\* What a worker has at hand while it processes a result
Job ==
    [task : Task, nr : Nat, result : Result,
     stage : {"begun", "stored", "multilib", "complete", "listed", "sharing"},
     read : BuildModule, old : BuildModule, lists : SUBSET (Index \X (Arch \cup {"noarch"})),
     new : SUBSET Package, shared : Package \cup {None}, takes : SUBSET Task, todo : SUBSET Task,
     alone : BOOLEAN]

ASSUME ArtifactsAssumption ==
    /\ MaxRestarts \in Nat /\ MaxFaults \in Nat
    /\ Index \subseteq Nat /\ Multilib \subseteq Index
    /\ Arch \cap Index = {} /\ "noarch" \notin Arch /\ I686 # X86
    /\ \A t, u \in Task : IndexOf[t] = IndexOf[u] /\ ArchOf[t] = ArchOf[u] => t = u
    /\ None \notin Package \cup Job

FirstModule == [by |-> None, final |-> FALSE, lists |-> {}]

Init ==
    /\ status = [t \in Task |-> "IDLE"] /\ ordered \in {{}, Task} /\ sourced = {}
    /\ attempt = [t \in Task |-> 0] /\ posted = {}
    /\ rows = [t \in Task |-> {}] /\ repo = [a \in Arch |-> {}]
    /\ modules = [a \in Arch |-> {FirstModule}] /\ current = [a \in Arch |-> FirstModule]
    /\ job = [w \in Worker |-> None]
    /\ restarts = 0 /\ faults = 0 /\ raced = {} /\ cut = {} /\ torn = {}

\* Pulp keeps one package of a name, version and architecture in a repository
Put(content, new) ==
    {p \in content : \A q \in new : Nevra(p) # Nevra(q)} \cup new

Waits(t) ==
    t \in ordered /\ \E u \in TasksFor(ArchOf[t]) : IndexOf[u] < IndexOf[t] /\ ~Finished(u)

(***************************************************************************)
(* Nodes: get_available_build_task, and the messages of build_done.        *)
(***************************************************************************)
\* A task that was handed out is handed out again when its lease has ended: its
\* node is lost, or (a fault) late, and then both post a result
GetTask(t) ==
    /\ status[t] \in {"IDLE", "STARTED"} /\ ~Waits(t) /\ Free({t})
    /\ IF \E b \in posted : b[1] = t THEN faults < MaxFaults /\ faults' = faults + 1
       ELSE UNCHANGED faults
    /\ status' = [status EXCEPT ![t] = "STARTED"]
    /\ attempt' = [attempt EXCEPT ![t] = @ + 1]
    /\ posted' = posted \cup {<<t, attempt[t] + 1>>}
    /\ UNCHANGED <<ordered, sourced, restarts, rows, repo, modules, current, job, history>>

\* A message is delivered again
Redeliver(t, nr) ==
    /\ faults < MaxFaults /\ faults' = faults + 1
    /\ nr \in 1..attempt[t] /\ <<t, nr>> \notin posted /\ Free({t})
    /\ posted' = posted \cup {<<t, nr>>}
    /\ UNCHANGED <<status, ordered, sourced, attempt, restarts, rows, repo, modules, current,
                   job, history>>

(***************************************************************************)
(* One result: __process_build_task_artifacts and build_done.              *)
(***************************************************************************)
\* The task is locked, whatever its status is; the module is read from the repository
Begin(w, t, nr, result) ==
    LET same(v) == IndexOf[job[v].task] = IndexOf[t]
        beside(v) == ArchOf[job[v].task] = ArchOf[t] IN
    /\ job[w] = None /\ Free({t})
    /\ <<t, nr>> \in posted /\ posted' = posted \ {<<t, nr>>}
    /\ \E read \in modules[ArchOf[t]] :
          job' = [v \in Worker |->
             IF v = w
             THEN [task |-> t, nr |-> nr, result |-> result, stage |-> "begun", read |-> read,
                   old |-> current[ArchOf[t]], lists |-> read.lists, new |-> {}, shared |-> None,
                   takes |-> {}, todo |-> {}, alone |-> \A u \in Busy : ~same(u)]
             ELSE IF v \in Busy /\ same(v) THEN [job[v] EXCEPT !.alone = FALSE] ELSE job[v]]
    /\ raced' = IF \E v \in Busy : beside(v) THEN raced \cup {ArchOf[t]} ELSE raced
    /\ torn' = IF Finished(t) THEN torn \cup TasksOf(IndexOf[t]) ELSE torn
    /\ UNCHANGED <<status, ordered, sourced, attempt, restarts, faults, rows, repo, modules,
                   current, cut>>

In(w, stage) == w \in Busy /\ job[w].stage = stage
PackagesOf(w) ==
    IF job[w].result = "COMPLETED" THEN Built(job[w].task, job[w].nr) ELSE {}
Lists(packages) == {Nevra(p) : p \in packages}

\* __process_rpms
ProcessRpms(w) ==
    /\ In(w, "begun")
    /\ LET a == ArchOf[job[w].task] IN
       repo' = [repo EXCEPT ![a] = Put(@, PackagesOf(w))]
    /\ job' = [job EXCEPT ![w].stage = "stored", ![w].lists = @ \cup Lists(PackagesOf(w))]
    /\ UNCHANGED <<progress, rows, modules, current, history>>

\* What the i686 task of the project has for x86_64: in the module whatever
\* became of that task, in the repository once it is completed
I686Tasks(t) ==
    {u \in TasksOf(IndexOf[t]) : ArchOf[t] = X86 /\ ArchOf[u] = I686 /\ IndexOf[t] \in Multilib}
MultilibOf(t) == UNION {rows[u] \ Noarch(rows[u]) : u \in I686Tasks(t)}
IsMultilibNeeded(t) == \E u \in I686Tasks(t) : status[u] = "COMPLETED"
Extra(w) ==
    IF job[w].result = "COMPLETED" /\ IsMultilibNeeded(job[w].task)
    THEN MultilibOf(job[w].task) ELSE {}

\* add_multilib_packages: first the rows, ...
AddMultilib(w) ==
    /\ In(w, "stored") /\ Extra(w) # {}
    /\ job' = [job EXCEPT ![w].stage = "multilib", ![w].new = Extra(w)]
    /\ UNCHANGED <<progress, rows, repo, modules, current, history>>

\* ... then the repository
StoreMultilib(w) ==
    /\ In(w, "multilib")
    /\ LET a == ArchOf[job[w].task] IN repo' = [repo EXCEPT ![a] = Put(@, job[w].new)]
    /\ job' = [job EXCEPT ![w].stage = "complete"]
    /\ UNCHANGED <<progress, rows, modules, current, history>>

\* Mutant: the task itself is asked for too, and it is not finished yet.
AllForArch(t) == \A u \in TasksFor(ArchOf[t]) : Finished(u)

\* Whether the module gets its final version
LastForArch(t) == \A u \in TasksFor(ArchOf[t]) \ {t} : Finished(u)

\* A module of the final version that was read is deleted to make room for the
\* new one; any other is in the way, and Pulp refuses the new one
UpdateModule(w) ==
    /\ In(w, "complete") \/ (In(w, "stored") /\ Extra(w) = {})
    /\ LET j == job[w]
           a == ArchOf[j.task]
           final == LastForArch(j.task)
           multilib == IF j.result = "COMPLETED" THEN Lists(MultilibOf(j.task)) ELSE {}
           new == [by |-> <<j.task, j.nr>>, final |-> final,
                   lists |-> j.lists \cup multilib]
       IN /\ final => \A m \in modules[a] \ {j.read} : ~m.final
          /\ modules' = [modules EXCEPT ![a] = (@ \ {j.old}) \cup {new}]
          /\ job' = [job EXCEPT ![w].stage = "listed", ![w].new = @ \cup PackagesOf(w),
                                ![w].old = new]
    /\ UNCHANGED <<progress, rows, repo, current, history>>

\* The rows as the transaction of the job has them: shared noarch packages
\* replace those of every task of the project that has not failed: also of one that
\* was cancelled.  (Of two packages of a name a task keeps one; such tasks are torn.)
Takes(w, u) ==
    IF u = job[w].task THEN job[w].result = "COMPLETED"
    ELSE status[u] \in {"COMPLETED", "CANCELLED"}
RowsIn(w) ==
    [u \in Task |->
        LET r == IF u = job[w].task THEN rows[u] \cup job[w].new ELSE rows[u] IN
        IF u \in job[w].takes
        THEN (r \ Noarch(r)) \cup {job[w].shared} ELSE r]

\* Mutant: the packages are shared before the status of the task is set.
AllOfProject(t) == \A u \in TasksOf(IndexOf[t]) : Finished(u)

LastOfProject(t) == \A u \in TasksOf(IndexOf[t]) \ {t} : Finished(u)

\* save_noarch_packages: one package of each name for all tasks of the project, ...
ShareNoarch(w) ==
    /\ In(w, "listed")
    /\ LET t == job[w].task
           taking == {u \in TasksOf(IndexOf[t]) : Takes(w, u)}
           all == UNION {Noarch(RowsIn(w)[u]) : u \in TasksOf(IndexOf[t])}
       IN IF LastOfProject(t) /\ all # {}
          THEN \E p \in all :
                  job' = [job EXCEPT ![w].stage = "sharing", ![w].shared = p,
                                     ![w].takes = taking, ![w].todo = taking]
          ELSE job' = [job EXCEPT ![w].stage = "sharing"]
    /\ UNCHANGED <<progress, rows, repo, modules, current, history>>

OwnNoarch(w, u) == Noarch(rows[u] \cup (IF u = job[w].task THEN job[w].new ELSE {}))

\* Mutant: what is replaced is removed last, the shared package with it.
AddThenRemove(w, u) == Put(repo[ArchOf[u]], {job[w].shared}) \ OwnNoarch(w, u)

RemoveThenAdd(w, u) == Put(repo[ArchOf[u]] \ OwnNoarch(w, u), {job[w].shared})

\* ... in the repository of each
PublishNoarch(w, u) ==
    /\ In(w, "sharing") /\ u \in job[w].todo
    /\ repo' = [repo EXCEPT ![ArchOf[u]] = RemoveThenAdd(w, u)]
    /\ job' = [job EXCEPT ![w].todo = @ \ {u}]
    /\ UNCHANGED <<progress, rows, modules, current, history>>

Wrote(w) == job[w].stage \in {"listed", "sharing"}
Write(w) ==
    /\ rows' = RowsIn(w)
    /\ current' = IF Wrote(w) THEN [current EXCEPT ![ArchOf[job[w].task]] = job[w].old] ELSE current
    /\ job' = [job EXCEPT ![w] = None]

\* build_done and __update_built_srpm_url: a task that fails without a source
\* package, while its project has none, fails the idle tasks of the project.
\* What the job has seen of the other tasks may be out of date: the project and
\* the architecture are as they should be when it took itself for the last.
Commit(w) ==
    LET j == job[w]
        i == IndexOf[j.task]
    IN  /\ In(w, "sharing") /\ j.todo = {}
        /\ Write(w)
        /\ \E source \in BOOLEAN :
            LET failing == IF source \/ i \in sourced THEN {} ELSE Idle(TasksOf(i) \ {j.task})
            IN  /\ j.result = "COMPLETED" => source
                /\ Free(failing)
                /\ status' = [u \in Task |-> IF u = j.task THEN j.result
                                             ELSE IF u \in failing THEN "FAILED" ELSE status[u]]
                /\ sourced' = IF source THEN sourced \cup {i} ELSE sourced
                /\ cut' = (cut \ ((IF j.alone /\ j.shared # None THEN {i} ELSE {})
                                  \cup (IF j.old.final THEN {ArchOf[j.task]} ELSE {})))
                          \cup (IF j.alone THEN {} ELSE {i}) \cup Places(failing)
        /\ UNCHANGED <<ordered, attempt, posted, restarts, faults, repo, modules, raced, torn>>

\* Any call that raises: safe_build_done marks the task as failed, the others of
\* its project too if all of them are idle (fast_fail_other_tasks_by_ref), and the
\* rest of the transaction is committed
Raise(w) ==
    LET t == job[w].task
        others == TasksOf(IndexOf[t]) \ {t}
        failing == IF Idle(others) = others THEN others ELSE {}
    IN  /\ w \in Busy /\ faults < MaxFaults /\ faults' = faults + 1
        /\ Write(w)
        /\ Free(failing)
        /\ status' = [u \in Task |-> IF u \in {t} \cup failing THEN "FAILED" ELSE status[u]]
        /\ cut' = cut \cup Places({t} \cup failing)
        /\ torn' = torn \cup {t} \cup job[w].takes
        /\ UNCHANGED <<ordered, sourced, attempt, posted, restarts, repo, modules, raced>>

\* A worker that dies: its transaction is rolled back, what is in Pulp stays.
\* The task is handed out again when it has expired, or the message comes again.
Crash(w) ==
    /\ w \in Busy /\ faults < MaxFaults /\ faults' = faults + 1
    /\ job' = [job EXCEPT ![w] = None]
    /\ LET t == job[w].task IN
       /\ raced' = IF Wrote(w) THEN raced \cup {ArchOf[t]} ELSE raced
       /\ torn' = IF job[w].shared # None THEN torn \cup TasksOf(IndexOf[t]) ELSE torn
    /\ UNCHANGED <<status, ordered, sourced, attempt, posted, restarts, rows, repo, modules,
                   current, cut>>

\* Both kinds of restart keep the order of an architecture; a project of which
\* everything failed builds its source package again
Restart ==
    /\ restarts < MaxRestarts /\ restarts' = restarts + 1
    /\ LET failed == {t \in Task : status[t] = "FAILED"} IN
       /\ failed # {} /\ Free(failed)
       /\ status' = [t \in Task |-> IF t \in failed THEN "IDLE" ELSE status[t]]
       /\ ordered' = ordered \cup failed
       /\ sourced' = {i \in sourced : \E t \in TasksOf(i) \ failed : status[t] # "CANCELLED"}
    /\ UNCHANGED <<attempt, posted, rows, repo, modules, current, job, faults, history>>

\* mark_build_tasks_as_cancelled: only tasks that wait, and nothing else is done
Cancel ==
    /\ Idle(Task) # {} /\ Free(Idle(Task))
    /\ status' = [t \in Task |-> IF status[t] = "IDLE" THEN "CANCELLED" ELSE status[t]]
    /\ cut' = cut \cup Places(Idle(Task))
    /\ UNCHANGED <<ordered, sourced, attempt, posted, restarts, faults, rows, repo, modules,
                   current, job, raced, torn>>

Next ==
    \/ \E t \in Task : GetTask(t) \/ (\E nr \in 1..attempt[t] : Redeliver(t, nr))
    \/ \E w \in Worker, b \in posted, r \in Result : Begin(w, b[1], b[2], r)
    \/ \E w \in Worker : \/ ProcessRpms(w) \/ AddMultilib(w) \/ StoreMultilib(w)
                         \/ UpdateModule(w) \/ ShareNoarch(w) \/ Commit(w)
                         \/ Raise(w) \/ Crash(w)
    \/ \E w \in Worker, u \in Task : PublishNoarch(w, u)
    \/ Restart \/ Cancel

Spec == Init /\ [][Next]_vars

(***************************************************************************)
(* Properties.                                                             *)
(***************************************************************************)
\* When all tasks of a project are finished, its completed tasks have one and
\* the same noarch package, in the database and in the repository of each
\* architecture, however they were built, failed and restarted (utils/noarch.py).
\* Left out: projects whose last task was cancelled or fast-failed, raised, or was
\* processed beside another of them or for a second time.
NoarchIsShared ==
    \A i \in Index \ cut : (\A t \in TasksOf(i) : Finished(t) /\ t \notin torn) =>
        LET done == {t \in TasksOf(i) : status[t] = "COMPLETED"} IN
        done # {} => \E p \in UNION {rows[t] : t \in done} : \A t \in done :
            /\ Noarch(rows[t]) = {p}
            /\ {q \in repo[ArchOf[t]] : q.noarch /\ IndexOf[q.task] = i} = {p}

\* When all tasks of an architecture are finished and none is processed again, its
\* repository has one module, of the final version, which is the one the database
\* knows of and lists what the completed tasks built (build_node.py:748).  Left
\* out: architectures whose last task was cancelled, fast-failed or raised, whose
\* tasks were processed at the same time, or by a worker that died after it had
\* written the module.
ModuleIsFinal ==
    \A a \in Arch \ (raced \cup cut) : (\A t \in TasksFor(a) : Finished(t)) /\ Free(TasksFor(a)) =>
        /\ modules[a] = {current[a]} /\ current[a].final
        /\ \A t \in TasksFor(a) : status[t] = "COMPLETED" => Lists(rows[t]) \subseteq current[a].lists

\* The packages the database names are in the repository of the task, unless a job
\* is sharing the packages of the project, was stopped after it had written its
\* rows or shared its packages, or processes a finished task of the project again:
\* then Pulp has put the later packages in the place of the earlier ones.
Sharing(i) == \E w \in Busy : job[w].shared # None /\ IndexOf[job[w].task] = i
RowsArePublished ==
    \A t \in Task \ torn : ~Sharing(IndexOf[t]) => rows[t] \subseteq repo[ArchOf[t]]

===============================================================================
