------------------------------ MODULE BuildPlan ------------------------------
(***************************************************************************)
(* The tasks of one build and the order the web server gives them: the     *)
(* dependency map BuildPlanner writes when the build starts, and the       *)
(* matrix of failed tasks the two restart endpoints rebuild it from.       *)
(*                                                                         *)
(* A task is its database id.  The planner inserts the tasks platform by   *)
(* platform, the "src" arch of a platform first, and a row of the matrix   *)
(* (one index) is read in id order.                                        *)
(***************************************************************************)
EXTENDS Integers, FiniteSets

CONSTANTS
    Task,         \* ids of the build's tasks
    IndexOf,      \* BuildTask.index: the project's position in the build
    PlatformOf,   \* BuildTask.platform_id
    ArchOf,       \* BuildTask.arch
    RefOf,        \* BuildTask.ref_id
    Src,          \* the "src" pseudo arch, inserted first on every platform
    Independent   \* platforms requested with independent_tasks

ASSUME PlanAssumption ==
    /\ Task \subseteq Nat
    /\ Task # {} /\ IsFiniteSet(Task)   \* conlist(min_length=1)
    /\ DOMAIN IndexOf = Task /\ \A t \in Task : IndexOf[t] \in Nat
    /\ DOMAIN PlatformOf = Task
    /\ DOMAIN ArchOf = Task
    /\ DOMAIN RefOf = Task

\* BuildTaskStatus
Unfinished == {"IDLE", "STARTED"}
Settled    == {"COMPLETED", "FAILED", "EXCLUDED", "CANCELLED"}
Status     == Unfinished \cup Settled

------------------------------------------------------------------------------
(* BuildPlanner.build_dependency_map                                       *)

SameLane(t, u) == PlatformOf[t] = PlatformOf[u] /\ ArchOf[t] = ArchOf[u]

\* The tasks of t's platform and arch that were requested before t.
Before(t) == {u \in Task : SameLane(t, u) /\ IndexOf[u] < IndexOf[t]}

\* The source task of t's project on t's platform.
SourceTask(t) ==
    {u \in Task : /\ PlatformOf[u] = PlatformOf[t]
                  /\ IndexOf[u] = IndexOf[t]
                  /\ ArchOf[u] = Src}

\* Mutant: the binary tasks do not wait for their sources.
PlannedWithoutSource(t) == Before(t)

PlannedDeps(t) ==
    CASE ArchOf[t] = Src /\ PlatformOf[t] \in Independent -> {}
      [] ArchOf[t] = Src -> {u \in Before(t) : IndexOf[u] = IndexOf[t] - 1}
      [] ArchOf[t] # Src /\ PlatformOf[t] \in Independent -> SourceTask(t)
      [] OTHER -> SourceTask(t) \cup Before(t)

------------------------------------------------------------------------------
(* get_failed_build_tasks_matrix, over the statuses st the query reads.    *)

\* status <= FAILED: excluded and cancelled tasks are not in the matrix.
InMatrix(st) == {t \in Task : st[t] \in {"IDLE", "STARTED", "COMPLETED", "FAILED"}}

Failed(st) == {t \in Task : st[t] = "FAILED"}

\* A row of the matrix is kept when one of its tasks failed.
FailedRows(st) == {IndexOf[t] : t \in Failed(st)}
Row(st, i)     == {t \in InMatrix(st) : IndexOf[t] = i}

\* drop_srpm: the failed tasks of the rows in which every task failed.
DropsSrpm(st) == {t \in Failed(st) : Row(st, IndexOf[t]) \subseteq Failed(st)}

------------------------------------------------------------------------------
(* update_failed_build_items: one chain through every failed task.         *)

ChainBefore(u, t) ==
    \/ IndexOf[u] < IndexOf[t]
    \/ IndexOf[u] = IndexOf[t] /\ u < t

\* last_task when t is reached: nothing for the first task of the chain.
LastTask(st, t) ==
    {u \in Failed(st) :
        /\ ChainBefore(u, t)
        /\ \A v \in Failed(st) : ChainBefore(v, t) => v = u \/ ChainBefore(v, u)}

ChainDeps(st, t) == IF t \in Failed(st) THEN LastTask(st, t) ELSE {}

------------------------------------------------------------------------------
(* update_failed_build_items_in_parallel: rows in index order, the source  *)
(* tasks of a row before the others.                                       *)

RowBefore(u, t) ==
    \/ ArchOf[u] = Src /\ ArchOf[t] # Src
    \/ (ArchOf[u] = Src <=> ArchOf[t] = Src) /\ u < t

\* first_index_dep when t is reached: the first failed task of t's row,
\* unless some task of the row is completed.
FirstIndexDep(st, t) ==
    LET row == Row(st, IndexOf[t]) IN
    {u \in row \cap Failed(st) :
        /\ \A v \in row : st[v] # "COMPLETED"
        /\ RowBefore(u, t)
        /\ \A v \in (row \cap Failed(st)) \ {u} : RowBefore(u, v)}

\* Mutant: of the earlier rows also those that are finished.
EarlierRowsOfAny(st, t) == {u \in Before(t) : IndexOf[u] \in FailedRows(st)}

\* The tasks of the earlier failed rows with t's platform and arch that are
\* IDLE by then: those of the row that were IDLE, and those just restarted.
EarlierRows(st, t) ==
    {u \in Before(t) : /\ IndexOf[u] \in FailedRows(st)
                       /\ st[u] \in {"IDLE", "FAILED"}}

ParallelDeps(st, t) ==
    IF t \in Failed(st) THEN FirstIndexDep(st, t) \cup EarlierRows(st, t) ELSE {}
==============================================================================
