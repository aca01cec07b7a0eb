-------------------------- MODULE RepositoriesProofs --------------------------
(***************************************************************************)
(* Repositories in Pulp, for any tasks, packages, modules, workers and     *)
(* failures.                                                               *)
(*                                                                         *)
(* The repositories of a build (BuildArtifacts).  What its jobs do to each *)
(* other's rows, packages and modules: a worker that does not overlap with *)
(* another at what it writes leaves the database and Pulp in agreement.    *)
(* ArtifactsBase says what a job has at hand in each stage, and whose it   *)
(* is; PublishedInv, NoarchInv and ModuleInv add what the three properties *)
(* need.                                                                   *)
(*                                                                         *)
(* One repository and its exports (RepoExport): an upload keeps the        *)
(* packages, the exported directory has what was published, and a          *)
(* signature belongs to the file beside it.                                *)
(***************************************************************************)
EXTENDS BuildArtifacts, RepoExport, WellFoundedInduction, FiniteSetTheorems, TLAPS

(***************************************************************************)
(* The repositories of a build: types, and what stays with a job.          *)
(***************************************************************************)
Listed == Index \X (Arch \cup {"noarch"})
ArtifactsType ==
    /\ status \in [Task -> Status] /\ ordered \subseteq Task /\ sourced \subseteq Index
    /\ attempt \in [Task -> Nat] /\ posted \subseteq Task \X Nat
    /\ rows \in [Task -> SUBSET Package] /\ repo \in [Arch -> SUBSET Package]
    /\ modules \in [Arch -> SUBSET BuildModule] /\ current \in [Arch -> BuildModule]
    /\ job \in [Worker -> Job \cup {None}]
    /\ restarts \in Nat /\ faults \in Nat
    /\ raced \subseteq Arch /\ cut \subseteq Arch \cup Index /\ torn \subseteq Task

\* The project and the architecture of a job
Of(w) == IndexOf[job[w].task]
Its(w) == ArchOf[job[w].task]

LEMMA TaskPlace ==
    /\ \A t \in Task : IndexOf[t] \in Index /\ ArchOf[t] \in Arch
    /\ \A t, u \in Task : IndexOf[t] = IndexOf[u] /\ ArchOf[t] = ArchOf[u] => t = u
    /\ \A a \in Arch : \E t \in Task : ArchOf[t] = a
    /\ \A i \in Index : \E t \in Task : IndexOf[t] = i
    /\ "noarch" \notin Arch
    /\ \A a \in Arch : a \notin Index
    /\ None \notin Package /\ None \notin Job
  BY ArtifactsAssumption DEF Index, Arch

LEMMA NevraType == \A p \in Package : Nevra(p) \in Listed
  BY TaskPlace DEF Nevra, Listed, Package

LEMMA ListsType == \A packages \in SUBSET Package : Lists(packages) \subseteq Listed
  BY NevraType DEF Lists

LEMMA BuiltType == \A t \in Task, nr \in Nat :
    /\ Built(t, nr) \subseteq Package
    /\ \A q \in Built(t, nr) : q.task = t
    /\ \E q \in Built(t, nr) : q.noarch
<1> TAKE t \in Task, nr \in Nat
<1>1. /\ [task |-> t, nr |-> nr, noarch |-> TRUE] \in Built(t, nr)
      /\ [task |-> t, nr |-> nr, noarch |-> TRUE].noarch
  BY DEF Built
<1>2. Built(t, nr) \subseteq Package /\ \A q \in Built(t, nr) : q.task = t
  BY DEF Built, Package
<1> QED
  BY <1>1, <1>2

LEMMA MadeType ==
    ASSUME ArtifactsType, NEW w \in Busy
    PROVE  /\ job[w] \in Job /\ job[w] # None /\ w \in Worker
           /\ job[w].task \in Task /\ Of(w) \in Index /\ Its(w) \in Arch
           /\ PackagesOf(w) \subseteq Package
           /\ \A q \in PackagesOf(w) : q.task = job[w].task
           /\ job[w].result = "COMPLETED" =>
                 PackagesOf(w) = Built(job[w].task, job[w].nr)
           /\ job[w].result # "COMPLETED" => PackagesOf(w) = {}
           /\ job[w].nr \in Nat
<1>1. job[w] \in Job /\ job[w] # None /\ w \in Worker
  BY DEF Busy, ArtifactsType
<1>2. job[w].task \in Task
  BY <1>1 DEF Job
<1>3. Of(w) \in Index /\ Its(w) \in Arch
  BY <1>2, TaskPlace DEF Of, Its
<1>4. job[w].nr \in Nat
  BY <1>1 DEF Job
<1> QED
  BY <1>1, <1>2, <1>3, <1>4, BuiltType DEF PackagesOf

LEMMA MultilibType ==
    ASSUME ArtifactsType, NEW t \in Task
    PROVE  /\ I686Tasks(t) \subseteq Task
           /\ MultilibOf(t) \subseteq Package
           /\ \A q \in MultilibOf(t) : ~q.noarch /\ \E u \in I686Tasks(t) : q \in rows[u]
  BY DEF ArtifactsType, I686Tasks, TasksOf, MultilibOf, Noarch

(***************************************************************************)
(* What a step of a job does to it.                                        *)
(***************************************************************************)
\* It stays the same job, and the other workers have theirs
Keeps(w) ==
    /\ w \in Busy /\ Busy' = Busy
    /\ job' \in [Worker -> Job \cup {None}]
    /\ \A v \in Worker \ {w} : job'[v] = job[v]
    /\ job'[w] \in Job
    /\ job'[w].task = job[w].task /\ job'[w].nr = job[w].nr
    /\ job'[w].result = job[w].result /\ job'[w].alone = job[w].alone
    /\ UNCHANGED <<progress, rows, current, history>>

SharesAlike(w) ==
    job'[w].shared = job[w].shared /\ job'[w].takes = job[w].takes /\ job'[w].todo = job[w].todo

LEMMA KeepsLemma ==
    ASSUME ArtifactsType, NEW w \in Busy, NEW j \in Job, job' = [job EXCEPT ![w] = j],
           j.task = job[w].task, j.nr = job[w].nr, j.result = job[w].result,
           j.alone = job[w].alone,
           UNCHANGED <<progress, rows, current, history>>
    PROVE  Keeps(w) /\ job'[w] = j
<1>1. w \in Worker /\ job[w] # None
  BY DEF Busy
<1>2. /\ job'[w] = j /\ \A v \in Worker \ {w} : job'[v] = job[v]
      /\ job' \in [Worker -> Job \cup {None}]
  BY <1>1 DEF ArtifactsType
<1>3. j # None
  BY TaskPlace
<1>4. Busy' = Busy
  BY <1>1, <1>2, <1>3 DEF Busy
<1> QED
  BY <1>1, <1>2, <1>3, <1>4 DEF Keeps

LEMMA ProcessedJob ==
    ASSUME ArtifactsType, NEW w \in Worker, ProcessRpms(w)
    PROVE  /\ Keeps(w) /\ job[w].stage = "begun" /\ job'[w].stage = "stored"
           /\ job'[w].lists = job[w].lists \cup Lists(PackagesOf(w))
           /\ job'[w].new = job[w].new /\ job'[w].old = job[w].old /\ SharesAlike(w)
<1>1. w \in Busy /\ job[w].stage = "begun"
  BY DEF ProcessRpms, In
<1> DEFINE L == job[w].lists \cup Lists(PackagesOf(w))
           j == [job[w] EXCEPT !.stage = "stored", !.lists = L]
<1>2. job[w] \in Job /\ L \in SUBSET Listed
  BY <1>1, MadeType, ListsType DEF Job, Listed
<1>3. job' = [job EXCEPT ![w] = j]
  BY <1>1 DEF ProcessRpms, ArtifactsType, Busy
<1> HIDE DEF L
<1>4. /\ j \in Job /\ j.task = job[w].task /\ j.nr = job[w].nr /\ j.result = job[w].result
      /\ j.alone = job[w].alone /\ j.stage = "stored" /\ j.lists = L
      /\ j.new = job[w].new /\ j.old = job[w].old /\ j.shared = job[w].shared
      /\ j.takes = job[w].takes /\ j.todo = job[w].todo
  BY <1>2 DEF Job, Listed
<1>5. UNCHANGED <<progress, rows, current, history>>
  BY DEF ProcessRpms
<1> HIDE DEF j
<1>6. Keeps(w) /\ job'[w] = j
  BY <1>1, <1>3, <1>4, <1>5, KeepsLemma
<1> QED
  BY <1>1, <1>4, <1>6 DEF SharesAlike, L

LEMMA AddedJob ==
    ASSUME ArtifactsType, NEW w \in Worker, AddMultilib(w)
    PROVE  /\ Keeps(w) /\ job[w].stage = "stored" /\ job'[w].stage = "multilib"
           /\ job[w].result = "COMPLETED" /\ job'[w].new = MultilibOf(job[w].task)
           /\ job'[w].lists = job[w].lists /\ job'[w].old = job[w].old /\ SharesAlike(w)
<1>1. w \in Busy /\ job[w].stage = "stored"
  BY DEF AddMultilib, In
<1>2. job[w].result = "COMPLETED" /\ Extra(w) = MultilibOf(job[w].task)
  BY DEF AddMultilib, Extra
<1> DEFINE N == Extra(w)
           j == [job[w] EXCEPT !.stage = "multilib", !.new = N]
<1>3. job[w] \in Job /\ N \in SUBSET Package
  BY <1>1, <1>2, MadeType, MultilibType
<1>4. job' = [job EXCEPT ![w] = j]
  BY <1>1 DEF AddMultilib, ArtifactsType, Busy
<1> HIDE DEF N
<1>5. /\ j \in Job /\ j.task = job[w].task /\ j.nr = job[w].nr /\ j.result = job[w].result
      /\ j.alone = job[w].alone /\ j.stage = "multilib" /\ j.lists = job[w].lists
      /\ j.new = N /\ j.old = job[w].old /\ j.shared = job[w].shared
      /\ j.takes = job[w].takes /\ j.todo = job[w].todo
  BY <1>3 DEF Job
<1>6. UNCHANGED <<progress, rows, current, history>>
  BY DEF AddMultilib
<1> HIDE DEF j
<1>7. Keeps(w) /\ job'[w] = j
  BY <1>1, <1>4, <1>5, <1>6, KeepsLemma
<1> QED
  BY <1>1, <1>2, <1>5, <1>7 DEF SharesAlike, N

LEMMA StoredJob ==
    ASSUME ArtifactsType, NEW w \in Worker, StoreMultilib(w)
    PROVE  /\ Keeps(w) /\ job[w].stage = "multilib" /\ job'[w].stage = "complete"
           /\ job'[w].new = job[w].new /\ job'[w].lists = job[w].lists
           /\ job'[w].old = job[w].old /\ SharesAlike(w)
<1>1. w \in Busy /\ job[w].stage = "multilib"
  BY DEF StoreMultilib, In
<1> DEFINE j == [job[w] EXCEPT !.stage = "complete"]
<1>2. job[w] \in Job
  BY <1>1, MadeType
<1>3. job' = [job EXCEPT ![w] = j]
  BY <1>1 DEF StoreMultilib, ArtifactsType, Busy
<1>4. /\ j \in Job /\ j.task = job[w].task /\ j.nr = job[w].nr /\ j.result = job[w].result
      /\ j.alone = job[w].alone /\ j.stage = "complete" /\ j.lists = job[w].lists
      /\ j.new = job[w].new /\ j.old = job[w].old /\ j.shared = job[w].shared
      /\ j.takes = job[w].takes /\ j.todo = job[w].todo
  BY <1>2 DEF Job
<1>5. UNCHANGED <<progress, rows, current, history>>
  BY DEF StoreMultilib
<1> HIDE DEF j
<1>6. Keeps(w) /\ job'[w] = j
  BY <1>1, <1>3, <1>4, <1>5, KeepsLemma
<1> QED
  BY <1>1, <1>4, <1>6 DEF SharesAlike

\* The module a job writes
Written(w) ==
    [by |-> <<job[w].task, job[w].nr>>, final |-> LastForArch(job[w].task),
     lists |-> job[w].lists
               \cup (IF job[w].result = "COMPLETED" THEN Lists(MultilibOf(job[w].task)) ELSE {})]

LEMMA UpdatedJob ==
    ASSUME ArtifactsType, NEW w \in Worker, UpdateModule(w)
    PROVE  /\ Keeps(w) /\ job'[w].stage = "listed"
           /\ job[w].stage = "complete" \/ (job[w].stage = "stored" /\ Extra(w) = {})
           /\ job'[w].new = job[w].new \cup PackagesOf(w)
           /\ job'[w].old = Written(w) /\ Written(w) \in BuildModule
           /\ modules' = [modules EXCEPT ![Its(w)] = (@ \ {job[w].old}) \cup {Written(w)}]
           /\ job'[w].lists = job[w].lists /\ SharesAlike(w)
<1>1. w \in Busy /\ (job[w].stage = "complete" \/ (job[w].stage = "stored" /\ Extra(w) = {}))
  BY DEF UpdateModule, In
<1>2. /\ job[w] \in Job /\ PackagesOf(w) \in SUBSET Package /\ job[w].task \in Task
      /\ Lists(MultilibOf(job[w].task)) \in SUBSET Listed
  BY <1>1, MadeType, MultilibType, ListsType
<1> DEFINE P == PackagesOf(w)
           m == Written(w)
           j == [job[w] EXCEPT !.stage = "listed", !.new = @ \cup P, !.old = m]
<1>3. m \in BuildModule
  <2>1. job[w].nr \in Nat /\ LastForArch(job[w].task) \in BOOLEAN
    BY <1>2 DEF Job, LastForArch
  <2>2. job[w].lists \in SUBSET Listed
    BY <1>2 DEF Job, Listed
  <2> QED
    BY <1>2, <2>1, <2>2 DEF Written, BuildModule, Listed
<1>4. /\ job' = [job EXCEPT ![w] = j]
      /\ modules' = [modules EXCEPT ![Its(w)] = (@ \ {job[w].old}) \cup {Written(w)}]
  BY <1>1 DEF UpdateModule, ArtifactsType, Busy, Written, Its
<1> HIDE DEF P, m
<1>5. /\ j \in Job /\ j.task = job[w].task /\ j.nr = job[w].nr /\ j.result = job[w].result
      /\ j.alone = job[w].alone /\ j.stage = "listed" /\ j.lists = job[w].lists
      /\ j.new = job[w].new \cup P /\ j.old = m /\ j.shared = job[w].shared
      /\ j.takes = job[w].takes /\ j.todo = job[w].todo
  BY <1>2, <1>3 DEF Job, P
<1>6. UNCHANGED <<progress, rows, current, history>>
  BY DEF UpdateModule
<1> HIDE DEF j
<1>7. Keeps(w) /\ job'[w] = j
  BY <1>1, <1>4, <1>5, <1>6, KeepsLemma
<1> QED
  BY <1>1, <1>3, <1>4, <1>5, <1>7 DEF SharesAlike, P, m

(***************************************************************************)
(* Jobs: their tasks, their packages and what they share.                  *)
(***************************************************************************)
\* The task of a job is nobody else's, and finished only when it is processed
\* again.  Jobs of one project are not alone in it, and at most one shares packages,
\* unless a task of the project is processed again.
Torn(i) == TasksOf(i) \subseteq torn
Rightly(w) == Finished(job[w].task) => Torn(Of(w))
Beside(v, w) ==
    /\ job[v].task # job[w].task
    /\ Of(v) = Of(w) =>
          ~job[w].alone /\ (job[v].shared = None \/ job[w].shared = None \/ Torn(Of(w)))
JobInv ==
    /\ \A w \in Busy : Rightly(w)
    /\ \A v, w \in Busy : v # w => Beside(v, w)

\* A task has packages of its project: noarch, its own, or multilib
OwnPackage(t, q) ==
    /\ IndexOf[q.task] = IndexOf[t]
    /\ q.noarch \/ q.task = t \/ (ArchOf[t] = X86 /\ ArchOf[q.task] = I686)
OwnInv ==
    /\ \A t \in Task : \A q \in rows[t] : OwnPackage(t, q)
    /\ \A w \in Busy : \A q \in job[w].new : OwnPackage(job[w].task, q)

\* What a job has at hand in each stage
Staged(w) ==
    /\ job[w].stage \in {"begun", "stored"} => job[w].new = {}
    /\ job[w].stage \in {"multilib", "complete"} =>
          /\ job[w].result = "COMPLETED" /\ Its(w) = X86
          /\ \A q \in job[w].new : ~q.noarch /\ ArchOf[q.task] = I686
    /\ job[w].result = "FAILED" => job[w].new = {}
    /\ Wrote(w) => PackagesOf(w) \subseteq job[w].new
    /\ job[w].shared = None => job[w].takes = {}
    /\ job[w].shared # None => /\ job[w].stage = "sharing" /\ job[w].shared.noarch
                               /\ IndexOf[job[w].shared.task] = Of(w)
    /\ job[w].todo \subseteq job[w].takes /\ job[w].takes \subseteq TasksOf(Of(w))
    /\ \A u \in job[w].takes \ torn : Takes(w, u)
StageInv == \A w \in Busy : Staged(w)

\* The rows as a job has them
LEMMA RowsInLemma ==
    ASSUME ArtifactsType, StageInv, NEW w \in Busy
    PROVE  /\ RowsIn(w) \in [Task -> SUBSET Package]
           /\ \A u \in Task : u \notin job[w].takes => RowsIn(w)[u] =
                 (IF u = job[w].task THEN rows[u] \cup job[w].new ELSE rows[u])
           /\ \A u \in job[w].takes :
                 /\ job[w].shared \in Package
                 /\ RowsIn(w)[u] = {q \in rows[u] \cup (IF u = job[w].task THEN job[w].new ELSE {}) :
                                      ~q.noarch} \cup {job[w].shared}
<1>1. /\ job[w].new \in SUBSET Package /\ job[w].shared \in Package \cup {None}
      /\ job[w].task \in Task /\ job[w].takes \subseteq Task
  BY MadeType DEF Job
<1>2. job[w].takes # {} => job[w].shared \in Package
  BY <1>1 DEF StageInv, Staged
<1>3. \A u \in Task : u \notin job[w].takes => RowsIn(w)[u] =
         (IF u = job[w].task THEN rows[u] \cup job[w].new ELSE rows[u])
  BY <1>1 DEF RowsIn
<1>4. ASSUME NEW u \in job[w].takes
      PROVE  RowsIn(w)[u] = {q \in rows[u] \cup (IF u = job[w].task THEN job[w].new ELSE {}) :
                               ~q.noarch} \cup {job[w].shared}
  <2>1. u \in Task
    BY <1>1
  <2> DEFINE r == IF u = job[w].task THEN rows[u] \cup job[w].new ELSE rows[u]
  <2>2. RowsIn(w)[u] = (r \ Noarch(r)) \cup {job[w].shared}
    BY <2>1 DEF RowsIn
  <2>3. r = rows[u] \cup (IF u = job[w].task THEN job[w].new ELSE {})
    OBVIOUS
  <2> HIDE DEF r
  <2>4. r \ Noarch(r) = {q \in r : ~q.noarch}
    BY DEF Noarch
  <2> QED
    BY <2>2, <2>3, <2>4
<1>5. ASSUME NEW u \in Task
      PROVE  RowsIn(w)[u] \in SUBSET Package
  <2>1. rows[u] \in SUBSET Package
    BY DEF ArtifactsType
  <2>2. CASE u \in job[w].takes
    BY <1>1, <1>2, <1>4, <2>1, <2>2
  <2>3. CASE u \notin job[w].takes
    BY <1>1, <1>3, <2>1, <2>3
  <2> QED
    BY <2>2, <2>3
<1>6. RowsIn(w) = [u \in Task |-> RowsIn(w)[u]]
  BY DEF RowsIn
<1> QED
  BY <1>2, <1>3, <1>4, <1>5, <1>6

LEMMA SharedJob ==
    ASSUME ArtifactsType, StageInv, NEW w \in Worker, ShareNoarch(w)
    PROVE  /\ Keeps(w) /\ job[w].stage = "listed" /\ job'[w].stage = "sharing"
           /\ job[w].shared = None /\ job[w].takes = {} /\ job[w].todo = {}
           /\ job'[w].new = job[w].new /\ job'[w].lists = job[w].lists
           /\ job'[w].old = job[w].old
           /\ \/ /\ LastOfProject(job[w].task)
                 /\ job'[w].takes = {u \in TasksOf(Of(w)) : Takes(w, u)}
                 /\ job'[w].todo = job'[w].takes
                 /\ job'[w].shared # None /\ job'[w].shared.noarch
                 /\ \E u \in TasksOf(Of(w)) :
                       job'[w].shared \in (IF u = job[w].task THEN rows[u] \cup job[w].new
                                           ELSE rows[u])
              \/ /\ SharesAlike(w)
                 /\ ~LastOfProject(job[w].task)
                    \/ \A u \in TasksOf(Of(w)) :
                          \A q \in (IF u = job[w].task THEN rows[u] \cup job[w].new ELSE rows[u]) :
                             ~q.noarch
<1>1. w \in Busy /\ job[w].stage = "listed"
  BY DEF ShareNoarch, In
<1>2. job[w].shared = None /\ job[w].takes = {} /\ job[w].todo = {}
  BY <1>1 DEF StageInv, Staged
<1>3. /\ job[w] \in Job /\ job[w].task \in Task
      /\ \A u \in TasksOf(Of(w)) : u \in Task /\ RowsIn(w)[u] =
            (IF u = job[w].task THEN rows[u] \cup job[w].new ELSE rows[u])
  BY <1>1, <1>2, MadeType, RowsInLemma DEF TasksOf
<1> DEFINE all == UNION {Noarch(RowsIn(w)[u]) : u \in TasksOf(IndexOf[job[w].task])}
           T == {u \in TasksOf(Of(w)) : Takes(w, u)}
<1>4. all \subseteq Package /\ T \subseteq Task
  BY <1>1, RowsInLemma DEF TasksOf, Noarch
<1>5. UNCHANGED <<progress, rows, current, history>>
  BY DEF ShareNoarch
<1>6. CASE LastOfProject(job[w].task) /\ all # {}
  <2>1. PICK p \in all : job' = [job EXCEPT ![w].stage = "sharing", ![w].shared = p,
                                            ![w].takes = T, ![w].todo = T]
    BY <1>6 DEF ShareNoarch, Of
  <2> DEFINE j == [job[w] EXCEPT !.stage = "sharing", !.shared = p, !.takes = T, !.todo = T]
  <2>2. job' = [job EXCEPT ![w] = j]
    BY <1>1, <2>1 DEF ArtifactsType, Busy
  <2> HIDE DEF T
  <2>3. p \in Package
    BY <1>4
  <2>4. /\ j \in Job /\ j.task = job[w].task /\ j.nr = job[w].nr /\ j.result = job[w].result
        /\ j.alone = job[w].alone /\ j.stage = "sharing" /\ j.lists = job[w].lists
        /\ j.new = job[w].new /\ j.old = job[w].old /\ j.shared = p
        /\ j.takes = T /\ j.todo = T
    BY <1>3, <1>4, <2>3 DEF Job
  <2> HIDE DEF j
  <2>5. Keeps(w) /\ job'[w] = j
    BY <1>1, <1>5, <2>2, <2>4, KeepsLemma
  <2>6. PICK u \in TasksOf(Of(w)) : p \in Noarch(RowsIn(w)[u])
    BY DEF Of
  <2>7. p.noarch /\ p \in (IF u = job[w].task THEN rows[u] \cup job[w].new ELSE rows[u])
    BY <1>3, <2>6 DEF Noarch
  <2>8. p # None
    BY <2>3, TaskPlace
  <2> QED
    BY <1>1, <1>2, <1>6, <2>4, <2>5, <2>7, <2>8 DEF T
<1>7. CASE ~(LastOfProject(job[w].task) /\ all # {})
  <2>1. job' = [job EXCEPT ![w].stage = "sharing"]
    BY <1>7 DEF ShareNoarch
  <2> DEFINE j == [job[w] EXCEPT !.stage = "sharing"]
  <2>2. job' = [job EXCEPT ![w] = j]
    BY <1>1, <2>1 DEF ArtifactsType, Busy
  <2>3. /\ j \in Job /\ j.task = job[w].task /\ j.nr = job[w].nr /\ j.result = job[w].result
        /\ j.alone = job[w].alone /\ j.stage = "sharing" /\ j.lists = job[w].lists
        /\ j.new = job[w].new /\ j.old = job[w].old /\ j.shared = job[w].shared
        /\ j.takes = job[w].takes /\ j.todo = job[w].todo
    BY <1>3 DEF Job
  <2> HIDE DEF j
  <2>4. Keeps(w) /\ job'[w] = j
    BY <1>1, <1>5, <2>2, <2>3, KeepsLemma
  <2>5. ~LastOfProject(job[w].task)
        \/ \A u \in TasksOf(Of(w)) : Noarch(RowsIn(w)[u]) = {}
    BY <1>7 DEF Of
  <2>6. ~LastOfProject(job[w].task)
        \/ \A u \in TasksOf(Of(w)) :
              \A q \in (IF u = job[w].task THEN rows[u] \cup job[w].new ELSE rows[u]) : ~q.noarch
    BY <1>3, <2>5 DEF Noarch
  <2> QED
    BY <1>1, <1>2, <2>3, <2>4, <2>6 DEF SharesAlike
<1> QED
  BY <1>6, <1>7

LEMMA PublishedJob ==
    ASSUME ArtifactsType, NEW w \in Worker, NEW u \in Task, PublishNoarch(w, u)
    PROVE  /\ Keeps(w) /\ job[w].stage = "sharing" /\ job'[w].stage = "sharing"
           /\ u \in job[w].todo /\ job'[w].todo = job[w].todo \ {u}
           /\ job'[w].takes = job[w].takes /\ job'[w].shared = job[w].shared
           /\ job'[w].new = job[w].new /\ job'[w].lists = job[w].lists
           /\ job'[w].old = job[w].old
<1>1. w \in Busy /\ job[w].stage = "sharing" /\ u \in job[w].todo
  BY DEF PublishNoarch, In
<1> DEFINE D == job[w].todo \ {u}
           j == [job[w] EXCEPT !.todo = D]
<1>2. job[w] \in Job /\ D \in SUBSET Task
  BY <1>1, MadeType DEF Job
<1>3. job' = [job EXCEPT ![w] = j]
  BY <1>1 DEF PublishNoarch, ArtifactsType, Busy
<1> HIDE DEF D
<1>4. /\ j \in Job /\ j.task = job[w].task /\ j.nr = job[w].nr /\ j.result = job[w].result
      /\ j.alone = job[w].alone /\ j.stage = job[w].stage /\ j.lists = job[w].lists
      /\ j.new = job[w].new /\ j.old = job[w].old /\ j.shared = job[w].shared
      /\ j.takes = job[w].takes /\ j.todo = D
  BY <1>2 DEF Job
<1>5. UNCHANGED <<progress, rows, current, history>>
  BY DEF PublishNoarch
<1> HIDE DEF j
<1>6. Keeps(w) /\ job'[w] = j
  BY <1>1, <1>3, <1>4, <1>5, KeepsLemma
<1> QED
  BY <1>1, <1>4, <1>6 DEF D

\* A job that ends, by a commit, an exception or a crash
LEMMA EndedJob ==
    ASSUME ArtifactsType, NEW w \in Busy, job' = [job EXCEPT ![w] = None]
    PROVE  /\ job' \in [Worker -> Job \cup {None}] /\ Busy' = Busy \ {w}
           /\ \A v \in Busy' : v \in Busy /\ v # w /\ job'[v] = job[v]
<1>1. w \in Worker
  BY DEF Busy
<1> QED
  BY <1>1 DEF ArtifactsType, Busy

\* A job that begins
LEMMA BegunJob ==
    ASSUME ArtifactsType, NEW w \in Worker, NEW t \in Task, NEW nr \in Nat, NEW r \in Result,
           Begin(w, t, nr, r)
    PROVE  /\ job' \in [Worker -> Job \cup {None}]
           /\ w \notin Busy /\ Busy' = Busy \cup {w}
           /\ \A v \in Busy : job[v].task # t
           /\ \A v \in Busy :
                 /\ job'[v].task = job[v].task /\ job'[v].nr = job[v].nr
                 /\ job'[v].result = job[v].result
                 /\ job'[v].stage = job[v].stage /\ job'[v].lists = job[v].lists
                 /\ job'[v].new = job[v].new /\ job'[v].old = job[v].old /\ SharesAlike(v)
                 /\ (job'[v].alone <=> job[v].alone /\ Of(v) # IndexOf[t])
           /\ job'[w].task = t /\ job'[w].result = r /\ job'[w].stage = "begun"
           /\ job'[w].old = current[ArchOf[t]] /\ job'[w].new = {}
           /\ \E m \in modules[ArchOf[t]] : job'[w].lists = m.lists
           /\ job'[w].shared = None /\ job'[w].takes = {} /\ job'[w].todo = {}
           /\ (job'[w].alone <=> \A v \in Busy : Of(v) # IndexOf[t])
           /\ UNCHANGED <<status, rows, repo, modules, current, cut>>
           /\ UNCHANGED <<ordered, sourced, attempt, restarts, faults>> /\ posted' \subseteq posted
           /\ torn \subseteq torn' /\ torn' \subseteq Task
           /\ Finished(t) => TasksOf(IndexOf[t]) \subseteq torn'
           /\ raced \subseteq raced'
           /\ (\E v \in Busy : Its(v) = ArchOf[t]) => ArchOf[t] \in raced'
           /\ raced' \subseteq raced \cup {ArchOf[t]}
<1> DEFINE same(v) == IndexOf[job[v].task] = IndexOf[t]
<1>1. PICK m \in modules[ArchOf[t]] :
          job' = [v \in Worker |->
             IF v = w
             THEN [task |-> t, nr |-> nr, result |-> r, stage |-> "begun", read |-> m,
                   old |-> current[ArchOf[t]], lists |-> m.lists, new |-> {}, shared |-> None,
                   takes |-> {}, todo |-> {}, alone |-> \A u \in Busy : ~same(u)]
             ELSE IF v \in Busy /\ same(v) THEN [job[v] EXCEPT !.alone = FALSE] ELSE job[v]]
  BY DEF Begin
<1>2. /\ job[w] = None /\ \A v \in Busy : job[v].task # t
      /\ UNCHANGED <<status, rows, repo, modules, current, cut>>
      /\ UNCHANGED <<ordered, sourced, attempt, restarts, faults>> /\ posted' \subseteq posted
      /\ torn' = IF Finished(t) THEN torn \cup TasksOf(IndexOf[t]) ELSE torn
  BY DEF Begin, Free
<1>3. w \notin Busy
  BY <1>2 DEF Busy
<1>4. ArchOf[t] \in Arch /\ m \in BuildModule /\ current[ArchOf[t]] \in BuildModule
  BY TaskPlace DEF ArtifactsType
<1> DEFINE A == \A u \in Busy : ~same(u)
           C == current[ArchOf[t]]
           L == m.lists
<1>5. job'[w] = [task |-> t, nr |-> nr, result |-> r, stage |-> "begun", read |-> m,
                 old |-> C, lists |-> L, new |-> {}, shared |-> None,
                 takes |-> {}, todo |-> {}, alone |-> A]
  BY <1>1
<1>6. A \in BOOLEAN /\ C \in BuildModule /\ L \in SUBSET Listed
  BY <1>4 DEF BuildModule, Listed
<1> HIDE DEF A, C, L
<1>7. /\ job'[w] \in Job
      /\ job'[w].task = t /\ job'[w].result = r /\ job'[w].stage = "begun"
      /\ job'[w].old = C /\ job'[w].new = {} /\ job'[w].lists = L
      /\ job'[w].shared = None /\ job'[w].takes = {} /\ job'[w].todo = {} /\ job'[w].alone = A
  BY <1>4, <1>5, <1>6 DEF Job, Listed, Result
<1>8. ASSUME NEW v \in Busy
      PROVE  /\ job'[v] \in Job
             /\ job'[v].task = job[v].task /\ job'[v].nr = job[v].nr
             /\ job'[v].result = job[v].result
             /\ job'[v].stage = job[v].stage /\ job'[v].lists = job[v].lists
             /\ job'[v].new = job[v].new /\ job'[v].old = job[v].old /\ SharesAlike(v)
             /\ (job'[v].alone <=> job[v].alone /\ Of(v) # IndexOf[t])
  <2>1. v # w /\ v \in Worker /\ job[v] \in Job
    BY <1>3, MadeType
  <2>2. CASE Of(v) = IndexOf[t]
    <3>1. job'[v] = [job[v] EXCEPT !.alone = FALSE]
      BY <1>1, <2>1, <2>2 DEF Of
    <3> QED
      BY <2>1, <2>2, <3>1 DEF Job, SharesAlike
  <2>3. CASE Of(v) # IndexOf[t]
    <3>1. job'[v] = job[v]
      BY <1>1, <2>1, <2>3 DEF Of
    <3> QED
      BY <2>1, <2>3, <3>1 DEF Job, SharesAlike
  <2> QED
    BY <2>2, <2>3
<1>9. \A v \in Worker : v \notin Busy /\ v # w => job'[v] = None
  BY <1>1 DEF Busy
<1>10. job' = [v \in Worker |-> job'[v]]
  BY <1>1
<1>11. job' \in [Worker -> Job \cup {None}] /\ Busy' = Busy \cup {w}
  <2>1. \A v \in Worker : job'[v] \in Job \cup {None}
    BY <1>7, <1>8, <1>9
  <2>2. job' \in [Worker -> Job \cup {None}]
    BY <1>10, <2>1
  <2>3. \A v \in Busy \cup {w} : job'[v] # None /\ v \in Worker
    BY <1>7, <1>8, TaskPlace, MadeType
  <2> QED
    BY <1>9, <2>2, <2>3 DEF Busy
<1>12. A = \A v \in Busy : Of(v) # IndexOf[t]
  BY DEF A, Of
<1>13. /\ raced \subseteq raced' /\ raced' \subseteq raced \cup {ArchOf[t]}
       /\ (\E v \in Busy : Its(v) = ArchOf[t]) => ArchOf[t] \in raced'
  BY DEF Begin, Its
<1>14. torn \subseteq torn' /\ torn' \subseteq Task /\ (Finished(t) => TasksOf(IndexOf[t]) \subseteq torn')
  BY <1>2 DEF ArtifactsType, TasksOf
<1> QED
  BY <1>2, <1>3, <1>7, <1>8, <1>11, <1>12, <1>13, <1>14 DEF C, L

\* The work on a job, and what it may do
Work ==
    \E w \in Worker : \/ ProcessRpms(w) \/ AddMultilib(w) \/ StoreMultilib(w)
                      \/ UpdateModule(w) \/ ShareNoarch(w)
                      \/ \E u \in Task : PublishNoarch(w, u)
Ended ==
    \E w \in Worker : Commit(w) \/ Raise(w) \/ Crash(w)
Started ==
    \E w \in Worker, t \in Task, nr \in Nat, r \in Result : Begin(w, t, nr, r)
\* What is done to tasks beside the jobs
Aside ==
    \/ \E t \in Task : GetTask(t) \/ \E nr \in 1..attempt[t] : Redeliver(t, nr)
    \/ Restart \/ Cancel

LEMMA NextWork == ArtifactsType /\ Next => Started \/ Work \/ Ended \/ Aside
<1> SUFFICES ASSUME ArtifactsType, Next PROVE Started \/ Work \/ Ended \/ Aside
  OBVIOUS
<1>1. CASE \E w \in Worker, b \in posted, r \in Result : Begin(w, b[1], b[2], r)
  <2>1. \A b \in posted : b[1] \in Task /\ b[2] \in Nat
    BY DEF ArtifactsType
  <2> QED
    BY <1>1, <2>1 DEF Started
<1>2. CASE ~\E w \in Worker, b \in posted, r \in Result : Begin(w, b[1], b[2], r)
  BY <1>2 DEF Next, Work, Ended, Aside
<1> QED
  BY <1>1, <1>2

\* A package of another project's is neither added to a repository nor taken from it
Apart(s) ==
    /\ repo' \in [Arch -> SUBSET Package]
    /\ \A a \in Arch, q \in Package : a # ArchOf[s] \/ IndexOf[q.task] # IndexOf[s] =>
          (q \in repo'[a] <=> q \in repo[a])

LEMMA PutApart ==
    ASSUME ArtifactsType, NEW s \in Task, NEW content, NEW new \in SUBSET Package,
           content \subseteq repo[ArchOf[s]],
           \A q \in repo[ArchOf[s]] : IndexOf[q.task] # IndexOf[s] => q \in content,
           \A q \in new : IndexOf[q.task] = IndexOf[s],
           repo' = [repo EXCEPT ![ArchOf[s]] = Put(content, new)]
    PROVE  /\ Apart(s)
           /\ repo'[ArchOf[s]] = {p \in content : \A q \in new : Nevra(p) # Nevra(q)} \cup new
           /\ \A a \in Arch \ {ArchOf[s]} : repo'[a] = repo[a]
<1>1. ArchOf[s] \in Arch /\ repo[ArchOf[s]] \in SUBSET Package
  BY TaskPlace DEF ArtifactsType
<1>2. /\ repo'[ArchOf[s]] = {p \in content : \A q \in new : Nevra(p) # Nevra(q)} \cup new
      /\ \A a \in Arch \ {ArchOf[s]} : repo'[a] = repo[a]
  BY <1>1 DEF ArtifactsType, Put
<1>3. repo' \in [Arch -> SUBSET Package]
  BY <1>1 DEF ArtifactsType, Put
<1>4. ASSUME NEW q \in Package, IndexOf[q.task] # IndexOf[s]
      PROVE  q \in repo'[ArchOf[s]] <=> q \in repo[ArchOf[s]]
  <2>1. \A p \in new : Nevra(q) # Nevra(p)
    BY <1>4 DEF Nevra
  <2> QED
    BY <1>2, <1>4, <2>1
<1> QED
  BY <1>2, <1>3, <1>4 DEF Apart

\* The task whose repository and project a step of a job is about: nobody
\* else's, when it is not the task of the job itself
LEMMA ProcessedApart ==
    ASSUME ArtifactsType, NEW w \in Worker, ProcessRpms(w)
    PROVE  /\ Apart(job[w].task) /\ PackagesOf(w) \subseteq repo'[Its(w)]
           /\ UNCHANGED modules
<1>1. w \in Busy
  BY DEF ProcessRpms, In
<1>2. /\ job[w].task \in Task /\ PackagesOf(w) \in SUBSET Package
      /\ \A q \in PackagesOf(w) : q.task = job[w].task
  BY <1>1, MadeType
<1>8. PICK s \in Task : s = job[w].task
  BY <1>2
<1> DEFINE content == repo[ArchOf[s]]
           new == PackagesOf(w)
<1>3. /\ repo' = [repo EXCEPT ![ArchOf[s]] = Put(content, new)] /\ UNCHANGED modules
      /\ content \subseteq repo[ArchOf[s]] /\ \A q \in repo[ArchOf[s]] : IndexOf[q.task] # IndexOf[s] => q \in content
      /\ s \in Task /\ new \in SUBSET Package /\ \A q \in new : IndexOf[q.task] = IndexOf[s]
  BY <1>2, <1>8 DEF ProcessRpms
<1> HIDE DEF content, new
<1>4. /\ Apart(s)
      /\ repo'[ArchOf[s]] = {p \in content : \A q \in new : Nevra(p) # Nevra(q)} \cup new
      /\ \A a \in Arch \ {ArchOf[s]} : repo'[a] = repo[a]
  BY <1>3, PutApart
<1> QED
  BY <1>3, <1>4, <1>8 DEF Its, new

LEMMA StoredApart ==
    ASSUME ArtifactsType, OwnInv, StageInv, NEW w \in Worker, StoreMultilib(w)
    PROVE  /\ Apart(job[w].task) /\ job[w].new \subseteq repo'[Its(w)]
           /\ PackagesOf(w) \cap repo[Its(w)] \subseteq repo'[Its(w)]
           /\ UNCHANGED modules
<1>1. w \in Busy /\ job[w].stage = "multilib"
  BY DEF StoreMultilib, In
<1>2. /\ job[w].task \in Task /\ job[w].new \in SUBSET Package
      /\ \A q \in job[w].new : IndexOf[q.task] = Of(w)
      /\ PackagesOf(w) \in SUBSET Package /\ \A q \in PackagesOf(w) : q.task = job[w].task
  BY <1>1, MadeType DEF Job, OwnInv, OwnPackage, Of
<1>8. PICK s \in Task : s = job[w].task
  BY <1>2
<1> DEFINE content == repo[ArchOf[s]]
           new == job[w].new
<1>3. /\ repo' = [repo EXCEPT ![ArchOf[s]] = Put(content, new)] /\ UNCHANGED modules
      /\ content \subseteq repo[ArchOf[s]] /\ \A q \in repo[ArchOf[s]] : IndexOf[q.task] # IndexOf[s] => q \in content
      /\ s \in Task /\ new \in SUBSET Package /\ \A q \in new : IndexOf[q.task] = IndexOf[s]
  BY <1>2, <1>8 DEF StoreMultilib, Of
<1> HIDE DEF content, new
<1>6. /\ Apart(s)
      /\ repo'[ArchOf[s]] = {p \in content : \A q \in new : Nevra(p) # Nevra(q)} \cup new
      /\ \A a \in Arch \ {ArchOf[s]} : repo'[a] = repo[a]
  BY <1>3, PutApart
<1>4. /\ Apart(job[w].task)
      /\ repo'[Its(w)] = {p \in repo[Its(w)] : \A q \in job[w].new : Nevra(p) # Nevra(q)}
                         \cup job[w].new
  BY <1>6, <1>8 DEF Its, content, new
<1>5. ASSUME NEW p \in PackagesOf(w), NEW q \in job[w].new
      PROVE  Nevra(p) # Nevra(q)
  <2>1. ArchOf[p.task] = X86 /\ ~q.noarch /\ ArchOf[q.task] = I686
    BY <1>1, <1>2 DEF StageInv, Staged, Its
  <2>2. q.task \in Task /\ ArchOf[q.task] \in Arch
    BY <1>2, TaskPlace DEF Package
  <2>3. ArchOf[q.task] # ArchOf[p.task] /\ ArchOf[q.task] # "noarch"
    BY <2>1, <2>2, TaskPlace, ArtifactsAssumption
  <2> QED
    BY <2>1, <2>3 DEF Nevra
<1> QED
  BY <1>2, <1>3, <1>4, <1>5

LEMMA PublishedApart ==
    ASSUME ArtifactsType, OwnInv, StageInv, NEW w \in Worker, NEW u \in Task, PublishNoarch(w, u)
    PROVE  /\ Apart(u) /\ job[w].shared \in repo'[ArchOf[u]]
           /\ IndexOf[u] = Of(w) /\ u \in job[w].takes
           /\ job[w].shared \in Package /\ job[w].shared.noarch
           /\ \A q \in repo[ArchOf[u]] : ~q.noarch => q \in repo'[ArchOf[u]]
           /\ \A q \in repo'[ArchOf[u]] : q.noarch /\ IndexOf[q.task] = Of(w) => q = job[w].shared
           /\ \A a \in Arch \ {ArchOf[u]} : repo'[a] = repo[a]
           /\ UNCHANGED modules
<1>1. w \in Busy /\ job[w].stage = "sharing" /\ u \in job[w].todo
  BY DEF PublishNoarch, In
<1>2. u \in job[w].takes /\ job[w].takes \subseteq TasksOf(Of(w)) /\ job[w].shared # None
  BY <1>1 DEF StageInv, Staged
<1>3. /\ job[w].shared \in Package /\ job[w].shared.noarch
      /\ IndexOf[job[w].shared.task] = Of(w) /\ IndexOf[u] = Of(w)
  BY <1>1, <1>2, MadeType DEF StageInv, Staged, Job, TasksOf
<1> DEFINE content == repo[ArchOf[u]] \ OwnNoarch(w, u)
<1>4. repo' = [repo EXCEPT ![ArchOf[u]] = Put(content, {job[w].shared})] /\ UNCHANGED modules
  BY DEF PublishNoarch, RemoveThenAdd
<1>5. \A q \in OwnNoarch(w, u) : q.noarch /\ IndexOf[q.task] = IndexOf[u]
  BY <1>1 DEF OwnNoarch, Noarch, OwnInv, OwnPackage
<1> DEFINE new == {job[w].shared}
<1>9. /\ content \subseteq repo[ArchOf[u]]
      /\ \A q \in repo[ArchOf[u]] : IndexOf[q.task] # IndexOf[u] => q \in content
      /\ new \in SUBSET Package /\ \A q \in new : IndexOf[q.task] = IndexOf[u]
      /\ repo' = [repo EXCEPT ![ArchOf[u]] = Put(content, new)]
  BY <1>3, <1>4, <1>5
<1> HIDE DEF content, new
<1>10. /\ Apart(u)
       /\ repo'[ArchOf[u]] = {p \in content : \A q \in new : Nevra(p) # Nevra(q)} \cup new
       /\ \A a \in Arch \ {ArchOf[u]} : repo'[a] = repo[a]
  BY <1>9, PutApart
<1> USE DEF content, new
<1>6. /\ Apart(u)
      /\ repo'[ArchOf[u]] = {p \in content : Nevra(p) # Nevra(job[w].shared)}
                            \cup {job[w].shared}
      /\ \A a \in Arch \ {ArchOf[u]} : repo'[a] = repo[a]
  BY <1>10
<1> HIDE DEF content
<1>7. \A q \in repo[ArchOf[u]] : ~q.noarch => q \in content /\ Nevra(q) # Nevra(job[w].shared)
  <2> SUFFICES ASSUME NEW q \in repo[ArchOf[u]], ~q.noarch
               PROVE  q \in content /\ Nevra(q) # Nevra(job[w].shared)
    OBVIOUS
  <2>1. q.task \in Task
    BY TaskPlace DEF ArtifactsType, Package
  <2>2. ArchOf[q.task] # "noarch"
    BY <2>1, TaskPlace
  <2> QED
    BY <1>3, <1>5, <2>2 DEF Nevra, content
<1>8. \A q \in content : q.noarch /\ IndexOf[q.task] = Of(w) => Nevra(q) = Nevra(job[w].shared)
  BY <1>3 DEF Nevra
<1> QED
  BY <1>2, <1>3, <1>4, <1>6, <1>7, <1>8

(***************************************************************************)
(* Types and jobs, step by step.                                           *)
(***************************************************************************)
ArtifactsBase == ArtifactsType /\ JobInv /\ OwnInv /\ StageInv

LEMMA InitBase == Init => ArtifactsBase
<1> SUFFICES ASSUME Init PROVE ArtifactsBase
  OBVIOUS
<1>1. Busy = {}
  BY DEF Init, Busy
<1>2. FirstModule \in BuildModule
  BY DEF FirstModule, BuildModule
<1>3. ArtifactsType
  BY <1>2 DEF Init, ArtifactsType, Status
<1>4. JobInv /\ StageInv
  BY <1>1 DEF JobInv, StageInv
<1>5. OwnInv
  BY <1>1 DEF Init, OwnInv
<1> QED
  BY <1>3, <1>4, <1>5 DEF ArtifactsBase

LEMMA WorkBasics ==
    ASSUME ArtifactsBase, NEW w \in Worker,
           \/ ProcessRpms(w) \/ AddMultilib(w) \/ StoreMultilib(w) \/ UpdateModule(w)
           \/ ShareNoarch(w) \/ \E u \in Task : PublishNoarch(w, u)
    PROVE  /\ Keeps(w)
           /\ \/ SharesAlike(w)
              \/ job'[w].shared = job[w].shared /\ job'[w].takes = job[w].takes
                 /\ job'[w].todo \subseteq job[w].todo
              \/ LastOfProject(job[w].task)
           /\ repo' \in [Arch -> SUBSET Package]
           /\ modules' \in [Arch -> SUBSET BuildModule]
<1> USE DEF ArtifactsBase
<1>1. CASE ProcessRpms(w)
  BY <1>1, ProcessedJob, ProcessedApart DEF Apart, ArtifactsType
<1>2. CASE AddMultilib(w)
  <2>1. UNCHANGED <<repo, modules>>
    BY <1>2 DEF AddMultilib
  <2> QED
    BY <1>2, <2>1, AddedJob DEF ArtifactsType
<1>3. CASE StoreMultilib(w)
  BY <1>3, StoredJob, StoredApart DEF Apart, ArtifactsType
<1>4. CASE UpdateModule(w)
  <2>1. UNCHANGED repo
    BY <1>4 DEF UpdateModule
  <2>2. /\ Keeps(w) /\ SharesAlike(w) /\ Written(w) \in BuildModule
        /\ modules' = [modules EXCEPT ![Its(w)] = (@ \ {job[w].old}) \cup {Written(w)}]
    BY <1>4, UpdatedJob
  <2>3. modules' \in [Arch -> SUBSET BuildModule]
    BY <2>2 DEF ArtifactsType
  <2> QED
    BY <2>1, <2>2, <2>3 DEF ArtifactsType
<1>5. CASE ShareNoarch(w)
  <2>1. UNCHANGED <<repo, modules>>
    BY <1>5 DEF ShareNoarch
  <2>2. Keeps(w) /\ (SharesAlike(w) \/ LastOfProject(job[w].task))
    BY <1>5, SharedJob
  <2> QED
    BY <2>1, <2>2 DEF ArtifactsType
<1>6. CASE \E u \in Task : PublishNoarch(w, u)
  <2>1. PICK u \in Task : PublishNoarch(w, u)
    BY <1>6
  <2>2. Apart(u) /\ UNCHANGED modules
    BY <2>1, PublishedApart
  <2>3. /\ Keeps(w) /\ job'[w].shared = job[w].shared /\ job'[w].takes = job[w].takes
        /\ job'[w].todo = job[w].todo \ {u}
    BY <2>1, PublishedJob
  <2> QED
    BY <2>2, <2>3 DEF Apart, ArtifactsType
<1> QED
  BY <1>1, <1>2, <1>3, <1>4, <1>5, <1>6

LEMMA WorkType ==
    ASSUME ArtifactsBase, NEW w \in Worker, Keeps(w), repo' \in [Arch -> SUBSET Package],
           modules' \in [Arch -> SUBSET BuildModule]
    PROVE  ArtifactsType'
  BY DEF ArtifactsBase, ArtifactsType, Keeps, progress, history

LEMMA WorkJobInv ==
    ASSUME ArtifactsBase, NEW w \in Worker, Keeps(w),
           job'[w].shared = job[w].shared \/ LastOfProject(job[w].task)
    PROVE  JobInv'
<1>1. /\ w \in Busy /\ Busy' = Busy /\ \A v \in Busy \ {w} : job'[v] = job[v]
      /\ job'[w].task = job[w].task /\ job'[w].alone = job[w].alone
      /\ status' = status /\ torn' = torn
  BY DEF Keeps, progress, history, Busy
<1>2. \A v \in Busy : job'[v].task = job[v].task /\ job'[v].alone = job[v].alone
  BY <1>1
<1>3. ASSUME NEW v \in Busy, v # w, Of(v) = Of(w)
      PROVE  job'[w].shared = job[w].shared \/ Torn(Of(w))
  <2>1. /\ job[v].task \in Task /\ job[v].task # job[w].task
        /\ Finished(job[v].task) => Torn(Of(v))
    BY <1>1, <1>3, MadeType DEF ArtifactsBase, JobInv, Rightly, Beside
  <2>2. LastOfProject(job[w].task) => Finished(job[v].task)
    BY <1>3, <2>1 DEF LastOfProject, TasksOf, Of
  <2> QED
    BY <1>3, <2>1, <2>2
<1>6. \A i : Torn(i)' <=> Torn(i)
  BY <1>1 DEF Torn, TasksOf
<1>4. \A v \in Busy : Rightly(v)'
  BY <1>1, <1>2, <1>6 DEF ArtifactsBase, JobInv, Rightly, Finished, Of
<1>5. ASSUME NEW v \in Busy, NEW x \in Busy, v # x
      PROVE  Beside(v, x)'
  BY <1>1, <1>2, <1>3, <1>5, <1>6 DEF ArtifactsBase, JobInv, Beside, Of
<1> QED
  BY <1>1, <1>4, <1>5 DEF JobInv

\* Of the jobs that are not in the step
LEMMA WorkStageOthers ==
    ASSUME ArtifactsBase, NEW w \in Worker, Keeps(w), NEW v \in Busy, v # w
    PROVE  /\ job'[v] = job[v] /\ (Wrote(v) => PackagesOf(v)' \subseteq job[v].new)
           /\ torn' = torn /\ \A u \in job[v].takes \ torn : Takes(v, u)'
<1>1. job'[v] = job[v] /\ status' = status /\ torn' = torn /\ v \in Worker
  BY DEF Keeps, progress, history, Busy
<1>2. PackagesOf(v)' = PackagesOf(v) /\ \A u : Takes(v, u)' = Takes(v, u)
  BY <1>1 DEF PackagesOf, Takes
<1> QED
  BY <1>1, <1>2 DEF ArtifactsBase, StageInv, Staged

LEMMA WorkOwnInv ==
    ASSUME ArtifactsBase, NEW w \in Worker, Keeps(w),
           \A q \in job'[w].new : OwnPackage(job[w].task, q)
    PROVE  OwnInv'
<1>1. /\ w \in Busy /\ Busy' = Busy /\ \A v \in Busy \ {w} : job'[v] = job[v]
      /\ job'[w].task = job[w].task /\ rows' = rows
  BY DEF Keeps, Busy
<1> QED
  BY <1>1 DEF ArtifactsBase, OwnInv, OwnPackage

LEMMA WorkStageInv ==
    ASSUME ArtifactsBase, NEW w \in Worker, Keeps(w), Staged(w)'
    PROVE  StageInv'
<1> SUFFICES ASSUME NEW v \in Busy, v # w
             PROVE  Staged(v)'
  BY DEF StageInv, Keeps
<1>1. /\ job'[v] = job[v] /\ (Wrote(v) => PackagesOf(v)' \subseteq job[v].new)
      /\ torn' = torn /\ \A u \in job[v].takes \ torn : Takes(v, u)'
  BY WorkStageOthers
<1>2. Wrote(v)' = Wrote(v) /\ Of(v)' = Of(v) /\ Its(v)' = Its(v)
  BY <1>1 DEF Wrote, Of, Its
<1> QED
  BY <1>1, <1>2 DEF ArtifactsBase, StageInv, Staged

\* Of the job that is in the step: what stays with its task and its shared packages
LEMMA WorkStaged ==
    ASSUME ArtifactsBase, NEW w \in Worker, Keeps(w)
    PROVE  /\ Of(w)' = Of(w) /\ Its(w)' = Its(w) /\ PackagesOf(w)' = PackagesOf(w)
           /\ \A u : Takes(w, u)' = Takes(w, u)
           /\ Staged(w) /\ torn' = torn
           /\ Wrote(w)' <=> job'[w].stage \in {"listed", "sharing"}
<1>1. /\ job'[w].task = job[w].task /\ job'[w].result = job[w].result
      /\ job'[w].nr = job[w].nr
      /\ status' = status /\ torn' = torn /\ w \in Busy
  BY DEF Keeps, progress, history
<1> QED
  BY <1>1 DEF Of, Its, PackagesOf, Takes, Wrote, ArtifactsBase, StageInv

LEMMA WorkJobs ==
    ASSUME ArtifactsBase, NEW w \in Worker,
           \/ ProcessRpms(w) \/ AddMultilib(w) \/ StoreMultilib(w) \/ UpdateModule(w)
           \/ ShareNoarch(w) \/ \E u \in Task : PublishNoarch(w, u)
    PROVE  OwnInv' /\ StageInv'
<1>1. Keeps(w)
  BY WorkBasics
<1>2. /\ w \in Busy /\ Staged(w) /\ Of(w)' = Of(w) /\ Its(w)' = Its(w)
      /\ PackagesOf(w)' = PackagesOf(w) /\ \A u : Takes(w, u)' = Takes(w, u)
      /\ torn' = torn
      /\ (Wrote(w)' <=> job'[w].stage \in {"listed", "sharing"})
      /\ job'[w].result = job[w].result /\ job'[w].task = job[w].task
  BY <1>1, WorkStaged DEF Keeps
<1>3. /\ \A q \in job[w].new : OwnPackage(job[w].task, q)
      /\ job[w] \in Job /\ job[w].task \in Task /\ job[w].result \in Result
      /\ PackagesOf(w) \subseteq Package /\ \A q \in PackagesOf(w) : q.task = job[w].task
      /\ job[w].result # "COMPLETED" => PackagesOf(w) = {}
  BY <1>2, MadeType DEF ArtifactsBase, OwnInv, Job
<1>4. CASE ProcessRpms(w)
  <2>1. /\ job[w].stage = "begun" /\ job'[w].stage = "stored"
        /\ job'[w].new = job[w].new /\ SharesAlike(w)
    BY <1>4, ProcessedJob DEF ArtifactsBase
  <2>2. Staged(w)'
    BY <1>2, <2>1 DEF Staged, SharesAlike
  <2> QED
    BY <1>1, <1>3, <2>1, <2>2, WorkOwnInv, WorkStageInv
<1>5. CASE AddMultilib(w)
  <2>1. /\ job[w].stage = "stored" /\ job'[w].stage = "multilib" /\ SharesAlike(w)
        /\ job[w].result = "COMPLETED" /\ job'[w].new = MultilibOf(job[w].task)
    BY <1>5, AddedJob DEF ArtifactsBase
  <2>2. ASSUME NEW q \in job'[w].new
        PROVE  /\ ~q.noarch /\ OwnPackage(job[w].task, q)
               /\ ArchOf[q.task] = I686 /\ Its(w) = X86
    <3>1. PICK u \in I686Tasks(job[w].task) : q \in rows[u]
      BY <1>3, <2>1, MultilibType DEF ArtifactsBase
    <3>2. /\ ~q.noarch /\ u \in Task /\ IndexOf[u] = Of(w) /\ Its(w) = X86 /\ ArchOf[u] = I686
      BY <1>3, <2>1, <3>1, MultilibType DEF ArtifactsBase, I686Tasks, TasksOf, Of, Its
    <3>3. OwnPackage(u, q)
      BY <3>1, <3>2 DEF ArtifactsBase, OwnInv
    <3>4. q.task = u
      BY <3>2, <3>3, ArtifactsAssumption DEF OwnPackage
    <3> QED
      BY <3>2, <3>4 DEF OwnPackage, Of, Its
  <2>3. Staged(w)'
    <3>1. Its(w)' = X86 \/ job'[w].new = {}
      BY <1>2, <2>2
    <3>2. Its(w) = X86
      <4>1. MultilibOf(job[w].task) # {}
        BY <1>5 DEF AddMultilib, Extra
      <4> QED
        BY <2>1, <2>2, <4>1
    <3> QED
      BY <1>2, <2>1, <2>2, <3>2 DEF Staged, SharesAlike
  <2> QED
    BY <1>1, <2>2, <2>3, WorkOwnInv, WorkStageInv
<1>6. CASE StoreMultilib(w)
  <2>1. /\ job[w].stage = "multilib" /\ job'[w].stage = "complete"
        /\ job'[w].new = job[w].new /\ SharesAlike(w)
    BY <1>6, StoredJob DEF ArtifactsBase
  <2>2. Staged(w)'
    BY <1>2, <2>1 DEF Staged, SharesAlike
  <2> QED
    BY <1>1, <1>3, <2>1, <2>2, WorkOwnInv, WorkStageInv
<1>7. CASE UpdateModule(w)
  <2>1. /\ job[w].stage \in {"complete", "stored"} /\ job'[w].stage = "listed"
        /\ job'[w].new = job[w].new \cup PackagesOf(w) /\ SharesAlike(w)
    BY <1>7, UpdatedJob DEF ArtifactsBase
  <2>2. \A q \in PackagesOf(w) : OwnPackage(job[w].task, q)
    BY <1>3 DEF OwnPackage
  <2>3. job[w].result = "FAILED" => job'[w].new = {}
    BY <1>2, <1>3, <2>1 DEF Staged
  <2>4. Staged(w)'
    BY <1>2, <2>1, <2>3 DEF Staged, SharesAlike
  <2>5. \A q \in job'[w].new : OwnPackage(job[w].task, q)
    BY <1>3, <2>1, <2>2
  <2> QED
    BY <1>1, <2>4, <2>5, WorkOwnInv, WorkStageInv
<1>8. CASE ShareNoarch(w)
  <2>1. /\ job[w].stage = "listed" /\ job'[w].stage = "sharing"
        /\ job'[w].new = job[w].new
        /\ \/ /\ job'[w].takes = {u \in TasksOf(Of(w)) : Takes(w, u)}
              /\ job'[w].todo = job'[w].takes
              /\ job'[w].shared # None /\ job'[w].shared.noarch
              /\ \E u \in TasksOf(Of(w)) :
                    job'[w].shared \in (IF u = job[w].task THEN rows[u] \cup job[w].new
                                        ELSE rows[u])
           \/ SharesAlike(w)
    BY <1>8, SharedJob DEF ArtifactsBase
  <2>2. Wrote(w)
    BY <2>1 DEF Wrote
  <2>3. CASE SharesAlike(w)
    <3>1. Staged(w)'
      BY <1>2, <2>1, <2>2, <2>3 DEF Staged, SharesAlike
    <3> QED
      BY <1>1, <1>3, <2>1, <3>1, WorkOwnInv, WorkStageInv
  <2>4. CASE ~SharesAlike(w)
    <3>1. PICK u \in TasksOf(Of(w)) :
             job'[w].shared \in (IF u = job[w].task THEN rows[u] \cup job[w].new ELSE rows[u])
      BY <2>1, <2>4
    <3>2. u \in Task /\ IndexOf[u] = Of(w)
      BY DEF TasksOf
    <3>3. IndexOf[job'[w].shared.task] = Of(w)
      <4>1. CASE job'[w].shared \in rows[u]
        BY <3>2, <4>1 DEF ArtifactsBase, OwnInv, OwnPackage
      <4>2. CASE job'[w].shared \in job[w].new
        BY <1>3, <4>2 DEF OwnPackage, Of
      <4> QED
        BY <3>1, <4>1, <4>2
    <3>4. Staged(w)'
      BY <1>2, <2>1, <2>2, <2>4, <3>3 DEF Staged
    <3> QED
      BY <1>1, <1>3, <2>1, <3>4, WorkOwnInv, WorkStageInv
  <2> QED
    BY <2>3, <2>4
<1>9. CASE \E u \in Task : PublishNoarch(w, u)
  <2>1. PICK u \in Task : PublishNoarch(w, u)
    BY <1>9
  <2>2. /\ job[w].stage = "sharing" /\ job'[w].stage = "sharing"
        /\ job'[w].todo = job[w].todo \ {u} /\ job'[w].takes = job[w].takes
        /\ job'[w].shared = job[w].shared /\ job'[w].new = job[w].new
    BY <2>1, PublishedJob DEF ArtifactsBase
  <2>3. Wrote(w)
    BY <2>2 DEF Wrote
  <2>4. Staged(w)'
    BY <1>2, <2>2, <2>3 DEF Staged
  <2> QED
    BY <1>1, <1>3, <2>2, <2>4, WorkOwnInv, WorkStageInv
<1> QED
  BY <1>4, <1>5, <1>6, <1>7, <1>8, <1>9

LEMMA WorkBase == ArtifactsBase /\ Work => ArtifactsBase'
<1> SUFFICES ASSUME ArtifactsBase, NEW w \in Worker,
                    \/ ProcessRpms(w) \/ AddMultilib(w) \/ StoreMultilib(w) \/ UpdateModule(w)
                    \/ ShareNoarch(w) \/ \E u \in Task : PublishNoarch(w, u)
             PROVE  ArtifactsBase'
  BY DEF Work
<1>1. /\ Keeps(w)
      /\ \/ SharesAlike(w)
         \/ job'[w].shared = job[w].shared /\ job'[w].takes = job[w].takes
            /\ job'[w].todo \subseteq job[w].todo
         \/ LastOfProject(job[w].task)
      /\ repo' \in [Arch -> SUBSET Package]
      /\ modules' \in [Arch -> SUBSET BuildModule]
  BY WorkBasics
<1>2. ArtifactsType' /\ JobInv'
  BY <1>1, WorkType, WorkJobInv DEF SharesAlike
<1>3. OwnInv' /\ StageInv'
  BY WorkJobs
<1> QED
  BY <1>2, <1>3 DEF ArtifactsBase

\* What no step does to another's job
Untouched(v) ==
    /\ job'[v].task = job[v].task /\ job'[v].nr = job[v].nr /\ job'[v].result = job[v].result
    /\ job'[v].stage = job[v].stage /\ job'[v].lists = job[v].lists
    /\ job'[v].new = job[v].new /\ job'[v].old = job[v].old /\ SharesAlike(v)
    /\ status'[job[v].task] = status[job[v].task]

\* Completed and cancelled tasks stay so until they are processed again
Takable == {"COMPLETED", "CANCELLED"}
StaysTaken ==
    /\ torn \subseteq torn'
    /\ \A u \in Task \ torn : status[u] \in Takable => status'[u] = status[u]

LEMMA UntouchedStaged ==
    ASSUME ArtifactsBase, NEW v \in Busy, Untouched(v), StaysTaken
    PROVE  /\ Staged(v)' /\ PackagesOf(v)' = PackagesOf(v)
           /\ Of(v)' = Of(v) /\ Its(v)' = Its(v) /\ (Wrote(v)' <=> Wrote(v))
<1>1. PackagesOf(v)' = PackagesOf(v) /\ Of(v)' = Of(v) /\ Its(v)' = Its(v) /\ (Wrote(v)' <=> Wrote(v))
  BY DEF Untouched, PackagesOf, Of, Its, Wrote
<1>2. Staged(v)
  BY DEF ArtifactsBase, StageInv
<1>3. ASSUME NEW u \in job[v].takes \ torn'
      PROVE  Takes(v, u)'
  <2>1. u \in Task \ torn /\ Takes(v, u)
    BY <1>2, MadeType DEF ArtifactsBase, Job, Staged, StaysTaken
  <2> QED
    BY <2>1 DEF Takes, Untouched, StaysTaken, Takable
<1> QED
  BY <1>1, <1>2, <1>3 DEF Untouched, SharesAlike, Staged

LEMMA StartedOthers ==
    ASSUME ArtifactsBase, NEW w \in Worker, NEW t \in Task, NEW nr \in Nat, NEW r \in Result,
           Begin(w, t, nr, r)
    PROVE  StaysTaken /\ \A v \in Busy : Untouched(v)
  BY BegunJob DEF ArtifactsBase, Untouched, StaysTaken

\* What the jobs that are not in a step keep
LEMMA OtherJobs ==
    ASSUME ArtifactsBase, StaysTaken, NEW S \in SUBSET Busy, \A v \in S : Untouched(v),
           \A v \in S : job'[v].alone => job[v].alone
    PROVE  (\A v \in S : Rightly(v)') /\ (\A v, x \in S : v # x => Beside(v, x)')
<1>1. \A i : Torn(i) => Torn(i)'
  BY DEF Torn, StaysTaken, TasksOf
<1>2. ASSUME NEW v \in S
      PROVE  Rightly(v)'
  BY <1>1 DEF Untouched, Finished, ArtifactsBase, JobInv, Rightly, Of
<1>3. ASSUME NEW v \in S, NEW x \in S, v # x
      PROVE  Beside(v, x)'
  BY <1>1, <1>3 DEF Untouched, SharesAlike, ArtifactsBase, JobInv, Beside, Of
<1> QED
  BY <1>2, <1>3

LEMMA StartedBase == ArtifactsBase /\ Started => ArtifactsBase'
<1> SUFFICES ASSUME ArtifactsBase, NEW w \in Worker, NEW t \in Task, NEW nr \in Nat,
                    NEW r \in Result, Begin(w, t, nr, r)
             PROVE  ArtifactsBase'
  BY DEF Started
<1>1. /\ job' \in [Worker -> Job \cup {None}]
      /\ w \notin Busy /\ Busy' = Busy \cup {w}
      /\ \A v \in Busy : job[v].task # t
      /\ job'[w].task = t /\ job'[w].result = r /\ job'[w].stage = "begun"
      /\ job'[w].new = {}
      /\ job'[w].shared = None /\ job'[w].takes = {} /\ job'[w].todo = {}
      /\ (job'[w].alone <=> \A v \in Busy : Of(v) # IndexOf[t])
      /\ UNCHANGED <<status, rows, repo, modules, current, cut>>
      /\ UNCHANGED <<ordered, sourced, attempt, restarts, faults>> /\ posted' \subseteq posted
      /\ torn' \subseteq Task
      /\ Finished(t) => TasksOf(IndexOf[t]) \subseteq torn'
      /\ raced' \subseteq raced \cup {ArchOf[t]}
      /\ \A v \in Busy : (job'[v].alone <=> job[v].alone /\ Of(v) # IndexOf[t])
  BY BegunJob DEF ArtifactsBase
<1>2. StaysTaken /\ \A v \in Busy : Untouched(v)
  BY StartedOthers
<1>3. ArtifactsType'
  BY <1>1, TaskPlace DEF ArtifactsBase, ArtifactsType
<1>8. (\A v \in Busy : Rightly(v)') /\ (\A v, x \in Busy : v # x => Beside(v, x)')
  BY <1>1, <1>2, OtherJobs
<1>4. JobInv'
  <2>1. \A v \in Busy' : Rightly(v)'
    BY <1>1, <1>8 DEF Rightly, Torn, Finished, TasksOf, Of
  <2>2. ASSUME NEW v \in Busy', NEW x \in Busy', v # x
        PROVE  Beside(v, x)'
    <3>1. CASE x = w
      BY <1>1, <1>2, <2>2, <3>1 DEF Untouched, Of, Beside
    <3>2. CASE v = w
      BY <1>1, <1>2, <2>2, <3>2 DEF Untouched, Of, Beside
    <3>3. CASE v # w /\ x # w
      BY <1>1, <1>8, <2>2, <3>3
    <3> QED
      BY <3>1, <3>2, <3>3
  <2> QED
    BY <2>1, <2>2 DEF JobInv
<1>5. OwnInv'
  BY <1>1, <1>2 DEF ArtifactsBase, OwnInv, OwnPackage, Untouched
<1>6. Staged(w)'
  BY <1>1 DEF Staged, Wrote
<1>7. StageInv'
  BY <1>1, <1>2, <1>6, UntouchedStaged DEF StageInv
<1> QED
  BY <1>3, <1>4, <1>5, <1>7 DEF ArtifactsBase

\* Tasks that a step fails beside the one it is about: those of fast_fail
Failing(w, u) ==
    /\ Of(w) = IndexOf[u] /\ status[u] = "IDLE" /\ status'[u] = "FAILED"
    /\ {IndexOf[u], ArchOf[u]} \subseteq cut'

\* The end of a job, whatever it was
LEMMA EndedOthers ==
    ASSUME ArtifactsBase, NEW w \in Worker, Commit(w) \/ Raise(w) \/ Crash(w)
    PROVE  /\ w \in Busy /\ job' \in [Worker -> Job \cup {None}] /\ Busy' = Busy \ {w}
           /\ \A v \in Busy' : v \in Busy /\ v # w /\ job'[v] = job[v] /\ Untouched(v)
           /\ StaysTaken
           /\ \A u \in Task \ {job[w].task} : status'[u] = status[u] \/ Failing(w, u)
           /\ Crash(w) => status' = status
           /\ Raise(w) => status'[job[w].task] = "FAILED"
           /\ Commit(w) => status'[job[w].task] = job[w].result
           /\ UNCHANGED <<repo, modules, ordered, attempt, posted, restarts>>
           /\ status' \in [Task -> Status] /\ sourced' \subseteq Index
           /\ faults' \in Nat
<1>1. w \in Busy
  BY DEF Commit, Raise, Crash, In
<1>2. job' = [job EXCEPT ![w] = None]
  BY DEF Commit, Raise, Crash, Write
<1>3. /\ job' \in [Worker -> Job \cup {None}] /\ Busy' = Busy \ {w}
      /\ \A v \in Busy' : v \in Busy /\ v # w /\ job'[v] = job[v]
  BY <1>1, <1>2, EndedJob DEF ArtifactsBase
<1>4. /\ job[w].task \in Task /\ job[w].result \in Result
      /\ Finished(job[w].task) => Torn(Of(w))
      /\ Of(w) \in Index /\ Of(w) = IndexOf[job[w].task] /\ faults \in Nat
  BY <1>1, MadeType DEF ArtifactsBase, ArtifactsType, Job, JobInv, Rightly, Of
<1> DEFINE F == {u \in Task : status'[u] # status[u] /\ u # job[w].task}
<1>9. /\ Crash(w) => status' = status
      /\ Raise(w) => status'[job[w].task] = "FAILED"
      /\ Commit(w) => status'[job[w].task] = job[w].result
  BY <1>4 DEF Commit, Raise, Crash
<1>5. /\ status' \in [Task -> Status]
      /\ \A u \in F : Failing(w, u)
      /\ Free(F)
      /\ torn \subseteq torn' /\ faults' \in Nat /\ sourced' \subseteq Index
  <2>1. CASE Commit(w)
    <3>1. PICK source \in BOOLEAN :
            LET i == Of(w)
                failing == IF source \/ i \in sourced THEN {} ELSE Idle(TasksOf(i) \ {job[w].task})
            IN  /\ Free(failing)
                /\ status' = [u \in Task |-> IF u = job[w].task THEN job[w].result
                                             ELSE IF u \in failing THEN "FAILED" ELSE status[u]]
                /\ sourced' = IF source THEN sourced \cup {i} ELSE sourced
                /\ Places(failing) \subseteq cut'
      BY <2>1 DEF Commit, Of
    <3> DEFINE failing == IF source \/ Of(w) \in sourced THEN {}
                          ELSE Idle(TasksOf(Of(w)) \ {job[w].task})
    <3>2. /\ Free(failing) /\ Places(failing) \subseteq cut'
          /\ status' = [u \in Task |-> IF u = job[w].task THEN job[w].result
                                       ELSE IF u \in failing THEN "FAILED" ELSE status[u]]
      BY <3>1
    <3>3. sourced' \subseteq Index
      BY <1>4, <3>1 DEF ArtifactsBase, ArtifactsType
    <3>4. \A u \in failing : u \in Task /\ IndexOf[u] = Of(w) /\ status[u] = "IDLE"
      BY DEF Idle, TasksOf
    <3> HIDE DEF failing
    <3>5. F \subseteq failing
      BY <3>2
    <3>6. \A u \in F : Failing(w, u)
      BY <3>2, <3>4, <3>5 DEF Failing, Places
    <3>7. Free(F)
      BY <3>2, <3>5 DEF Free
    <3>8. \A u \in Task : status'[u] \in Status
      BY <1>4, <3>2 DEF ArtifactsBase, ArtifactsType, Status, Result
    <3>9. status' \in [Task -> Status]
      BY <3>2, <3>8
    <3>10. torn' = torn /\ faults' = faults
      BY <2>1 DEF Commit
    <3> QED
      BY <3>3, <3>6, <3>7, <3>9, <3>10 DEF ArtifactsBase, ArtifactsType
  <2>2. CASE Raise(w)
    <3> DEFINE others == TasksOf(Of(w)) \ {job[w].task}
               failing == IF Idle(others) = others THEN others ELSE {}
    <3>1. /\ Free(failing) /\ Places(failing) \subseteq cut' /\ torn \subseteq torn'
          /\ faults' = faults + 1 /\ sourced' = sourced
          /\ status' = [u \in Task |-> IF u \in {job[w].task} \cup failing THEN "FAILED" ELSE status[u]]
      BY <2>2 DEF Raise, Of, Places
    <3>2. \A u \in failing : u \in Task /\ IndexOf[u] = Of(w) /\ status[u] = "IDLE"
      BY DEF Idle, TasksOf
    <3> HIDE DEF failing
    <3>3. F \subseteq failing
      BY <3>1
    <3>4. \A u \in F : Failing(w, u)
      BY <3>1, <3>2, <3>3 DEF Failing, Places
    <3>5. Free(F)
      BY <3>1, <3>3 DEF Free
    <3>6. \A u \in Task : status'[u] \in Status
      BY <3>1 DEF ArtifactsBase, ArtifactsType, Status
    <3>7. status' \in [Task -> Status] /\ faults' \in Nat /\ sourced' \subseteq Index
      BY <1>4, <3>1, <3>6 DEF ArtifactsBase, ArtifactsType
    <3> QED
      BY <3>1, <3>4, <3>5, <3>7
  <2>3. CASE Crash(w)
    BY <2>3 DEF Crash, ArtifactsBase, ArtifactsType, Free
  <2> QED
    BY <2>1, <2>2, <2>3
<1>6. StaysTaken
  BY <1>4, <1>5 DEF StaysTaken, Failing, Takable, Finished, Torn, TasksOf
<1>7. \A v \in Busy' : Untouched(v)
  <2> SUFFICES ASSUME NEW v \in Busy' PROVE Untouched(v)
    OBVIOUS
  <2>1. job[v].task \in Task /\ job[v].task # job[w].task /\ job'[v] = job[v] /\ v \in Busy
    BY <1>1, <1>3, MadeType DEF ArtifactsBase, JobInv, Beside
  <2>2. status'[job[v].task] = status[job[v].task]
    BY <1>5, <2>1 DEF Free
  <2> QED
    BY <2>1, <2>2 DEF Untouched, SharesAlike
<1>8. UNCHANGED <<repo, modules, ordered, attempt, posted, restarts>>
  BY DEF Commit, Raise, Crash
<1> QED
  BY <1>1, <1>3, <1>5, <1>6, <1>7, <1>8, <1>9

\* What a job writes when it ends, unless the worker dies
LEMMA WrittenRows ==
    ASSUME ArtifactsBase, NEW w \in Worker, Commit(w) \/ Raise(w)
    PROVE  /\ rows' = RowsIn(w) /\ rows' \in [Task -> SUBSET Package]
           /\ current' \in [Arch -> BuildModule]
           /\ current' = IF Wrote(w) THEN [current EXCEPT ![Its(w)] = job[w].old] ELSE current
           /\ UNCHANGED raced
<1>1. w \in Busy
  BY EndedOthers
<1>2. /\ rows' = RowsIn(w)
      /\ current' = IF Wrote(w) THEN [current EXCEPT ![Its(w)] = job[w].old] ELSE current
      /\ UNCHANGED raced
  BY DEF Commit, Raise, Write, Its
<1>3. Its(w) \in Arch /\ job[w].old \in BuildModule
  BY <1>1, MadeType DEF ArtifactsBase, Job
<1>4. current' \in [Arch -> BuildModule]
  BY <1>2, <1>3 DEF ArtifactsBase, ArtifactsType
<1> QED
  BY <1>1, <1>2, <1>4, RowsInLemma DEF ArtifactsBase

LEMMA EndedBase == ArtifactsBase /\ Ended => ArtifactsBase'
<1> SUFFICES ASSUME ArtifactsBase, NEW w \in Worker, Commit(w) \/ Raise(w) \/ Crash(w)
             PROVE  ArtifactsBase'
  BY DEF Ended
<1>1. /\ w \in Busy /\ job' \in [Worker -> Job \cup {None}] /\ Busy' = Busy \ {w}
      /\ \A v \in Busy' : v \in Busy /\ v # w /\ job'[v] = job[v] /\ Untouched(v)
      /\ StaysTaken
      /\ UNCHANGED <<repo, modules, ordered, attempt, posted, restarts>>
      /\ status' \in [Task -> Status] /\ sourced' \subseteq Index /\ faults' \in Nat
  BY EndedOthers
<1>2. /\ job[w].task \in Task /\ Of(w) \in Index /\ Its(w) \in Arch
      /\ job[w].takes \subseteq Task
  BY <1>1, MadeType DEF ArtifactsBase, Job
<1>3. /\ rows' \in [Task -> SUBSET Package] /\ current' \in [Arch -> BuildModule]
      /\ rows' = rows \/ rows' = RowsIn(w)
  <2>1. CASE Crash(w)
    BY <2>1 DEF Crash, ArtifactsBase, ArtifactsType
  <2>2. CASE Commit(w) \/ Raise(w)
    BY <2>2, WrittenRows
  <2> QED
    BY <2>1, <2>2
<1>4. raced' \subseteq Arch /\ cut' \subseteq Arch \cup Index /\ torn' \subseteq Task
  <2>0. \A ts \in SUBSET Task : Places(ts) \subseteq Arch \cup Index
    BY TaskPlace DEF Places
  <2>1. CASE Commit(w)
    <3>1. \E ts \in SUBSET Task : cut' \subseteq cut \cup {Of(w)} \cup Places(ts)
      BY <2>1 DEF Commit, Of, Idle, TasksOf
    <3>2. raced' = raced /\ torn' = torn
      BY <2>1 DEF Commit
    <3> QED
      BY <1>2, <2>0, <3>1, <3>2 DEF ArtifactsBase, ArtifactsType
  <2>2. CASE Raise(w)
    <3>1. \E ts \in SUBSET Task : cut' = cut \cup Places(ts)
      BY <1>2, <2>2 DEF Raise, TasksOf
    <3>2. raced' = raced /\ torn' = torn \cup {job[w].task} \cup job[w].takes
      BY <2>2 DEF Raise
    <3> QED
      BY <1>2, <2>0, <3>1, <3>2 DEF ArtifactsBase, ArtifactsType
  <2>3. CASE Crash(w)
    BY <1>2, <2>3 DEF Crash, ArtifactsBase, ArtifactsType, Its, TasksOf
  <2> QED
    BY <2>1, <2>2, <2>3
<1>5. ArtifactsType'
  BY <1>1, <1>3, <1>4 DEF ArtifactsBase, ArtifactsType
<1>6. JobInv'
  <2>1. \A v \in Busy' : job'[v].alone => job[v].alone
    BY <1>1
  <2>2. Busy' \in SUBSET Busy
    BY <1>1
  <2> QED
    BY <1>1, <2>1, <2>2, OtherJobs DEF JobInv
<1>7. StageInv'
  BY <1>1, UntouchedStaged DEF StageInv
<1>8. ASSUME NEW t \in Task, NEW q \in rows'[t]
      PROVE  OwnPackage(t, q)
  <2>1. CASE rows' = rows
    BY <2>1 DEF ArtifactsBase, OwnInv
  <2>2. CASE rows' = RowsIn(w) /\ t \in job[w].takes
    <3>1. /\ q \in rows[t] \/ (t = job[w].task /\ q \in job[w].new) \/ q = job[w].shared
          /\ job[w].shared # None
      BY <1>1, <1>8, <2>2, RowsInLemma, TaskPlace DEF ArtifactsBase
    <3>2. /\ job[w].shared.noarch /\ IndexOf[job[w].shared.task] = Of(w)
          /\ IndexOf[t] = Of(w)
      BY <1>1, <2>2, <3>1 DEF ArtifactsBase, StageInv, Staged, TasksOf
    <3> QED
      BY <1>1, <3>1, <3>2 DEF ArtifactsBase, OwnInv, OwnPackage
  <2>3. CASE rows' = RowsIn(w) /\ t \notin job[w].takes
    <3>0. RowsIn(w)[t] = IF t = job[w].task THEN rows[t] \cup job[w].new ELSE rows[t]
      BY <1>1, <2>3, RowsInLemma DEF ArtifactsBase
    <3>1. q \in rows[t] \/ (t = job[w].task /\ q \in job[w].new)
      BY <1>8, <2>3, <3>0
    <3> QED
      BY <1>1, <3>1 DEF ArtifactsBase, OwnInv
  <2> QED
    BY <1>3, <2>1, <2>2, <2>3
<1>9. OwnInv'
  BY <1>1, <1>8 DEF ArtifactsBase, OwnInv, OwnPackage, Untouched
<1> QED
  BY <1>5, <1>6, <1>7, <1>9 DEF ArtifactsBase

\* Neither do nodes, restarts and cancels touch jobs; what they finish is cut
Settles ==
    /\ cut \subseteq cut'
    /\ \A t \in Task : /\ status'[t] = "COMPLETED" => status[t] = "COMPLETED"
                       /\ status[t] \in Takable => status'[t] \in Takable
                       /\ Finished(t)' => Finished(t) \/ {IndexOf[t], ArchOf[t]} \subseteq cut'

\* What a step beside the jobs does to the tasks it is about
AsideStep ==
    /\ \A t \in Task : status'[t] = status[t] \/ (Free({t}) /\ status[t] \notin Takable)
    /\ status' \in [Task -> Status] /\ Settles /\ cut' \subseteq Arch \cup Index
    /\ ordered' \subseteq Task /\ sourced' \subseteq Index /\ attempt' \in [Task -> Nat]
    /\ posted' \subseteq Task \X Nat /\ restarts' \in Nat /\ faults' \in Nat

LEMMA HandedOut == ASSUME ArtifactsBase, NEW t \in Task, GetTask(t) PROVE AsideStep
<1>1. /\ status[t] \in {"IDLE", "STARTED"} /\ Free({t}) /\ status' = [status EXCEPT ![t] = "STARTED"]
      /\ attempt' = [attempt EXCEPT ![t] = @ + 1] /\ posted' = posted \cup {<<t, attempt[t] + 1>>}
      /\ UNCHANGED <<ordered, sourced, restarts, cut>> /\ (faults' = faults + 1 \/ faults' = faults)
  BY DEF GetTask, history
<1>2. /\ attempt[t] \in Nat /\ status \in [Task -> Status] /\ attempt \in [Task -> Nat]
      /\ posted \subseteq Task \X Nat /\ restarts \in Nat /\ faults \in Nat
      /\ ordered \subseteq Task /\ sourced \subseteq Index /\ cut \subseteq Arch \cup Index
  BY DEF ArtifactsBase, ArtifactsType
<1>3. status'[t] = "STARTED" /\ \A u \in Task \ {t} : status'[u] = status[u]
  BY <1>1, <1>2
<1>4. status' \in [Task -> Status]
  BY <1>1, <1>2 DEF Status
<1>5. attempt' \in [Task -> Nat] /\ posted' \subseteq Task \X Nat
  BY <1>1, <1>2
<1>6. Settles
  BY <1>1, <1>3 DEF Settles, Takable, Finished
<1>7. faults' \in Nat /\ status[t] \notin Takable
  BY <1>1, <1>2 DEF Takable
<1>8. \A u \in Task : status'[u] = status[u] \/ (Free({u}) /\ status[u] \notin Takable)
  BY <1>1, <1>3, <1>7
<1> QED
  BY <1>1, <1>2, <1>4, <1>5, <1>6, <1>7, <1>8 DEF AsideStep

LEMMA HandedBack ==
    ASSUME ArtifactsBase, NEW t \in Task, NEW nr \in 1..attempt[t], Redeliver(t, nr)
    PROVE  AsideStep
<1>1. /\ posted' = posted \cup {<<t, nr>>} /\ faults' = faults + 1
      /\ UNCHANGED <<status, ordered, sourced, attempt, restarts, cut>>
  BY DEF Redeliver, history
<1>2. nr \in Nat
  BY DEF ArtifactsBase, ArtifactsType
<1>3. Settles
  BY <1>1 DEF Settles, Finished
<1> QED
  BY <1>1, <1>2, <1>3 DEF AsideStep, ArtifactsBase, ArtifactsType

LEMMA Restarted == ASSUME ArtifactsBase, Restart PROVE AsideStep
<1> DEFINE failed == {t \in Task : status[t] = "FAILED"}
<1>1. /\ Free(failed) /\ status' = [t \in Task |-> IF t \in failed THEN "IDLE" ELSE status[t]]
      /\ ordered' = ordered \cup failed /\ sourced' \subseteq sourced
      /\ UNCHANGED <<attempt, posted, faults, cut>> /\ restarts' = restarts + 1
  BY DEF Restart, history
<1>2. status' \in [Task -> Status]
  BY <1>1 DEF ArtifactsBase, ArtifactsType, Status
<1>3. \A t \in Task : status'[t] = IF status[t] = "FAILED" THEN "IDLE" ELSE status[t]
  BY <1>1
<1>4. Settles
  BY <1>1, <1>3 DEF Settles, Takable, Finished
<1>5. \A t \in failed : Free({t})
  BY <1>1 DEF Free
<1> QED
  BY <1>1, <1>2, <1>3, <1>4, <1>5 DEF AsideStep, ArtifactsBase, ArtifactsType, Takable

LEMMA Cancelled == ASSUME ArtifactsBase, Cancel PROVE AsideStep
<1>1. /\ Free(Idle(Task)) /\ cut' = cut \cup Places(Idle(Task))
      /\ status' = [t \in Task |-> IF status[t] = "IDLE" THEN "CANCELLED" ELSE status[t]]
      /\ UNCHANGED <<ordered, sourced, attempt, posted, restarts, faults>>
  BY DEF Cancel
<1>2. status' \in [Task -> Status]
  BY <1>1 DEF ArtifactsBase, ArtifactsType, Status
<1>3. \A t \in Task : status'[t] = IF status[t] = "IDLE" THEN "CANCELLED" ELSE status[t]
  BY <1>1
<1>4. \A t \in Task : status[t] = "IDLE" => Free({t}) /\ {IndexOf[t], ArchOf[t]} \subseteq cut'
  BY <1>1 DEF Free, Idle, Places
<1>5. Places(Idle(Task)) \subseteq Arch \cup Index
  BY TaskPlace DEF Places, Idle
<1>6. Settles
  BY <1>1, <1>3, <1>4 DEF Settles, Takable, Finished
<1> QED
  BY <1>1, <1>2, <1>3, <1>4, <1>5, <1>6 DEF AsideStep, ArtifactsBase, ArtifactsType, Takable

LEMMA AsideOthers ==
    ASSUME ArtifactsBase, Aside
    PROVE  /\ StaysTaken /\ \A v \in Busy : Untouched(v)
           /\ UNCHANGED <<rows, repo, modules, current, job, raced, torn>>
           /\ Busy' = Busy /\ Settles /\ ArtifactsType'
<1>1. UNCHANGED <<rows, repo, modules, current, job, raced, torn>>
  BY DEF Aside, GetTask, Redeliver, Restart, Cancel, history
<1>2. AsideStep
  BY HandedOut, HandedBack, Restarted, Cancelled DEF Aside
<1>3. StaysTaken
  BY <1>1, <1>2 DEF StaysTaken, AsideStep
<1>4. \A v \in Busy : Untouched(v)
  <2> SUFFICES ASSUME NEW v \in Busy PROVE Untouched(v)
    OBVIOUS
  <2>1. job[v].task \in Task /\ ~Free({job[v].task})
    BY MadeType DEF ArtifactsBase, Free
  <2> QED
    BY <1>1, <1>2, <2>1 DEF AsideStep, Untouched, SharesAlike
<1> QED
  BY <1>1, <1>2, <1>3, <1>4 DEF AsideStep, ArtifactsBase, ArtifactsType, Busy

LEMMA AsideBase == ArtifactsBase /\ Aside => ArtifactsBase'
<1> SUFFICES ASSUME ArtifactsBase, Aside PROVE ArtifactsBase'
  OBVIOUS
<1>1. /\ StaysTaken /\ \A v \in Busy : Untouched(v)
      /\ UNCHANGED <<rows, repo, modules, current, job, raced, torn>>
      /\ Busy' = Busy /\ ArtifactsType'
  BY AsideOthers
<1>2. JobInv'
  BY <1>1, OtherJobs DEF JobInv
<1>3. OwnInv'
  BY <1>1 DEF ArtifactsBase, OwnInv, OwnPackage
<1>4. StageInv'
  BY <1>1, UntouchedStaged DEF StageInv
<1> QED
  BY <1>1, <1>2, <1>3, <1>4 DEF ArtifactsBase

LEMMA BaseStep == ArtifactsBase /\ [Next]_vars => ArtifactsBase'
<1> SUFFICES ASSUME ArtifactsBase, [Next]_vars PROVE ArtifactsBase'
  OBVIOUS
<1>1. CASE Next
  BY <1>1, NextWork, StartedBase, WorkBase, EndedBase, AsideBase DEF ArtifactsBase
<1>2. CASE UNCHANGED vars
  <2>1. Busy' = Busy
    BY <1>2 DEF vars, Busy
  <2>2. ArtifactsType'
    BY <1>2 DEF vars, progress, history, ArtifactsBase, ArtifactsType
  <2>3. JobInv' /\ OwnInv'
    BY <1>2, <2>1 DEF vars, progress, history, ArtifactsBase, JobInv, OwnInv, OwnPackage, Of,
       Rightly, Beside, Finished, Torn, TasksOf
  <2>4. StageInv'
    BY <1>2, <2>1 DEF vars, progress, history, ArtifactsBase, StageInv, Staged, Of, Its, Wrote,
       PackagesOf, Takes
  <2> QED
    BY <2>2, <2>3, <2>4 DEF ArtifactsBase
<1> QED
  BY <1>1, <1>2

(***************************************************************************)
(* The packages the database names are in Pulp.                            *)
(***************************************************************************)
\* Until a task is completed, or cancelled and then given the shared package, it
\* has no packages in the database.
EmptyInv == \A t \in Task \ torn : status[t] \notin Takable => rows[t] = {}

\* While its shared package is in Pulp already, and not yet in the database
Replaced(t) == \E w \in Busy : t \in job[w].takes \ job[w].todo
RowsInv ==
    \A t \in Task \ torn : \A q \in rows[t] : (q.noarch /\ Replaced(t)) \/ q \in repo[ArchOf[t]]

\* What a job has stored so far
NewIn(w) ==
    /\ job[w].task \notin torn =>
          /\ job[w].stage \in {"stored", "multilib", "complete"} => PackagesOf(w) \subseteq repo[Its(w)]
          /\ job[w].stage \in {"complete", "listed", "sharing"} =>
                \A q \in job[w].new : ~q.noarch => q \in repo[Its(w)]
          /\ Wrote(w) /\ job[w].task \notin job[w].takes \ job[w].todo =>
                job[w].new \subseteq repo[Its(w)]
    /\ \A u \in (job[w].takes \ job[w].todo) \ torn : job[w].shared \in repo[ArchOf[u]]
NewInv == \A w \in Busy : NewIn(w)

PublishedInv == EmptyInv /\ RowsInv /\ NewInv

LEMMA InitPublished == Init => PublishedInv
<1> SUFFICES ASSUME Init PROVE PublishedInv
  OBVIOUS
<1>1. Busy = {}
  BY DEF Init, Busy
<1>2. EmptyInv /\ RowsInv
  BY DEF Init, EmptyInv, RowsInv
<1> QED
  BY <1>1, <1>2 DEF PublishedInv, NewInv

\* A task that a job is about or shares with is neither for another job
LEMMA NotOthers ==
    ASSUME ArtifactsBase, NEW v \in Busy, NEW w \in Busy, v # w, NEW s \in Task,
           s = job[w].task \/ s \in job[w].takes
    PROVE  s \in torn \/ (s # job[v].task /\ s \notin job[v].takes)
<1>1. /\ \A x \in {v, w} : Finished(job[x].task) => TasksOf(Of(x)) \subseteq torn
      /\ job[v].task # job[w].task
      /\ Of(v) = Of(w) => job[v].shared = None \/ job[w].shared = None \/ TasksOf(Of(w)) \subseteq torn
  BY DEF ArtifactsBase, JobInv, Rightly, Beside, Torn
<1>2. \A x \in {v, w} : \A u \in job[x].takes :
         /\ u = job[x].task \/ u \in torn \/ Finished(u)
         /\ IndexOf[u] = Of(x) /\ job[x].shared # None
  BY DEF ArtifactsBase, StageInv, Staged, Takes, TasksOf, Finished
<1>3. \A x \in {v, w} : job[x].task \in TasksOf(Of(x)) /\ (s \in TasksOf(Of(x)) <=> IndexOf[s] = Of(x))
  BY MadeType DEF ArtifactsBase, TasksOf, Of
<1> QED
  BY <1>1, <1>2, <1>3

\* A package that a step about another task leaves where it is
LEMMA StaysIn ==
    ASSUME ArtifactsBase, NEW s \in Task, Apart(s) \/ repo' = repo, NEW t \in Task, t # s \/ repo' = repo,
           NEW q \in repo[ArchOf[t]], OwnPackage(t, q)
    PROVE  q \in repo'[ArchOf[t]]
<1>1. ArchOf[t] \in Arch /\ q \in Package /\ ArchOf[s] \in Arch
  BY TaskPlace DEF ArtifactsBase, ArtifactsType
<1>2. t # s /\ ArchOf[t] = ArchOf[s] => IndexOf[q.task] # IndexOf[s]
  BY TaskPlace DEF OwnPackage
<1> QED
  BY <1>1, <1>2 DEF Apart

LEMMA OtherNewIn ==
    ASSUME ArtifactsBase, NEW v \in Busy, NewIn(v), Untouched(v), StaysTaken, NEW s \in Task,
           \/ repo' = repo
           \/ Apart(s) /\ (s \in torn \/ (s # job[v].task /\ s \notin job[v].takes))
    PROVE  NewIn(v)'
<1>1. /\ PackagesOf(v)' = PackagesOf(v) /\ Its(v)' = Its(v) /\ (Wrote(v)' <=> Wrote(v))
  BY UntouchedStaged
<1>2. /\ job[v].task \in Task /\ job[v].takes \subseteq Task
      /\ \A q \in PackagesOf(v) : q.task = job[v].task
  BY MadeType DEF ArtifactsBase, Job
<1>3. ASSUME NEW q \in PackagesOf(v) \cup job[v].new, q \in repo[Its(v)], job[v].task \notin torn
      PROVE  q \in repo'[Its(v)]
  <2>1. OwnPackage(job[v].task, q)
    BY <1>2, <1>3 DEF ArtifactsBase, OwnInv, OwnPackage
  <2> QED
    BY <1>2, <1>3, <2>1, StaysIn DEF Its
<1>4. ASSUME NEW u \in job[v].takes \ torn, job[v].shared \in repo[ArchOf[u]]
      PROVE  job[v].shared \in repo'[ArchOf[u]]
  <2>1. u \in Task /\ OwnPackage(u, job[v].shared)
    BY <1>2, <1>4 DEF ArtifactsBase, StageInv, Staged, OwnPackage, TasksOf
  <2>2. u # s \/ repo' = repo
    BY <1>4
  <2>3. Apart(s) \/ repo' = repo
    OBVIOUS
  <2> DEFINE q == job[v].shared
  <2>4. q \in repo[ArchOf[u]] /\ OwnPackage(u, q)
    BY <1>4, <2>1
  <2> HIDE DEF q
  <2>5. q \in repo'[ArchOf[u]]
    BY <2>1, <2>2, <2>3, <2>4, StaysIn
  <2> QED
    BY <2>5 DEF q
<1> QED
  BY <1>1, <1>3, <1>4 DEF NewIn, Untouched, SharesAlike, StaysTaken

\* What a step of a job does to the repositories
LEMMA WorkRepo ==
    ASSUME ArtifactsBase, NEW w \in Worker,
           \/ ProcessRpms(w) \/ AddMultilib(w) \/ StoreMultilib(w) \/ UpdateModule(w)
           \/ ShareNoarch(w) \/ \E u \in Task : PublishNoarch(w, u)
    PROVE  /\ StaysTaken /\ \A v \in Busy \ {w} : Untouched(v)
           /\ \/ repo' = repo
              \/ /\ Apart(job[w].task)
                 /\ job'[w].takes = job[w].takes /\ job'[w].todo = job[w].todo
              \/ \E u \in job[w].takes : /\ u \in Task /\ Apart(u)
                                         /\ job'[w].takes = job[w].takes
                                         /\ job'[w].todo = job[w].todo \ {u}
                                         /\ \A q \in repo[ArchOf[u]] : ~q.noarch => q \in repo'[ArchOf[u]]
           /\ \A t \in Task : Replaced(t) => Replaced(t)'
<1>1. Keeps(w)
  BY WorkBasics
<1>2. StaysTaken /\ \A v \in Busy \ {w} : Untouched(v)
  BY <1>1 DEF Keeps, StaysTaken, Untouched, SharesAlike, progress, history, Busy
<1>3. CASE repo' = repo /\ ~ShareNoarch(w) /\ ~\E u \in Task : PublishNoarch(w, u)
  <2>1. SharesAlike(w)
    BY <1>3, ProcessedJob, AddedJob, StoredJob, UpdatedJob DEF ArtifactsBase
  <2>2. \A t \in Task : Replaced(t) => Replaced(t)'
    BY <1>1, <1>2, <2>1 DEF Replaced, Keeps, SharesAlike, Untouched
  <2> QED
    BY <1>2, <1>3, <2>2
<1>4. CASE ProcessRpms(w) \/ StoreMultilib(w)
  <2>1. SharesAlike(w) /\ Apart(job[w].task)
    BY <1>4, ProcessedJob, StoredJob, ProcessedApart, StoredApart DEF ArtifactsBase
  <2>2. \A t \in Task : Replaced(t) => Replaced(t)'
    BY <1>1, <1>2, <2>1 DEF Replaced, Keeps, SharesAlike, Untouched
  <2> QED
    BY <1>2, <2>1, <2>2 DEF SharesAlike
<1>5. CASE ShareNoarch(w)
  <2>1. job[w].takes = {} /\ repo' = repo
    BY <1>5, SharedJob DEF ArtifactsBase, ShareNoarch
  <2>2. \A t \in Task : Replaced(t) => Replaced(t)'
    BY <1>1, <1>2, <2>1 DEF Replaced, Keeps, SharesAlike, Untouched
  <2> QED
    BY <1>2, <2>1, <2>2
<1>6. CASE \E u \in Task : PublishNoarch(w, u)
  <2>1. PICK u \in Task : PublishNoarch(w, u)
    BY <1>6
  <2>2. /\ Apart(u) /\ u \in job[w].takes
        /\ \A q \in repo[ArchOf[u]] : ~q.noarch => q \in repo'[ArchOf[u]]
    BY <2>1, PublishedApart DEF ArtifactsBase
  <2>3. job'[w].takes = job[w].takes /\ job'[w].todo = job[w].todo \ {u}
    BY <2>1, PublishedJob DEF ArtifactsBase
  <2>4. \A t \in Task : Replaced(t) => Replaced(t)'
    BY <1>1, <1>2, <2>3 DEF Replaced, Keeps, SharesAlike, Untouched
  <2> QED
    BY <1>2, <2>2, <2>3, <2>4
<1>7. AddMultilib(w) \/ UpdateModule(w) => repo' = repo
  BY DEF AddMultilib, UpdateModule
<1> QED
  BY <1>3, <1>4, <1>5, <1>6, <1>7

LEMMA WorkRows ==
    ASSUME ArtifactsBase, PublishedInv, NEW w \in Worker,
           \/ ProcessRpms(w) \/ AddMultilib(w) \/ StoreMultilib(w) \/ UpdateModule(w)
           \/ ShareNoarch(w) \/ \E u \in Task : PublishNoarch(w, u)
    PROVE  EmptyInv' /\ RowsInv'
<1>1. /\ Keeps(w) /\ w \in Busy /\ rows' = rows /\ status' = status /\ torn' = torn
      /\ Busy' = Busy
  BY WorkBasics DEF Keeps, progress, history
<1>2. EmptyInv'
  BY <1>1 DEF PublishedInv, EmptyInv
<1>3. \A t \in Task : Replaced(t) => Replaced(t)'
  BY WorkRepo
<1>4. ASSUME NEW t \in Task \ torn, NEW q \in rows[t]
      PROVE  (q.noarch /\ Replaced(t)') \/ q \in repo'[ArchOf[t]]
  <2>1. /\ (q.noarch /\ Replaced(t)) \/ q \in repo[ArchOf[t]]
        /\ OwnPackage(t, q)
    BY <1>4 DEF PublishedInv, RowsInv, ArtifactsBase, OwnInv
  <2>2. job[w].task \in Task /\ (t = job[w].task => rows[t] = {})
    <3>1. job[w].task \in Task /\ (Finished(job[w].task) => Torn(IndexOf[job[w].task]))
      BY <1>1, MadeType DEF ArtifactsBase, JobInv, Rightly, Of
    <3>2. t = job[w].task => status[t] \notin Takable
      BY <1>4, <3>1 DEF Torn, TasksOf, Finished, Takable
    <3> QED
      BY <1>4, <3>1, <3>2 DEF PublishedInv, EmptyInv
  <2>3. CASE repo' = repo
    BY <1>3, <2>1, <2>3
  <2>4. CASE Apart(job[w].task)
    BY <1>3, <1>4, <2>1, <2>2, <2>4, StaysIn
  <2>5. CASE \E u \in job[w].takes :
               /\ u \in Task /\ Apart(u) /\ job'[w].takes = job[w].takes
               /\ job'[w].todo = job[w].todo \ {u}
               /\ \A p \in repo[ArchOf[u]] : ~p.noarch => p \in repo'[ArchOf[u]]
    <3>1. PICK u \in job[w].takes :
               /\ u \in Task /\ Apart(u) /\ job'[w].takes = job[w].takes
               /\ job'[w].todo = job[w].todo \ {u}
               /\ \A p \in repo[ArchOf[u]] : ~p.noarch => p \in repo'[ArchOf[u]]
      BY <2>5
    <3>2. CASE t = u
      <4>1. Replaced(t)'
        BY <1>1, <3>1, <3>2 DEF Replaced
      <4> QED
        BY <2>1, <3>1, <3>2, <4>1
    <3>3. CASE t # u
      BY <1>3, <2>1, <3>1, <3>3, StaysIn
    <3> QED
      BY <3>2, <3>3
  <2> QED
    BY <2>3, <2>4, <2>5, WorkRepo
<1> QED
  BY <1>1, <1>2, <1>4 DEF RowsInv

LEMMA WorkNewIn ==
    ASSUME ArtifactsBase, PublishedInv, NEW w \in Worker,
           \/ ProcessRpms(w) \/ AddMultilib(w) \/ StoreMultilib(w) \/ UpdateModule(w)
           \/ ShareNoarch(w) \/ \E u \in Task : PublishNoarch(w, u)
    PROVE  NewIn(w)'
<1>1. /\ Keeps(w) /\ w \in Busy
  BY WorkBasics DEF Keeps
<1>2. /\ Staged(w) /\ Of(w)' = Of(w) /\ Its(w)' = Its(w)
      /\ PackagesOf(w)' = PackagesOf(w) /\ torn' = torn
      /\ (Wrote(w)' <=> job'[w].stage \in {"listed", "sharing"})
      /\ job'[w].task = job[w].task
  BY <1>1, WorkStaged DEF Keeps
<1>3. NewIn(w)
  BY <1>1 DEF PublishedInv, NewInv
<1>4. CASE ProcessRpms(w)
  <2>1. /\ job'[w].stage = "stored" /\ job[w].stage = "begun" /\ SharesAlike(w)
        /\ PackagesOf(w) \subseteq repo'[Its(w)]
    BY <1>4, ProcessedJob, ProcessedApart DEF ArtifactsBase
  <2>2. job'[w].takes = {}
    BY <1>2, <2>1 DEF Staged, SharesAlike
  <2> QED
    BY <1>2, <2>1, <2>2 DEF NewIn
<1>5. CASE AddMultilib(w)
  <2>1. /\ job'[w].stage = "multilib" /\ job[w].stage = "stored" /\ SharesAlike(w)
        /\ repo' = repo
    BY <1>5, AddedJob DEF ArtifactsBase, AddMultilib
  <2>2. job'[w].takes = {}
    BY <1>2, <2>1 DEF Staged, SharesAlike
  <2> QED
    BY <1>2, <1>3, <2>1, <2>2 DEF NewIn
<1>6. CASE StoreMultilib(w)
  <2>1. /\ job'[w].stage = "complete" /\ job[w].stage = "multilib" /\ SharesAlike(w)
        /\ job'[w].new = job[w].new
        /\ job[w].new \subseteq repo'[Its(w)]
        /\ PackagesOf(w) \cap repo[Its(w)] \subseteq repo'[Its(w)]
    BY <1>6, StoredJob, StoredApart DEF ArtifactsBase
  <2>2. job'[w].takes = {}
    BY <1>2, <2>1 DEF Staged, SharesAlike
  <2> QED
    BY <1>2, <1>3, <2>1, <2>2 DEF NewIn
<1>7. CASE UpdateModule(w)
  <2>1. /\ job'[w].stage = "listed" /\ job[w].stage \in {"complete", "stored"} /\ SharesAlike(w)
        /\ job'[w].new = job[w].new \cup PackagesOf(w) /\ repo' = repo
    BY <1>7, UpdatedJob DEF ArtifactsBase, UpdateModule
  <2>2. job'[w].takes = {}
    BY <1>2, <2>1 DEF Staged, SharesAlike
  <2>3. job[w].task \notin torn => job'[w].new \subseteq repo[Its(w)]
    BY <1>2, <1>3, <2>1 DEF NewIn, Staged
  <2> QED
    BY <1>2, <2>1, <2>2, <2>3 DEF NewIn
<1>8. CASE ShareNoarch(w)
  <2>1. /\ job'[w].stage = "sharing" /\ job[w].stage = "listed" /\ job[w].takes = {}
        /\ job'[w].new = job[w].new /\ repo' = repo
        /\ job'[w].todo = job'[w].takes \/ SharesAlike(w)
    BY <1>8, SharedJob DEF ArtifactsBase, ShareNoarch
  <2>2. job'[w].takes \ job'[w].todo = {} /\ Wrote(w)
    BY <2>1 DEF SharesAlike, Wrote
  <2> QED
    BY <1>2, <1>3, <2>1, <2>2 DEF NewIn
<1>9. CASE \E u \in Task : PublishNoarch(w, u)
  <2>1. PICK u \in Task : PublishNoarch(w, u)
    BY <1>9
  <2>2. /\ Apart(u) /\ u \in job[w].takes /\ IndexOf[u] = Of(w)
        /\ job[w].shared \in repo'[ArchOf[u]]
        /\ \A q \in repo[ArchOf[u]] : ~q.noarch => q \in repo'[ArchOf[u]]
        /\ \A a \in Arch \ {ArchOf[u]} : repo'[a] = repo[a]
    BY <2>1, PublishedApart DEF ArtifactsBase
  <2>3. /\ job[w].stage = "sharing" /\ job'[w].stage = "sharing" /\ u \in job[w].todo
        /\ job'[w].todo = job[w].todo \ {u} /\ job'[w].takes = job[w].takes
        /\ job'[w].shared = job[w].shared /\ job'[w].new = job[w].new
    BY <2>1, PublishedJob DEF ArtifactsBase
  <2>4. Wrote(w)
    BY <2>3 DEF Wrote
  <2>5. /\ Its(w) \in Arch /\ job[w].task \in Task /\ job[w].takes \subseteq Task
        /\ job[w].todo \subseteq job[w].takes
    BY <1>1, <1>2, MadeType DEF ArtifactsBase, Job, Staged
  <2>6. job[w].task \notin torn => \A q \in job[w].new : ~q.noarch => q \in repo'[Its(w)]
    BY <1>3, <2>2, <2>3, <2>5 DEF NewIn
  <2>7. job[w].task \notin torn \cup (job'[w].takes \ job'[w].todo) =>
           job[w].new \subseteq repo'[Its(w)]
    <3> SUFFICES ASSUME job[w].task \notin torn \cup (job'[w].takes \ job'[w].todo)
                 PROVE  job[w].new \subseteq repo'[Its(w)]
      OBVIOUS
    <3>1. u # job[w].task
      BY <2>2, <2>3
    <3>2. Its(w) # ArchOf[u]
      BY <2>2, <2>5, <3>1, TaskPlace DEF Its, Of
    <3>3. job[w].new \subseteq repo[Its(w)]
      BY <1>3, <2>3, <2>4, <2>5 DEF NewIn
    <3> QED
      BY <2>2, <2>5, <3>2, <3>3
  <2>8. ASSUME NEW x \in (job'[w].takes \ job'[w].todo) \ torn
        PROVE  job'[w].shared \in repo'[ArchOf[x]]
    <3>1. CASE x = u
      BY <2>2, <2>3, <3>1
    <3>2. CASE x # u
      <4>1. x \in Task /\ IndexOf[x] = IndexOf[u] /\ job[w].shared \in repo[ArchOf[x]]
        BY <1>2, <1>3, <2>2, <2>3, <2>8, <3>2 DEF NewIn, Staged, TasksOf
      <4>2. ArchOf[x] # ArchOf[u] /\ ArchOf[x] \in Arch
        BY <3>2, <4>1, TaskPlace
      <4> QED
        BY <2>2, <2>3, <4>1, <4>2
    <3> QED
      BY <3>1, <3>2
  <2> QED
    BY <1>2, <2>3, <2>6, <2>7, <2>8 DEF NewIn
<1> QED
  BY <1>4, <1>5, <1>6, <1>7, <1>8, <1>9

LEMMA WorkPublished == ArtifactsBase /\ PublishedInv /\ Work => PublishedInv'
<1> SUFFICES ASSUME ArtifactsBase, PublishedInv, NEW w \in Worker,
                    \/ ProcessRpms(w) \/ AddMultilib(w) \/ StoreMultilib(w) \/ UpdateModule(w)
                    \/ ShareNoarch(w) \/ \E u \in Task : PublishNoarch(w, u)
             PROVE  PublishedInv'
  BY DEF Work
<1>1. EmptyInv' /\ RowsInv'
  BY WorkRows
<1>2. NewIn(w)'
  BY WorkNewIn
<1>3. w \in Busy /\ Busy' = Busy
  BY WorkBasics DEF Keeps
<1>4. ASSUME NEW v \in Busy, v # w
      PROVE  NewIn(v)'
  <2>1. /\ StaysTaken /\ Untouched(v) /\ NewIn(v)
    BY <1>4, WorkRepo DEF PublishedInv, NewInv
  <2>2. \E s \in Task : /\ s = job[w].task \/ s \in job[w].takes
                        /\ repo' = repo \/ Apart(s)
    <3>1. job[w].task \in Task
      BY <1>3, MadeType DEF ArtifactsBase
    <3> QED
      BY <3>1, WorkRepo
  <2>3. PICK s \in Task : /\ s = job[w].task \/ s \in job[w].takes
                          /\ repo' = repo \/ Apart(s)
    BY <2>2
  <2>4. s \in torn \/ (s # job[v].task /\ s \notin job[v].takes)
    BY <1>3, <1>4, <2>3, NotOthers
  <2> QED
    BY <2>1, <2>3, <2>4, OtherNewIn
<1> QED
  BY <1>1, <1>2, <1>3, <1>4 DEF PublishedInv, NewInv

\* Where no repository changes, neither do what jobs have stored
LEMMA QuietNewIn ==
    ASSUME ArtifactsBase, NewInv, NEW v \in Busy, Untouched(v), StaysTaken, repo' = repo
    PROVE  NewIn(v)'
<1>1. job[v].task \in Task /\ NewIn(v)
  BY MadeType DEF ArtifactsBase, NewInv
<1> QED
  BY <1>1, OtherNewIn

LEMMA StartedPublished == ArtifactsBase /\ PublishedInv /\ Started => PublishedInv'
<1> SUFFICES ASSUME ArtifactsBase, PublishedInv,
                    NEW w \in Worker, NEW t \in Task, NEW nr \in Nat,
                    NEW r \in Result, Begin(w, t, nr, r)
             PROVE  PublishedInv'
  BY DEF Started
<1>1. /\ w \notin Busy /\ Busy' = Busy \cup {w}
      /\ job'[w].stage = "begun" /\ job'[w].takes = {} /\ job'[w].todo = {}
      /\ UNCHANGED <<status, rows, repo>> /\ torn \subseteq torn'
  BY BegunJob DEF ArtifactsBase
<1>2. StaysTaken /\ \A v \in Busy : Untouched(v)
  BY StartedOthers
<1>3. EmptyInv'
  BY <1>1 DEF PublishedInv, EmptyInv
<1>4. \A u \in Task : Replaced(u) => Replaced(u)'
  BY <1>1, <1>2 DEF Replaced, Untouched, SharesAlike
<1>5. RowsInv'
  BY <1>1, <1>4 DEF PublishedInv, RowsInv
<1>6. NewIn(w)'
  BY <1>1 DEF NewIn, Wrote
<1>7. \A v \in Busy : NewIn(v)'
  BY <1>1, <1>2, QuietNewIn DEF PublishedInv
<1> QED
  BY <1>1, <1>3, <1>5, <1>6, <1>7 DEF PublishedInv, NewInv

LEMMA AsidePublished == ArtifactsBase /\ PublishedInv /\ Aside => PublishedInv'
<1> SUFFICES ASSUME ArtifactsBase, PublishedInv, Aside PROVE PublishedInv'
  OBVIOUS
<1>1. /\ StaysTaken /\ \A v \in Busy : Untouched(v)
      /\ UNCHANGED <<rows, repo, modules, current, job, raced, torn>> /\ Busy' = Busy
      /\ Settles
  BY AsideOthers
<1>2. EmptyInv'
  BY <1>1 DEF PublishedInv, EmptyInv, Settles
<1>3. RowsInv'
  BY <1>1 DEF PublishedInv, RowsInv, Replaced
<1>4. NewInv'
  BY <1>1, QuietNewIn DEF PublishedInv, NewInv
<1> QED
  BY <1>2, <1>3, <1>4 DEF PublishedInv

LEMMA EndedPublished == ArtifactsBase /\ PublishedInv /\ Ended => PublishedInv'
<1> SUFFICES ASSUME ArtifactsBase, PublishedInv, NEW w \in Worker, Commit(w) \/ Raise(w) \/ Crash(w)
             PROVE  PublishedInv'
  BY DEF Ended
<1>1. /\ w \in Busy /\ Busy' = Busy \ {w}
      /\ \A v \in Busy' : v \in Busy /\ v # w /\ job'[v] = job[v] /\ Untouched(v)
      /\ StaysTaken /\ repo' = repo
      /\ \A u \in Task \ {job[w].task} : status'[u] = status[u] \/ Failing(w, u)
      /\ Commit(w) => status'[job[w].task] = job[w].result
      /\ Crash(w) => status' = status
  BY EndedOthers
<1>2. NewInv'
  BY <1>1, QuietNewIn DEF PublishedInv, NewInv
<1>3. /\ Staged(w) /\ NewIn(w) /\ job[w].task \in Task
      /\ job[w].task \notin torn => ~Finished(job[w].task)
      /\ job[w].result \in Result /\ job[w].takes \subseteq Task
  <2>1. job[w].task \in TasksOf(Of(w))
    BY <1>1, MadeType DEF ArtifactsBase, TasksOf, Of
  <2> QED
    BY <1>1, <2>1, MadeType DEF ArtifactsBase, StageInv, JobInv, Rightly, Torn, PublishedInv,
       NewInv, Job
\* a task that is not torn stays without packages, or has what it had
<1>8. \A t \in Task \ (torn \cup {job[w].task}) : status'[t] \notin Takable => status[t] \notin Takable
  BY <1>1 DEF StaysTaken
<1>4. \A t \in Task : Replaced(t) => Replaced(t)' \/ t \in job[w].takes
  BY <1>1 DEF Replaced
<1>5. CASE Crash(w)
  <2>1. /\ rows' = rows
        /\ torn \subseteq torn'
        /\ job[w].shared # None => TasksOf(Of(w)) \subseteq torn'
    BY <1>5 DEF Crash, Of
  <2>2. job[w].takes \subseteq torn'
    BY <1>3, <2>1 DEF Staged
  <2>3. EmptyInv'
    BY <1>1, <1>5, <2>1 DEF PublishedInv, EmptyInv
  <2>4. RowsInv'
    BY <1>1, <1>4, <2>1, <2>2 DEF PublishedInv, RowsInv
  <2> QED
    BY <1>2, <2>3, <2>4 DEF PublishedInv
<1>6. CASE Raise(w)
  <2>1. /\ rows' = RowsIn(w) /\ torn' = torn \cup {job[w].task} \cup job[w].takes
    BY <1>6, WrittenRows DEF Raise
  <2>2. \A t \in Task \ torn' : rows'[t] = rows[t] /\ t \in Task \ (torn \cup {job[w].task})
    BY <1>1, <2>1, RowsInLemma DEF ArtifactsBase
  <2>3. EmptyInv'
    BY <1>8, <2>2 DEF PublishedInv, EmptyInv
  <2>4. RowsInv'
    BY <1>1, <1>4, <2>1, <2>2 DEF PublishedInv, RowsInv
  <2> QED
    BY <1>2, <2>3, <2>4 DEF PublishedInv
<1>7. CASE Commit(w)
  <2>1. /\ rows' = RowsIn(w) /\ torn' = torn /\ job[w].stage = "sharing" /\ job[w].todo = {}
    BY <1>7, WrittenRows DEF Commit, In
  <2>2. status'[job[w].task] = job[w].result
    BY <1>1, <1>7
  <2>0. \A t \in Task : t \notin job[w].takes => RowsIn(w)[t] =
           (IF t = job[w].task THEN rows[t] \cup job[w].new ELSE rows[t])
    BY <1>1, RowsInLemma DEF ArtifactsBase
  <2>3. ASSUME NEW t \in Task \ torn', status'[t] \notin Takable
        PROVE  rows'[t] = {}
    <3>0. t # job[w].task => status[t] \notin Takable
      BY <1>8, <2>1, <2>3
    <3>1. t \notin job[w].takes
      BY <1>1, <1>3, <2>1, <2>2, <2>3, <3>0 DEF Staged, Takes, Takable
    <3>2. rows[t] = {}
      BY <1>1, <1>3, <2>1, <2>3, <3>0 DEF PublishedInv, EmptyInv, Finished, Takable
    <3>3. t = job[w].task => job[w].new = {}
      BY <1>3, <2>2, <2>3 DEF Staged, Result, Takable
    <3> QED
      BY <2>0, <2>1, <3>1, <3>2, <3>3
  <2>4. ASSUME NEW t \in Task \ torn', NEW q \in rows'[t]
        PROVE  (q.noarch /\ Replaced(t)') \/ q \in repo[ArchOf[t]]
    <3>1. t = job[w].task => rows[t] = {}
      BY <1>3, <2>1, <2>4 DEF PublishedInv, EmptyInv, Finished, Takable
    <3>2. q \in rows[t] => (q.noarch /\ Replaced(t)) \/ q \in repo[ArchOf[t]]
      BY <2>1, <2>4 DEF PublishedInv, RowsInv
    <3>3. CASE t \in job[w].takes
      <4>1. CASE q = job[w].shared
        BY <1>3, <2>1, <3>3, <4>1 DEF NewIn
      <4>2. CASE q # job[w].shared
        <5>1. ~q.noarch /\ (q \in rows[t] \/ (t = job[w].task /\ q \in job[w].new))
          BY <1>1, <2>1, <2>4, <3>3, <4>2, RowsInLemma DEF ArtifactsBase
        <5> QED
          BY <1>3, <2>1, <3>2, <5>1 DEF NewIn, Its
      <4> QED
        BY <4>1, <4>2
    <3>4. CASE t \notin job[w].takes
      <4>1. q \in rows[t] \/ (t = job[w].task /\ q \in job[w].new)
        BY <2>0, <2>1, <2>4, <3>4
      <4>2. CASE t = job[w].task
        <5>1. q \in job[w].new /\ Wrote(w)
          BY <2>1, <3>1, <4>1, <4>2 DEF Wrote
        <5> QED
          BY <1>3, <2>1, <2>4, <3>4, <4>2, <5>1 DEF NewIn, Its
      <4>3. CASE t # job[w].task
        BY <1>4, <3>2, <3>4, <4>1, <4>3
      <4> QED
        BY <4>2, <4>3
    <3> QED
      BY <3>3, <3>4
  <2>5. EmptyInv' /\ RowsInv'
    BY <1>1, <2>3, <2>4 DEF EmptyInv, RowsInv
  <2> QED
    BY <1>2, <2>5 DEF PublishedInv
<1> QED
  BY <1>5, <1>6, <1>7

LEMMA PublishedStep == ArtifactsBase /\ PublishedInv /\ [Next]_vars => PublishedInv'
<1> SUFFICES ASSUME ArtifactsBase, PublishedInv, [Next]_vars PROVE PublishedInv'
  OBVIOUS
<1>1. CASE Next
  BY <1>1, NextWork, StartedPublished, WorkPublished, EndedPublished, AsidePublished
     DEF ArtifactsBase
<1>2. CASE UNCHANGED vars
  <2>1. Busy' = Busy
    BY <1>2 DEF vars, Busy
  <2>2. EmptyInv' /\ RowsInv'
    BY <1>2, <2>1 DEF vars, progress, history, PublishedInv, EmptyInv, RowsInv, Replaced
  <2>3. NewInv'
    BY <1>2, <2>1 DEF vars, progress, history, PublishedInv, NewInv, NewIn, Its, Wrote, PackagesOf
  <2> QED
    BY <2>2, <2>3 DEF PublishedInv
<1> QED
  BY <1>1, <1>2

LEMMA PublishedMeans == ArtifactsBase /\ PublishedInv => RowsArePublished
<1> SUFFICES ASSUME ArtifactsBase, PublishedInv, NEW t \in Task \ torn, ~Sharing(IndexOf[t]), NEW q \in rows[t]
             PROVE  q \in repo[ArchOf[t]]
  BY DEF RowsArePublished
<1>1. ~Replaced(t)
  BY DEF Replaced, Sharing, ArtifactsBase, StageInv, Staged, TasksOf, Of
<1> QED
  BY <1>1 DEF PublishedInv, RowsInv

\* What MCBuildArtifacts checks as RowsArePublished, for any tasks, workers,
\* results, failures, cancellations and restarts: the packages the database names
\* for a task are in the repository of its architecture, unless a job for the task
\* was stopped between the rows and Pulp, a finished task of its project was
\* processed again, or its project shares a noarch package at the moment
\* (build_node.py: __process_rpms; noarch.py: save_noarch_packages).
THEOREM RowsPublished == Spec => []RowsArePublished
<1>1. Init => ArtifactsBase /\ PublishedInv
  BY InitBase, InitPublished
<1>2. ArtifactsBase /\ PublishedInv /\ [Next]_vars => (ArtifactsBase /\ PublishedInv)'
  BY BaseStep, PublishedStep
<1>3. ArtifactsBase /\ PublishedInv => RowsArePublished
  BY PublishedMeans
<1> QED
  BY <1>1, <1>2, <1>3, PTL DEF Spec

(***************************************************************************)
(* One noarch package for all tasks of a project.                          *)
(***************************************************************************)
NoarchOf(i, a) == {q \in repo[a] : q.noarch /\ IndexOf[q.task] = i}

HasNoarch == \A t \in Task \ torn : status[t] = "COMPLETED" => \E q \in rows[t] : q.noarch

\* A job that is alone in its project shares with all that are completed, and
\* leaves nothing else beside what it has shared.
Completes(w, u) == IF u = job[w].task THEN job[w].result = "COMPLETED" ELSE status[u] = "COMPLETED"
Shares(w) ==
    job[w].alone /\ job[w].shared # None =>
       /\ \A u \in TasksOf(Of(w)) : Completes(w, u) => u \in job[w].takes
       /\ \A u \in job[w].takes \ job[w].todo : NoarchOf(Of(w), ArchOf[u]) = {job[w].shared}
\* If it had nothing to share with the last task, nothing is completed.
Bare(w) ==
    /\ job[w].stage = "sharing" /\ job[w].alone /\ job[w].shared = None /\ Of(w) \notin cut
    /\ \A u \in TasksOf(Of(w)) : (u = job[w].task \/ Finished(u)) /\ u \notin torn
    => \A u \in TasksOf(Of(w)) : ~Completes(w, u)
ShareInv == \A w \in Busy : Shares(w) /\ Bare(w)

SharedIn(i) ==
    (\A t \in TasksOf(i) : Finished(t) /\ t \notin torn) =>
       \E p : \A t \in TasksOf(i) : status[t] = "COMPLETED" =>
          Noarch(rows[t]) = {p} /\ NoarchOf(i, ArchOf[t]) = {p}
SharedInv == \A i \in Index \ cut : SharedIn(i)

NoarchInv == HasNoarch /\ ShareInv /\ SharedInv

LEMMA InitNoarch == Init => NoarchInv
<1> SUFFICES ASSUME Init PROVE NoarchInv
  OBVIOUS
<1>1. Busy = {} /\ \A t \in Task : ~Finished(t) /\ status[t] # "COMPLETED"
  BY DEF Init, Busy, Finished
<1>2. SharedInv
  BY <1>1, TaskPlace DEF SharedInv, SharedIn, TasksOf
<1> QED
  BY <1>1, <1>2 DEF NoarchInv, HasNoarch, ShareInv

\* A step that neither completes nor stores anything of a project, and finishes
\* something of it only where that is noted
QuietFor(i) ==
    /\ i \notin cut' => i \notin cut /\ \A u \in TasksOf(i) : Finished(u)' => Finished(u)
    /\ \A u \in TasksOf(i) : /\ status'[u] = "COMPLETED" => status[u] = "COMPLETED"
                             /\ u \in torn => u \in torn'
    /\ \A a \in Arch : NoarchOf(i, a)' = NoarchOf(i, a)

LEMMA NoarchApart ==
    ASSUME ArtifactsBase, NEW i, NEW s \in Task, repo' = repo \/ (Apart(s) /\ IndexOf[s] # i)
    PROVE  \A a \in Arch : NoarchOf(i, a)' = NoarchOf(i, a)
<1> SUFFICES ASSUME NEW a \in Arch PROVE NoarchOf(i, a)' = NoarchOf(i, a)
  OBVIOUS
<1>1. CASE repo' = repo
  BY <1>1 DEF NoarchOf
<1>2. CASE Apart(s) /\ IndexOf[s] # i
  <2>1. repo[a] \subseteq Package /\ repo'[a] \subseteq Package
    BY <1>2 DEF ArtifactsBase, ArtifactsType, Apart
  <2>2. \A q \in Package : IndexOf[q.task] = i => (q \in repo'[a] <=> q \in repo[a])
    BY <1>2 DEF Apart
  <2> QED
    BY <2>1, <2>2 DEF NoarchOf
<1> QED
  BY <1>1, <1>2

LEMMA OtherShares ==
    ASSUME ArtifactsBase, ShareInv, NEW v \in Busy, Untouched(v),
           job'[v].alone => job[v].alone /\ QuietFor(Of(v))
    PROVE  Shares(v)' /\ Bare(v)'
<1>1. /\ Of(v)' = Of(v) /\ job'[v].takes = job[v].takes /\ job'[v].todo = job[v].todo
      /\ job'[v].shared = job[v].shared /\ job'[v].task = job[v].task
      /\ job'[v].result = job[v].result /\ job'[v].stage = job[v].stage
  BY DEF Untouched, SharesAlike, Of
<1>2. Shares(v) /\ Bare(v)
  BY DEF ShareInv
<1>3. TasksOf(Of(v))' = TasksOf(Of(v))
  BY <1>1 DEF TasksOf
<1>4. \A u \in job[v].takes : u \in Task /\ ArchOf[u] \in Arch
  BY MadeType, TaskPlace DEF ArtifactsBase, Job
<1>5. ASSUME job'[v].alone
      PROVE  /\ job[v].alone /\ QuietFor(Of(v))
             /\ \A u \in TasksOf(Of(v)) : Completes(v, u)' => Completes(v, u)
  BY <1>1, <1>5 DEF Completes, QuietFor
<1>6. Shares(v)'
  <2> SUFFICES ASSUME job'[v].alone, job'[v].shared # None
               PROVE  /\ \A u \in TasksOf(Of(v)) : Completes(v, u)' => u \in job[v].takes
                      /\ \A u \in job[v].takes \ job[v].todo :
                            NoarchOf(Of(v), ArchOf[u])' = {job[v].shared}
    BY <1>1, <1>3 DEF Shares
  <2> QED
    BY <1>1, <1>2, <1>4, <1>5 DEF Shares, QuietFor
<1>7. Bare(v)'
  <2> SUFFICES ASSUME job'[v].stage = "sharing", job'[v].alone, job'[v].shared = None,
                      Of(v) \notin cut',
                      \A u \in TasksOf(Of(v)) : (u = job[v].task \/ Finished(u)') /\ u \notin torn'
               PROVE  \A u \in TasksOf(Of(v)) : ~Completes(v, u)'
    BY <1>1, <1>3 DEF Bare
  <2>1. /\ Of(v) \notin cut
        /\ \A u \in TasksOf(Of(v)) : (u = job[v].task \/ Finished(u)) /\ u \notin torn
    BY <1>5 DEF QuietFor
  <2> QED
    BY <1>1, <1>2, <1>5, <2>1 DEF Bare
<1> QED
  BY <1>6, <1>7

LEMMA QuietShared ==
    ASSUME ArtifactsBase, NEW i \in Index \ cut', SharedIn(i), QuietFor(i),
           \A u \in TasksOf(i) : rows'[u] = rows[u]
    PROVE  SharedIn(i)'
<1> SUFFICES ASSUME \A t \in TasksOf(i) : Finished(t)' /\ t \notin torn'
             PROVE  \E p : \A t \in TasksOf(i) : status'[t] = "COMPLETED" =>
                       Noarch(rows'[t]) = {p} /\ NoarchOf(i, ArchOf[t])' = {p}
  BY DEF SharedIn, TasksOf, Noarch
<1>1. PICK p : \A t \in TasksOf(i) : status[t] = "COMPLETED" =>
                  Noarch(rows[t]) = {p} /\ NoarchOf(i, ArchOf[t]) = {p}
  BY DEF SharedIn, QuietFor
<1>2. \A t \in TasksOf(i) : ArchOf[t] \in Arch
  BY TaskPlace DEF TasksOf
<1>3. \A t \in TasksOf(i) : status'[t] = "COMPLETED" =>
         Noarch(rows'[t]) = {p} /\ NoarchOf(i, ArchOf[t])' = {p}
  BY <1>1, <1>2 DEF QuietFor
<1> QED
  BY <1>3

LEMMA WorkNoarch == ArtifactsBase /\ NoarchInv /\ Work => NoarchInv'
<1> SUFFICES ASSUME ArtifactsBase, NoarchInv, NEW w \in Worker,
                    \/ ProcessRpms(w) \/ AddMultilib(w) \/ StoreMultilib(w) \/ UpdateModule(w)
                    \/ ShareNoarch(w) \/ \E u \in Task : PublishNoarch(w, u)
             PROVE  NoarchInv'
  BY DEF Work
<1>1. /\ Keeps(w) /\ w \in Busy /\ Busy' = Busy
      /\ status' = status /\ rows' = rows /\ torn' = torn /\ cut' = cut
      /\ \A v \in Busy \ {w} : job'[v] = job[v]
  BY WorkBasics DEF Keeps, progress, history, Busy
<1>2. /\ Staged(w) /\ Of(w)' = Of(w) /\ \A u : Takes(w, u)' = Takes(w, u)
      /\ job'[w].task = job[w].task /\ job'[w].result = job[w].result
      /\ job'[w].alone = job[w].alone
      /\ job[w].task \in Task /\ job[w].takes \subseteq Task
  BY <1>1, WorkStaged, MadeType DEF Keeps, ArtifactsBase, Job
<1>3. \E s \in Task : IndexOf[s] = Of(w) /\ (repo' = repo \/ Apart(s))
  <2>1. IndexOf[job[w].task] = Of(w) /\ \A u \in job[w].takes : IndexOf[u] = Of(w)
    BY <1>2 DEF Of, Staged, TasksOf
  <2> QED
    BY <1>2, <2>1, WorkRepo
<1>4. PICK s \in Task : IndexOf[s] = Of(w) /\ (repo' = repo \/ Apart(s))
  BY <1>3
<1>5. \A i : i # Of(w) => QuietFor(i)
  <2> SUFFICES ASSUME NEW i, i # Of(w) PROVE QuietFor(i)
    OBVIOUS
  <2>1. \A a \in Arch : NoarchOf(i, a)' = NoarchOf(i, a)
    BY <1>4, NoarchApart
  <2> QED
    BY <1>1, <2>1 DEF QuietFor, Finished
<1>6. HasNoarch'
  BY <1>1 DEF NoarchInv, HasNoarch
<1>7. ASSUME NEW v \in Busy, v # w
      PROVE  Shares(v)' /\ Bare(v)'
  <2>1. Untouched(v) /\ job'[v].alone = job[v].alone
    BY <1>1, <1>7, WorkRepo
  <2>2. job[v].alone => Of(v) # Of(w)
    BY <1>1, <1>7 DEF ArtifactsBase, JobInv, Beside
  <2> QED
    BY <1>5, <2>1, <2>2, OtherShares DEF NoarchInv
<1>10. /\ TasksOf(Of(w))' = TasksOf(Of(w)) /\ \A u : Completes(w, u)' <=> Completes(w, u)
       /\ Shares(w) /\ Bare(w)
  BY <1>1, <1>2 DEF TasksOf, Completes, NoarchInv, ShareInv
<1>8. Shares(w)' /\ Bare(w)'
  <2>3. CASE ShareNoarch(w)
    <3>1. /\ job[w].stage = "listed" /\ job[w].takes = {} /\ job[w].shared = None
          /\ job'[w].new = job[w].new
          /\ \/ /\ job'[w].takes = {u \in TasksOf(Of(w)) : Takes(w, u)}
                /\ job'[w].todo = job'[w].takes /\ job'[w].shared # None
             \/ /\ SharesAlike(w)
                /\ ~LastOfProject(job[w].task)
                   \/ \A u \in TasksOf(Of(w)) :
                         \A q \in (IF u = job[w].task THEN rows[u] \cup job[w].new ELSE rows[u]) :
                            ~q.noarch
      BY <2>3, SharedJob DEF ArtifactsBase
    <3>2. CASE /\ job'[w].takes = {u \in TasksOf(Of(w)) : Takes(w, u)}
               /\ job'[w].todo = job'[w].takes /\ job'[w].shared # None
      <4>1. \A u : Completes(w, u) => Takes(w, u)
        BY DEF Completes, Takes
      <4>2. Shares(w)'
        BY <1>2, <1>10, <3>2, <4>1 DEF Shares
      <4>3. Bare(w)'
        BY <3>2 DEF Bare
      <4> QED
        BY <4>2, <4>3
    <3>3. CASE /\ SharesAlike(w)
               /\ ~LastOfProject(job[w].task)
                  \/ \A u \in TasksOf(Of(w)) :
                        \A q \in (IF u = job[w].task THEN rows[u] \cup job[w].new ELSE rows[u]) :
                           ~q.noarch
      <4>1. Shares(w)'
        BY <3>1, <3>3 DEF Shares, SharesAlike
      <4>2. ASSUME \A u \in TasksOf(Of(w)) : (u = job[w].task \/ Finished(u)) /\ u \notin torn,
                   NEW u \in TasksOf(Of(w)), Completes(w, u)
            PROVE  FALSE
        <5>0. LastOfProject(job[w].task)
          BY <4>2 DEF LastOfProject, Of
        <5>1. CASE u = job[w].task
          <6>1. PackagesOf(w) \subseteq job[w].new /\ job[w].result = "COMPLETED"
            BY <1>2, <3>1, <4>2, <5>1 DEF Staged, Wrote, Completes
          <6>2. \E q \in PackagesOf(w) : q.noarch
            BY <1>1, <1>2, <6>1, BuiltType, MadeType DEF ArtifactsBase, PackagesOf
          <6> QED
            BY <3>3, <4>2, <5>0, <5>1, <6>1, <6>2
        <5>2. CASE u # job[w].task
          <6>1. u \in Task \ torn /\ status[u] = "COMPLETED"
            BY <4>2, <5>2 DEF Completes, TasksOf
          <6> QED
            BY <3>3, <4>2, <5>0, <5>2, <6>1 DEF NoarchInv, HasNoarch
        <5> QED
          BY <5>1, <5>2
      <4>3. Bare(w)'
        <5> SUFFICES ASSUME \A u \in TasksOf(Of(w)) : (u = job[w].task \/ Finished(u)') /\ u \notin torn'
                     PROVE  \A u \in TasksOf(Of(w)) : ~Completes(w, u)'
          BY <1>2, <1>10 DEF Bare
        <5>1. \A u \in TasksOf(Of(w)) : (u = job[w].task \/ Finished(u)) /\ u \notin torn
          BY <1>1 DEF Finished
        <5> QED
          BY <1>10, <4>2, <5>1
      <4> QED
        BY <4>1, <4>3
    <3> QED
      BY <3>1, <3>2, <3>3
  <2>4. CASE \E u \in Task : PublishNoarch(w, u)
    <3>1. PICK u \in Task : PublishNoarch(w, u)
      BY <2>4
    <3>2. /\ u \in job[w].takes /\ job[w].shared \in repo'[ArchOf[u]]
          /\ job[w].shared.noarch
          /\ \A q \in repo'[ArchOf[u]] : q.noarch /\ IndexOf[q.task] = Of(w) => q = job[w].shared
          /\ \A a \in Arch \ {ArchOf[u]} : repo'[a] = repo[a]
      BY <3>1, PublishedApart DEF ArtifactsBase
    <3>3. /\ job[w].stage = "sharing" /\ job'[w].todo = job[w].todo \ {u}
          /\ job'[w].takes = job[w].takes /\ job'[w].shared = job[w].shared
      BY <3>1, PublishedJob DEF ArtifactsBase
    <3>6. IndexOf[job[w].shared.task] = Of(w) /\ job[w].shared # None
      BY <1>2, <3>2 DEF Staged
    <3>7. ASSUME job[w].alone, NEW x \in job'[w].takes \ job'[w].todo
          PROVE  NoarchOf(Of(w), ArchOf[x])' = {job[w].shared}
      <4>1. CASE x = u
        BY <1>2, <3>2, <3>6, <4>1 DEF NoarchOf
      <4>2. CASE x # u
        <5>1. x \in Task /\ IndexOf[x] = Of(w) /\ IndexOf[u] = Of(w) /\ x \in job[w].takes \ job[w].todo
          BY <1>2, <3>2, <3>3, <3>7, <4>2 DEF Staged, TasksOf
        <5>2. ArchOf[x] \in Arch \ {ArchOf[u]}
          BY <4>2, <5>1, TaskPlace
        <5>3. NoarchOf(Of(w), ArchOf[x]) = {job[w].shared}
          BY <1>10, <3>6, <3>7, <5>1 DEF Shares
        <5> QED
          BY <1>2, <3>2, <5>2, <5>3 DEF NoarchOf
      <4> QED
        BY <4>1, <4>2
    <3>8. Shares(w)'
      <4> SUFFICES ASSUME job[w].alone
                   PROVE  /\ \A x \in TasksOf(Of(w)) : Completes(w, x)' => x \in job'[w].takes
                          /\ \A x \in job'[w].takes \ job'[w].todo :
                                NoarchOf(Of(w), ArchOf[x])' = {job[w].shared}
        BY <1>2, <1>10, <3>3 DEF Shares
      <4> QED
        BY <1>10, <3>3, <3>6, <3>7 DEF Shares
    <3>9. Bare(w)'
      BY <3>3, <3>6 DEF Bare
    <3> QED
      BY <3>8, <3>9
  <2>5. CASE ~ShareNoarch(w) /\ ~\E u \in Task : PublishNoarch(w, u)
    <3>1. /\ job[w].stage \in {"begun", "stored", "multilib", "complete"}
          /\ job'[w].stage # "sharing" /\ SharesAlike(w)
      BY <2>5, ProcessedJob, AddedJob, StoredJob, UpdatedJob DEF ArtifactsBase
    <3>2. job'[w].shared = None
      BY <1>2, <3>1 DEF Staged, SharesAlike
    <3> QED
      BY <3>1, <3>2 DEF Shares, Bare
  <2> QED
    BY <2>3, <2>4, <2>5
<1>9. SharedInv'
  <2> SUFFICES ASSUME NEW i \in Index \ cut PROVE SharedIn(i)'
    BY <1>1 DEF SharedInv
  <2>1. CASE i = Of(w)
    <3>1. \E t \in TasksOf(i) : ~Finished(t)' \/ t \in torn'
      BY <1>1, <1>2, <2>1 DEF TasksOf, Of, Finished, ArtifactsBase, JobInv, Rightly, Torn
    <3> QED
      BY <3>1 DEF SharedIn, TasksOf
  <2>2. CASE i # Of(w)
    BY <1>1, <1>5, <2>2, QuietShared DEF NoarchInv, SharedInv
  <2> QED
    BY <2>1, <2>2
<1> QED
  BY <1>1, <1>6, <1>7, <1>8, <1>9 DEF NoarchInv, ShareInv

LEMMA StartedNoarch == ArtifactsBase /\ NoarchInv /\ Started => NoarchInv'
<1> SUFFICES ASSUME ArtifactsBase, NoarchInv,
                    NEW w \in Worker, NEW t \in Task, NEW nr \in Nat,
                    NEW r \in Result, Begin(w, t, nr, r)
             PROVE  NoarchInv'
  BY DEF Started
<1>1. /\ w \notin Busy /\ Busy' = Busy \cup {w}
      /\ job'[w].stage = "begun"
      /\ status' = status /\ rows' = rows /\ torn \subseteq torn' /\ cut' = cut /\ repo' = repo
      /\ job'[w].shared = None /\ \A v \in Busy : job'[v].alone => job[v].alone
  BY BegunJob DEF ArtifactsBase
<1>2. StaysTaken /\ \A v \in Busy : Untouched(v)
  BY StartedOthers
<1>3. \A i : QuietFor(i)
  BY <1>1 DEF QuietFor, Finished, NoarchOf
<1>4. HasNoarch'
  BY <1>1 DEF NoarchInv, HasNoarch
<1>5. ShareInv'
  <2>1. \A v \in Busy : Shares(v)' /\ Bare(v)'
    BY <1>1, <1>2, <1>3, OtherShares DEF NoarchInv
  <2>2. Shares(w)' /\ Bare(w)'
    BY <1>1 DEF Shares, Bare
  <2> QED
    BY <1>1, <2>1, <2>2 DEF ShareInv
<1>6. SharedInv'
  BY <1>1, <1>3, QuietShared DEF NoarchInv, SharedInv
<1> QED
  BY <1>4, <1>5, <1>6 DEF NoarchInv

LEMMA AsideNoarch == ArtifactsBase /\ NoarchInv /\ Aside => NoarchInv'
<1> SUFFICES ASSUME ArtifactsBase, NoarchInv, Aside PROVE NoarchInv'
  OBVIOUS
<1>1. /\ \A v \in Busy : Untouched(v)
      /\ UNCHANGED <<rows, repo, modules, current, job, raced, torn>>
      /\ Busy' = Busy /\ Settles
  BY AsideOthers
<1>2. \A i \in Index : QuietFor(i)
  BY <1>1 DEF QuietFor, Settles, NoarchOf, TasksOf
<1>3. HasNoarch'
  BY <1>1 DEF NoarchInv, HasNoarch, Settles
<1>4. ShareInv'
  <2>1. \A v \in Busy : Of(v) \in Index
    BY MadeType DEF ArtifactsBase
  <2> QED
    BY <1>1, <1>2, <2>1, OtherShares DEF NoarchInv, ShareInv
<1>5. SharedInv'
  <2> SUFFICES ASSUME NEW i \in Index \ cut' PROVE SharedIn(i)'
    BY DEF SharedInv
  <2>1. QuietFor(i) /\ i \notin cut
    BY <1>2 DEF QuietFor
  <2>2. SharedIn(i) /\ \A u \in TasksOf(i) : rows'[u] = rows[u]
    BY <1>1, <2>1 DEF NoarchInv, SharedInv
  <2> QED
    BY <2>1, <2>2, QuietShared
<1> QED
  BY <1>3, <1>4, <1>5 DEF NoarchInv

LEMMA EndedNoarch == ArtifactsBase /\ NoarchInv /\ Ended => NoarchInv'
<1> SUFFICES ASSUME ArtifactsBase, NoarchInv, NEW w \in Worker, Commit(w) \/ Raise(w) \/ Crash(w)
             PROVE  NoarchInv'
  BY DEF Ended
<1>1. /\ w \in Busy /\ Busy' = Busy \ {w}
      /\ \A v \in Busy' : v \in Busy /\ v # w /\ job'[v] = job[v] /\ Untouched(v)
      /\ StaysTaken /\ repo' = repo
      /\ \A u \in Task \ {job[w].task} : status'[u] = status[u] \/ Failing(w, u)
      /\ Crash(w) => status' = status
      /\ Commit(w) => status'[job[w].task] = job[w].result
  BY EndedOthers
<1>2. /\ Staged(w) /\ job[w].task \in Task /\ (Finished(job[w].task) => Torn(Of(w)))
      /\ job[w].result \in Result /\ job[w].takes \subseteq TasksOf(Of(w)) /\ Its(w) \in Arch
      /\ Of(w) \in Index /\ Of(w) = IndexOf[job[w].task] /\ job[w].task \in TasksOf(Of(w))
  BY <1>1, MadeType DEF ArtifactsBase, StageInv, JobInv, Rightly, Job, Of, Staged, TasksOf
<1>3. torn \subseteq torn'
  BY <1>1 DEF StaysTaken
<1>9. \A i \in Index : i \in cut /\ i # Of(w) => i \in cut'
  <2>1. \A i \in Index : i # Its(w)
    BY <1>2, TaskPlace
  <2>2. \A i : i \in cut /\ i # Of(w) /\ i # Its(w) => i \in cut'
    BY DEF Commit, Raise, Crash, Of, Its
  <2> QED
    BY <2>1, <2>2
<1>4. \A i \in Index : i # Of(w) => QuietFor(i)
  BY <1>1, <1>2, <1>3, <1>9 DEF QuietFor, Finished, NoarchOf, TasksOf, Failing
<1>5. \A u \in Task : IndexOf[u] # Of(w) => rows'[u] = rows[u]
  <2>1. CASE Crash(w)
    BY <2>1 DEF Crash
  <2>2. CASE Commit(w) \/ Raise(w)
    <3>1. rows' = RowsIn(w)
      BY <2>2, WrittenRows
    <3>2. \A u \in Task : IndexOf[u] # Of(w) => u \notin job[w].takes /\ u # job[w].task
      BY <1>2 DEF TasksOf
    <3> QED
      BY <1>1, <3>1, <3>2, RowsInLemma DEF ArtifactsBase
  <2> QED
    BY <2>1, <2>2
<1>6. ShareInv'
  <2> SUFFICES ASSUME NEW v \in Busy' PROVE Shares(v)' /\ Bare(v)'
    BY DEF ShareInv
  <2>1. v \in Busy /\ Untouched(v) /\ job'[v].alone = job[v].alone /\ Of(v) \in Index
    BY <1>1, MadeType DEF ArtifactsBase
  <2>2. job[v].alone => Of(v) # Of(w)
    BY <1>1 DEF ArtifactsBase, JobInv, Beside
  <2> QED
    BY <1>4, <2>1, <2>2, OtherShares DEF NoarchInv
<1>10. \A t \in Task \ {job[w].task} : status'[t] = "COMPLETED" => status[t] = "COMPLETED"
  BY <1>1 DEF Failing
<1>7. HasNoarch'
  <2>1. CASE Crash(w)
    BY <1>1, <1>3, <2>1 DEF Crash, NoarchInv, HasNoarch
  <2>2. CASE Raise(w)
    <3>1. /\ rows' = RowsIn(w) /\ torn' = torn \cup {job[w].task} \cup job[w].takes
      BY <2>2, WrittenRows DEF Raise
    <3>2. \A t \in Task \ torn' : rows'[t] = rows[t] /\ t # job[w].task
      BY <1>1, <3>1, RowsInLemma DEF ArtifactsBase
    <3> QED
      BY <1>3, <1>10, <3>2 DEF NoarchInv, HasNoarch
  <2>3. CASE Commit(w)
    <3>1. /\ rows' = RowsIn(w) /\ torn' = torn /\ job[w].stage = "sharing"
          /\ status'[job[w].task] = job[w].result
      BY <1>1, <2>3, WrittenRows DEF Commit, In
    <3>2. ASSUME NEW t \in Task \ torn', status'[t] = "COMPLETED"
          PROVE  \E q \in rows'[t] : q.noarch
      <4>1. CASE t \in job[w].takes
        <5>1. job[w].shared \in Package /\ job[w].shared \in rows'[t]
          BY <1>1, <3>1, <4>1, RowsInLemma DEF ArtifactsBase
        <5>2. job[w].shared.noarch
          BY <1>2, <4>1 DEF Staged
        <5> QED
          BY <5>1, <5>2
      <4>2. CASE t \notin job[w].takes /\ t = job[w].task
        <5>1. job[w].result = "COMPLETED"
          BY <3>1, <3>2, <4>2
        <5>2. PackagesOf(w) \subseteq job[w].new /\ rows'[t] = rows[t] \cup job[w].new
          BY <1>1, <1>2, <3>1, <4>2, RowsInLemma DEF ArtifactsBase, Staged, Wrote
        <5>4. \E q \in PackagesOf(w) : q.noarch
          BY <1>1, <5>1, BuiltType, MadeType DEF ArtifactsBase, PackagesOf
        <5> QED
          BY <5>2, <5>4
      <4>3. CASE t \notin job[w].takes /\ t # job[w].task
        <5>1. rows'[t] = rows[t]
          BY <1>1, <3>1, <4>3, RowsInLemma DEF ArtifactsBase
        <5>2. status[t] = "COMPLETED" /\ t \in Task \ torn
          BY <1>10, <3>1, <3>2, <4>3
        <5> QED
          BY <5>1, <5>2 DEF NoarchInv, HasNoarch
      <4> QED
        BY <4>1, <4>2, <4>3
    <3> QED
      BY <3>2 DEF HasNoarch
  <2> QED
    BY <2>1, <2>2, <2>3
<1>8. ASSUME NEW i \in Index \ cut'
      PROVE  SharedIn(i)'
  <2>1. CASE i # Of(w)
    <3>2. SharedIn(i)
      BY <1>8, <1>9, <2>1 DEF NoarchInv, SharedInv
    <3> QED
      BY <1>4, <1>5, <1>8, <2>1, <3>2, QuietShared DEF TasksOf
  <2>2. CASE i = Of(w) /\ Crash(w)
    <3>1. status' = status
      BY <1>1, <2>2
    <3>2. \E t \in TasksOf(i) : ~Finished(t)' \/ t \in torn'
      BY <1>2, <1>3, <2>2, <3>1 DEF Finished, Torn
    <3> QED
      BY <3>2 DEF SharedIn, TasksOf
  <2>3. CASE i = Of(w) /\ Raise(w)
    BY <1>8, <2>3 DEF Raise, Of, Places
  <2>4. CASE i = Of(w) /\ Commit(w)
    <3> SUFFICES ASSUME \A t \in TasksOf(i) : Finished(t)' /\ t \notin torn'
                 PROVE  \E p : \A t \in TasksOf(i) : status'[t] = "COMPLETED" =>
                           Noarch(rows'[t]) = {p} /\ NoarchOf(i, ArchOf[t])' = {p}
      BY DEF SharedIn, TasksOf, Noarch
    <3>1. /\ rows' = RowsIn(w) /\ torn' = torn /\ job[w].stage = "sharing" /\ job[w].todo = {}
          /\ status'[job[w].task] = job[w].result
      BY <1>1, <2>4, WrittenRows DEF Commit, In
    <3>2. job[w].alone /\ (job[w].shared = None => i \notin cut)
      <4>1. i # Its(w)
        BY <1>2, TaskPlace
      <4> QED
        BY <1>8, <2>4, <4>1 DEF Commit, Of, Its
    <3>3. \A u \in TasksOf(i) : u = job[w].task \/ status'[u] = status[u]
      BY <1>1, <1>8 DEF Failing, TasksOf
    <3>4. \A u \in TasksOf(i) : status'[u] = "COMPLETED" => Completes(w, u)
      BY <3>1, <3>3 DEF Completes
    <3>5. Shares(w) /\ Bare(w)
      BY <1>1 DEF NoarchInv, ShareInv
    <3>6. CASE job[w].shared = None
      <4>1. \A u \in TasksOf(i) : (u = job[w].task \/ Finished(u)) /\ u \notin torn
        BY <1>3, <3>3 DEF Finished
      <4>2. \A u \in TasksOf(i) : ~Completes(w, u)
        BY <2>4, <3>1, <3>2, <3>5, <3>6, <4>1 DEF Bare
      <4> QED
        BY <3>4, <4>2
    <3>7. CASE job[w].shared # None
      <4>0. ASSUME NEW t \in TasksOf(i), status'[t] = "COMPLETED"
            PROVE  Noarch(rows'[t]) = {job[w].shared} /\ NoarchOf(i, ArchOf[t])' = {job[w].shared}
        <5>2. t \in job[w].takes
          BY <2>4, <3>2, <3>4, <3>5, <3>7, <4>0 DEF Shares
        <5>3. job[w].shared.noarch
          BY <1>2, <5>2 DEF Staged
        <5>4. Noarch(rows'[t]) = {job[w].shared}
          BY <1>1, <3>1, <5>2, <5>3, RowsInLemma DEF ArtifactsBase, Noarch
        <5>5. NoarchOf(i, ArchOf[t]) = {job[w].shared}
          BY <2>4, <3>1, <3>2, <3>5, <3>7, <5>2 DEF Shares
        <5> QED
          BY <1>1, <5>4, <5>5 DEF NoarchOf
      <4> QED
        BY <4>0
    <3> QED
      BY <3>6, <3>7
  <2> QED
    BY <2>1, <2>2, <2>3, <2>4
<1> QED
  BY <1>6, <1>7, <1>8 DEF NoarchInv, SharedInv

LEMMA NoarchStep == ArtifactsBase /\ NoarchInv /\ [Next]_vars => NoarchInv'
<1> SUFFICES ASSUME ArtifactsBase, NoarchInv, [Next]_vars PROVE NoarchInv'
  OBVIOUS
<1>1. CASE Next
  BY <1>1, NextWork, StartedNoarch, WorkNoarch, EndedNoarch, AsideNoarch DEF ArtifactsBase
<1>2. CASE UNCHANGED vars
  <2>1. Busy' = Busy
    BY <1>2 DEF vars, Busy
  <2>2. HasNoarch'
    BY <1>2 DEF vars, progress, history, NoarchInv, HasNoarch
  <2>3. ShareInv'
    BY <1>2, <2>1 DEF vars, progress, history, NoarchInv, ShareInv, Shares, Bare, Completes, Of,
       Finished, NoarchOf, TasksOf
  <2>4. SharedInv'
    BY <1>2 DEF vars, progress, history, NoarchInv, SharedInv, SharedIn, Finished, NoarchOf, Noarch
  <2> QED
    BY <2>2, <2>3, <2>4 DEF NoarchInv
<1> QED
  BY <1>1, <1>2

LEMMA NoarchMeans == ArtifactsBase /\ NoarchInv => NoarchIsShared
<1> SUFFICES ASSUME ArtifactsBase, NoarchInv, NEW i \in Index \ cut,
                    \A t \in TasksOf(i) : Finished(t) /\ t \notin torn,
                    NEW d \in TasksOf(i), status[d] = "COMPLETED"
             PROVE  \E p \in UNION {rows[t] : t \in {u \in TasksOf(i) : status[u] = "COMPLETED"}} :
                       \A t \in {u \in TasksOf(i) : status[u] = "COMPLETED"} :
                          /\ Noarch(rows[t]) = {p}
                          /\ {q \in repo[ArchOf[t]] : q.noarch /\ IndexOf[q.task] = i} = {p}
  BY DEF NoarchIsShared
<1>1. PICK p : \A t \in TasksOf(i) : status[t] = "COMPLETED" =>
                  Noarch(rows[t]) = {p} /\ NoarchOf(i, ArchOf[t]) = {p}
  BY DEF NoarchInv, SharedInv, SharedIn
<1>2. p \in rows[d]
  BY <1>1 DEF Noarch
<1>3. p \in UNION {rows[t] : t \in {u \in TasksOf(i) : status[u] = "COMPLETED"}}
  BY <1>2
<1> QED
  BY <1>1, <1>3 DEF NoarchOf

\* What MCBuildArtifacts checks as NoarchIsShared: once all tasks of a project are
\* finished, its completed tasks name one noarch package and it is the only one of
\* the project in each of their repositories, unless the last jobs of the project
\* overlapped or one was stopped half way, its last task was cancelled, fast-failed
\* or raised, or a finished one was processed again (noarch.py:
\* save_noarch_packages).
THEOREM NoarchShared == Spec => []NoarchIsShared
<1>1. Init => ArtifactsBase /\ NoarchInv
  BY InitBase, InitNoarch
<1>2. ArtifactsBase /\ NoarchInv /\ [Next]_vars => (ArtifactsBase /\ NoarchInv)'
  BY BaseStep, NoarchStep
<1>3. ArtifactsBase /\ NoarchInv => NoarchIsShared
  BY NoarchMeans
<1> QED
  BY <1>1, <1>2, <1>3, PTL DEF Spec

(***************************************************************************)
(* The module of an architecture.                                          *)
(***************************************************************************)
\* What a task may have: its own packages, a noarch one, and the multilib ones
Nevras(t) == {<<IndexOf[t], ArchOf[t]>>, <<IndexOf[t], "noarch">>}
Known(t) == Nevras(t) \cup Lists(MultilibOf(t))
KnownInv ==
    /\ \A t \in Task : \A q \in rows[t] : Nevra(q) \in Known(t)
    /\ \A w \in Busy, t \in Task : t = job[w].task =>
          \A q \in job[w].new : Nevra(q) \in Known(t)

BesideInv == \A v, w \in Busy : v # w /\ Its(v) = Its(w) => Its(w) \in raced

\* The repository has one module: the one the database knows, until a job has
\* written the next
ChainIn(w) ==
    /\ Wrote(w) => /\ modules[Its(w)] = {job[w].old}
                   /\ current[Its(w)].lists \subseteq job[w].old.lists
                   /\ LastForArch(job[w].task) => job[w].old.final \/ Its(w) \in cut
    /\ ~Wrote(w) => /\ modules[Its(w)] = {current[Its(w)]} /\ job[w].old = current[Its(w)]
                    /\ current[Its(w)].lists \subseteq job[w].lists
ChainInv ==
    /\ \A w \in Busy : Its(w) \notin raced => ChainIn(w)
    /\ \A a \in Arch \ raced : (\A w \in Busy : Its(w) # a) => modules[a] = {current[a]}

\* What a module lists of a job, and of a completed task
ListIn(w) ==
    job[w].result = "COMPLETED" =>
       /\ job[w].stage # "begun" => Nevras(job[w].task) \subseteq job[w].lists
       /\ Wrote(w) =>
             /\ Nevras(job[w].task) \subseteq job[w].old.lists
             /\ \A q \in rows[job[w].task] \cup job[w].new : Nevra(q) \in job[w].old.lists
ListedIn(t) ==
    ArchOf[t] \notin raced /\ status[t] = "COMPLETED" =>
       /\ Nevras(t) \subseteq current[ArchOf[t]].lists
       /\ \A q \in rows[t] : Nevra(q) \in current[ArchOf[t]].lists
ListInv == (\A w \in Busy : ListIn(w)) /\ (\A t \in Task : ListedIn(t))

FinalInv == \A a \in Arch \ (raced \cup cut) : (\A t \in TasksFor(a) : Finished(t)) => current[a].final

ModuleInv == KnownInv /\ BesideInv /\ ChainInv /\ ListInv /\ FinalInv

LEMMA BuiltNevras == \A t \in Task, nr \in Nat :
    /\ Nevras(t) \subseteq Lists(Built(t, nr))
    /\ \A q \in Built(t, nr) : Nevra(q) \in Nevras(t)
<1> TAKE t \in Task, nr \in Nat
<1> DEFINE p == [task |-> t, nr |-> nr, noarch |-> TRUE]
           q == [task |-> t, nr |-> nr, noarch |-> FALSE]
<1>1. p \in Built(t, nr) /\ q \in Built(t, nr)
  BY DEF Built
<1>2. Nevra(p) = <<IndexOf[t], "noarch">> /\ Nevra(q) = <<IndexOf[t], ArchOf[t]>>
  BY DEF Nevra
<1> HIDE DEF p, q
<1>3. Nevra(p) \in Lists(Built(t, nr)) /\ Nevra(q) \in Lists(Built(t, nr))
  BY <1>1 DEF Lists
<1>4. \A r \in Built(t, nr) : Nevra(r) \in Nevras(t)
  BY DEF Built, Nevra, Nevras
<1> QED
  BY <1>2, <1>3, <1>4 DEF Nevras

LEMMA InitModule == Init => ModuleInv
<1> SUFFICES ASSUME Init PROVE ModuleInv
  OBVIOUS
<1>1. Busy = {} /\ \A t \in Task : ~Finished(t) /\ status[t] # "COMPLETED"
  BY DEF Init, Busy, Finished
<1>2. KnownInv
  BY <1>1 DEF Init, KnownInv
<1>3. ChainInv
  BY <1>1 DEF Init, ChainInv
<1>4. ListInv
  BY <1>1 DEF ListInv, ListedIn
<1>5. FinalInv
  BY <1>1, TaskPlace DEF FinalInv, TasksFor
<1> QED
  BY <1>1, <1>2, <1>3, <1>4, <1>5 DEF ModuleInv, BesideInv

\* No package but a noarch one leaves the rows of a task
LEMMA KnownGrows ==
    ASSUME \A u \in Task : \A q \in rows[u] : ~q.noarch => q \in rows'[u], NEW t \in Task
    PROVE  Known(t) \subseteq Known(t)'
<1>1. MultilibOf(t) \subseteq MultilibOf(t)'
  BY DEF MultilibOf, I686Tasks, TasksOf, Noarch
<1> QED
  BY <1>1 DEF Known, Lists

LEMMA ModuleOther ==
    ASSUME ArtifactsBase, NEW v \in Busy, Untouched(v), StaysTaken
    PROVE  /\ job'[v].task = job[v].task /\ Its(v)' = Its(v) /\ (Wrote(v)' <=> Wrote(v))
           /\ job'[v].old = job[v].old /\ job'[v].lists = job[v].lists
           /\ job'[v].new = job[v].new /\ job'[v].stage = job[v].stage
           /\ job'[v].result = job[v].result
           /\ job[v].task \in Task /\ Its(v) \in Arch /\ Its(v) = ArchOf[job[v].task]
  BY UntouchedStaged, MadeType DEF Untouched, ArtifactsBase, Its

\* Another job at an architecture whose module the step leaves alone
LEMMA OtherChain ==
    ASSUME ArtifactsBase, NEW v \in Busy, Untouched(v), StaysTaken, ChainIn(v),
           modules'[Its(v)] = modules[Its(v)], current'[Its(v)] = current[Its(v)],
           Its(v) \notin cut' => Its(v) \notin cut /\ \A u \in TasksFor(Its(v)) : Finished(u)' => Finished(u)
    PROVE  ChainIn(v)'
<1>1. /\ job'[v].task = job[v].task /\ Its(v)' = Its(v) /\ (Wrote(v)' <=> Wrote(v))
      /\ job'[v].old = job[v].old /\ job'[v].lists = job[v].lists
      /\ Its(v) = ArchOf[job[v].task]
  BY ModuleOther
<1>2. LastForArch(job[v].task)' => LastForArch(job[v].task) \/ Its(v) \in cut'
  BY <1>1 DEF LastForArch, TasksFor
<1> QED
  BY <1>1, <1>2 DEF ChainIn

LEMMA OtherList ==
    ASSUME ArtifactsBase, NEW v \in Busy, Untouched(v), StaysTaken, ListIn(v),
           \A q \in rows'[job[v].task] : q \in rows[job[v].task] \/ Nevra(q) \in Nevras(job[v].task)
    PROVE  ListIn(v)'
<1>1. /\ job'[v].task = job[v].task /\ (Wrote(v)' <=> Wrote(v))
      /\ job'[v].old = job[v].old /\ job'[v].lists = job[v].lists
      /\ job'[v].new = job[v].new /\ job'[v].stage = job[v].stage
      /\ job'[v].result = job[v].result
  BY ModuleOther
<1> QED
  BY <1>1 DEF ListIn, Nevras

\* The job that is in the step
LEMMA WorkModule ==
    ASSUME ArtifactsBase, ModuleInv, NEW w \in Worker,
           \/ ProcessRpms(w) \/ AddMultilib(w) \/ StoreMultilib(w) \/ UpdateModule(w)
           \/ ShareNoarch(w) \/ \E u \in Task : PublishNoarch(w, u)
    PROVE  /\ Its(w) \notin raced => ChainIn(w)'
           /\ ListIn(w)'
           /\ \A q \in job'[w].new : Nevra(q) \in Known(job[w].task)
           /\ \A a \in Arch \ {Its(w)} : modules'[a] = modules[a]
<1>1. /\ Keeps(w) /\ w \in Busy /\ rows' = rows /\ current' = current /\ status' = status
      /\ cut' = cut
  BY WorkBasics DEF Keeps, progress, history
<1>2. /\ Staged(w) /\ Its(w)' = Its(w) /\ PackagesOf(w)' = PackagesOf(w)
      /\ (Wrote(w)' <=> job'[w].stage \in {"listed", "sharing"})
      /\ (Wrote(w) <=> job[w].stage \in {"listed", "sharing"})
      /\ job'[w].task = job[w].task /\ job'[w].result = job[w].result
      /\ job[w].task \in Task /\ Its(w) \in Arch
      /\ job[w].result = "COMPLETED" => PackagesOf(w) = Built(job[w].task, job[w].nr)
      /\ job[w].result # "COMPLETED" => PackagesOf(w) = {}
      /\ job[w].nr \in Nat
  BY <1>1, WorkStaged, MadeType DEF Keeps, Wrote, ArtifactsBase
<1>3. /\ Its(w) \notin raced => ChainIn(w)
      /\ ListIn(w) /\ \A q \in job[w].new \cup rows[job[w].task] : Nevra(q) \in Known(job[w].task)
  BY <1>1, <1>2 DEF ModuleInv, ChainInv, ListInv, KnownInv
<1>4. LastForArch(job[w].task)' <=> LastForArch(job[w].task)
  BY <1>1, <1>2 DEF LastForArch, Finished, TasksFor
<1>5. CASE ProcessRpms(w)
  <2>1. /\ job[w].stage = "begun" /\ job'[w].stage = "stored"
        /\ job'[w].lists = job[w].lists \cup Lists(PackagesOf(w))
        /\ job'[w].new = job[w].new /\ job'[w].old = job[w].old /\ modules' = modules
    BY <1>5, ProcessedJob, ProcessedApart DEF ArtifactsBase
  <2>2. Its(w) \notin raced => ChainIn(w)'
    BY <1>1, <1>2, <1>3, <2>1 DEF ChainIn
  <2>3. ListIn(w)'
    BY <1>2, <2>1, BuiltNevras DEF ListIn, Nevras
  <2> QED
    BY <1>3, <2>1, <2>2, <2>3
<1>6. CASE AddMultilib(w)
  <2>1. /\ job[w].stage = "stored" /\ job'[w].stage = "multilib"
        /\ job'[w].new = MultilibOf(job[w].task)
        /\ job'[w].lists = job[w].lists /\ job'[w].old = job[w].old /\ modules' = modules
    BY <1>6, AddedJob DEF ArtifactsBase, AddMultilib
  <2>2. Its(w) \notin raced => ChainIn(w)'
    BY <1>1, <1>2, <1>3, <2>1 DEF ChainIn
  <2>3. ListIn(w)'
    BY <1>2, <1>3, <2>1 DEF ListIn, Nevras
  <2> QED
    BY <2>1, <2>2, <2>3 DEF Known, Lists
<1>7. CASE StoreMultilib(w)
  <2>1. /\ job[w].stage = "multilib" /\ job'[w].stage = "complete"
        /\ job'[w].new = job[w].new
        /\ job'[w].lists = job[w].lists /\ job'[w].old = job[w].old /\ modules' = modules
    BY <1>7, StoredJob, StoredApart DEF ArtifactsBase
  <2>2. Its(w) \notin raced => ChainIn(w)'
    BY <1>1, <1>2, <1>3, <2>1 DEF ChainIn
  <2>3. ListIn(w)'
    BY <1>2, <1>3, <2>1 DEF ListIn, Nevras
  <2> QED
    BY <1>3, <2>1, <2>2, <2>3
<1>8. CASE UpdateModule(w)
  <2>1. /\ job[w].stage \in {"stored", "complete"} /\ job'[w].stage = "listed"
        /\ job'[w].new = job[w].new \cup PackagesOf(w)
        /\ job'[w].old = Written(w)
        /\ modules' = [modules EXCEPT ![Its(w)] = (@ \ {job[w].old}) \cup {Written(w)}]
    BY <1>8, UpdatedJob DEF ArtifactsBase
  <2>2. /\ modules'[Its(w)] = (modules[Its(w)] \ {job[w].old}) \cup {Written(w)}
        /\ \A a \in Arch \ {Its(w)} : modules'[a] = modules[a]
    BY <1>2, <2>1 DEF ArtifactsBase, ArtifactsType
  <2>3. /\ Written(w).final = LastForArch(job[w].task)
        /\ job[w].lists \subseteq Written(w).lists
        /\ job[w].result = "COMPLETED" => Lists(MultilibOf(job[w].task)) \subseteq Written(w).lists
    BY DEF Written
  <2>4. Its(w) \notin raced => ChainIn(w)'
    BY <1>1, <1>2, <1>3, <1>4, <2>1, <2>2, <2>3 DEF ChainIn
  <2>5. \A q \in PackagesOf(w) : Nevra(q) \in Nevras(job[w].task)
    BY <1>2, BuiltNevras
  <2>6. \A q \in job'[w].new \cup rows[job[w].task] : Nevra(q) \in Known(job[w].task)
    BY <1>3, <2>1, <2>5 DEF Known
  <2>7. job[w].result = "COMPLETED" => /\ Nevras(job[w].task) \subseteq Written(w).lists
                                       /\ Known(job[w].task) \subseteq Written(w).lists
                                       /\ Nevras(job[w].task) \subseteq job'[w].lists
    <3>1. job'[w].lists = job[w].lists
      BY <1>8, UpdatedJob DEF ArtifactsBase
    <3> QED
      BY <1>3, <2>1, <2>3, <3>1 DEF Known, ListIn
  <2>8. ListIn(w)'
    BY <1>1, <1>2, <2>1, <2>6, <2>7 DEF ListIn, Nevras
  <2> QED
    BY <2>2, <2>4, <2>6, <2>8
<1>9. CASE ShareNoarch(w)
  <2>1. /\ job[w].stage = "listed" /\ job'[w].stage = "sharing"
        /\ job'[w].new = job[w].new
        /\ job'[w].lists = job[w].lists /\ job'[w].old = job[w].old /\ modules' = modules
    BY <1>9, SharedJob DEF ArtifactsBase, ShareNoarch
  <2>2. Its(w) \notin raced => ChainIn(w)'
    BY <1>1, <1>2, <1>3, <1>4, <2>1 DEF ChainIn
  <2>3. ListIn(w)'
    BY <1>1, <1>2, <1>3, <2>1 DEF ListIn, Nevras
  <2> QED
    BY <1>3, <2>1, <2>2, <2>3
<1>10. CASE \E u \in Task : PublishNoarch(w, u)
  <2>1. PICK u \in Task : PublishNoarch(w, u)
    BY <1>10
  <2>2. /\ job[w].stage = "sharing" /\ job'[w].stage = "sharing"
        /\ job'[w].new = job[w].new
        /\ job'[w].lists = job[w].lists /\ job'[w].old = job[w].old /\ modules' = modules
    BY <2>1, PublishedJob, PublishedApart DEF ArtifactsBase
  <2>3. Its(w) \notin raced => ChainIn(w)'
    BY <1>1, <1>2, <1>3, <1>4, <2>2 DEF ChainIn
  <2>4. ListIn(w)'
    BY <1>1, <1>2, <1>3, <2>2 DEF ListIn, Nevras
  <2> QED
    BY <1>3, <2>2, <2>3, <2>4
<1> QED
  BY <1>5, <1>6, <1>7, <1>8, <1>9, <1>10

LEMMA WorkModuleInv == ArtifactsBase /\ ModuleInv /\ Work => ModuleInv'
<1> SUFFICES ASSUME ArtifactsBase, ModuleInv, NEW w \in Worker,
                    \/ ProcessRpms(w) \/ AddMultilib(w) \/ StoreMultilib(w) \/ UpdateModule(w)
                    \/ ShareNoarch(w) \/ \E u \in Task : PublishNoarch(w, u)
             PROVE  ModuleInv'
  BY DEF Work
<1>1. /\ Keeps(w) /\ w \in Busy /\ Busy' = Busy /\ job'[w].task = job[w].task
      /\ status' = status /\ rows' = rows /\ cut' = cut /\ raced' = raced /\ current' = current
      /\ StaysTaken /\ \A v \in Busy \ {w} : Untouched(v)
  BY WorkBasics, WorkRepo DEF Keeps, progress, history
<1>2. /\ Its(w) \notin raced => ChainIn(w)'
      /\ ListIn(w)'
      /\ \A q \in job'[w].new : Nevra(q) \in Known(job[w].task)
      /\ \A a \in Arch \ {Its(w)} : modules'[a] = modules[a]
  BY WorkModule
<1>3. \A v \in Busy : Its(v)' = Its(v) /\ Its(v) \in Arch
  BY <1>1, MadeType DEF Its, Untouched, ArtifactsBase
<1>4. \A t \in Task : Known(t)' = Known(t)
  BY <1>1 DEF Known, Nevras, MultilibOf
<1>5. KnownInv'
  <2>1. ASSUME NEW v \in Busy, NEW t \in Task, t = job'[v].task, NEW q \in job'[v].new
        PROVE  t = job[v].task /\ Nevra(q) \in Known(t)
    BY <1>1, <1>2, <2>1 DEF Untouched, ModuleInv, KnownInv
  <2> QED
    BY <1>1, <1>4, <2>1 DEF ModuleInv, KnownInv
<1>6. BesideInv'
  BY <1>1, <1>3 DEF ModuleInv, BesideInv
<1>7. ChainInv'
  <2>1. ASSUME NEW v \in Busy, v # w, Its(v) \notin raced
        PROVE  ChainIn(v)'
    <3>1. Its(v) # Its(w) /\ ChainIn(v)
      BY <1>1, <2>1 DEF ModuleInv, BesideInv, ChainInv
    <3>2. modules'[Its(v)] = modules[Its(v)] /\ current'[Its(v)] = current[Its(v)]
      BY <1>1, <1>2, <1>3, <3>1
    <3>3. cut' = cut /\ \A u \in TasksFor(Its(v)) : Finished(u)' => Finished(u)
      BY <1>1 DEF Finished
    <3> QED
      BY <1>1, <2>1, <3>1, <3>2, <3>3, OtherChain
  <2>2. ASSUME NEW a \in Arch \ raced, \A v \in Busy : Its(v) # a
        PROVE  modules'[a] = {current'[a]}
    BY <1>1, <1>2, <2>2 DEF ModuleInv, ChainInv
  <2> QED
    BY <1>1, <1>2, <1>3, <2>1, <2>2 DEF ChainInv
<1>8. ListInv'
  <2>1. \A v \in Busy : v # w => ListIn(v)'
    BY <1>1, OtherList DEF ModuleInv, ListInv
  <2>2. \A t \in Task : ListedIn(t)'
    BY <1>1 DEF ModuleInv, ListInv, ListedIn, Nevras
  <2> QED
    BY <1>1, <1>2, <2>1, <2>2 DEF ListInv
<1>9. FinalInv'
  BY <1>1 DEF ModuleInv, FinalInv, Finished
<1> QED
  BY <1>5, <1>6, <1>7, <1>8, <1>9 DEF ModuleInv

LEMMA StartedModule == ArtifactsBase /\ ModuleInv /\ Started => ModuleInv'
<1> SUFFICES ASSUME ArtifactsBase, ModuleInv,
                    NEW w \in Worker, NEW t \in Task, NEW nr \in Nat,
                    NEW r \in Result, Begin(w, t, nr, r)
             PROVE  ModuleInv'
  BY DEF Started
<1>1. /\ w \notin Busy /\ Busy' = Busy \cup {w}
      /\ job'[w].task = t /\ job'[w].stage = "begun" /\ job'[w].old = current[ArchOf[t]]
      /\ job'[w].new = {} /\ \E m \in modules[ArchOf[t]] : job'[w].lists = m.lists
      /\ status' = status /\ rows' = rows /\ cut' = cut /\ current' = current
      /\ modules' = modules
      /\ raced \subseteq raced' /\ raced' \subseteq raced \cup {ArchOf[t]}
      /\ (\E v \in Busy : Its(v) = ArchOf[t]) => ArchOf[t] \in raced'
  BY BegunJob DEF ArtifactsBase
<1>2. StaysTaken /\ \A v \in Busy : Untouched(v)
  BY StartedOthers
<1>3. Its(w)' = ArchOf[t] /\ ArchOf[t] \in Arch /\ ~Wrote(w)'
  BY <1>1, TaskPlace DEF Its, Wrote
<1>4. \A v \in Busy : Its(v)' = Its(v) /\ Its(v) \in Arch
  BY <1>2, ModuleOther
<1>5. KnownInv'
  <2>1. \A u \in Task : Known(u)' = Known(u)
    BY <1>1 DEF Known, Nevras, MultilibOf
  <2>2. ASSUME NEW v \in Busy, NEW u \in Task, u = job'[v].task, NEW q \in job'[v].new
        PROVE  u = job[v].task /\ Nevra(q) \in Known(u)
    BY <1>2, <2>2 DEF Untouched, ModuleInv, KnownInv
  <2> QED
    BY <1>1, <2>1, <2>2 DEF ModuleInv, KnownInv
<1>6. BesideInv'
  BY <1>1, <1>3, <1>4 DEF ModuleInv, BesideInv
<1>7. ChainInv'
  <2>1. ASSUME NEW v \in Busy, Its(v) \notin raced'
        PROVE  ChainIn(v)'
    <3>1. ChainIn(v)
      BY <1>1, <2>1 DEF ModuleInv, ChainInv
    <3>2. \A u \in TasksFor(Its(v)) : Finished(u)' => Finished(u)
      BY <1>1 DEF Finished
    <3> QED
      BY <1>1, <1>2, <2>1, <3>1, <3>2, OtherChain
  <2>2. ASSUME ArchOf[t] \notin raced'
        PROVE  ChainIn(w)'
    <3>1. modules[ArchOf[t]] = {current[ArchOf[t]]}
      BY <1>1, <1>3, <2>2 DEF ModuleInv, ChainInv
    <3> QED
      BY <1>1, <1>3, <3>1 DEF ChainIn
  <2>3. ASSUME NEW a \in Arch \ raced', \A v \in Busy' : Its(v)' # a
        PROVE  modules'[a] = {current'[a]}
    BY <1>1, <1>4, <2>3 DEF ModuleInv, ChainInv
  <2> QED
    BY <1>1, <1>3, <1>4, <2>1, <2>2, <2>3 DEF ChainInv
<1>8. ListInv'
  <2>1. \A v \in Busy : ListIn(v)'
    BY <1>1, <1>2, OtherList DEF ModuleInv, ListInv
  <2>2. ListIn(w)'
    BY <1>1, <1>3 DEF ListIn
  <2>3. \A u \in Task : ListedIn(u)'
    BY <1>1 DEF ModuleInv, ListInv, ListedIn, Nevras
  <2> QED
    BY <1>1, <2>1, <2>2, <2>3 DEF ListInv
<1>9. FinalInv'
  BY <1>1 DEF ModuleInv, FinalInv, Finished
<1> QED
  BY <1>5, <1>6, <1>7, <1>8, <1>9 DEF ModuleInv

LEMMA AsideModule == ArtifactsBase /\ ModuleInv /\ Aside => ModuleInv'
<1> SUFFICES ASSUME ArtifactsBase, ModuleInv, Aside PROVE ModuleInv'
  OBVIOUS
<1>1. /\ StaysTaken /\ \A v \in Busy : Untouched(v)
      /\ UNCHANGED <<rows, repo, modules, current, job, raced, torn>> /\ Busy' = Busy
      /\ Settles
  BY AsideOthers
<1>2. ASSUME NEW a \in Arch, a \notin cut'
      PROVE  a \notin cut /\ \A u \in TasksFor(a) : Finished(u)' => Finished(u)
  BY <1>1, <1>2 DEF Settles, TasksFor
<1>3. KnownInv'
  BY <1>1 DEF ModuleInv, KnownInv, Known, Nevras, MultilibOf
<1>4. BesideInv'
  BY <1>1 DEF ModuleInv, BesideInv, Its
<1>5. ChainInv'
  <2>1. ASSUME NEW v \in Busy, Its(v) \notin raced
        PROVE  ChainIn(v)'
    <3>1. Its(v) \in Arch /\ ChainIn(v)
      BY <2>1, MadeType DEF ArtifactsBase, ModuleInv, ChainInv
    <3> QED
      BY <1>1, <1>2, <3>1, OtherChain
  <2> QED
    BY <1>1, <2>1 DEF ModuleInv, ChainInv, Its
<1>6. ListInv'
  <2>1. \A v \in Busy : ListIn(v)'
    BY <1>1, OtherList DEF ModuleInv, ListInv
  <2>2. \A t \in Task : ListedIn(t)'
    BY <1>1 DEF ModuleInv, ListInv, ListedIn, Nevras, Settles
  <2> QED
    BY <1>1, <2>1, <2>2 DEF ListInv
<1>7. FinalInv'
  BY <1>1, <1>2 DEF ModuleInv, FinalInv, TasksFor
<1> QED
  BY <1>3, <1>4, <1>5, <1>6, <1>7 DEF ModuleInv

\* A shared package is one that every task of the project may have
LEMMA SharedKnown ==
    ASSUME ArtifactsBase, NEW w \in Busy, NEW t \in job[w].takes
    PROVE  t \in Task /\ Nevra(job[w].shared) \in Nevras(t)
<1>1. /\ t \in TasksOf(Of(w)) /\ job[w].shared.noarch /\ IndexOf[job[w].shared.task] = Of(w)
  BY DEF ArtifactsBase, StageInv, Staged
<1> QED
  BY <1>1 DEF TasksOf, Nevra, Nevras

LEMMA EndedModule == ArtifactsBase /\ ModuleInv /\ Ended => ModuleInv'
<1> SUFFICES ASSUME ArtifactsBase, ModuleInv, NEW w \in Worker, Commit(w) \/ Raise(w) \/ Crash(w)
             PROVE  ModuleInv'
  BY DEF Ended
<1>1. /\ w \in Busy /\ Busy' = Busy \ {w}
      /\ \A v \in Busy' : v \in Busy /\ v # w /\ job'[v] = job[v] /\ Untouched(v)
      /\ StaysTaken /\ modules' = modules
      /\ \A u \in Task \ {job[w].task} : status'[u] = status[u] \/ Failing(w, u)
      /\ Crash(w) => status' = status
      /\ Raise(w) => status'[job[w].task] = "FAILED"
      /\ Commit(w) => status'[job[w].task] = job[w].result
  BY EndedOthers
<1>2. /\ Staged(w) /\ job[w].task \in Task
      /\ job[w].result \in Result /\ Its(w) \in Arch /\ Of(w) \in Index
      /\ Its(w) = ArchOf[job[w].task]
  BY <1>1, MadeType DEF ArtifactsBase, StageInv, Job, Its
<1>3. \A v \in Busy' : Its(v)' = Its(v) /\ job[v].task # job[w].task /\ job[v].task \in Task
  BY <1>1, MadeType DEF Its, ArtifactsBase, JobInv, Beside
\* what else it finishes is noted
<1>18. \A a \in Arch : a \in cut /\ a # Its(w) => a \in cut'
  <2>1. \A a \in Arch : a # Of(w)
    BY <1>2, TaskPlace
  <2>2. \A a : a \in cut /\ a # Of(w) /\ a # Its(w) => a \in cut'
    BY DEF Commit, Raise, Crash, Of, Its
  <2> QED
    BY <2>1, <2>2
<1>19. ASSUME NEW a \in Arch, a \notin cut', NEW u \in TasksFor(a), u # job[w].task
       PROVE  status'[u] = status[u]
  BY <1>1, <1>19 DEF Failing, TasksFor
\* what the rows become
<1>17. \A u \in Task : u \notin job[w].takes =>
          RowsIn(w)[u] = IF u = job[w].task THEN rows[u] \cup job[w].new ELSE rows[u]
  BY <1>1, RowsInLemma DEF ArtifactsBase
<1>4. /\ Crash(w) => rows' = rows
      /\ ~Crash(w) => rows' = RowsIn(w)
  BY WrittenRows DEF Crash
<1>5. ASSUME NEW u \in Task, NEW q \in rows'[u]
      PROVE  \/ q \in rows[u]
             \/ u = job[w].task /\ q \in job[w].new /\ ~Crash(w)
             \/ Nevra(q) \in Nevras(u)
  <2>1. CASE Crash(w)
    BY <1>4, <1>5, <2>1
  <2>2. CASE ~Crash(w) /\ u \in job[w].takes
    <3>1. q \in rows[u] \/ (u = job[w].task /\ q \in job[w].new) \/ q = job[w].shared
      BY <1>1, <1>4, <1>5, <2>2, RowsInLemma DEF ArtifactsBase
    <3>2. Nevra(job[w].shared) \in Nevras(u)
      BY <1>1, <2>2, SharedKnown
    <3> QED
      BY <2>2, <3>1, <3>2
  <2>3. CASE ~Crash(w) /\ u \notin job[w].takes
    BY <1>4, <1>5, <1>17, <2>3
  <2> QED
    BY <2>1, <2>2, <2>3
<1>6. ASSUME NEW u \in Task, NEW q \in rows[u], ~q.noarch
      PROVE  q \in rows'[u]
  <2>1. CASE Crash(w)
    BY <1>4, <2>1
  <2>2. CASE ~Crash(w) /\ u \in job[w].takes
    BY <1>1, <1>4, <1>6, <2>2, RowsInLemma DEF ArtifactsBase
  <2>3. CASE ~Crash(w) /\ u \notin job[w].takes
    BY <1>4, <1>6, <1>17, <2>3
  <2> QED
    BY <2>1, <2>2, <2>3
<1>7. \A u \in Task : Known(u) \subseteq Known(u)'
  BY <1>6, KnownGrows
<1>8. KnownInv'
  <2>1. ASSUME NEW u \in Task, NEW q \in rows'[u]
        PROVE  Nevra(q) \in Known(u)'
    <3>1. Nevra(q) \in Known(u)
      BY <1>1, <1>5, <2>1 DEF ModuleInv, KnownInv, Known
    <3> QED
      BY <1>7, <3>1
  <2>2. ASSUME NEW v \in Busy', NEW u \in Task, u = job'[v].task, NEW q \in job'[v].new
        PROVE  Nevra(q) \in Known(u)'
    <3>1. Nevra(q) \in Known(u)
      BY <1>1, <2>2 DEF ModuleInv, KnownInv
    <3> QED
      BY <1>7, <3>1
  <2> QED
    BY <2>1, <2>2 DEF KnownInv
<1>9. raced \subseteq raced'
  BY DEF Commit, Raise, Crash
<1>10. BesideInv'
  BY <1>1, <1>3, <1>9 DEF ModuleInv, BesideInv
\* what the database knows of the module
<1>11. /\ \A a \in Arch \ {Its(w)} : current'[a] = current[a]
       /\ Wrote(w) /\ ~Crash(w) => current'[Its(w)] = job[w].old
       /\ ~Wrote(w) \/ Crash(w) => current'[Its(w)] = current[Its(w)]
       /\ Wrote(w) /\ Crash(w) => Its(w) \in raced'
  <2>1. CASE Crash(w)
    BY <2>1 DEF Crash, Its
  <2>2. CASE ~Crash(w)
    <3>1. current' = IF Wrote(w) THEN [current EXCEPT ![Its(w)] = job[w].old] ELSE current
      BY <2>2, WrittenRows
    <3> QED
      BY <1>2, <2>2, <3>1 DEF ArtifactsBase, ArtifactsType
  <2> QED
    BY <2>1, <2>2
<1>12. ASSUME Its(w) \notin raced'
       PROVE  /\ modules'[Its(w)] = {current'[Its(w)]}
              /\ current[Its(w)].lists \subseteq current'[Its(w)].lists
  BY <1>1, <1>9, <1>11, <1>12 DEF ModuleInv, ChainInv, ChainIn
<1>13. ChainInv'
  <2>1. ASSUME NEW v \in Busy', Its(v)' \notin raced'
        PROVE  ChainIn(v)'
    <3>1. /\ v \in Busy /\ v # w /\ Untouched(v) /\ Its(v) \notin raced /\ Its(v) \in Arch
          /\ Its(v) = Its(v)'
      BY <1>1, <1>3, <1>9, <2>1, MadeType DEF ArtifactsBase
    <3>2. Its(v) # Its(w) /\ ChainIn(v)
      BY <1>1, <3>1 DEF ModuleInv, BesideInv, ChainInv
    <3>3. modules'[Its(v)] = modules[Its(v)] /\ current'[Its(v)] = current[Its(v)]
      BY <1>1, <1>11, <3>1, <3>2
    <3>4. Its(v) \notin cut' =>
             Its(v) \notin cut /\ \A u \in TasksFor(Its(v)) : Finished(u)' => Finished(u)
      BY <1>2, <1>18, <1>19, <3>1, <3>2 DEF Finished, TasksFor
    <3> QED
      BY <1>1, <3>1, <3>2, <3>3, <3>4, OtherChain
  <2>2. ASSUME NEW a \in Arch \ raced', \A v \in Busy' : Its(v)' # a
        PROVE  modules'[a] = {current'[a]}
    <3>1. CASE a = Its(w)
      BY <1>12, <2>2, <3>1
    <3>2. CASE a # Its(w)
      <4>1. \A v \in Busy : Its(v) # a
        BY <1>1, <1>3, <2>2, <3>2
      <4> QED
        BY <1>1, <1>9, <1>11, <2>2, <3>2, <4>1 DEF ModuleInv, ChainInv
    <3> QED
      BY <3>1, <3>2
  <2> QED
    BY <2>1, <2>2 DEF ChainInv
<1>14. ListInv'
  <2>1. ASSUME NEW v \in Busy'
        PROVE  ListIn(v)'
    <3>1. /\ v \in Busy /\ v # w /\ Untouched(v) /\ job[v].task \in Task
          /\ job[v].task # job[w].task /\ ListIn(v)
      BY <1>1, <1>3 DEF ModuleInv, ListInv
    <3>3. \A q \in rows'[job[v].task] : q \in rows[job[v].task] \/ Nevra(q) \in Nevras(job[v].task)
      BY <1>5, <3>1
    <3> QED
      BY <1>1, <3>1, <3>3, OtherList
  <2>2. ASSUME NEW t \in Task, ArchOf[t] \notin raced', status'[t] = "COMPLETED"
        PROVE  /\ Nevras(t) \subseteq current'[ArchOf[t]].lists
               /\ \A q \in rows'[t] : Nevra(q) \in current'[ArchOf[t]].lists
    <3>1. ArchOf[t] \in Arch
      BY TaskPlace
    <3>2. CASE t # job[w].task \/ Crash(w)
      <4>0. status[t] = "COMPLETED"
        BY <1>1, <2>2, <3>2 DEF Failing
      <4>1. /\ Nevras(t) \subseteq current[ArchOf[t]].lists
            /\ \A q \in rows[t] : Nevra(q) \in current[ArchOf[t]].lists
        BY <1>9, <2>2, <4>0 DEF ModuleInv, ListInv, ListedIn
      <4>2. current[ArchOf[t]].lists \subseteq current'[ArchOf[t]].lists
        BY <1>11, <1>12, <2>2, <3>1
      <4> QED
        BY <1>5, <3>2, <4>1, <4>2
    <3>3. CASE t = job[w].task /\ ~Crash(w)
      <4>1. Commit(w) /\ job[w].result = "COMPLETED"
        BY <1>1, <2>2, <3>3
      <4>2. Wrote(w)
        BY <4>1 DEF Commit, In, Wrote
      <4>4. /\ Nevras(t) \subseteq job[w].old.lists
            /\ \A q \in rows[t] \cup job[w].new : Nevra(q) \in job[w].old.lists
        BY <1>1, <3>3, <4>1, <4>2 DEF ModuleInv, ListInv, ListIn
      <4>5. current'[ArchOf[t]] = job[w].old
        BY <1>2, <1>11, <3>3, <4>2
      <4> QED
        BY <1>5, <3>3, <4>4, <4>5
    <3> QED
      BY <3>2, <3>3
  <2>3. \A t \in Task : ListedIn(t)'
    BY <2>2 DEF ListedIn, Nevras
  <2> QED
    BY <2>1, <2>3 DEF ListInv
<1>15. ASSUME NEW a \in Arch \ (raced' \cup cut'), \A t \in TasksFor(a) : Finished(t)'
       PROVE  current'[a].final
  <2>1. CASE a # Its(w)
    <3>1. a \notin cut
      BY <1>15, <1>18, <2>1
    <3>2. \A t \in TasksFor(a) : Finished(t)
      BY <1>2, <1>15, <1>19, <2>1 DEF TasksFor, Finished
    <3> QED
      BY <1>9, <1>11, <1>15, <2>1, <3>1, <3>2 DEF ModuleInv, FinalInv
  <2>2. CASE a = Its(w) /\ Crash(w)
    <3>1. ~Wrote(w) /\ current'[a] = current[a]
      BY <1>11, <1>15, <2>2
    <3>2. cut' = cut /\ \A t \in TasksFor(a) : Finished(t)
      <4>1. cut' = cut
        BY <2>2 DEF Crash
      <4> QED
        BY <1>1, <1>15, <2>2, <4>1 DEF Finished
    <3> QED
      BY <1>9, <1>15, <3>1, <3>2 DEF ModuleInv, FinalInv
  <2>3. CASE a = Its(w) /\ ~Crash(w)
    <3>1. Commit(w)
      BY <1>15, <2>3 DEF Raise, Places, Its
    <3>2. Wrote(w)
      BY <3>1 DEF Commit, In, Wrote
    <3>4. LastForArch(job[w].task)
      BY <1>2, <1>15, <1>19, <2>3 DEF LastForArch, TasksFor, Finished
    <3>5. job[w].old.final \/ a \in cut
      BY <1>1, <1>9, <1>15, <2>3, <3>2, <3>4 DEF ModuleInv, ChainInv, ChainIn
    <3>6. a \in cut => job[w].old.final
      <4>1. a # Of(w)
        BY <1>2, <2>3, TaskPlace
      <4> QED
        BY <1>15, <2>3, <3>1, <4>1 DEF Commit, Of, Its
    <3> QED
      BY <1>11, <2>3, <3>2, <3>5, <3>6
  <2> QED
    BY <2>1, <2>2, <2>3
<1>16. FinalInv'
  BY <1>15 DEF FinalInv, TasksFor
<1> QED
  BY <1>8, <1>10, <1>13, <1>14, <1>16 DEF ModuleInv

LEMMA ModuleStep == ArtifactsBase /\ ModuleInv /\ [Next]_vars => ModuleInv'
<1> SUFFICES ASSUME ArtifactsBase, ModuleInv, [Next]_vars PROVE ModuleInv'
  OBVIOUS
<1>1. CASE Next
  BY <1>1, NextWork, StartedModule, WorkModuleInv, EndedModule, AsideModule DEF ArtifactsBase
<1>2. CASE UNCHANGED vars
  <2>1. Busy' = Busy
    BY <1>2 DEF vars, Busy
  <2>2. KnownInv' /\ BesideInv'
    BY <1>2, <2>1 DEF vars, progress, history, ModuleInv, KnownInv, Known, Nevras, MultilibOf,
       BesideInv, Its
  <2>3. ChainInv'
    BY <1>2, <2>1 DEF vars, progress, history, ModuleInv, ChainInv, ChainIn, Its, Wrote,
       LastForArch, Finished
  <2>4. ListInv' /\ FinalInv'
    BY <1>2, <2>1 DEF vars, progress, history, ModuleInv, ListInv, ListIn, ListedIn, Nevras, Wrote,
       FinalInv, Finished
  <2> QED
    BY <2>2, <2>3, <2>4 DEF ModuleInv
<1> QED
  BY <1>1, <1>2

LEMMA ModuleMeans == ArtifactsBase /\ ModuleInv => ModuleIsFinal
<1> SUFFICES ASSUME ArtifactsBase, ModuleInv, NEW a \in Arch \ (raced \cup cut),
                    \A t \in TasksFor(a) : Finished(t), Free(TasksFor(a))
             PROVE  /\ modules[a] = {current[a]} /\ current[a].final
                    /\ \A t \in TasksFor(a) : status[t] = "COMPLETED" =>
                          Lists(rows[t]) \subseteq current[a].lists
  BY DEF ModuleIsFinal
<1>1. \A w \in Busy : Its(w) # a
  BY MadeType DEF ArtifactsBase, Free, TasksFor, Its
<1>2. modules[a] = {current[a]}
  BY <1>1 DEF ModuleInv, ChainInv
<1>3. current[a].final
  BY DEF ModuleInv, FinalInv
<1>4. \A t \in TasksFor(a) : status[t] = "COMPLETED" => Lists(rows[t]) \subseteq current[a].lists
  BY DEF ModuleInv, ListInv, ListedIn, TasksFor, Lists
<1> QED
  BY <1>2, <1>3, <1>4

\* What MCBuildArtifacts checks as ModuleIsFinal: once all tasks of an architecture
\* are finished and no job is at one of them again, its repository has one module,
\* the one the database knows; it has its final version and lists what the completed
\* tasks have built, unless jobs of the architecture overlapped, or its last task
\* raised, was cancelled or fast-failed (build_node.py:
\* __process_build_task_artifacts).
THEOREM ModulesFinal == Spec => []ModuleIsFinal
<1>1. Init => ArtifactsBase /\ ModuleInv
  BY InitBase, InitModule
<1>2. ArtifactsBase /\ ModuleInv /\ [Next]_vars => (ArtifactsBase /\ ModuleInv)'
  BY BaseStep, ModuleStep
<1>3. ArtifactsBase /\ ModuleInv => ModuleIsFinal
  BY ModuleMeans
<1> QED
  BY <1>1, <1>2, <1>3, PTL DEF Spec

(***************************************************************************)
(* One repository and its exports: types.                                  *)
(***************************************************************************)
Content == [pkgs : SUBSET Rpm, mods : SUBSET Module]
Metadata == [pkgs : SUBSET Rpm, mods : SUBSET Module, by : {"pulp", "createrepo"}]
Found == UNION {{[infos |-> infos, found |-> ExtractFromPaths(infos, order)] :
                    order \in SetToSeqs(DOMAIN infos)} : infos \in UpdateInfos}

UploadType ==
    upload \in [step : {"idle", "read", "modify", "removed", "readd", "publish", "done"},
                mods : SUBSET Module, before : SUBSET Rpm, drop : SUBSET Module,
                back : SUBSET Rpm, alone : BOOLEAN, made : BOOLEAN]
DiskType ==
    disk \in [pkgs : SUBSET Rpm, md : Metadata \cup {Nothing}, asc : Metadata \cup {Nothing},
              alone : BOOLEAN, web : BOOLEAN, source : Content, torn : BOOLEAN]
Step ==
    {"idle", "export", "clean", "download", "remove", "regenerate", "errata", "token", "sign"}
USE DEF Step

ExportType ==
    [step : Step,
     gen : Nat, version : Content, bytes : Metadata \cup {Nothing}, alone : BOOLEAN,
     errata : Found \cup {Nothing}]
CountType ==
    count \in [exports : Nat, releases : Nat, uploads : Nat, web : Nat, faults : Nat, gens : Nat]

ExportTypeOK ==
    /\ latest \in Content /\ published \in Content
    /\ removed \subseteq Rpm
    /\ pulpModules \subseteq Module \cup KnownModules
    /\ fse \in Nat
    /\ releases \subseteq Releases /\ releaser \in {"idle", "publish"}
    /\ UploadType
    /\ DiskType
    /\ exporter \in [Exporter -> ExportType]
    /\ web \in {"idle", "export", "delete", "download"}
    /\ CountType

\* The steps of one exporter, those of the web export, and all others
ExporterStep(x) ==
    \/ CreateFilesystemExporter(x) \/ ExportToFilesystem(x) \/ CleanRepodata(x)
    \/ DownloadRepodata(x) \/ DownloadFails(x) \/ RemovePackagesFromRepo(x)
    \/ RegenerateRepoMetadata(x) \/ PostProcessingFails(x) \/ ErrataFails(x)
    \/ \E infos \in UpdateInfos : \E order \in SetToSeqs(DOMAIN infos) :
          ExtractErrataFromPaths(x, infos, order)
    \/ ReadRepomd(x) \/ WriteSignature(x) \/ SigningFails(x)
WebStep ==
    \/ CreatePulpExporterToFs \/ ExecutePulpExporterToFs \/ DeleteFilesystemExporter
    \/ FsExportDownload
RepositoryStep ==
    \/ \E c \in Releases : Release(c) \/ Revert(c)
    \/ PublishRelease
    \/ \E mods \in Uploads : UploadRpmModules(mods)
    \/ GetRepoModules \/ ReplaceModules \/ GetRemovedRpmPackages \/ AddRemoved
    \/ PublishUpload \/ UploadComps \/ EndUpload \/ UploadFails

LEMMA ExportInitType == ExportInit => ExportTypeOK
  BY ExportAssumption DEF ExportInit, ExportTypeOK, Content, UploadType, DiskType, ExportType, CountType,
     NoUpload, NoExport

\* What Pulp makes of a modification is a content again.
LEMMA ModifiedType ==
    ASSUME NEW c \in Content, NEW add \in Content, NEW remove \in Content
    PROVE  Modified(c, add, remove) \in Content
  BY ExportAssumption DEF Modified, PackagesIn, Content

\* A modification: what it leaves is a content, and a running export is torn.
LEMMA ModifyType ==
    ASSUME ExportTypeOK, NEW add \in Content, NEW remove \in Content, ModifyRepository(add, remove)
    PROVE  latest' \in Content /\ removed' \subseteq Rpm /\ DiskType'
<1>1. latest' \in Content
  BY ModifiedType DEF ExportTypeOK, ModifyRepository
<1>2. removed' \subseteq Rpm
  BY <1>1 DEF ExportTypeOK, ModifyRepository, Content
<1>3. DiskType'
  BY DEF ExportTypeOK, ModifyRepository, Moved, DiskType
<1> QED
  BY <1>1, <1>2, <1>3

LEMMA OnlyTypes ==
    /\ NoContent \in Content
    /\ \A mods \in SUBSET Module : OnlyModules(mods) \in Content
    /\ \A pkgs \in SUBSET Rpm : OnlyPackages(pkgs) \in Content
  BY DEF NoContent, OnlyModules, OnlyPackages, Content

LEMMA RepodataType ==
    ASSUME NEW c \in Content, NEW by \in {"pulp", "createrepo"}
    PROVE  Repodata(c, by) \in Metadata /\ Repodata(c, by) # Nothing
  BY ExportAssumption DEF Repodata, Content, Metadata

\* Of a counter that is bumped, and of the failures
LEMMA BumpType ==
    ASSUME CountType,
           NEW field \in {"exports", "releases", "uploads", "web", "faults", "gens"},
           Bump(field)
    PROVE  CountType' /\ count'.faults >= count.faults /\ (field = "faults" => count'.faults > 0)
  BY DEF CountType, Bump

\* What an exporter does to its own record, and to the directory
LEMMA RecordType ==
    ASSUME ExportTypeOK, NEW x \in Exporter, NEW r \in ExportType, Move(x, r)
    PROVE  /\ exporter' \in [Exporter -> ExportType]
           /\ exporter'[x] = r
           /\ \A y \in Exporter \ {x} : exporter'[y] = exporter[y]
  BY DEF ExportTypeOK, Move

LEMMA StepRecord ==
    ASSUME ExportTypeOK, NEW x \in Exporter,
           NEW step \in Step
    PROVE  /\ [exporter[x] EXCEPT !.step = step] \in ExportType
           /\ [exporter[x] EXCEPT !.step = step].step = step
           /\ [exporter[x] EXCEPT !.step = step].alone = exporter[x].alone
           /\ [exporter[x] EXCEPT !.step = step].version = exporter[x].version
           /\ [exporter[x] EXCEPT !.step = step].bytes = exporter[x].bytes
  BY DEF ExportTypeOK, ExportType

LEMMA ToType ==
    ASSUME ExportTypeOK, NEW x \in Exporter,
           NEW step \in Step,
           To(x, step)
    PROVE  /\ exporter' \in [Exporter -> ExportType]
           /\ exporter'[x] = [exporter[x] EXCEPT !.step = step]
           /\ exporter'[x].step = step /\ exporter'[x].alone = exporter[x].alone
           /\ exporter'[x].version = exporter[x].version /\ exporter'[x].bytes = exporter[x].bytes
           /\ \A y \in Exporter \ {x} : exporter'[y] = exporter[y]
<1>1. Move(x, [exporter[x] EXCEPT !.step = step])
  BY DEF To
<1>2. [exporter[x] EXCEPT !.step = step] \in ExportType
  BY StepRecord
<1>3. /\ exporter' \in [Exporter -> ExportType]
      /\ exporter'[x] = [exporter[x] EXCEPT !.step = step]
      /\ \A y \in Exporter \ {x} : exporter'[y] = exporter[y]
  BY <1>1, <1>2, RecordType
<1> QED
  BY <1>3, StepRecord

LEMMA EndType ==
    ASSUME ExportTypeOK, NEW x \in Exporter, End(x)
    PROVE  /\ exporter' \in [Exporter -> ExportType]
           /\ exporter'[x] = NoExport /\ exporter'[x].step = "idle"
           /\ \A y \in Exporter \ {x} : exporter'[y] = exporter[y]
<1>1. NoExport \in ExportType /\ NoExport.step = "idle"
  BY ExportAssumption DEF NoExport, ExportType, Step, Content
<1>2. Move(x, NoExport)
  BY DEF End
<1> QED
  BY <1>1, <1>2, RecordType

LEMMA RepositoryTypes ==
    ASSUME ExportTypeOK, RepositoryStep
    PROVE  ExportTypeOK'
<1>1. ASSUME NEW c \in Releases, Release(c) PROVE ExportTypeOK'
  <2>1. c \in Content
    BY ExportAssumption DEF Content
  <2>2. latest' \in Content /\ removed' \subseteq Rpm /\ DiskType'
    BY <1>1, <2>1, ModifyType, OnlyTypes DEF Release
  <2>3. UploadType'
    BY <1>1 DEF Release, Disturb, ExportTypeOK, UploadType
  <2>4. CountType'
    BY <1>1, BumpType DEF Release, ExportTypeOK
  <2> QED
    BY <1>1, <2>2, <2>3, <2>4 DEF Release, ExportTypeOK
<1>2. ASSUME NEW c \in Releases, Revert(c) PROVE ExportTypeOK'
  <2>1. c.pkgs \in SUBSET Rpm
    BY ExportAssumption
  <2>2. latest' \in Content /\ removed' \subseteq Rpm /\ DiskType'
    BY <1>2, <2>1, ModifyType, OnlyTypes DEF Revert
  <2>3. UploadType'
    BY <1>2 DEF Revert, Disturb, ExportTypeOK, UploadType
  <2>4. CountType'
    BY <1>2, BumpType DEF Revert, ExportTypeOK
  <2> QED
    BY <1>2, <2>2, <2>3, <2>4 DEF Revert, ExportTypeOK
<1>3. CASE PublishRelease
  BY <1>3 DEF PublishRelease, CreateRpmPublication, Moved, ExportTypeOK, DiskType, UploadType, CountType
<1>4. ASSUME NEW mods \in Uploads, UploadRpmModules(mods) PROVE ExportTypeOK'
  <2>1. mods \subseteq Module
    BY ExportAssumption
  <2>2. latest.pkgs \subseteq Rpm
    BY DEF ExportTypeOK, Content
  <2>3. UploadType'
    BY <1>4, <2>1, <2>2 DEF UploadRpmModules, NoUpload, UploadType
  <2>4. CountType'
    BY <1>4, BumpType DEF UploadRpmModules, ExportTypeOK
  <2> QED
    BY <1>4, <2>1, <2>3, <2>4 DEF UploadRpmModules, PulpStays, OthersStay, ExportTypeOK, DiskType
<1>5. CASE GetRepoModules
  <2>1. latest.mods \subseteq Module
    BY DEF ExportTypeOK, Content
  <2>2. UploadType'
    BY <1>5, <2>1 DEF GetRepoModules, ExportTypeOK, UploadType
  <2> QED
    BY <1>5, <2>2 DEF GetRepoModules, PulpStays, OthersStay, ExportTypeOK, DiskType, CountType
<1>6. CASE ReplaceModules
  <2>1. upload.mods \subseteq Module /\ upload.drop \subseteq Module
    BY DEF ExportTypeOK, UploadType
  <2>2. OnlyModules(upload.mods) \in Content /\ OnlyModules(upload.drop) \in Content
    BY <2>1, OnlyTypes
  <2>3. latest' \in Content /\ removed' \subseteq Rpm /\ DiskType'
    BY <1>6, <2>2, ModifyType DEF ReplaceModules
  <2>4. UploadType'
    BY <1>6 DEF ReplaceModules, ExportTypeOK, UploadType
  <2> QED
    BY <1>6, <2>3, <2>4 DEF ReplaceModules, OthersStay, ExportTypeOK, CountType
<1>7. CASE GetRemovedRpmPackages
  <2>1. UploadType'
    BY <1>7 DEF GetRemovedRpmPackages, ExportTypeOK, UploadType
  <2> QED
    BY <1>7, <2>1 DEF GetRemovedRpmPackages, PulpStays, OthersStay, ExportTypeOK, DiskType, CountType
<1>8. CASE AddRemoved
  <2>1. OnlyPackages(upload.back) \in Content
    BY OnlyTypes DEF ExportTypeOK, UploadType
  <2>2. latest' \in Content /\ removed' \subseteq Rpm /\ DiskType'
    BY <1>8, <2>1, OnlyTypes, ModifyType DEF AddRemoved
  <2>3. UploadType'
    BY <1>8 DEF AddRemoved, UploadTo, ExportTypeOK, UploadType
  <2> QED
    BY <1>8, <2>2, <2>3 DEF AddRemoved, OthersStay, ExportTypeOK, CountType
<1>9. CASE PublishUpload
  <2>1. UploadType'
    BY <1>9 DEF PublishUpload, UploadTo, ExportTypeOK, UploadType
  <2>2. DiskType'
    BY <1>9 DEF PublishUpload, CreateRpmPublication, Moved, ExportTypeOK, DiskType
  <2> QED
    BY <1>9, <2>1, <2>2 DEF PublishUpload, CreateRpmPublication, OthersStay, ExportTypeOK, CountType
<1>10. CASE UploadComps
  <2>1. CountType'
    BY <1>10, BumpType DEF UploadComps, ExportTypeOK
  <2>2. DiskType'
    BY <1>10 DEF UploadComps, CreateRpmPublication, Moved, ExportTypeOK, DiskType
  <2> QED
    BY <1>10, <2>1, <2>2 DEF UploadComps, CreateRpmPublication, OthersStay, ExportTypeOK, UploadType
<1>11. CASE EndUpload \/ UploadFails
  <2>1. upload' = NoUpload
    BY <1>11 DEF EndUpload, UploadFails
  <2>3. UploadType'
    BY <2>1 DEF NoUpload, UploadType
  <2>2. CountType'
    BY <1>11, BumpType DEF EndUpload, UploadFails, Fault, ExportTypeOK, CountType
  <2> QED
    BY <1>11, <2>2, <2>3 DEF EndUpload, UploadFails, PulpStays, OthersStay, ExportTypeOK, DiskType
<1> QED
  BY <1>1, <1>2, <1>3, <1>4, <1>5, <1>6, <1>7, <1>8, <1>9, <1>10, <1>11 DEF RepositoryStep

LEMMA NextSteps == ExportNext => RepositoryStep \/ (\E x \in Exporter : ExporterStep(x)) \/ WebStep
  BY DEF ExportNext, RepositoryStep, ExporterStep, WebStep

\* A file system exporter is counted beside the export it is created for.
LEMMA CreateFseType ==
    ASSUME ExportTypeOK, NEW field \in {"exports", "web"},
           CreateFse([count EXCEPT ![field] = @ + 1])
    PROVE  fse' \in Nat /\ CountType' /\ count'.faults = count.faults
<1> DEFINE c == [count EXCEPT ![field] = @ + 1]
<1>1. /\ c \in [exports : Nat, releases : Nat, uploads : Nat, web : Nat, faults : Nat, gens : Nat]
      /\ c.faults = count.faults
  BY DEF ExportTypeOK, CountType
<1>2. /\ count' = [c EXCEPT !.gens = IF fse = 0 THEN @ + 1 ELSE @]
      /\ fse' = FileSystemExporter
  BY DEF CreateFse
<1> HIDE DEF c
<1>3. CountType' /\ count'.faults = count.faults
  BY <1>1, <1>2 DEF CountType
<1>4. fse' \in Nat
  BY <1>2 DEF FileSystemExporter, ExportTypeOK, CountType
<1> QED
  BY <1>3, <1>4

\* The exporter whose turn it is, and what is left alone
LEMMA Created ==
    ASSUME ExportTypeOK, NEW x \in Exporter, CreateFilesystemExporter(x)
    PROVE  /\ exporter' \in [Exporter -> ExportType]
           /\ exporter'[x].step = "export" /\ exporter'[x].version = latest
           /\ exporter'[x].alone = Alone
           /\ \A y \in Exporter \ {x} :
                 /\ exporter'[y].step = exporter[y].step /\ exporter'[y].version = exporter[y].version
                 /\ exporter'[y].bytes = exporter[y].bytes
                 /\ exporter'[y].alone = (exporter[y].alone /\ At(y, "idle"))
           /\ fse' \in Nat /\ CountType' /\ count'.faults = count.faults
<1>1. CreateFse([count EXCEPT !["exports"] = @ + 1])
  BY DEF CreateFilesystemExporter
<1>2. fse' \in Nat /\ CountType' /\ count'.faults = count.faults
  BY <1>1, CreateFseType
<1> DEFINE r == [NoExport EXCEPT !.step = "export", !.gen = fse', !.version = latest, !.alone = Alone]
<1>3. r \in ExportType /\ r.step = "export" /\ r.version = latest /\ r.alone = Alone
  BY <1>2, ExportAssumption DEF NoExport, ExportType, Step, Content, ExportTypeOK, Alone
<1>4. NoneIsAlone \in [Exporter -> ExportType]
  BY DEF NoneIsAlone, ExportTypeOK, ExportType, At
<1>5. \A y \in Exporter :
         /\ NoneIsAlone[y].step = exporter[y].step /\ NoneIsAlone[y].version = exporter[y].version
         /\ NoneIsAlone[y].bytes = exporter[y].bytes
         /\ NoneIsAlone[y].alone = (exporter[y].alone /\ At(y, "idle"))
  BY DEF NoneIsAlone, ExportTypeOK, ExportType, At
<1>6. exporter' = [NoneIsAlone EXCEPT ![x] = r]
  BY DEF CreateFilesystemExporter
<1> HIDE DEF r
<1> QED
  BY <1>2, <1>3, <1>4, <1>5, <1>6

LEMMA WebCreated ==
    ASSUME ExportTypeOK, CreatePulpExporterToFs
    PROVE  /\ exporter' \in [Exporter -> ExportType]
           /\ \A y \in Exporter :
                 /\ exporter'[y].step = exporter[y].step /\ exporter'[y].version = exporter[y].version
                 /\ exporter'[y].bytes = exporter[y].bytes
                 /\ exporter'[y].alone = (exporter[y].alone /\ At(y, "idle"))
           /\ fse' \in Nat /\ CountType' /\ count'.faults = count.faults
<1>1. CreateFse([count EXCEPT !["web"] = @ + 1])
  BY DEF CreatePulpExporterToFs
<1>2. fse' \in Nat /\ CountType' /\ count'.faults = count.faults
  BY <1>1, CreateFseType
<1>3. /\ NoneIsAlone \in [Exporter -> ExportType]
      /\ \A y \in Exporter :
         /\ NoneIsAlone[y].step = exporter[y].step /\ NoneIsAlone[y].version = exporter[y].version
         /\ NoneIsAlone[y].bytes = exporter[y].bytes
         /\ NoneIsAlone[y].alone = (exporter[y].alone /\ At(y, "idle"))
  BY DEF NoneIsAlone, ExportTypeOK, ExportType, At
<1> QED
  BY <1>2, <1>3 DEF CreatePulpExporterToFs

LEMMA ExporterTypes ==
    ASSUME ExportTypeOK, NEW x \in Exporter, ExporterStep(x)
    PROVE  ExportTypeOK'
<1> USE DEF SourcesStay
<1>1. CASE CreateFilesystemExporter(x)
  <2>1. DiskType'
    BY <1>1 DEF CreateFilesystemExporter, ExportTypeOK, DiskType
  <2> QED
    BY <1>1, <2>1, Created DEF CreateFilesystemExporter, ExportTypeOK, UploadType
<1>2. CASE ExportToFilesystem(x)
  <2>1. exporter' \in [Exporter -> ExportType]
    BY <1>2, ToType, EndType DEF ExportToFilesystem
  <2>2. disk.pkgs \cup exporter[x].version.pkgs \subseteq Rpm
    BY DEF ExportTypeOK, DiskType, ExportType, Content
  <2>3. DiskType'
    BY <1>2, <2>2 DEF ExportToFilesystem, ExportTypeOK, DiskType
  <2> QED
    BY <1>2, <2>1, <2>3 DEF ExportToFilesystem, ExportTypeOK, UploadType, CountType
<1>3. CASE CleanRepodata(x)
  <2>1. exporter' \in [Exporter -> ExportType]
    BY <1>3, ToType DEF CleanRepodata
  <2>2. DiskType'
    BY <1>3 DEF CleanRepodata, ExportTypeOK, DiskType
  <2> QED
    BY <1>3, <2>1, <2>2 DEF CleanRepodata, ExportTypeOK, UploadType, CountType
<1>4. CASE DownloadRepodata(x)
  <2>1. exporter' \in [Exporter -> ExportType]
    BY <1>4, ToType DEF DownloadRepodata, Downloaded
  <2>2. DiskType'
    BY <1>4, RepodataType DEF DownloadRepodata, ExportTypeOK, DiskType
  <2> QED
    BY <1>4, <2>1, <2>2 DEF DownloadRepodata, ExportTypeOK, UploadType, CountType
<1>5. CASE DownloadFails(x)
  <2>1. exporter' \in [Exporter -> ExportType]
    BY <1>5, ToType DEF DownloadFails, Downloaded
  <2>2. CountType'
    BY <1>5, BumpType DEF DownloadFails, Fault, ExportTypeOK
  <2> QED
    BY <1>5, <2>1, <2>2 DEF DownloadFails, ExportTypeOK, UploadType, DiskType
<1>6. CASE RemovePackagesFromRepo(x)
  <2>1. exporter' \in [Exporter -> ExportType]
    BY <1>6, ToType DEF RemovePackagesFromRepo
  <2>2. DiskType'
    BY <1>6 DEF RemovePackagesFromRepo, ExportTypeOK, DiskType
  <2> QED
    BY <1>6, <2>1, <2>2 DEF RemovePackagesFromRepo, ExportTypeOK, UploadType, CountType
<1>7. CASE RegenerateRepoMetadata(x)
  <2>1. exporter' \in [Exporter -> ExportType]
    BY <1>7, ToType DEF RegenerateRepoMetadata, PostProcessed
  <2> DEFINE c == [pkgs |-> disk.pkgs, mods |-> IF disk.md = Nothing THEN {} ELSE disk.md.mods]
  <2>2. c \in Content
    BY DEF ExportTypeOK, DiskType, Content, Metadata
  <2>3. Repodata(c, "createrepo") \in Metadata
    BY <2>2, RepodataType
  <2>4. disk' = [disk EXCEPT !.md = Repodata(c, "createrepo")]
    BY <1>7 DEF RegenerateRepoMetadata
  <2> HIDE DEF c
  <2>5. DiskType'
    BY <2>3, <2>4 DEF ExportTypeOK, DiskType
  <2> QED
    BY <1>7, <2>1, <2>5 DEF RegenerateRepoMetadata, ExportTypeOK, UploadType, CountType
<1>8. CASE PostProcessingFails(x)
  <2>1. exporter' \in [Exporter -> ExportType]
    BY <1>8, ToType DEF PostProcessingFails, PostProcessed
  <2>2. CountType'
    BY <1>8, BumpType DEF PostProcessingFails, Fault, ExportTypeOK
  <2> QED
    BY <1>8, <2>1, <2>2 DEF PostProcessingFails, ExportTypeOK, UploadType, DiskType
<1>9. CASE ErrataFails(x)
  <2>1. exporter' \in [Exporter -> ExportType]
    BY <1>9, EndType DEF ErrataFails
  <2> QED
    BY <1>9, <2>1 DEF ErrataFails, ExportTypeOK, UploadType, DiskType, CountType
<1>10. ASSUME NEW infos \in UpdateInfos, NEW order \in SetToSeqs(DOMAIN infos),
              ExtractErrataFromPaths(x, infos, order)
       PROVE  ExportTypeOK'
  <2>1. [infos |-> infos, found |-> ExtractFromPaths(infos, order)] \in Found
    BY DEF Found
  <2> DEFINE f == [infos |-> infos, found |-> ExtractFromPaths(infos, order)]
             r == [exporter[x] EXCEPT !.step = "token", !.errata = f]
  <2>2. r \in ExportType
    BY <2>1 DEF ExportTypeOK, ExportType
  <2>3. Move(x, r)
    BY <1>10 DEF ExtractErrataFromPaths
  <2> HIDE DEF r
  <2>4. exporter' \in [Exporter -> ExportType]
    BY <2>2, <2>3, RecordType
  <2> QED
    BY <1>10, <2>4 DEF ExtractErrataFromPaths, ExportTypeOK, UploadType, DiskType, CountType
<1>11. CASE ReadRepomd(x)
  <2> DEFINE r == [exporter[x] EXCEPT !.errata = Nothing, !.bytes = disk.md, !.step = "sign"]
  <2>1. r \in ExportType
    BY DEF ExportTypeOK, ExportType, DiskType
  <2>2. End(x) \/ Move(x, r)
    BY <1>11 DEF ReadRepomd
  <2> HIDE DEF r
  <2>3. exporter' \in [Exporter -> ExportType]
    BY <2>1, <2>2, RecordType, EndType
  <2> QED
    BY <1>11, <2>3 DEF ReadRepomd, ExportTypeOK, UploadType, DiskType, CountType
<1>12. CASE WriteSignature(x)
  <2>1. exporter' \in [Exporter -> ExportType]
    BY <1>12, EndType DEF WriteSignature
  <2>2. DiskType'
    BY <1>12 DEF WriteSignature, ExportTypeOK, DiskType, ExportType
  <2> QED
    BY <1>12, <2>1, <2>2 DEF WriteSignature, ExportTypeOK, UploadType, CountType
<1>13. CASE SigningFails(x)
  <2>1. exporter' \in [Exporter -> ExportType]
    BY <1>13, EndType DEF SigningFails
  <2>2. CountType'
    BY <1>13, BumpType DEF SigningFails, Fault, ExportTypeOK
  <2> QED
    BY <1>13, <2>1, <2>2 DEF SigningFails, ExportTypeOK, UploadType, DiskType
<1> QED
  BY <1>1, <1>2, <1>3, <1>4, <1>5, <1>6, <1>7, <1>8, <1>9, <1>10, <1>11, <1>12, <1>13
     DEF ExporterStep

LEMMA WebTypes ==
    ASSUME ExportTypeOK, WebStep
    PROVE  ExportTypeOK'
<1> USE DEF SourcesStay
<1>1. CASE CreatePulpExporterToFs
  BY <1>1, WebCreated DEF CreatePulpExporterToFs, ExportTypeOK, UploadType, DiskType
<1>2. CASE ExecutePulpExporterToFs
  <2>1. DiskType'
    BY <1>2 DEF ExecutePulpExporterToFs, ExportTypeOK, DiskType, Content
  <2> QED
    BY <1>2, <2>1 DEF ExecutePulpExporterToFs, ExportTypeOK, UploadType, CountType
<1>3. CASE DeleteFilesystemExporter
  BY <1>3 DEF DeleteFilesystemExporter, ExportTypeOK, UploadType, DiskType, CountType
<1>4. CASE FsExportDownload
  <2>1. DiskType'
    BY <1>4, RepodataType DEF FsExportDownload, ExportTypeOK, DiskType
  <2> QED
    BY <1>4, <2>1 DEF FsExportDownload, ExportTypeOK, UploadType, CountType
<1> QED
  BY <1>1, <1>2, <1>3, <1>4 DEF WebStep

LEMMA ExportStepType == ExportTypeOK /\ [ExportNext]_exportVars => ExportTypeOK'
<1> SUFFICES ASSUME ExportTypeOK, [ExportNext]_exportVars PROVE ExportTypeOK'
  OBVIOUS
<1>1. CASE RepositoryStep
  BY <1>1, RepositoryTypes
<1>2. CASE UNCHANGED exportVars
  BY <1>2 DEF exportVars, ExportTypeOK, UploadType, DiskType, CountType
<1> QED
  BY <1>1, <1>2, NextSteps, ExporterTypes, WebTypes

------------------------------------------------------------------------------
(* Uploads                                                                 *)

\* While no release or revert disturbs it, an upload knows what the repository
\* has: what was in it before, and what its own version removed.
UploadInv ==
    upload.alone =>
        /\ UploadAt("read") => latest.pkgs = upload.before
        /\ UploadAt("modify") => latest.pkgs = upload.before /\ latest.mods = upload.drop
        /\ upload.step \in {"removed", "readd", "publish", "done"} /\ upload.made =>
              latest.mods = upload.mods
        /\ UploadAt("removed") /\ upload.made => removed = upload.before \ latest.pkgs
        /\ UploadAt("readd") /\ upload.made => upload.back = upload.before \ latest.pkgs
        /\ upload.step \in {"publish", "done"} /\ upload.made => upload.before \subseteq latest.pkgs

LEMMA UploadStep == ExportTypeOK /\ UploadInv /\ [ExportNext]_exportVars => UploadInv'
<1> SUFFICES ASSUME ExportTypeOK, UploadInv, [ExportNext]_exportVars PROVE UploadInv'
  OBVIOUS
<1>1. ASSUME NEW c \in Releases, Release(c) \/ Revert(c) PROVE UploadInv'
  <2>1. upload' = [upload EXCEPT !.alone = @ /\ upload.step = "idle"]
    BY <1>1 DEF Release, Revert, Disturb
  <2>2. upload'.alone => upload'.step = "idle"
    BY <2>1 DEF ExportTypeOK, UploadType
  <2> QED
    BY <2>2 DEF UploadInv, UploadAt
<1>2. CASE PublishRelease \/ UploadComps
  <2>1. upload' = upload /\ latest' = latest /\ (removed' = removed \/ UploadAt("idle"))
    BY <1>2 DEF PublishRelease, UploadComps, OthersStay
  <2> QED
    BY <2>1 DEF UploadInv, UploadAt
<1>3. ASSUME NEW mods \in Uploads, UploadRpmModules(mods) PROVE UploadInv'
  <2>1. /\ latest' = latest
        /\ \/ upload' = NoUpload
           \/ upload' = [NoUpload EXCEPT !.step = "read", !.mods = mods, !.before = latest.pkgs]
    BY <1>3 DEF UploadRpmModules, PulpStays
  <2>2. CASE upload' = NoUpload
    BY <2>2 DEF NoUpload, UploadInv, UploadAt
  <2>3. CASE upload' = [NoUpload EXCEPT !.step = "read", !.mods = mods, !.before = latest.pkgs]
    <3>1. upload'.step = "read" /\ upload'.before = latest.pkgs /\ upload'.made = FALSE
      BY <2>3 DEF NoUpload
    <3> QED
      BY <2>1, <3>1 DEF UploadInv, UploadAt
  <2> QED
    BY <2>1, <2>2, <2>3
<1>4. CASE GetRepoModules
  <2>1. /\ UploadAt("read") /\ latest' = latest
        /\ upload'.step = "modify" /\ upload'.drop = latest.mods
        /\ upload'.before = upload.before /\ upload'.alone = upload.alone
    BY <1>4 DEF GetRepoModules, PulpStays, ExportTypeOK, UploadType
  <2> QED
    BY <2>1 DEF UploadInv, UploadAt
<1>5. CASE ReplaceModules
  <2> DEFINE next == Modified(latest, OnlyModules(upload.mods), OnlyModules(upload.drop))
  <2>1. /\ UploadAt("modify") /\ latest' = next
        /\ removed' = IF next = latest THEN removed ELSE latest.pkgs \ next.pkgs
    BY <1>5 DEF ReplaceModules, ModifyRepository
  <2>2. /\ upload'.step = "removed" /\ upload'.made = (latest' # latest)
        /\ upload'.before = upload.before /\ upload'.alone = upload.alone
        /\ upload'.mods = upload.mods
    BY <1>5 DEF ReplaceModules, ExportTypeOK, UploadType
  <2>3. next.mods = (latest.mods \ upload.drop) \cup upload.mods
    BY DEF Modified, OnlyModules
  <2> HIDE DEF next
  <2> QED
    BY <2>1, <2>2, <2>3 DEF UploadInv, UploadAt
<1>6. CASE GetRemovedRpmPackages
  <2>1. /\ UploadAt("removed") /\ latest' = latest /\ removed' = removed
        /\ upload'.step = IF removed = {} THEN "publish" ELSE "readd"
        /\ upload'.back = removed /\ upload'.made = upload.made /\ upload'.mods = upload.mods
        /\ upload'.before = upload.before /\ upload'.alone = upload.alone
    BY <1>6 DEF GetRemovedRpmPackages, PulpStays, ExportTypeOK, UploadType
  <2> QED
    BY <2>1 DEF UploadInv, UploadAt
<1>7. CASE AddRemoved
  <2>1. /\ UploadAt("readd") /\ latest' = Modified(latest, OnlyPackages(upload.back), NoContent)
        /\ upload'.step = "publish" /\ upload'.made = upload.made /\ upload'.mods = upload.mods
        /\ upload'.before = upload.before /\ upload'.alone = upload.alone
    BY <1>7 DEF AddRemoved, ModifyRepository, UploadTo, ExportTypeOK, UploadType
  <2>2. /\ latest'.mods = latest.mods
        /\ latest'.pkgs = latest.pkgs \cup upload.back
    <3>1. PackagesIn({}) = {}
      BY DEF PackagesIn
    <3>2. latest.mods \ latest.mods = {} /\ (latest.mods \ {}) \cup {} = latest.mods
      OBVIOUS
    <3> QED
      BY <2>1, <3>1, <3>2 DEF Modified, OnlyPackages, NoContent
  <2> QED
    BY <2>1, <2>2 DEF UploadInv, UploadAt
<1>8. CASE PublishUpload
  <2>1. /\ UploadAt("publish") /\ latest' = latest
        /\ upload'.step = "done" /\ upload'.made = upload.made /\ upload'.mods = upload.mods
        /\ upload'.before = upload.before /\ upload'.alone = upload.alone
    BY <1>8 DEF PublishUpload, UploadTo, ExportTypeOK, UploadType
  <2> QED
    BY <2>1 DEF UploadInv, UploadAt
<1>9. CASE EndUpload \/ UploadFails
  <2>1. upload' = NoUpload
    BY <1>9 DEF EndUpload, UploadFails
  <2> QED
    BY <2>1 DEF NoUpload, UploadInv, UploadAt
<1>10. ASSUME \/ \E x \in Exporter : ExporterStep(x)
              \/ WebStep
              \/ UNCHANGED exportVars
       PROVE  UploadInv'
  <2>1. UNCHANGED <<latest, removed, upload>>
    BY <1>10 DEF ExporterStep, WebStep, exportVars, SourcesStay, CreateFilesystemExporter, ExportToFilesystem,
       CleanRepodata, DownloadRepodata, DownloadFails, RemovePackagesFromRepo, RegenerateRepoMetadata,
       PostProcessingFails, ErrataFails, ExtractErrataFromPaths, ReadRepomd, WriteSignature, SigningFails,
       CreatePulpExporterToFs, ExecutePulpExporterToFs, DeleteFilesystemExporter, FsExportDownload
  <2> QED
    BY <2>1 DEF UploadInv, UploadAt
<1> QED
  BY <1>1, <1>2, <1>3, <1>4, <1>5, <1>6, <1>7, <1>8, <1>9, <1>10, NextSteps DEF RepositoryStep

\* For any packages, modules and uploads: an upload that changed the repository
\* leaves it with the uploaded modules and all packages it had, unless a release
\* or revert came in between (utils/metadata uploads of one repository).
THEOREM UploadsKeepPackages == ExportSpec => []UploadKeepsPackages
<1>1. ExportInit => UploadInv
  BY DEF ExportInit, UploadInv, UploadAt, NoUpload
<1>2. UploadInv => UploadKeepsPackages
  BY DEF UploadInv, UploadKeepsPackages, UploadAt
<1> QED
  BY <1>1, <1>2, ExportInitType, ExportStepType, UploadStep, PTL DEF ExportSpec

------------------------------------------------------------------------------
(* Signatures                                                              *)

InStep(x, steps) == exporter[x].step \in steps
\* What is at work beside an exporter has taken its place as the only one.
OneAlone ==
    /\ \A x, y \in Exporter : x # y /\ ~At(x, "idle") /\ ~At(y, "idle") => ~exporter[x].alone
    /\ web # "idle" => \A x \in Exporter : ~At(x, "idle") => ~exporter[x].alone
\* An exporter that writes repodata has removed the signature, or another one
\* has written a signature since, and did not work alone.
Unsigned == \A x \in Exporter :
    InStep(x, {"download", "remove", "regenerate", "errata", "token", "sign"}) =>
        disk.asc = Nothing \/ ~disk.alone
\* What an exporter that works alone has sent away is what it signs.
ReadIsCurrent == \A x \in Exporter : At(x, "sign") /\ exporter[x].alone => exporter[x].bytes = disk.md
SignInv == OneAlone /\ Unsigned /\ ReadIsCurrent /\ SignatureMatches

\* A step of the repository leaves the directory and the exporters alone, and
\* an export that it disturbs is torn.
LEMMA RepositoryFrame ==
    ASSUME ExportTypeOK, RepositoryStep
    PROVE  /\ exporter' = exporter /\ web' = web
           /\ disk'.pkgs = disk.pkgs /\ disk'.md = disk.md /\ disk'.asc = disk.asc
           /\ disk'.alone = disk.alone /\ disk'.web = disk.web /\ disk'.source = disk.source
           /\ disk.torn => disk'.torn
           /\ Running = {} \/ disk'.torn \/ (latest' = latest /\ published' = published)
           /\ count'.faults = 0 => count.faults = 0
<1> DEFINE same == /\ disk'.pkgs = disk.pkgs /\ disk'.md = disk.md /\ disk'.asc = disk.asc
                   /\ disk'.alone = disk.alone /\ disk'.web = disk.web /\ disk'.source = disk.source
                   /\ disk.torn => disk'.torn
<1>1. Moved => same /\ (Running = {} \/ disk'.torn)
  BY DEF Moved, ExportTypeOK, DiskType
<1>2. disk' = disk => same
  OBVIOUS
<1>3. exporter' = exporter /\ web' = web
  BY DEF RepositoryStep, Release, Revert, PublishRelease, UploadRpmModules, GetRepoModules,
     ReplaceModules, GetRemovedRpmPackages, AddRemoved, PublishUpload, UploadComps, EndUpload,
     UploadFails, OthersStay
<1>4. Moved \/ UNCHANGED <<disk, latest, published>>
  BY DEF RepositoryStep, Release, Revert, PublishRelease, UploadRpmModules, GetRepoModules,
     ReplaceModules, GetRemovedRpmPackages, AddRemoved, PublishUpload, UploadComps, EndUpload,
     UploadFails, PulpStays, ModifyRepository, CreateRpmPublication
<1>5. \/ \E field \in {"exports", "releases", "uploads", "web", "faults", "gens"} : Bump(field)
      \/ count' = count
  BY DEF RepositoryStep, Release, Revert, PublishRelease, UploadRpmModules, GetRepoModules,
     ReplaceModules, GetRemovedRpmPackages, AddRemoved, PublishUpload, UploadComps, EndUpload,
     UploadFails, Fault, OthersStay
<1>6. count'.faults >= count.faults /\ count.faults \in Nat /\ count'.faults \in Nat
  BY <1>5, BumpType DEF ExportTypeOK, CountType
<1>7. count'.faults = 0 => count.faults = 0
  BY <1>6
<1> HIDE DEF same
<1>8. same /\ (Running = {} \/ disk'.torn \/ (latest' = latest /\ published' = published))
  BY <1>1, <1>2, <1>4
<1> QED
  BY <1>3, <1>7, <1>8 DEF same

\* Moving on, or ending, does not put an exporter beside another.
LEMMA OneAloneKept ==
    ASSUME OneAlone, NEW x \in Exporter, web' = web, ~At(x, "idle"),
           \/ exporter'[x].alone = exporter[x].alone
           \/ exporter'[x].step = "idle",
           \A y \in Exporter \ {x} : exporter'[y] = exporter[y]
    PROVE  OneAlone'
  BY DEF OneAlone, At

LEMMA SignStep == ExportTypeOK /\ SignInv /\ [ExportNext]_exportVars => SignInv'
<1> SUFFICES ASSUME ExportTypeOK, SignInv, [ExportNext]_exportVars PROVE SignInv'
  OBVIOUS
<1> USE DEF SignInv, OneAlone, Unsigned, ReadIsCurrent, SignatureMatches, At, InStep, Alone, Running
<1>1. CASE RepositoryStep
  BY <1>1, RepositoryFrame
<1>2. CASE UNCHANGED exportVars
  BY <1>2 DEF exportVars
<1>3. ASSUME NEW x \in Exporter, CreateFilesystemExporter(x) PROVE SignInv'
  <2>1. /\ disk'.md = disk.md /\ disk'.asc = disk.asc /\ disk'.alone = disk.alone
        /\ disk'.web = disk.web /\ web' = web
    BY <1>3 DEF CreateFilesystemExporter, ExportTypeOK, DiskType
  <2>2. At(x, "idle")
    BY <1>3 DEF CreateFilesystemExporter
  <2> QED
    BY <1>3, <2>1, <2>2, Created DEF ExportTypeOK, ExportType
<1>4. ASSUME NEW x \in Exporter, ExportToFilesystem(x) PROVE SignInv'
  <2>1. /\ disk'.md = disk.md /\ disk'.asc = disk.asc /\ disk'.alone = disk.alone
        /\ disk'.web = disk.web /\ web' = web
    BY <1>4 DEF ExportToFilesystem, ExportTypeOK, DiskType
  <2>2. To(x, "clean") \/ End(x)
    BY <1>4 DEF ExportToFilesystem
  <2>3. At(x, "export")
    BY <1>4 DEF ExportToFilesystem
  <2>4. /\ \/ exporter'[x].step = "clean" /\ exporter'[x].alone = exporter[x].alone
           \/ exporter'[x].step = "idle"
        /\ \A y \in Exporter \ {x} : exporter'[y] = exporter[y]
    BY <2>2, ToType, EndType
  <2>5. OneAlone'
    BY <2>1, <2>3, <2>4, OneAloneKept
  <2>6. Unsigned'
    BY <2>1, <2>3, <2>4
  <2>7. ReadIsCurrent'
    BY <2>1, <2>3, <2>4
  <2>8. SignatureMatches'
    BY <2>1, <2>3, <2>4
  <2> QED
    BY <2>5, <2>6, <2>7, <2>8
<1>5. ASSUME NEW x \in Exporter, CleanRepodata(x) PROVE SignInv'
  <2>1. /\ disk'.md = Nothing /\ disk'.asc = Nothing /\ disk'.alone = disk.alone
        /\ web' = web /\ At(x, "clean") /\ To(x, "download")
    BY <1>5 DEF CleanRepodata, ExportTypeOK, DiskType
  <2>2. /\ exporter'[x].step = "download" /\ exporter'[x].alone = exporter[x].alone
        /\ \A y \in Exporter \ {x} : exporter'[y] = exporter[y]
    BY <2>1, ToType
  <2>3. OneAlone'
    BY <2>1, <2>2, OneAloneKept
  <2>4. Unsigned'
    BY <2>1, <2>2
  <2>5. ReadIsCurrent'
    BY <2>1, <2>2
  <2>6. SignatureMatches'
    BY <2>1, <2>2
  <2> QED
    BY <2>3, <2>4, <2>5, <2>6
<1>6. ASSUME NEW x \in Exporter, DownloadRepodata(x) PROVE SignInv'
  <2>1. /\ disk'.asc = disk.asc /\ disk'.alone = disk.alone
        /\ disk'.web = disk.web /\ web' = web /\ At(x, "download")
    BY <1>6 DEF DownloadRepodata, ExportTypeOK, DiskType
  <2>2. \E step \in {"remove", "regenerate"} : To(x, step)
    BY <1>6 DEF DownloadRepodata, Downloaded
  <2>3. /\ exporter'[x].step \in {"remove", "regenerate"} /\ exporter'[x].alone = exporter[x].alone
        /\ \A y \in Exporter \ {x} : exporter'[y] = exporter[y]
    BY <2>2, ToType
  <2>4. OneAlone'
    BY <2>1, <2>2, <2>3, OneAloneKept
  <2>5. Unsigned'
    BY <2>1, <2>2, <2>3
  <2>6. ReadIsCurrent'
    BY <2>1, <2>2, <2>3
  <2>7. SignatureMatches'
    BY <2>1, <2>2, <2>3
  <2> QED
    BY <2>4, <2>5, <2>6, <2>7
<1>7. ASSUME NEW x \in Exporter,
             DownloadFails(x) \/ RemovePackagesFromRepo(x) \/ PostProcessingFails(x)
      PROVE  SignInv'
  <2>1. /\ disk'.md = disk.md /\ disk'.asc = disk.asc /\ disk'.alone = disk.alone
        /\ disk'.web = disk.web /\ web' = web
    BY <1>7 DEF DownloadFails, RemovePackagesFromRepo, PostProcessingFails, ExportTypeOK, DiskType
  <2>2. /\ InStep(x, {"download", "remove", "regenerate"})
        /\ \E step \in {"remove", "regenerate", "errata", "token"} : To(x, step)
    BY <1>7 DEF DownloadFails, RemovePackagesFromRepo, PostProcessingFails, Downloaded, PostProcessed
  <2>3. /\ exporter'[x].step \in {"remove", "regenerate", "errata", "token"} /\ exporter'[x].alone = exporter[x].alone
        /\ \A y \in Exporter \ {x} : exporter'[y] = exporter[y]
    BY <2>2, ToType
  <2>4. OneAlone'
    BY <2>1, <2>2, <2>3, OneAloneKept
  <2>5. Unsigned'
    BY <2>1, <2>2, <2>3
  <2>6. ReadIsCurrent'
    BY <2>1, <2>2, <2>3
  <2>7. SignatureMatches'
    BY <2>1, <2>2, <2>3
  <2> QED
    BY <2>4, <2>5, <2>6, <2>7
<1>8. ASSUME NEW x \in Exporter, RegenerateRepoMetadata(x) PROVE SignInv'
  <2>1. /\ disk'.asc = disk.asc /\ disk'.alone = disk.alone
        /\ disk'.web = disk.web /\ web' = web /\ At(x, "regenerate")
    BY <1>8 DEF RegenerateRepoMetadata, ExportTypeOK, DiskType
  <2>2. \E step \in {"errata", "token"} : To(x, step)
    BY <1>8 DEF RegenerateRepoMetadata, PostProcessed
  <2>3. /\ exporter'[x].step \in {"errata", "token"} /\ exporter'[x].alone = exporter[x].alone
        /\ \A y \in Exporter \ {x} : exporter'[y] = exporter[y]
    BY <2>2, ToType
  <2>4. OneAlone'
    BY <2>1, <2>2, <2>3, OneAloneKept
  <2>5. Unsigned'
    BY <2>1, <2>2, <2>3
  <2>6. ReadIsCurrent'
    BY <2>1, <2>2, <2>3
  <2>7. SignatureMatches'
    BY <2>1, <2>2, <2>3
  <2> QED
    BY <2>4, <2>5, <2>6, <2>7
<1>9. ASSUME NEW x \in Exporter, ErrataFails(x) \/ SigningFails(x) PROVE SignInv'
  <2>1. disk' = disk /\ web' = web /\ End(x)
    BY <1>9 DEF ErrataFails, SigningFails
  <2> QED
    BY <2>1, EndType
<1>10. ASSUME NEW x \in Exporter, NEW infos \in UpdateInfos, NEW order \in SetToSeqs(DOMAIN infos),
              ExtractErrataFromPaths(x, infos, order)
       PROVE  SignInv'
  <2>1. disk' = disk /\ web' = web /\ At(x, "errata")
    BY <1>10 DEF ExtractErrataFromPaths
  <2>2. /\ exporter'[x].step = "token" /\ exporter'[x].alone = exporter[x].alone
        /\ \A y \in Exporter \ {x} : exporter'[y] = exporter[y]
    BY <1>10 DEF ExtractErrataFromPaths, Move, ExportTypeOK, ExportType
  <2> QED
    BY <2>1, <2>2
<1>11. ASSUME NEW x \in Exporter, ReadRepomd(x) PROVE SignInv'
  <2>1. disk' = disk /\ web' = web /\ At(x, "token")
    BY <1>11 DEF ReadRepomd
  <2>2. CASE End(x)
    BY <2>1, <2>2, EndType
  <2>3. CASE Move(x, [exporter[x] EXCEPT !.errata = Nothing, !.bytes = disk.md, !.step = "sign"])
    <3>1. /\ exporter'[x].step = "sign" /\ exporter'[x].alone = exporter[x].alone
          /\ exporter'[x].bytes = disk.md
          /\ \A y \in Exporter \ {x} : exporter'[y] = exporter[y]
      BY <2>3 DEF Move, ExportTypeOK, ExportType
    <3> QED
      BY <2>1, <3>1
  <2> QED
    BY <1>11, <2>2, <2>3 DEF ReadRepomd
<1>12. ASSUME NEW x \in Exporter, WriteSignature(x) PROVE SignInv'
  <2>1. /\ disk'.asc = exporter[x].bytes /\ disk'.alone = exporter[x].alone /\ disk'.md = disk.md
        /\ disk'.web = disk.web /\ web' = web /\ At(x, "sign") /\ End(x)
    BY <1>12 DEF WriteSignature, ExportTypeOK, DiskType
  <2> QED
    BY <2>1, EndType
<1>13. CASE CreatePulpExporterToFs
  <2>1. disk' = disk
    BY <1>13 DEF CreatePulpExporterToFs
  <2> QED
    BY <2>1, <1>13, WebCreated
<1>14. CASE ExecutePulpExporterToFs \/ DeleteFilesystemExporter
  <2>1. /\ disk'.md = disk.md /\ disk'.asc = disk.asc /\ disk'.alone = disk.alone
        /\ disk'.web = disk.web /\ exporter' = exporter /\ web # "idle"
    BY <1>14 DEF ExecutePulpExporterToFs, DeleteFilesystemExporter, WebAt, ExportTypeOK, DiskType
  <2> QED
    BY <2>1
<1>15. CASE FsExportDownload
  <2>1. /\ disk'.asc = disk.asc /\ disk'.alone = disk.alone /\ disk'.web
        /\ exporter' = exporter /\ web # "idle"
    BY <1>15 DEF FsExportDownload, WebAt, ExportTypeOK, DiskType
  <2> QED
    BY <2>1
<1> QED
  BY <1>1, <1>2, <1>3, <1>4, <1>5, <1>6, <1>7, <1>8, <1>9, <1>10, <1>11, <1>12, <1>13, <1>14, <1>15,
     NextSteps DEF ExporterStep, WebStep

\* For any exporters, uploads and failures: the signature in the directory
\* belongs to the repomd.xml beside it, unless exports overlapped or the web
\* export has replaced the file (repomd_signer of the exporters).
THEOREM SignaturesMatch == ExportSpec => []SignatureMatches
<1>1. ExportInit => SignInv
  BY DEF ExportInit, NoExport, SignInv, OneAlone, Unsigned, ReadIsCurrent, SignatureMatches, At, InStep
<1>2. SignInv => SignatureMatches
  BY DEF SignInv
<1> QED
  BY <1>1, <1>2, ExportInitType, ExportStepType, SignStep, PTL DEF ExportSpec

------------------------------------------------------------------------------
(* Exports                                                                 *)

\* While something is exported and nothing moved, what is exported is the
\* latest version, and it is published.
Still == Running # {} /\ ~disk.torn => latest = published /\ published = disk.source
Copying == \A x \in Exporter : At(x, "export") /\ ~disk.torn => exporter[x].version = disk.source
\* From the first copy on the directory has what it should have.
Wanted == disk.source.pkgs \ UNION Range(Excluded)
Copied == ~disk.torn =>
    /\ (\E x \in Exporter : ~At(x, "idle") /\ ~At(x, "export")) => Wanted \subseteq disk.pkgs
    /\ Running = {} /\ disk.md # Nothing /\ ~disk.web => Wanted \subseteq disk.pkgs
\* Who changes the packages of the directory writes the repodata later.
Indexed ==
    /\ \A x \in Exporter : ~InStep(x, {"clean", "download", "remove", "regenerate"})
    /\ web \in {"idle", "export"} /\ ~disk.web /\ disk.md # Nothing /\ count.faults = 0
    => disk.md.pkgs = disk.pkgs
\* Who removes the repodata downloads them anew, and with them the modules.
Present == count.faults = 0 /\ disk.md = Nothing =>
    \/ \A x \in Exporter : ~InStep(x, {"remove", "regenerate", "errata", "token", "sign"})
    \/ \E x \in Exporter : At(x, "download")
ModulesKept ==
    /\ \A x \in Exporter : ~InStep(x, {"export", "clean", "download"})
    /\ count.faults = 0 /\ ~disk.torn /\ ~disk.web /\ disk.md # Nothing
    => disk.md.mods = disk.source.mods
ExportInv == Still /\ Copying /\ Copied /\ Indexed /\ Present /\ ModulesKept

LEMMA ExportStep == ExportTypeOK /\ ExportInv /\ [ExportNext]_exportVars => ExportInv'
<1> SUFFICES ASSUME ExportTypeOK, ExportInv, [ExportNext]_exportVars PROVE ExportInv'
  OBVIOUS
<1> USE DEF ExportInv, Still, Copying, Copied, Indexed, Present, ModulesKept, Wanted, At, InStep, Running
<1>1. CASE RepositoryStep
  <2>1. /\ exporter' = exporter /\ web' = web
        /\ disk'.pkgs = disk.pkgs /\ disk'.md = disk.md /\ disk'.web = disk.web
        /\ disk'.source = disk.source /\ (disk.torn => disk'.torn)
        /\ Running = {} \/ disk'.torn \/ (latest' = latest /\ published' = published)
        /\ count'.faults = 0 => count.faults = 0
    BY <1>1, RepositoryFrame DEF Running
  <2>2. Still'
    BY <2>1
  <2>3. Copying'
    BY <2>1
  <2>4. Copied'
    BY <2>1
  <2>5. Indexed'
    BY <2>1
  <2>6. Present'
    BY <2>1
  <2>7. ModulesKept'
    BY <2>1
  <2> QED
    BY <2>2, <2>3, <2>4, <2>5, <2>6, <2>7
<1>2. CASE UNCHANGED exportVars
  BY <1>2 DEF exportVars
<1>3. ASSUME NEW x \in Exporter, CreateFilesystemExporter(x)
      PROVE  ExportInv'
  <2>1. /\ web' = web /\ latest' = latest /\ published' = published /\ At(x, "idle")
        /\ disk' = IF Running = {}
                    THEN [disk EXCEPT !.source = published, !.torn = latest # published] ELSE disk
    BY <1>3 DEF CreateFilesystemExporter, SourcesStay, Running
  <2>2. /\ disk'.pkgs = disk.pkgs /\ disk'.md = disk.md /\ disk'.web = disk.web
        /\ Running = {} => disk'.source = published /\ disk'.torn = (latest # published)
        /\ Running # {} => disk' = disk
    BY <2>1 DEF ExportTypeOK, DiskType
  <2>3. /\ exporter'[x].step = "export" /\ exporter'[x].version = latest
        /\ \A y \in Exporter \ {x} : /\ exporter'[y].step = exporter[y].step
                                     /\ exporter'[y].version = exporter[y].version
        /\ count'.faults = count.faults
    BY <1>3, Created
  <2>4. \A y \in Exporter : exporter'[y].step = IF y = x THEN "export" ELSE exporter[y].step
    BY <2>3
  <2>5. Still'
    BY <2>1, <2>2, <2>3, <2>4
  <2>6. Copying'
    BY <2>1, <2>2, <2>3, <2>4
  <2>7. Copied'
    BY <2>1, <2>2, <2>3, <2>4
  <2>8. Indexed'
    BY <2>1, <2>2, <2>3, <2>4
  <2>9. Present'
    BY <2>1, <2>2, <2>3, <2>4
  <2>10. ModulesKept'
    BY <2>1, <2>2, <2>3, <2>4
  <2> QED
    BY <2>5, <2>6, <2>7, <2>8, <2>9, <2>10
<1>4. ASSUME NEW x \in Exporter, ExportToFilesystem(x), exporter[x].gen = fse
      PROVE  ExportInv'
  <2>1. /\ UNCHANGED <<web, latest, published>> /\ At(x, "export") /\ count' = count
        /\ disk' = [disk EXCEPT !.pkgs = @ \cup exporter[x].version.pkgs] /\ To(x, "clean")
    BY <1>4 DEF ExportToFilesystem, SourcesStay
  <2>2. /\ disk'.pkgs = disk.pkgs \cup exporter[x].version.pkgs /\ disk'.md = disk.md /\ disk'.web = disk.web
        /\ disk'.source = disk.source /\ disk'.torn = disk.torn
    BY <2>1 DEF ExportTypeOK, DiskType
  <2>3. /\ exporter'[x].step = "clean" /\ exporter'[x].version = exporter[x].version
        /\ \A y \in Exporter \ {x} : exporter'[y] = exporter[y]
    BY <2>1, ToType
  <2>4. Still'
    BY <2>1, <2>2, <2>3
  <2>5. Copying'
    BY <2>1, <2>2, <2>3
  <2>6. Copied'
    BY <2>1, <2>2, <2>3
  <2>7. Indexed'
    BY <2>1, <2>2, <2>3
  <2>8. Present'
    BY <2>1, <2>2, <2>3
  <2>9. ModulesKept'
    BY <2>1, <2>2, <2>3
  <2> QED
    BY <2>4, <2>5, <2>6, <2>7, <2>8, <2>9
<1>5. ASSUME NEW x \in Exporter, ExportToFilesystem(x), exporter[x].gen # fse
      PROVE  ExportInv'
  <2>1. /\ UNCHANGED <<web, latest, published>> /\ At(x, "export") /\ count' = count
        /\ disk' = [disk EXCEPT !.torn = TRUE] /\ End(x)
    BY <1>5 DEF ExportToFilesystem, SourcesStay
  <2>2. /\ disk'.pkgs = disk.pkgs /\ disk'.md = disk.md /\ disk'.web = disk.web
        /\ disk'.source = disk.source /\ disk'.torn
    BY <2>1 DEF ExportTypeOK, DiskType
  <2>3. /\ exporter'[x].step = "idle"
        /\ \A y \in Exporter \ {x} : exporter'[y] = exporter[y]
    BY <2>1, EndType
  <2>4. Still'
    BY <2>1, <2>2, <2>3
  <2>5. Copying'
    BY <2>1, <2>2, <2>3
  <2>6. Copied'
    BY <2>1, <2>2, <2>3
  <2>7. Indexed'
    BY <2>1, <2>2, <2>3
  <2>8. Present'
    BY <2>1, <2>2, <2>3
  <2>9. ModulesKept'
    BY <2>1, <2>2, <2>3
  <2> QED
    BY <2>4, <2>5, <2>6, <2>7, <2>8, <2>9
<1>6. ASSUME NEW x \in Exporter, CleanRepodata(x)
      PROVE  ExportInv'
  <2>1. /\ UNCHANGED <<web, latest, published>> /\ At(x, "clean") /\ count' = count
        /\ To(x, "download")
    BY <1>6 DEF CleanRepodata, SourcesStay
  <2>2. /\ disk'.pkgs = disk.pkgs /\ disk'.md = Nothing /\ ~disk'.web
        /\ disk'.source = disk.source /\ disk'.torn = disk.torn
    BY <1>6 DEF CleanRepodata, ExportTypeOK, DiskType
  <2>3. /\ exporter'[x].step = "download"
        /\ \A y \in Exporter \ {x} : exporter'[y] = exporter[y]
    BY <2>1, ToType
  <2>4. Still'
    BY <2>1, <2>2, <2>3
  <2>5. Copying'
    BY <2>1, <2>2, <2>3
  <2>6. Copied'
    BY <2>1, <2>2, <2>3
  <2>7. Indexed'
    BY <2>1, <2>2, <2>3
  <2>8. Present'
    BY <2>1, <2>2, <2>3
  <2>9. ModulesKept'
    BY <2>1, <2>2, <2>3
  <2> QED
    BY <2>4, <2>5, <2>6, <2>7, <2>8, <2>9
<1>7. ASSUME NEW x \in Exporter, DownloadRepodata(x)
      PROVE  ExportInv'
  <2>1. /\ UNCHANGED <<web, latest, published>> /\ At(x, "download") /\ count' = count
        /\ \E step \in {"remove", "regenerate"} : To(x, step)
    BY <1>7 DEF DownloadRepodata, Downloaded, SourcesStay
  <2>2. /\ disk'.pkgs = disk.pkgs /\ disk'.md = Repodata(published, "pulp") /\ disk'.web = disk.web
        /\ disk'.source = disk.source /\ disk'.torn = disk.torn
    BY <1>7 DEF DownloadRepodata, ExportTypeOK, DiskType
  <2>3. disk'.md # Nothing
    BY <2>2, RepodataType DEF ExportTypeOK
  <2>4. disk'.md.mods = published.mods
    BY <2>2 DEF Repodata
  <2>5. /\ exporter'[x].step \in {"remove", "regenerate"}
        /\ \A y \in Exporter \ {x} : exporter'[y] = exporter[y]
    BY <2>1, ToType
  <2>6. Still'
    BY <2>1, <2>2, <2>3, <2>4, <2>5
  <2>7. Copying'
    BY <2>1, <2>2, <2>3, <2>4, <2>5
  <2>8. Copied'
    BY <2>1, <2>2, <2>3, <2>4, <2>5
  <2>9. Indexed'
    BY <2>1, <2>2, <2>3, <2>4, <2>5
  <2>10. Present'
    BY <2>1, <2>2, <2>3, <2>4, <2>5
  <2>11. ModulesKept'
    BY <2>1, <2>2, <2>3, <2>4, <2>5
  <2> QED
    BY <2>6, <2>7, <2>8, <2>9, <2>10, <2>11
<1>8. ASSUME NEW x \in Exporter, DownloadFails(x) \/ PostProcessingFails(x)
      PROVE  ExportInv'
  <2>1. /\ UNCHANGED <<web, latest, published>> /\ disk' = disk
        /\ InStep(x, {"download", "regenerate"})
        /\ \E step \in {"remove", "regenerate", "errata", "token"} : To(x, step)
    BY <1>8 DEF DownloadFails, PostProcessingFails, Downloaded, PostProcessed, SourcesStay
  <2>2. count'.faults > 0
    BY <1>8, BumpType DEF DownloadFails, PostProcessingFails, Fault, ExportTypeOK
  <2>3. /\ exporter'[x].step \in {"remove", "regenerate", "errata", "token"}
        /\ \A y \in Exporter \ {x} : exporter'[y] = exporter[y]
    BY <2>1, ToType
  <2>4. Still'
    BY <2>1, <2>2, <2>3
  <2>5. Copying'
    BY <2>1, <2>2, <2>3
  <2>6. Copied'
    BY <2>1, <2>2, <2>3
  <2>7. Indexed'
    BY <2>1, <2>2, <2>3
  <2>8. Present'
    BY <2>1, <2>2, <2>3
  <2>9. ModulesKept'
    BY <2>1, <2>2, <2>3
  <2> QED
    BY <2>4, <2>5, <2>6, <2>7, <2>8, <2>9
<1>9. ASSUME NEW x \in Exporter, RemovePackagesFromRepo(x)
      PROVE  ExportInv'
  <2>1. /\ UNCHANGED <<web, latest, published>> /\ At(x, "remove") /\ count' = count
        /\ To(x, "regenerate")
    BY <1>9 DEF RemovePackagesFromRepo, SourcesStay
  <2>2. /\ disk'.pkgs = disk.pkgs \ Excluded[x] /\ disk'.md = disk.md /\ disk'.web = disk.web
        /\ disk'.source = disk.source /\ disk'.torn = disk.torn
    BY <1>9 DEF RemovePackagesFromRepo, ExportTypeOK, DiskType
  <2>3. /\ exporter'[x].step = "regenerate"
        /\ \A y \in Exporter \ {x} : exporter'[y] = exporter[y]
    BY <2>1, ToType
  <2>4. Excluded[x] \subseteq UNION Range(Excluded)
    BY ExportAssumption DEF Range
  <2>5. Still'
    BY <2>1, <2>2, <2>3, <2>4
  <2>6. Copying'
    BY <2>1, <2>2, <2>3, <2>4
  <2>7. Copied'
    BY <2>1, <2>2, <2>3, <2>4
  <2>8. Indexed'
    BY <2>1, <2>2, <2>3, <2>4
  <2>9. Present'
    BY <2>1, <2>2, <2>3, <2>4
  <2>10. ModulesKept'
    BY <2>1, <2>2, <2>3, <2>4
  <2> QED
    BY <2>5, <2>6, <2>7, <2>8, <2>9, <2>10
<1>10. ASSUME NEW x \in Exporter, RegenerateRepoMetadata(x)
      PROVE  ExportInv'
  <2>1. /\ UNCHANGED <<web, latest, published>> /\ At(x, "regenerate") /\ count' = count
        /\ \E step \in {"errata", "token"} : To(x, step)
    BY <1>10 DEF RegenerateRepoMetadata, PostProcessed, SourcesStay
  <2>2. /\ disk'.pkgs = disk.pkgs /\ disk'.web = disk.web
        /\ disk'.source = disk.source /\ disk'.torn = disk.torn
        /\ disk'.md.pkgs = disk.pkgs /\ disk'.md.mods = IF disk.md = Nothing THEN {} ELSE disk.md.mods
    BY <1>10 DEF RegenerateRepoMetadata, Repodata, ExportTypeOK, DiskType
  <2>3. disk'.md # Nothing
    BY <1>10, RepodataType DEF RegenerateRepoMetadata, ExportTypeOK, DiskType, Content, Metadata
  <2>4. /\ exporter'[x].step \in {"errata", "token"}
        /\ \A y \in Exporter \ {x} : exporter'[y] = exporter[y]
    BY <2>1, ToType
  <2>5. Still'
    BY <2>1, <2>2, <2>3, <2>4
  <2>6. Copying'
    BY <2>1, <2>2, <2>3, <2>4
  <2>7. Copied'
    BY <2>1, <2>2, <2>3, <2>4
  <2>8. Indexed'
    BY <2>1, <2>2, <2>3, <2>4
  <2>9. Present'
    BY <2>1, <2>2, <2>3, <2>4
  <2>10. ModulesKept'
    BY <2>1, <2>2, <2>3, <2>4
  <2> QED
    BY <2>5, <2>6, <2>7, <2>8, <2>9, <2>10
<1>11. ASSUME NEW x \in Exporter, ErrataFails(x) \/ SigningFails(x) \/ WriteSignature(x)
      PROVE  ExportInv'
  <2>1. /\ UNCHANGED <<web, latest, published>> /\ InStep(x, {"errata", "sign"}) /\ End(x)
        /\ disk'.pkgs = disk.pkgs /\ disk'.md = disk.md /\ disk'.web = disk.web
        /\ disk'.source = disk.source /\ disk'.torn = disk.torn
    BY <1>11 DEF ErrataFails, SigningFails, WriteSignature, SourcesStay, ExportTypeOK, DiskType
  <2>2. count'.faults = 0 => count.faults = 0
    BY <1>11, BumpType DEF ErrataFails, SigningFails, WriteSignature, Fault, ExportTypeOK, CountType
  <2>3. /\ exporter'[x].step = "idle"
        /\ \A y \in Exporter \ {x} : exporter'[y] = exporter[y]
    BY <2>1, EndType
  <2>4. Still'
    BY <2>1, <2>2, <2>3
  <2>5. Copying'
    BY <2>1, <2>2, <2>3
  <2>6. Copied'
    BY <2>1, <2>2, <2>3
  <2>7. Indexed'
    BY <2>1, <2>2, <2>3
  <2>8. Present'
    BY <2>1, <2>2, <2>3
  <2>9. ModulesKept'
    BY <2>1, <2>2, <2>3
  <2> QED
    BY <2>4, <2>5, <2>6, <2>7, <2>8, <2>9
<1>12. ASSUME NEW x \in Exporter, NEW infos \in UpdateInfos, NEW order \in SetToSeqs(DOMAIN infos),
              ExtractErrataFromPaths(x, infos, order)
      PROVE  ExportInv'
  <2>1. /\ UNCHANGED <<web, latest, published>> /\ At(x, "errata") /\ disk' = disk /\ count' = count
    BY <1>12 DEF ExtractErrataFromPaths, SourcesStay
  <2>2. /\ exporter'[x].step = "token"
        /\ \A y \in Exporter \ {x} : exporter'[y] = exporter[y]
    BY <1>12 DEF ExtractErrataFromPaths, Move, ExportTypeOK, ExportType
  <2>3. Still'
    BY <2>1, <2>2
  <2>4. Copying'
    BY <2>1, <2>2
  <2>5. Copied'
    BY <2>1, <2>2
  <2>6. Indexed'
    BY <2>1, <2>2
  <2>7. Present'
    BY <2>1, <2>2
  <2>8. ModulesKept'
    BY <2>1, <2>2
  <2> QED
    BY <2>3, <2>4, <2>5, <2>6, <2>7, <2>8
<1>13. ASSUME NEW x \in Exporter, ReadRepomd(x)
      PROVE  ExportInv'
  <2>1. /\ UNCHANGED <<web, latest, published>> /\ At(x, "token") /\ disk' = disk /\ count' = count
    BY <1>13 DEF ReadRepomd, SourcesStay
  <2>2. /\ exporter'[x].step = IF disk.md = Nothing THEN "idle" ELSE "sign"
        /\ \A y \in Exporter \ {x} : exporter'[y] = exporter[y]
    <3>1. CASE disk.md = Nothing
      BY <1>13, <3>1, EndType DEF ReadRepomd
    <3>2. CASE disk.md # Nothing
      BY <1>13, <3>2 DEF ReadRepomd, Move, ExportTypeOK, ExportType
    <3> QED
      BY <3>1, <3>2
  <2>3. Still'
    BY <2>1, <2>2
  <2>4. Copying'
    BY <2>1, <2>2
  <2>5. Copied'
    BY <2>1, <2>2
  <2>6. Indexed'
    BY <2>1, <2>2
  <2>7. Present'
    BY <2>1, <2>2
  <2>8. ModulesKept'
    BY <2>1, <2>2
  <2> QED
    BY <2>3, <2>4, <2>5, <2>6, <2>7, <2>8
<1>14. CASE CreatePulpExporterToFs
  <2>1. /\ latest' = latest /\ published' = published /\ disk' = disk /\ web = "idle" /\ web' = "export"
    BY <1>14 DEF CreatePulpExporterToFs, WebAt, SourcesStay
  <2>2. /\ \A y \in Exporter : /\ exporter'[y].step = exporter[y].step
                               /\ exporter'[y].version = exporter[y].version
        /\ count'.faults = count.faults
    BY <1>14, WebCreated
  <2>3. Still'
    BY <2>1, <2>2
  <2>4. Copying'
    BY <2>1, <2>2
  <2>5. Copied'
    BY <2>1, <2>2
  <2>6. Indexed'
    BY <2>1, <2>2
  <2>7. Present'
    BY <2>1, <2>2
  <2>8. ModulesKept'
    BY <2>1, <2>2
  <2> QED
    BY <2>3, <2>4, <2>5, <2>6, <2>7, <2>8
<1>15. CASE ExecutePulpExporterToFs
  <2>1. /\ latest' = latest /\ published' = published /\ exporter' = exporter /\ count' = count /\ web' = "delete"
        /\ disk.pkgs \subseteq disk'.pkgs /\ disk'.md = disk.md /\ disk'.web = disk.web
        /\ disk'.source = disk.source /\ disk'.torn = disk.torn
    BY <1>15 DEF ExecutePulpExporterToFs, SourcesStay, ExportTypeOK, DiskType
  <2>2. Still'
    BY <2>1
  <2>3. Copying'
    BY <2>1
  <2>4. Copied'
    BY <2>1
  <2>5. Indexed'
    BY <2>1
  <2>6. Present'
    BY <2>1
  <2>7. ModulesKept'
    BY <2>1
  <2> QED
    BY <2>2, <2>3, <2>4, <2>5, <2>6, <2>7
<1>16. CASE DeleteFilesystemExporter
  <2>1. UNCHANGED <<latest, published, exporter, count, disk>> /\ web' = "download"
    BY <1>16 DEF DeleteFilesystemExporter, SourcesStay
  <2>2. Still'
    BY <2>1
  <2>3. Copying'
    BY <2>1
  <2>4. Copied'
    BY <2>1
  <2>5. Indexed'
    BY <2>1
  <2>6. Present'
    BY <2>1
  <2>7. ModulesKept'
    BY <2>1
  <2> QED
    BY <2>2, <2>3, <2>4, <2>5, <2>6, <2>7
<1>17. CASE FsExportDownload
  <2>1. /\ latest' = latest /\ published' = published /\ exporter' = exporter /\ count' = count
        /\ disk'.pkgs = disk.pkgs /\ disk'.md = Repodata(published, "pulp") /\ disk'.web
        /\ disk'.source = disk.source /\ disk'.torn = disk.torn
    BY <1>17 DEF FsExportDownload, SourcesStay, ExportTypeOK, DiskType
  <2>2. disk'.md # Nothing
    BY <2>1, RepodataType DEF ExportTypeOK
  <2>3. Still'
    BY <2>1, <2>2
  <2>4. Copying'
    BY <2>1, <2>2
  <2>5. Copied'
    BY <2>1, <2>2
  <2>6. Indexed'
    BY <2>1, <2>2
  <2>7. Present'
    BY <2>1, <2>2
  <2>8. ModulesKept'
    BY <2>1, <2>2
  <2> QED
    BY <2>3, <2>4, <2>5, <2>6, <2>7, <2>8
<1> QED
  BY <1>1, <1>2, <1>3, <1>4, <1>5, <1>6, <1>7, <1>8, <1>9, <1>10, <1>11, <1>12, <1>13, <1>14, <1>15, <1>16, <1>17,
     NextSteps DEF ExporterStep, WebStep

\* For any exporters, releases and uploads, however exports have overlapped:
\* when none runs, the directory has the repodata of its packages, the modules
\* that were published and all published packages, with the exceptions that
\* the property names (the exporter scripts).
THEOREM ExportsArePublished == ExportSpec => []ExportIsPublished
<1>1. ExportInit => ExportInv
  BY DEF ExportInit, NoExport, ExportInv, Still, Copying, Copied, Indexed, Present, ModulesKept, At, InStep, Running
<1>2. ExportInv => ExportIsPublished
  BY DEF ExportInv, Copied, Indexed, ModulesKept, Wanted, ExportIsPublished, Alone, Running, At, InStep
<1> QED
  BY <1>1, <1>2, ExportInitType, ExportStepType, ExportStep, PTL DEF ExportSpec

------------------------------------------------------------------------------
(* Errata.  They are a fold over paths of folds over records.               *)

LEMMA LessThanRelation == OpToRel(<, Nat) = {ss \in Nat \X Nat : ss[1] < ss[2]}
BY SMT DEF OpToRel

\* "Less than" is well founded, as a relation the provers can use.
LEMMA Less == \E R : /\ IsWellFoundedOn(R, Nat)
                    /\ \A m, n \in Nat : <<n, m>> \in R <=> n < m
<1> DEFINE R == {ss \in Nat \X Nat : ss[1] < ss[2]}
<1>1. IsWellFoundedOn(R, Nat)
  BY NatLessThanWellFounded, LessThanRelation
<1>2. \A m, n \in Nat : <<n, m>> \in R <=> n < m
  OBVIOUS
<1>3. QED
  BY <1>1, <1>2

\* Every set of naturals that is not empty has a least element.
LEMMA Smallest ==
    ASSUME NEW S, S \subseteq Nat, S # {}
    PROVE  \E m \in S : \A n \in S : m <= n
<1>1. PICK R : /\ IsWellFoundedOn(R, Nat)
               /\ \A m, n \in Nat : <<n, m>> \in R <=> n < m
  BY Less
<1>2. PICK m \in S : \A n \in S : ~ (<<n, m>> \in R)
  BY <1>1, WFMin, Zenon
<1>3. ASSUME NEW n \in S PROVE m <= n
  <2>1. m \in Nat /\ n \in Nat
    OBVIOUS
  <2>2. ~ (n < m)
    BY <1>1, <1>2, <2>1
  <2>3. QED
    BY <2>1, <2>2
<1>4. QED
  BY <1>3

\* Steps from 0 to n.
LEMMA UpTo ==
    ASSUME NEW n \in Nat, NEW S, 0 \in S, \A i \in 1..n : i - 1 \in S => i \in S
    PROVE  \A i \in 0..n : i \in S
<1> DEFINE B == {i \in 0..n : i \notin S}
<1>1. SUFFICES ASSUME B # {} PROVE FALSE
  OBVIOUS
<1>2. PICK m \in B : \A i \in B : m <= i
  <2>1. B \subseteq Nat
    OBVIOUS
  <2> HIDE DEF B
  <2>2. QED
    BY <1>1, <2>1, Smallest
<1>3. m # 0 /\ m \in 1..n
  BY <1>2
<1>4. m - 1 \in 0..n /\ m - 1 \notin B
  BY <1>2, <1>3
<1>5. QED
  BY <1>3, <1>4, <1>2

LEMMA Maximum ==
    ASSUME NEW n \in Nat, NEW t \in SUBSET (1..n), t # {}
    PROVE  Max(t) \in t /\ \A x \in t : x <= Max(t)
<1> DEFINE S == {n - x : x \in t}
<1>0. \A x \in t : x \in Nat /\ n - x \in Nat
  OBVIOUS
<1>1. S \subseteq Nat /\ S # {}
  BY <1>0
<1>2. PICK m \in S : \A k \in S : m <= k
  <2> HIDE DEF S
  <2>1. QED
    BY <1>1, Smallest
<1>3. PICK x \in t : m = n - x
  BY <1>2
<1>4. ASSUME NEW y \in t PROVE x >= y
  <2>1. n - x <= n - y
    BY <1>2, <1>3
  <2>2. QED
    BY <1>0, <2>1
<1>5. \E z \in t : \A y \in t : z >= y
  BY <1>4
<1>6. Max(t) \in t /\ \A y \in t : Max(t) >= y
  BY <1>5 DEF Max
<1>7. QED
  BY <1>6


\* What the folds of the errata do with a record, and with the records of a path
AddRecord(c, u) ==
    Insert(c, u.id, IF u.id \in DOMAIN c THEN MergedDates(c[u.id], ExtractErrata(u)) ELSE ExtractErrata(u))
AddModern(c, u) ==
    Insert(c, u.id, IF u.id \in DOMAIN c THEN MergedFirst(c[u.id], ExtractErrataModern(u))
                    ELSE ExtractErrataModern(u))
ErrataStep(fold, c, x) ==
    CASE fold.over = "records" -> AddRecord(c, x)
      [] fold.over = "modern" -> AddModern(c, x)
      [] fold.over = "paths" -> MergeErrataRecords(c, fold.infos[x])
      [] fold.over = "modern paths" -> MergeErrataRecordsModern(c, fold.infos[x])

\* The function by which the library defines a fold, which exists.
IsFold(fold, base, s, n, g) ==
    g = [t \in SUBSET (1..n) |->
           IF t = {} THEN base ELSE ErrataStep(fold, g[t \ {Max(t)}], s[Max(t)])]
LEMMA FoldExists ==
    ASSUME NEW fold, NEW base, NEW s, NEW n \in Nat
    PROVE  \E g : IsFold(fold, base, s, n, g)
<1> DEFINE Is(m, g) == g = [t \in SUBSET (1..m) |->
              IF t = {} THEN base ELSE ErrataStep(fold, g[t \ {Max(t)}], s[Max(t)])]
           S == {m \in 0..n : \E g : Is(m, g)}
<1>1. 0 \in S
  <2>1. Is(0, [t \in SUBSET (1..0) |-> base])
    <3> DEFINE g == [t \in SUBSET (1..0) |-> base]
    <3>1. \A t \in SUBSET (1..0) : t = {}
      OBVIOUS
    <3>2. g = [t \in SUBSET (1..0) |->
                 IF t = {} THEN base ELSE ErrataStep(fold, g[t \ {Max(t)}], s[Max(t)])]
      BY <3>1
    <3>3. QED
      BY <3>2
  <2>2. QED
    BY <2>1
<1>2. ASSUME NEW m \in 1..n, m - 1 \in S PROVE m \in S
  <2>1. PICK g : Is(m - 1, g)
    BY <1>2
  <2> DEFINE h == [t \in SUBSET (1..m) |->
                      IF m \in t THEN ErrataStep(fold, g[t \ {m}], s[m]) ELSE g[t]]
  <2>2. \A t \in SUBSET (1..m) : m \notin t => t \in SUBSET (1..(m - 1))
    OBVIOUS
  <2>3. ASSUME NEW t \in SUBSET (1..m)
        PROVE  h[t] = IF t = {} THEN base ELSE ErrataStep(fold, h[t \ {Max(t)}], s[Max(t)])
    <3>1. CASE m \in t
      <4>1. Max(t) = m
        <5>1. m \in Nat /\ t \in SUBSET (1..m) /\ t # {}
          BY <3>1
        <5>2. Max(t) \in t /\ \A x \in t : x <= Max(t)
          BY <5>1, Maximum
        <5>3. Max(t) \in 1..m /\ m <= Max(t)
          BY <3>1, <5>2
        <5>4. QED
          BY <5>3
      <4>2. h[t \ {m}] = g[t \ {m}]
        OBVIOUS
      <4>3. h[t] = ErrataStep(fold, g[t \ {m}], s[m])
        BY <3>1
      <4>4. t # {}
        BY <3>1
      <4> HIDE DEF h
      <4>5. QED
        BY <4>1, <4>2, <4>3, <4>4
    <3>2. CASE m \notin t
      <4>1. t \in SUBSET (1..(m - 1)) /\ h[t] = g[t]
        BY <2>2, <3>2
      <4>2. g[t] = IF t = {} THEN base ELSE ErrataStep(fold, g[t \ {Max(t)}], s[Max(t)])
        BY <2>1, <4>1
      <4>3. h[t \ {Max(t)}] = g[t \ {Max(t)}]
        BY <3>2
      <4> HIDE DEF h
      <4>4. QED
        BY <4>1, <4>2, <4>3
    <3>3. QED
      BY <3>1, <3>2
  <2>4. h = [t \in SUBSET (1..m) |-> h[t]]
    OBVIOUS
  <2> HIDE DEF h
  <2>5. Is(m, h)
    BY <2>3, <2>4
  <2>6. m \in 0..n
    OBVIOUS
  <2> HIDE DEF Is
  <2>7. QED
    BY <2>5, <2>6
<1> HIDE DEF Is
<1>3. n \in S
  <2> HIDE DEF S
  <2>1. \A i \in 0..n : i \in S
    BY <1>1, <1>2, UpTo
  <2>2. QED
    BY <2>1
<1>4. QED
  BY <1>3 DEF Is, IsFold

\* What it does, from one element to the next.
Runs(fold, base, s, n, c, result) ==
    c[0] = base /\ c[n] = result /\ \A i \in 1..n : c[i] = ErrataStep(fold, c[i - 1], s[i])
LEMMA FoldRuns ==
    ASSUME NEW fold, NEW base, NEW s, NEW n \in Nat, NEW g,
           IsFold(fold, base, s, n, g)
    PROVE  \E c : Runs(fold, base, s, n, c, g[1..n])
<1> DEFINE c == [i \in 0..n |-> g[1..i]]
<1>0. g = [t \in SUBSET (1..n) |->
             IF t = {} THEN base ELSE ErrataStep(fold, g[t \ {Max(t)}], s[Max(t)])]
  BY DEF IsFold
<1>1. c[0] = base /\ c[n] = g[1..n]
  <2>1. c[0] = g[1..0] /\ c[n] = g[1..n]
    OBVIOUS
  <2>2. 1..0 = {} /\ {} \in SUBSET (1..n)
    OBVIOUS
  <2>3. g[{}] = base
    BY <1>0, <2>2
  <2>4. QED
    BY <2>1, <2>2, <2>3
<1>2. ASSUME NEW i \in 1..n PROVE c[i] = ErrataStep(fold, c[i - 1], s[i])
  <2>1. 1..i \in SUBSET (1..n) /\ 1..i # {} /\ i \in 1..i
    OBVIOUS
  <2>2. Max(1..i) = i
    <3>1. i \in Nat /\ 1..i \in SUBSET (1..i)
      OBVIOUS
    <3>2. Max(1..i) \in 1..i /\ \A x \in 1..i : x <= Max(1..i)
      BY <2>1, <3>1, Maximum
    <3>3. QED
      BY <2>1, <3>2
  <2>3. (1..i) \ {i} = 1..(i - 1)
    OBVIOUS
  <2>4. g[1..i] = ErrataStep(fold, g[(1..i) \ {Max(1..i)}], s[Max(1..i)])
    BY <1>0, <2>1
  <2>5. c[i] = g[1..i] /\ c[i - 1] = g[1..(i - 1)]
    <3>1. i \in 0..n /\ i - 1 \in 0..n
      OBVIOUS
    <3>2. \A k \in 0..n : c[k] = g[1..k]
      OBVIOUS
    <3> HIDE DEF c
    <3>3. QED
      BY <3>1, <3>2, Zenon
  <2> HIDE DEF c
  <2>6. QED
    BY <2>2, <2>3, <2>4, <2>5
<1> HIDE DEF c
<1>3. QED
  BY <1>1, <1>2 DEF Runs


RecordSteps(base, s, n, c) ==
    /\ c[0] = base /\ c[n] = MergeErrataRecords(base, s)
    /\ \A i \in 1..n : c[i] = AddRecord(c[i - 1], s[i])
LEMMA RecordsRun ==
  ASSUME NEW base, NEW s, NEW n \in Nat, DOMAIN s = 1..n
  PROVE  \E c : RecordSteps(base, s, n, c)
<1> DEFINE fold == [over |-> "records"]
           h == CHOOSE g : g = [t \in SUBSET (DOMAIN s) |->
                  IF t = {} THEN base ELSE AddRecord(g[t \ {Max(t)}], s[Max(t)])]
<1>1. MergeErrataRecords(base, s) = h[1..n]
  BY DEF MergeErrataRecords, FoldLeft, MapThenFoldSet, AddRecord
<1>2. \A c, x : ErrataStep(fold, c, x) = AddRecord(c, x)
  BY DEF ErrataStep
<1>3. IsFold(fold, base, s, n, h)
  <2> HIDE DEF fold
  <2>1. PICK g : IsFold(fold, base, s, n, g)
    BY FoldExists
  <2>2. g = [t \in SUBSET (1..n) |->
            IF t = {} THEN base ELSE AddRecord(g[t \ {Max(t)}], s[Max(t)])]
    BY <2>1, <1>2, ZenonT(60) DEF IsFold
  <2>3. h = [t \in SUBSET (1..n) |->
            IF t = {} THEN base ELSE AddRecord(h[t \ {Max(t)}], s[Max(t)])]
    BY <2>2
  <2> HIDE DEF h
  <2>4. QED
    BY <2>3, <1>2, ZenonT(60) DEF IsFold
<1> HIDE DEF h, fold
<1>4. PICK c : Runs(fold, base, s, n, c, h[1..n])
  BY <1>3, FoldRuns
<1>5. QED
  BY <1>1, <1>2, <1>4 DEF Runs, RecordSteps

ModernSteps(base, s, n, c) ==
    /\ c[0] = base /\ c[n] = MergeErrataRecordsModern(base, s)
    /\ \A i \in 1..n : c[i] = AddModern(c[i - 1], s[i])
LEMMA ModernRun ==
  ASSUME NEW base, NEW s, NEW n \in Nat, DOMAIN s = 1..n
  PROVE  \E c : ModernSteps(base, s, n, c)
<1> DEFINE fold == [over |-> "modern"]
           h == CHOOSE g : g = [t \in SUBSET (DOMAIN s) |->
                  IF t = {} THEN base ELSE AddModern(g[t \ {Max(t)}], s[Max(t)])]
<1>1. MergeErrataRecordsModern(base, s) = h[1..n]
  BY DEF MergeErrataRecordsModern, FoldLeft, MapThenFoldSet, AddModern
<1>2. \A c, x : ErrataStep(fold, c, x) = AddModern(c, x)
  BY DEF ErrataStep
<1>3. IsFold(fold, base, s, n, h)
  <2> HIDE DEF fold
  <2>1. PICK g : IsFold(fold, base, s, n, g)
    BY FoldExists
  <2>2. g = [t \in SUBSET (1..n) |->
            IF t = {} THEN base ELSE AddModern(g[t \ {Max(t)}], s[Max(t)])]
    BY <2>1, <1>2, ZenonT(60) DEF IsFold
  <2>3. h = [t \in SUBSET (1..n) |->
            IF t = {} THEN base ELSE AddModern(h[t \ {Max(t)}], s[Max(t)])]
    BY <2>2
  <2> HIDE DEF h
  <2>4. QED
    BY <2>3, <1>2, ZenonT(60) DEF IsFold
<1> HIDE DEF h, fold
<1>4. PICK c : Runs(fold, base, s, n, c, h[1..n])
  BY <1>3, FoldRuns
<1>5. QED
  BY <1>1, <1>2, <1>4 DEF Runs, ModernSteps

PathSteps(infos, s, n, c) ==
    /\ c[0] = NoRecords /\ c[n] = ExtractFromPaths(infos, s).cache
    /\ \A i \in 1..n : c[i] = MergeErrataRecords(c[i - 1], infos[s[i]])
LEMMA PathsRun ==
  ASSUME NEW infos, NEW s, NEW n \in Nat, DOMAIN s = 1..n
  PROVE  \E c : PathSteps(infos, s, n, c)
<1> DEFINE fold == [over |-> "paths", infos |-> infos]
           h == CHOOSE g : g = [t \in SUBSET (DOMAIN s) |->
                  IF t = {} THEN NoRecords ELSE MergeErrataRecords(g[t \ {Max(t)}], infos[s[Max(t)]])]
<1>1. ExtractFromPaths(infos, s).cache = h[1..n]
  BY DEF ExtractFromPaths, FoldLeft, MapThenFoldSet
<1>2. \A c, x : ErrataStep(fold, c, x) = MergeErrataRecords(c, infos[x])
  BY DEF ErrataStep
<1>3. IsFold(fold, NoRecords, s, n, h)
  <2> HIDE DEF fold
  <2>1. PICK g : IsFold(fold, NoRecords, s, n, g)
    BY FoldExists
  <2>2. g = [t \in SUBSET (1..n) |->
            IF t = {} THEN NoRecords ELSE MergeErrataRecords(g[t \ {Max(t)}], infos[s[Max(t)]])]
    BY <2>1, <1>2, ZenonT(60) DEF IsFold
  <2>3. h = [t \in SUBSET (1..n) |->
            IF t = {} THEN NoRecords ELSE MergeErrataRecords(h[t \ {Max(t)}], infos[s[Max(t)]])]
    BY <2>2
  <2> HIDE DEF h
  <2>4. QED
    BY <2>3, <1>2, ZenonT(60) DEF IsFold
<1> HIDE DEF h, fold
<1>4. PICK c : Runs(fold, NoRecords, s, n, c, h[1..n])
  BY <1>3, FoldRuns
<1>5. QED
  BY <1>1, <1>2, <1>4 DEF Runs, PathSteps

ModernPathSteps(infos, s, n, c) ==
    /\ c[0] = NoRecords /\ c[n] = ExtractFromPaths(infos, s).modern
    /\ \A i \in 1..n : c[i] = MergeErrataRecordsModern(c[i - 1], infos[s[i]])
LEMMA ModernPathsRun ==
  ASSUME NEW infos, NEW s, NEW n \in Nat, DOMAIN s = 1..n
  PROVE  \E c : ModernPathSteps(infos, s, n, c)
<1> DEFINE fold == [over |-> "modern paths", infos |-> infos]
           h == CHOOSE g : g = [t \in SUBSET (DOMAIN s) |->
                  IF t = {} THEN NoRecords ELSE MergeErrataRecordsModern(g[t \ {Max(t)}], infos[s[Max(t)]])]
<1>1. ExtractFromPaths(infos, s).modern = h[1..n]
  BY DEF ExtractFromPaths, FoldLeft, MapThenFoldSet
<1>2. \A c, x : ErrataStep(fold, c, x) = MergeErrataRecordsModern(c, infos[x])
  BY DEF ErrataStep
<1>3. IsFold(fold, NoRecords, s, n, h)
  <2> HIDE DEF fold
  <2>1. PICK g : IsFold(fold, NoRecords, s, n, g)
    BY FoldExists
  <2>2. g = [t \in SUBSET (1..n) |->
            IF t = {} THEN NoRecords ELSE MergeErrataRecordsModern(g[t \ {Max(t)}], infos[s[Max(t)]])]
    BY <2>1, <1>2, ZenonT(60) DEF IsFold
  <2>3. h = [t \in SUBSET (1..n) |->
            IF t = {} THEN NoRecords ELSE MergeErrataRecordsModern(h[t \ {Max(t)}], infos[s[Max(t)]])]
    BY <2>2
  <2> HIDE DEF h
  <2>4. QED
    BY <2>3, <1>2, ZenonT(60) DEF IsFold
<1> HIDE DEF h, fold
<1>4. PICK c : Runs(fold, NoRecords, s, n, c, h[1..n])
  BY <1>3, FoldRuns
<1>5. QED
  BY <1>1, <1>2, <1>4 DEF Runs, ModernPathSteps

\* A record that was merged from others: their packages and references, and
\* the dates that span theirs
IsErratum(r) == r \in [issued : Int, updated : Int, pkgs : {r.pkgs}, refs : {r.refs}]
Spans(r, all) ==
    /\ IsErratum(r)
    /\ \E q \in all : r.issued = q.issued
    /\ \E q \in all : r.updated = q.updated
    /\ \A q \in all : IsErratum(q) /\ r.issued <= q.issued /\ q.updated <= r.updated
    /\ r.pkgs = UNION {q.pkgs : q \in all} /\ r.refs = UNION {q.refs : q \in all}

LEMMA MergedIs ==
  ASSUME NEW r, NEW s, IsErratum(r), IsErratum(s)
  PROVE  /\ MergedDates(r, s).issued = IF s.issued < r.issued THEN s.issued ELSE r.issued
         /\ MergedDates(r, s).updated = IF s.updated > r.updated THEN s.updated ELSE r.updated
         /\ MergedDates(r, s).pkgs = r.pkgs \cup s.pkgs /\ MergedDates(r, s).refs = r.refs \cup s.refs
         /\ IsErratum(MergedDates(r, s))
<1> DEFINE i == IF s.issued < r.issued THEN s.issued ELSE r.issued
           u == IF s.updated > r.updated THEN s.updated ELSE r.updated
           both == Merged(r, s)
           m == MergedDates(r, s)
<1>1. /\ IsErratum(both) /\ both.issued = r.issued /\ both.updated = r.updated
      /\ both.pkgs = r.pkgs \cup s.pkgs /\ both.refs = r.refs \cup s.refs
  BY DEF IsErratum, Merged
<1>2. i \in Int /\ u \in Int
  BY DEF IsErratum
<1>3. m = [both EXCEPT !.issued = i, !.updated = u]
  <2>1. m = [both EXCEPT !.issued = IF s.issued < @ THEN s.issued ELSE @,
                         !.updated = IF s.updated > @ THEN s.updated ELSE @]
    BY DEF MergedDates
  <2>2. QED
    BY <1>1, <2>1
<1> HIDE DEF i, u, both, m
<1>4. IsErratum(m) /\ m.issued = i /\ m.updated = u /\ m.pkgs = both.pkgs /\ m.refs = both.refs
  BY <1>1, <1>2, <1>3 DEF IsErratum
<1>5. QED
  BY <1>1, <1>4 DEF i, u, m

LEMMA MergedSpans ==
  ASSUME NEW r, NEW s, NEW all, Spans(r, all), IsErratum(s)
  PROVE  Spans(MergedDates(r, s), all \cup {s})
<1> DEFINE m == MergedDates(r, s)
<1>1. /\ m.issued = IF s.issued < r.issued THEN s.issued ELSE r.issued
      /\ m.updated = IF s.updated > r.updated THEN s.updated ELSE r.updated
      /\ m.pkgs = r.pkgs \cup s.pkgs /\ m.refs = r.refs \cup s.refs
      /\ IsErratum(m)
  BY MergedIs DEF Spans
<1>2. r.issued \in Int /\ r.updated \in Int /\ s.issued \in Int /\ s.updated \in Int
  BY DEF Spans, IsErratum
<1>3. m.issued <= r.issued /\ m.issued <= s.issued /\ r.updated <= m.updated /\ s.updated <= m.updated
  BY <1>1, <1>2
<1>4. \A q \in all \cup {s} : IsErratum(q) /\ m.issued <= q.issued /\ q.updated <= m.updated
  <2> SUFFICES ASSUME NEW q \in all PROVE IsErratum(q) /\ m.issued <= q.issued /\ q.updated <= m.updated
    BY <1>3
  <2>1. IsErratum(q) /\ r.issued <= q.issued /\ q.updated <= r.updated
    BY DEF Spans
  <2>2. q.issued \in Int /\ q.updated \in Int /\ m.issued \in Int /\ m.updated \in Int
    BY <1>1, <2>1 DEF IsErratum
  <2> HIDE DEF m
  <2>3. QED
    BY <1>2, <1>3, <2>1, <2>2
<1>5. (\E q \in all \cup {s} : m.issued = q.issued) /\ \E q \in all \cup {s} : m.updated = q.updated
  BY <1>1 DEF Spans
<1>6. m.pkgs = UNION {q.pkgs : q \in all \cup {s}} /\ m.refs = UNION {q.refs : q \in all \cup {s}}
  BY <1>1 DEF Spans
<1> HIDE DEF m
<1>7. Spans(m, all \cup {s})
  BY <1>1, <1>4, <1>5, <1>6 DEF Spans
<1>8. QED
  BY <1>7 DEF m

LEMMA OneSpans ==
  ASSUME NEW s, IsErratum(s)
  PROVE  Spans(s, {s})
BY DEF Spans, IsErratum

LEMMA ExtractedIs ==
  ASSUME NEW u, u.issued \in Int, u.updated \in Int
  PROVE  IsErratum(ExtractErrata(u))
BY DEF IsErratum, ExtractErrata

\* A collection of records, by their ids
Extracted(records, id) == {ExtractErrata(u) : u \in {v \in records : v.id = id}}
Collects(c, records) ==
    /\ DOMAIN c = {u.id : u \in records}
    /\ \A id \in DOMAIN c : Spans(c[id], Extracted(records, id))

LEMMA RecordCollected ==
  ASSUME NEW c, NEW records, Collects(c, records), NEW u, u.issued \in Int, u.updated \in Int
  PROVE  Collects(AddRecord(c, u), records \cup {u})
<1> DEFINE next == AddRecord(c, u)
           all == records \cup {u}
           s == ExtractErrata(u)
<1>1. /\ DOMAIN next = DOMAIN c \cup {u.id}
      /\ next[u.id] = IF u.id \in DOMAIN c THEN MergedDates(c[u.id], s) ELSE s
      /\ \A id \in DOMAIN c : id # u.id => next[id] = c[id]
  BY DEF AddRecord, Insert
<1>2. DOMAIN next = {v.id : v \in all}
  BY <1>1 DEF Collects
<1>3. \A id : id # u.id => Extracted(all, id) = Extracted(records, id)
  BY DEF Extracted
<1>4. Extracted(all, u.id) = Extracted(records, u.id) \cup {s}
  BY DEF Extracted
<1>5. IsErratum(s)
  BY ExtractedIs
<1> HIDE DEF next, all, s
<1>6. ASSUME NEW id \in DOMAIN next, id # u.id PROVE Spans(next[id], Extracted(all, id))
  BY <1>1, <1>3, <1>6 DEF Collects
<1>7. Spans(next[u.id], Extracted(all, u.id))
  <2>1. CASE u.id \in DOMAIN c
    <3>1. Spans(c[u.id], Extracted(records, u.id))
      BY <2>1 DEF Collects
    <3>2. Spans(MergedDates(c[u.id], s), Extracted(records, u.id) \cup {s})
      BY <1>5, <3>1, MergedSpans
    <3>3. QED
      BY <1>1, <1>4, <2>1, <3>2
  <2>2. CASE u.id \notin DOMAIN c
    <3>1. Extracted(records, u.id) = {}
      BY <2>2 DEF Collects, Extracted
    <3>2. Spans(s, {s})
      BY <1>5, OneSpans
    <3>3. QED
      BY <1>1, <1>4, <2>2, <3>1, <3>2
  <2>3. QED
    BY <2>1, <2>2
<1>8. Collects(next, all)
  BY <1>2, <1>6, <1>7 DEF Collects
<1>9. QED
  BY <1>8 DEF next, all

\* The first i elements of a sequence, and the records of the first i paths
Until(s, i) == {s[k] : k \in 1..i}
LEMMA UntilNext ==
  ASSUME NEW s, NEW n \in Nat, NEW i \in 1..n
  PROVE  Until(s, i) = Until(s, i - 1) \cup {s[i]}
<1>1. 1..i = 1..(i - 1) \cup {i}
  OBVIOUS
<1>2. QED
  BY <1>1 DEF Until

LEMMA UntilNone == ASSUME NEW s PROVE Until(s, 0) = {}
BY DEF Until

Recorded(s, n) ==
    n \in Nat /\ DOMAIN s = 1..n /\ \A i \in 1..n : s[i].issued \in Int /\ s[i].updated \in Int

LEMMA PathCollected ==
  ASSUME NEW base, NEW records, Collects(base, records), NEW s, NEW n, Recorded(s, n)
  PROVE  Collects(MergeErrataRecords(base, s), records \cup Until(s, n))
<1>1. n \in Nat /\ DOMAIN s = 1..n /\ \A i \in 1..n : s[i].issued \in Int /\ s[i].updated \in Int
  BY DEF Recorded
<1>0. PICK c : RecordSteps(base, s, n, c)
  BY <1>1, RecordsRun
<1>2. /\ c[0] = base /\ c[n] = MergeErrataRecords(base, s)
      /\ \A i \in 1..n : c[i] = AddRecord(c[i - 1], s[i])
  BY <1>0 DEF RecordSteps
<1> DEFINE S == {i \in 0..n : Collects(c[i], records \cup Until(s, i))}
<1>3. 0 \in S
  <2>1. records \cup Until(s, 0) = records
    BY UntilNone
  <2>2. Collects(c[0], records \cup Until(s, 0))
    BY <1>2, <2>1
  <2>3. QED
    BY <1>1, <2>2
<1>4. ASSUME NEW i \in 1..n, i - 1 \in S PROVE i \in S
  <2>1. Collects(c[i - 1], records \cup Until(s, i - 1))
    BY <1>4
  <2>2. Collects(AddRecord(c[i - 1], s[i]), (records \cup Until(s, i - 1)) \cup {s[i]})
    BY <1>1, <2>1, RecordCollected
  <2>3. records \cup Until(s, i) = (records \cup Until(s, i - 1)) \cup {s[i]}
    BY <1>1, UntilNext
  <2>4. Collects(c[i], records \cup Until(s, i))
    BY <1>2, <2>2, <2>3
  <2>5. QED
    BY <1>1, <2>4
<1>5. n \in S
  <2> HIDE DEF S
  <2>1. \A i \in 0..n : i \in S
    BY <1>1, <1>3, <1>4, UpTo
  <2>2. QED
    BY <1>1, <2>1
<1>6. QED
  BY <1>2, <1>5

\* All threads have ended: their paths are those of the repositories.
RecordsOf(infos, paths) == UNION {Range(infos[path]) : path \in paths}
Ordered(infos, order, n) ==
    /\ n \in Nat /\ DOMAIN order = 1..n /\ Until(order, n) = DOMAIN infos
    /\ \A i \in 1..n : \E m : Recorded(infos[order[i]], m)

LEMMA PathsCollected ==
  ASSUME NEW infos, NEW order, NEW n, Ordered(infos, order, n)
  PROVE  Collects(ExtractFromPaths(infos, order).cache, RecordsOf(infos, DOMAIN infos))
<1>1. n \in Nat /\ DOMAIN order = 1..n /\ Until(order, n) = DOMAIN infos
  BY DEF Ordered
<1>0. PICK c : PathSteps(infos, order, n, c)
  BY <1>1, PathsRun
<1>2. /\ c[0] = NoRecords /\ c[n] = ExtractFromPaths(infos, order).cache
      /\ \A i \in 1..n : c[i] = MergeErrataRecords(c[i - 1], infos[order[i]])
  BY <1>0 DEF PathSteps
<1> DEFINE S == {i \in 0..n : Collects(c[i], RecordsOf(infos, Until(order, i)))}
<1>3. 0 \in S
  <2>1. Collects(NoRecords, {})
    BY DEF Collects, NoRecords
  <2>2. RecordsOf(infos, Until(order, 0)) = {}
    BY UntilNone DEF RecordsOf
  <2>3. Collects(c[0], RecordsOf(infos, Until(order, 0)))
    BY <1>2, <2>1, <2>2
  <2>4. QED
    BY <1>1, <2>3
<1>4. ASSUME NEW i \in 1..n, i - 1 \in S PROVE i \in S
  <2> DEFINE s == infos[order[i]]
             records == RecordsOf(infos, Until(order, i - 1))
  <2>1. Collects(c[i - 1], records)
    BY <1>4
  <2>2. PICK m : Recorded(s, m)
    BY DEF Ordered
  <2>3. Collects(MergeErrataRecords(c[i - 1], s), records \cup Until(s, m))
    <3> HIDE DEF s, records
    <3>1. QED
      BY <2>1, <2>2, PathCollected
  <2>4. Until(s, m) = Range(s)
    BY <2>2 DEF Recorded, Until, Range
  <2>5. RecordsOf(infos, Until(order, i)) = records \cup Range(s)
    <3>1. Until(order, i) = Until(order, i - 1) \cup {order[i]}
      BY <1>1, UntilNext
    <3>2. QED
      BY <3>1 DEF RecordsOf
  <2>6. Collects(c[i], RecordsOf(infos, Until(order, i)))
    BY <1>2, <2>3, <2>4, <2>5
  <2>7. QED
    BY <1>1, <2>6
<1>5. n \in S
  <2> HIDE DEF S
  <2>1. \A i \in 0..n : i \in S
    BY <1>1, <1>3, <1>4, UpTo
  <2>2. QED
    BY <1>1, <2>1
<1>6. QED
  BY <1>1, <1>2, <1>5

\* errata.full.json has the same records.
Named(c, records) == DOMAIN c = {u.id : u \in records}
LEMMA PathNamed ==
  ASSUME NEW base, NEW records, Named(base, records), NEW s, NEW n, Recorded(s, n)
  PROVE  Named(MergeErrataRecordsModern(base, s), records \cup Until(s, n))
<1>1. n \in Nat /\ DOMAIN s = 1..n
  BY DEF Recorded
<1>0. PICK c : ModernSteps(base, s, n, c)
  BY <1>1, ModernRun
<1>2. /\ c[0] = base /\ c[n] = MergeErrataRecordsModern(base, s)
      /\ \A i \in 1..n : c[i] = AddModern(c[i - 1], s[i])
  BY <1>0 DEF ModernSteps
<1> DEFINE S == {i \in 0..n : Named(c[i], records \cup Until(s, i))}
<1>3. 0 \in S
  <2>1. records \cup Until(s, 0) = records
    BY UntilNone
  <2>2. Named(c[0], records \cup Until(s, 0))
    BY <1>2, <2>1
  <2>3. QED
    BY <1>1, <2>2
<1>4. ASSUME NEW i \in 1..n, i - 1 \in S PROVE i \in S
  <2>1. Named(c[i - 1], records \cup Until(s, i - 1))
    BY <1>4
  <2>2. DOMAIN AddModern(c[i - 1], s[i]) = DOMAIN c[i - 1] \cup {s[i].id}
    BY DEF AddModern, Insert
  <2>3. Until(s, i) = Until(s, i - 1) \cup {s[i]}
    BY <1>1, UntilNext
  <2>4. Named(c[i], records \cup Until(s, i))
    BY <1>1, <1>2, <2>1, <2>2, <2>3 DEF Named
  <2>5. QED
    BY <2>4
<1>5. n \in S
  <2> HIDE DEF S
  <2>1. \A i \in 0..n : i \in S
    BY <1>1, <1>3, <1>4, UpTo
  <2>2. QED
    BY <1>1, <2>1
<1>6. QED
  BY <1>2, <1>5

LEMMA PathsNamed ==
  ASSUME NEW infos, NEW order, NEW n, Ordered(infos, order, n)
  PROVE  Named(ExtractFromPaths(infos, order).modern, RecordsOf(infos, DOMAIN infos))
<1>1. n \in Nat /\ DOMAIN order = 1..n /\ Until(order, n) = DOMAIN infos
  BY DEF Ordered
<1>0. PICK c : ModernPathSteps(infos, order, n, c)
  BY <1>1, ModernPathsRun
<1>2. /\ c[0] = NoRecords /\ c[n] = ExtractFromPaths(infos, order).modern
      /\ \A i \in 1..n : c[i] = MergeErrataRecordsModern(c[i - 1], infos[order[i]])
  BY <1>0 DEF ModernPathSteps
<1> DEFINE S == {i \in 0..n : Named(c[i], RecordsOf(infos, Until(order, i)))}
<1>3. 0 \in S
  <2>1. Named(NoRecords, {})
    BY DEF Named, NoRecords
  <2>2. RecordsOf(infos, Until(order, 0)) = {}
    BY UntilNone DEF RecordsOf
  <2>3. Named(c[0], RecordsOf(infos, Until(order, 0)))
    BY <1>2, <2>1, <2>2
  <2>4. QED
    BY <1>1, <2>3
<1>4. ASSUME NEW i \in 1..n, i - 1 \in S PROVE i \in S
  <2> DEFINE s == infos[order[i]]
             records == RecordsOf(infos, Until(order, i - 1))
  <2>1. Named(c[i - 1], records)
    BY <1>4
  <2>2. PICK m : Recorded(s, m)
    BY DEF Ordered
  <2>3. Named(MergeErrataRecordsModern(c[i - 1], s), records \cup Until(s, m))
    <3> HIDE DEF s, records
    <3>1. QED
      BY <2>1, <2>2, PathNamed
  <2>4. Until(s, m) = Range(s)
    BY <2>2 DEF Recorded, Until, Range
  <2>5. RecordsOf(infos, Until(order, i)) = records \cup Range(s)
    <3>1. Until(order, i) = Until(order, i - 1) \cup {order[i]}
      BY <1>1, UntilNext
    <3>2. QED
      BY <3>1 DEF RecordsOf
  <2>6. Named(c[i], RecordsOf(infos, Until(order, i)))
    BY <1>2, <2>3, <2>4, <2>5
  <2>7. QED
    BY <1>1, <2>6
<1>5. n \in S
  <2> HIDE DEF S
  <2>1. \A i \in 0..n : i \in S
    BY <1>1, <1>3, <1>4, UpTo
  <2>2. QED
    BY <1>1, <2>1
<1>6. QED
  BY <1>1, <1>2, <1>5

LEMMA PathsOrdered ==
  ASSUME NEW infos \in UpdateInfos, NEW order \in SetToSeqs(DOMAIN infos)
  PROVE  \E n : Ordered(infos, order, n)
<1> DEFINE paths == DOMAIN infos
           n == Cardinality(paths)
<1>1. IsFiniteSet(paths)
  BY ExportAssumption
<1>2. /\ order \in [1..n -> paths]
      /\ \A i, j \in 1..n : i # j => order[i] # order[j]
  BY DEF SetToSeqs
<1> HIDE DEF n, paths
<1>3. n \in Nat
  BY <1>1, FS_CardinalityType DEF n
<1>4. order \in Injection(1..n, paths)
  BY <1>2 DEF Injection, IsInjective
<1>5. IsFiniteSet(1..n) /\ Cardinality(1..n) = n
  <2>1. 1 \in Int /\ n \in Int
    BY <1>3
  <2>2. IsFiniteSet(1..n) /\ Cardinality(1..n) = IF 1 > n THEN 0 ELSE n - 1 + 1
    BY <2>1, FS_Interval
  <2>3. QED
    BY <1>3, <2>2
<1>6. order \in Surjection(1..n, paths)
  <2>1. Cardinality(1..n) = Cardinality(paths) <=> order \in Surjection(1..n, paths)
    BY <1>1, <1>4, FS_Injection
  <2>2. QED
    BY <1>5, <2>1 DEF n
<1>7. \A path \in paths : \E i \in 1..n : order[i] = path
  BY <1>6 DEF Surjection
<1>8. Until(order, n) = paths
  BY <1>2, <1>7 DEF Until
<1>9. ASSUME NEW i \in 1..n PROVE \E m : Recorded(infos[order[i]], m)
  <2> DEFINE s == infos[order[i]]
  <2>1. order[i] \in paths
    BY <1>2
  <2>2. /\ Len(s) \in Nat /\ DOMAIN s = 1..Len(s)
        /\ \A u \in Range(s) : u.issued \in Int /\ u.updated \in Int
    BY <2>1, ExportAssumption DEF paths
  <2>3. PICK m : m = Len(s)
    OBVIOUS
  <2>4. Recorded(s, m)
    BY <2>2, <2>3 DEF Recorded, Range
  <2>5. QED
    BY <2>4
<1>10. Ordered(infos, order, n)
  BY <1>2, <1>3, <1>8, <1>9 DEF Ordered, paths
<1>11. QED
  BY <1>10

\* The only record that spans others is the one that is expected.
LEMMA SpansIsExpected ==
  ASSUME NEW r, NEW all, Spans(r, all)
  PROVE  r = [issued |-> CHOOSE d \in {q.issued : q \in all} : \A q \in all : d <= q.issued,
              updated |-> CHOOSE d \in {q.updated : q \in all} : \A q \in all : d >= q.updated,
              pkgs |-> UNION {q.pkgs : q \in all}, refs |-> UNION {q.refs : q \in all}]
<1> DEFINE first == CHOOSE d \in {q.issued : q \in all} : \A q \in all : d <= q.issued
           last == CHOOSE d \in {q.updated : q \in all} : \A q \in all : d >= q.updated
<1>1. \A q \in all : q.issued \in Int /\ q.updated \in Int
  BY DEF Spans, IsErratum
<1>2. first = r.issued
  <2>1. PICK p \in all : r.issued = p.issued
    BY DEF Spans
  <2>2. r.issued \in {q.issued : q \in all} /\ \A q \in all : r.issued <= q.issued
    BY <2>1 DEF Spans
  <2>3. first \in {q.issued : q \in all} /\ \A q \in all : first <= q.issued
    BY <2>2
  <2> HIDE DEF first
  <2>4. first \in Int /\ r.issued \in Int
    BY <1>1, <2>1, <2>3
  <2>5. first <= r.issued /\ r.issued <= first
    BY <2>1, <2>2, <2>3
  <2>6. QED
    BY <2>4, <2>5
<1>3. last = r.updated
  <2>1. PICK p \in all : r.updated = p.updated
    BY DEF Spans
  <2>2. r.updated \in {q.updated : q \in all} /\ \A q \in all : r.updated >= q.updated
    BY <1>1, <2>1 DEF Spans
  <2>3. last \in {q.updated : q \in all} /\ \A q \in all : last >= q.updated
    BY <2>2
  <2> HIDE DEF last
  <2>4. last \in Int /\ r.updated \in Int
    BY <1>1, <2>1, <2>3
  <2>5. last >= r.updated /\ r.updated >= last
    BY <2>1, <2>2, <2>3
  <2>6. QED
    BY <2>4, <2>5
<1> HIDE DEF first, last
<1>4. r = [issued |-> r.issued, updated |-> r.updated, pkgs |-> r.pkgs, refs |-> r.refs]
  BY DEF Spans, IsErratum
<1>5. r.pkgs = UNION {q.pkgs : q \in all} /\ r.refs = UNION {q.refs : q \in all}
  BY DEF Spans
<1>6. QED
  BY <1>2, <1>3, <1>4, <1>5 DEF first, last

LEMMA ErrataExpected ==
  ASSUME NEW infos \in UpdateInfos, NEW order \in SetToSeqs(DOMAIN infos)
  PROVE  LET found == ExtractFromPaths(infos, order)
             ids == {u.id : u \in UNION {Range(infos[path]) : path \in DOMAIN infos}}
         IN /\ DOMAIN found.cache = ids /\ DOMAIN found.modern = ids
            /\ \A id \in ids : found.cache[id] = Expected(infos, id)
<1> DEFINE found == ExtractFromPaths(infos, order)
           records == RecordsOf(infos, DOMAIN infos)
<1>1. PICK n : Ordered(infos, order, n)
  BY PathsOrdered
<1>2. Collects(found.cache, records)
  BY <1>1, PathsCollected
<1>3. Named(found.modern, records)
  BY <1>1, PathsNamed
<1> HIDE DEF found
<1>4. ASSUME NEW id \in DOMAIN found.cache PROVE found.cache[id] = Expected(infos, id)
  <2> DEFINE all == Extracted(records, id)
  <2>1. Spans(found.cache[id], all)
    BY <1>2 DEF Collects
  <2>2. all = {ExtractErrata(u) : u \in AllRecords(infos, id)}
    <3>1. {u \in records : u.id = id} = AllRecords(infos, id)
      BY DEF AllRecords, RecordsOf
    <3>2. QED
      BY <3>1 DEF Extracted
  <2>3. Expected(infos, id) =
           [issued |-> CHOOSE d \in {q.issued : q \in all} : \A q \in all : d <= q.issued,
            updated |-> CHOOSE d \in {q.updated : q \in all} : \A q \in all : d >= q.updated,
            pkgs |-> UNION {q.pkgs : q \in all}, refs |-> UNION {q.refs : q \in all}]
    <3> HIDE DEF all
    <3>1. QED
      BY <2>2 DEF Expected
  <2> HIDE DEF all
  <2>4. QED
    BY <2>1, <2>3, SpansIsExpected
<1>5. QED
  BY <1>2, <1>3, <1>4 DEF found, Collects, Named, RecordsOf

\* The errata that are exported do not depend on the order in which the threads
\* of any number of repositories end: they have the packages and references of all
\* of them and the earliest and the latest date (extract_errata_from_exported_paths,
\* merge_errata_records).
THEOREM ErrataKeepNoOrder == ExportSpec => []ErrataOrderIndependent
<1>1. ExportTypeOK => ErrataOrderIndependent
  <2> SUFFICES ASSUME ExportTypeOK, NEW x \in Exporter, exporter[x].errata # Nothing
               PROVE  LET infos == exporter[x].errata.infos
                          found == exporter[x].errata.found
                          ids == {u.id : u \in UNION {Range(infos[path]) : path \in DOMAIN infos}}
                      IN /\ DOMAIN found.cache = ids /\ DOMAIN found.modern = ids
                         /\ \A id \in ids : found.cache[id] = Expected(infos, id)
    BY DEF ErrataOrderIndependent
  <2>1. exporter[x].errata \in Found
    BY DEF ExportTypeOK, ExportType
  <2>2. PICK infos \in UpdateInfos : \E order \in SetToSeqs(DOMAIN infos) :
           exporter[x].errata = [infos |-> infos, found |-> ExtractFromPaths(infos, order)]
    BY <2>1 DEF Found
  <2> PICK order \in SetToSeqs(DOMAIN infos) :
           exporter[x].errata = [infos |-> infos, found |-> ExtractFromPaths(infos, order)]
    BY <2>2
  <2>3. exporter[x].errata.infos = infos /\ exporter[x].errata.found = ExtractFromPaths(infos, order)
    OBVIOUS
  <2>4. QED
    BY <2>3, ErrataExpected
<1> QED
  BY <1>1, ExportInitType, ExportStepType, PTL DEF ExportSpec

===============================================================================
