--------------------------- MODULE BuildFinishProofs --------------------------
(***************************************************************************)
(* The transactions on a build, for any tasks, any number of workers and   *)
(* restart requests and any crashes: what two workers at the same time can *)
(* do to the closing of the build, and what they cannot.                   *)
(***************************************************************************)
EXTENDS BuildFinish, BuildPlanProofs, TLAPS

\* No message was processed twice, no restarts overlapped, and no worker stopped
\* a task that somebody had begun to build.
Calm == ~overlapped /\ repeats = 0 /\ ~overtaken

\* Rows are locked by one worker at a time.
LockInv ==
    /\ \A w \in Worker : job[w] = None <=> stage[w] = "free"
    /\ \A w \in Worker : job[w] # None => job[w] \in queue
    /\ \A w \in Worker : stage[w] \in {"free", "locked"} => stopped[w] = {}
    /\ \A v, w \in Worker : v # w => Locked(v) \cap Locked(w) = {}

\* What is being built or waits to be processed is STARTED, what a worker is about
\* to stop is not, and what a request is about to restart is still FAILED.
CalmInv == Calm =>
    /\ \A t \in building \cup queue : status[t] = "STARTED"
    /\ building \cap queue = {}
    /\ \A w \in Worker : stage[w] \in {"written", "closing", "leaving"} =>
          \A t \in stopped[w] : status[t] \in {"IDLE", "FAILED"}
    /\ \A r, o \in User : request[r] # None /\ request[o] # None => r = o
    /\ \A r \in User : request[r] # None => \A t \in Failed(request[r]) : status[t] = "FAILED"

\* A worker that is alone leaves the build open only because a task is unfinished.
AloneInv == ~together =>
    /\ \A v, w \in Worker : stage[v] # "free" /\ stage[w] # "free" => v = w
    /\ \A w \in Worker : stage[w] = "leaving" => ~AllFinished(Seen(w))
    /\ AllFinished(status) => closings > 0

FinishInv == LockInv /\ CalmInv /\ AloneInv /\ OneWorkerCloses

------------------------------------------------------------------------------
(* Types                                                                   *)

LEMMA DecideType ==
  ASSUME TypeOK, NEW w \in Worker, Processes(w)
  PROVE  \E report \in Report, others \in SUBSET Task :
            /\ Decide(w, report, others)
            /\ \A t \in others : status[t] = "IDLE"
<1>1. ASSUME NEW r \in Results, Reports(w, r)
      PROVE  \E report \in Report, others \in SUBSET Task :
                Decide(w, report, others) /\ \A t \in others : status[t] = "IDLE"
  <2> DEFINE report == [r EXCEPT !.srpm = @ /\ ~url[job[w]]]
             others == IF r.report = "FAILED" /\ ~r.srpm /\ ~url[job[w]]
                       THEN IdleSiblings(job[w]) ELSE {}
  <2>1. r \in Report
    BY FinishAssumption DEF Report
  <2>2. (r.srpm /\ ~url[job[w]]) \in BOOLEAN
    OBVIOUS
  <2>3. report \in Report
    BY <2>1, <2>2 DEF Report
  <2>4. others \in SUBSET Task /\ \A t \in others : status[t] = "IDLE"
    BY DEF IdleSiblings, Project
  <2>5. Decide(w, report, others)
    BY <1>1 DEF Reports
  <2>6. QED
    BY <2>3, <2>4, <2>5
<1>2. CASE Raises(w)
  <2> DEFINE others == IF \A u \in SameRef(job[w]) : status[u] = "IDLE" THEN SameRef(job[w]) ELSE {}
             report == [report |-> "FAILED", srpm |-> FALSE]
  <2>1. report \in Report /\ others \in SUBSET Task /\ \A t \in others : status[t] = "IDLE"
    BY DEF Report, SameRef
  <2>2. Decide(w, report, others)
    BY <1>2 DEF Raises
  <2>3. QED
    BY <2>1, <2>2
<1>3. QED
  BY <1>1, <1>2 DEF Processes

LEMMA SeenType ==
  ASSUME TypeOK, NEW w \in Worker
  PROVE  Seen(w) \in [Task -> Status]
BY DEF Seen, TypeOK, Report, Status, Settled, Unfinished

LEMMA WorkerType ==
  ASSUME TypeOK, NEW w \in Worker,
         \/ \E t \in Task : Lock(w, t)
         \/ Processes(w)
         \/ Write(w) \/ Check(w) \/ Commit(w) \/ Crash(w)
  PROVE  TypeOK'
<1>1. ASSUME Release(w)
      PROVE  /\ job' \in [Worker -> Task \cup {None}] /\ stage' \in [Worker -> Stage]
             /\ result' \in [Worker -> Report] /\ stopped' \in [Worker -> SUBSET Task]
  BY <1>1 DEF Release, TypeOK, Stage, Report, NoReport
<1>2. CASE \E t \in Task : Lock(w, t)
  BY <1>2 DEF Lock, TypeOK, Stage
<1>3. CASE Processes(w)
  <2>1. PICK report \in Report, others \in SUBSET Task : Decide(w, report, others)
    BY <1>3, DecideType
  <2>2. QED
    BY <2>1 DEF Decide, TypeOK, Stage
<1>4. CASE Write(w)
  BY <1>4 DEF Write, TypeOK, Stage
<1>5. CASE Check(w)
  BY <1>5 DEF Check, TypeOK, Stage
<1>6. CASE Commit(w)
  <2>1. status' \in [Task -> Status]
    BY <1>6, SeenType DEF Commit
  <2>2. deps' \in [Task -> SUBSET Task] /\ queue' \subseteq Task
    BY <1>6 DEF Commit, TypeOK
  <2>3. url' \in [Task -> BOOLEAN]
    <3>1. \A t \in Task : (url[t] \/ (result[w].srpm /\ t \in Project(job[w]))) \in BOOLEAN
      OBVIOUS
    <3>2. url' = [t \in Task |-> \/ url[t]
                                 \/ result[w].srpm /\ t \in Project(job[w])]
      BY <1>6 DEF Commit
    <3>3. QED
      BY <3>1, <3>2
  <2>4. closings' \in Nat /\ repeats' \in 0..MaxRepeats
    BY <1>6, FinishAssumption DEF Commit, TypeOK
  <2>5. Release(w)
    BY <1>6 DEF Commit
  <2>6. QED
    BY <1>1, <1>6, <2>1, <2>2, <2>3, <2>4, <2>5 DEF Commit, TypeOK
<1>7. CASE Crash(w)
  <2>1. crashes' \in 0..MaxCrashes
    BY <1>7, FinishAssumption DEF Crash, TypeOK
  <2>2. QED
    BY <1>1, <1>7, <2>1 DEF Crash, TypeOK
<1>8. QED
  BY <1>2, <1>3, <1>4, <1>5, <1>6, <1>7

LEMMA RequestType ==
  ASSUME TypeOK, NEW r \in User,
         ReadMatrix(r) \/ RestartFailed(r) \/ RestartParallel(r) \/ Conflict(r)
  PROVE  TypeOK'
<1>1. CASE ReadMatrix(r)
  <2>1. restarts' \in 0..MaxRestarts
    BY <1>1, FinishAssumption DEF ReadMatrix, TypeOK
  <2>2. QED
    BY <1>1, <2>1 DEF ReadMatrix, TypeOK
<1>2. ASSUME NEW newDeps, \A t \in Task : newDeps[t] \subseteq Task, WriteMatrix(r, newDeps)
      PROVE  TypeOK'
  <2>1. status' \in [Task -> Status]
    BY <1>2 DEF WriteMatrix, TypeOK, Status, Unfinished
  <2>2. deps' \in [Task -> SUBSET Task]
    BY <1>2 DEF WriteMatrix, TypeOK
  <2>3. url' \in [Task -> BOOLEAN]
    <3>1. \A t \in Task : (url[t] /\ t \notin DropsSrpm(request[r])) \in BOOLEAN
      OBVIOUS
    <3>2. url' = [t \in Task |-> url[t] /\ t \notin DropsSrpm(request[r])]
      BY <1>2 DEF WriteMatrix
    <3>3. QED
      BY <3>1, <3>2
  <2>4. QED
    BY <1>2, <2>1, <2>2, <2>3 DEF WriteMatrix, TypeOK
<1>3. CASE RestartFailed(r)
  <2>1. \A t \in Task : ChainDeps(request[r], t) \subseteq Task
    BY DEF ChainDeps, LastTask, Failed
  <2>2. QED
    BY <1>2, <1>3, <2>1 DEF RestartFailed
<1>4. CASE RestartParallel(r)
  <2>1. \A t \in Task : ParallelDeps(request[r], t) \subseteq Task
    BY DEF ParallelDeps, FirstIndexDep, EarlierRows, Failed, Before
  <2>2. QED
    BY <1>2, <1>4, <2>1 DEF RestartParallel
<1>5. CASE Conflict(r)
  BY <1>5 DEF Conflict, TypeOK
<1>6. QED
  BY <1>1, <1>3, <1>4, <1>5

\* Every variable keeps its type, for any tasks, workers and requests.
THEOREM FinishTypeCorrect == Spec => []TypeOK
<1>1. Init => TypeOK
  <2> SUFFICES ASSUME Init PROVE TypeOK
    OBVIOUS
  <2>1. \A t \in Task : PlannedDeps(t) \subseteq Task
    BY DEF PlannedDeps, SourceTask, Before
  <2>2. status \in [Task -> Status] /\ deps \in [Task -> SUBSET Task] /\ url \in [Task -> BOOLEAN]
    BY <2>1 DEF Init, Status, Unfinished
  <2>3. /\ building \subseteq Task /\ queue \subseteq Task
        /\ job \in [Worker -> Task \cup {None}] /\ stage \in [Worker -> Stage]
        /\ result \in [Worker -> Report] /\ stopped \in [Worker -> SUBSET Task]
    BY DEF Init, Stage, Report, NoReport
  <2>4. /\ request \in [User -> [Task -> Status] \cup {None}]
        /\ restarts \in 0..MaxRestarts /\ crashes \in 0..MaxCrashes /\ repeats \in 0..MaxRepeats
    BY FinishAssumption DEF Init
  <2>5. QED
    BY <2>2, <2>3, <2>4 DEF Init, TypeOK
<1>2. TypeOK /\ [Next]_vars => TypeOK'
  <2> SUFFICES ASSUME TypeOK, [Next]_vars PROVE TypeOK'
    OBVIOUS
  <2>1. CASE \E t \in Task : GetTask(t) \/ PostDone(t)
    BY <2>1 DEF GetTask, PostDone, TypeOK, Status, Unfinished
  <2>2. CASE UNCHANGED vars
    BY <2>2 DEF vars, TypeOK
  <2>3. QED
    BY <2>1, <2>2, WorkerType, RequestType DEF Next
<1>3. QED
  BY <1>1, <1>2, PTL DEF Spec

------------------------------------------------------------------------------
(* Locks                                                                   *)

LEMMA LockStep ==
  ASSUME TypeOK, LockInv, [Next]_vars
  PROVE  LockInv'
<1>1. ASSUME UNCHANGED <<job, stage, stopped>>, queue \subseteq queue'
      PROVE  LockInv'
  BY <1>1 DEF LockInv, Locked
<1>2. CASE \/ \E t \in Task : GetTask(t) \/ PostDone(t)
           \/ \E r \in User : ReadMatrix(r) \/ RestartFailed(r) \/ RestartParallel(r) \/ Conflict(r)
           \/ UNCHANGED vars
  BY <1>1, <1>2 DEF GetTask, PostDone, ReadMatrix, RestartFailed, RestartParallel, WriteMatrix,
                    Conflict, vars
<1>3. ASSUME NEW w \in Worker, NEW t \in Task, Lock(w, t) PROVE LockInv'
  <2>1. /\ stage[w] = "free" /\ t \in queue /\ queue' = queue /\ stopped' = stopped
        /\ job' = [job EXCEPT ![w] = t] /\ stage' = [stage EXCEPT ![w] = "locked"]
        /\ \A v \in Worker : t \notin Locked(v)
    BY <1>3 DEF Lock, FreeRow
  <2>2. job'[w] = t /\ stage'[w] = "locked" /\ t # None
        /\ \A v \in Worker \ {w} : job'[v] = job[v] /\ stage'[v] = stage[v]
    BY <2>1, NoneAssumption DEF TypeOK
  <2>3. Locked(w)' = {t} /\ \A v \in Worker \ {w} : Locked(v)' = Locked(v)
    BY <2>1, <2>2 DEF Locked
  <2>4. QED
    BY <2>1, <2>2, <2>3 DEF LockInv
<1>4. ASSUME NEW w \in Worker, Processes(w) PROVE LockInv'
  <2>1. PICK report \in Report, others \in SUBSET Task : Decide(w, report, others)
    BY <1>4, DecideType
  <2>2. /\ stage[w] = "locked" /\ stage'[w] = "decided" /\ UNCHANGED <<job, queue>>
        /\ \A v \in Worker \ {w} : stage'[v] = stage[v] /\ stopped'[v] = stopped[v]
    BY <2>1 DEF Decide, TypeOK
  <2>3. \A v \in Worker : Locked(v)' = Locked(v)
    BY <2>2 DEF Locked
  <2>4. QED
    BY <2>2, <2>3 DEF LockInv
<1>5. ASSUME NEW w \in Worker, Write(w) PROVE LockInv'
  <2>1. /\ stage[w] = "decided" /\ stage'[w] = "written" /\ UNCHANGED <<job, queue, stopped>>
        /\ \A v \in Worker \ {w} : stage'[v] = stage[v] /\ stopped[w] \cap Locked(v) = {}
    BY <1>5 DEF Write, TypeOK
  <2>2. /\ Locked(w) = {job[w]} /\ Locked(w)' = {job[w]} \cup stopped[w]
        /\ \A v \in Worker \ {w} : Locked(v)' = Locked(v)
    BY <2>1 DEF Locked
  <2>3. QED
    BY <2>1, <2>2 DEF LockInv
<1>6. ASSUME NEW w \in Worker, Check(w) PROVE LockInv'
  <2>1. /\ stage[w] = "written" /\ stage'[w] \in {"closing", "leaving"}
        /\ UNCHANGED <<job, queue, stopped>>
        /\ \A v \in Worker \ {w} : stage'[v] = stage[v]
    BY <1>6 DEF Check, TypeOK
  <2>2. \A v \in Worker : Locked(v)' = Locked(v)
    BY <2>1 DEF Locked
  <2>3. QED
    BY <2>1, <2>2 DEF LockInv
<1>7. ASSUME NEW w \in Worker, Release(w), stage[w] # "free",
             queue' = queue \/ queue' = queue \ {job[w]}
      PROVE  LockInv'
  <2>1. /\ job'[w] = None /\ stage'[w] = "free" /\ stopped'[w] = {}
        /\ \A v \in Worker \ {w} :
              job'[v] = job[v] /\ stage'[v] = stage[v] /\ stopped'[v] = stopped[v]
    BY <1>7 DEF Release, TypeOK
  <2>2. Locked(w)' = {} /\ \A v \in Worker \ {w} : Locked(v)' = Locked(v)
    BY <2>1 DEF Locked
  <2>3. \A v \in Worker \ {w} : job[v] # None => job[v] # job[w]
    <3> SUFFICES ASSUME NEW v \in Worker \ {w}, job[v] # None, job[v] = job[w] PROVE FALSE
      OBVIOUS
    <3>1. stage[v] # "free"
      BY DEF LockInv
    <3>2. job[v] \in Locked(v) /\ job[w] \in Locked(w)
      BY <1>7, <3>1 DEF Locked, TypeOK, Stage
    <3>3. QED
      BY <3>2 DEF LockInv
  <2>4. \A v \in Worker : job'[v] # None => job'[v] \in queue'
    BY <1>7, <2>1, <2>3 DEF LockInv
  <2>5. QED
    BY <2>1, <2>2, <2>4 DEF LockInv
<1>8. ASSUME NEW w \in Worker, Commit(w) \/ Crash(w) PROVE LockInv'
  BY <1>7, <1>8 DEF Commit, Crash
<1>9. QED
  BY <1>2, <1>3, <1>4, <1>5, <1>6, <1>8 DEF Next

------------------------------------------------------------------------------
(* One worker closes the build                                             *)

LEMMA CalmBefore ==
  ASSUME TypeOK, [Next]_vars, Calm'
  PROVE  Calm
<1>1. overlapped' = FALSE => overlapped = FALSE
  BY DEF TypeOK, Next, GetTask, PostDone, Lock, Processes, Reports, Raises, Decide, Write, Check,
         Commit, Crash, ReadMatrix, RestartFailed, RestartParallel, WriteMatrix, Conflict, vars
<1>2. overtaken' = FALSE => overtaken = FALSE
  BY DEF TypeOK, Next, GetTask, PostDone, Lock, Processes, Reports, Raises, Decide, Write, Check,
         Commit, Crash, ReadMatrix, RestartFailed, RestartParallel, WriteMatrix, Conflict, vars
<1>3. repeats' = 0 => repeats = 0
  BY DEF TypeOK, Next, GetTask, PostDone, Lock, Processes, Reports, Raises, Decide, Write, Check,
         Commit, Crash, ReadMatrix, RestartFailed, RestartParallel, WriteMatrix, Conflict, vars
<1>4. overlapped \in BOOLEAN /\ overtaken \in BOOLEAN
  BY DEF TypeOK
<1>5. overlapped' = FALSE /\ overtaken' = FALSE /\ repeats' = 0
  BY DEF Calm
<1>6. QED
  BY <1>1, <1>2, <1>3, <1>4, <1>5 DEF Calm

\* What a calm state says of a task that a node builds or a worker processes.
LEMMA CalmStep ==
  ASSUME TypeOK, LockInv, CalmInv, [Next]_vars
  PROVE  CalmInv'
<1> SUFFICES ASSUME Calm'
             PROVE  (/\ \A t \in building \cup queue : status[t] = "STARTED"
                     /\ building \cap queue = {}
                     /\ \A w \in Worker : stage[w] \in {"written", "closing", "leaving"} =>
                           \A t \in stopped[w] : status[t] \in {"IDLE", "FAILED"}
                     /\ \A r, o \in User : request[r] # None /\ request[o] # None => r = o
                     /\ \A r \in User : request[r] # None =>
                           \A t \in Failed(request[r]) : status[t] = "FAILED")'
  BY DEF CalmInv
<1>0. Calm
  BY CalmBefore
<1>1. /\ \A t \in building \cup queue : status[t] = "STARTED"
      /\ building \cap queue = {}
      /\ \A w \in Worker : stage[w] \in {"written", "closing", "leaving"} =>
            \A t \in stopped[w] : status[t] \in {"IDLE", "FAILED"}
      /\ \A r, o \in User : request[r] # None /\ request[o] # None => r = o
      /\ \A r \in User : request[r] # None => \A t \in Failed(request[r]) : status[t] = "FAILED"
  BY <1>0 DEF CalmInv
<1>2. ASSUME NEW t \in Task, GetTask(t) PROVE CalmInv'
  <2>1. /\ status[t] = "IDLE" /\ status' = [status EXCEPT ![t] = "STARTED"]
        /\ building' = building \cup {t}
        /\ UNCHANGED <<queue, stage, stopped, request>>
        /\ \A w \in Worker : t \notin Locked(w)
    BY <1>2 DEF GetTask, FreeRow
  <2>2. status'[t] = "STARTED" /\ \A u \in Task \ {t} : status'[u] = status[u]
    BY <2>1 DEF TypeOK
  <2>3. \A w \in Worker : stage[w] \in {"written", "closing", "leaving"} => t \notin stopped[w]
    BY <2>1 DEF Locked
  <2>4. \A r \in User : request[r] # None => t \notin Failed(request[r])
    BY <1>1, <2>1
  <2>5. \A w \in Worker : stopped[w] \subseteq Task
    BY DEF TypeOK
  <2>6. \A r \in User : Failed(request[r]) \subseteq Task
    BY DEF Failed
  <2>7. building \subseteq Task /\ queue \subseteq Task /\ t \notin queue
    BY <1>1, <2>1 DEF TypeOK
  <2>8. QED
    BY <1>1, <2>1, <2>2, <2>3, <2>4, <2>5, <2>6, <2>7 DEF CalmInv
<1>3. ASSUME NEW t \in Task, PostDone(t) PROVE CalmInv'
  <2>1. /\ t \in building /\ building' = building \ {t}
        /\ queue' = queue \/ queue' = queue \cup {t}
        /\ UNCHANGED <<status, stage, stopped, request>>
    BY <1>3 DEF PostDone
  <2>2. QED
    BY <1>1, <2>1 DEF CalmInv
<1>4. ASSUME NEW w \in Worker, NEW t \in Task, Lock(w, t) PROVE CalmInv'
  <2>1. /\ UNCHANGED <<status, building, queue, stopped, request>>
        /\ \A v \in Worker : stage'[v] = stage[v] \/ stage'[v] = "locked"
    BY <1>4 DEF Lock, TypeOK
  <2>2. QED
    BY <1>1, <2>1 DEF CalmInv
<1>5. ASSUME NEW w \in Worker, Processes(w) PROVE CalmInv'
  <2>1. PICK report \in Report, others \in SUBSET Task : Decide(w, report, others)
    BY <1>5, DecideType
  <2>2. /\ UNCHANGED <<status, building, queue, request>> /\ stage'[w] = "decided"
        /\ \A v \in Worker \ {w} : stage'[v] = stage[v] /\ stopped'[v] = stopped[v]
    BY <2>1 DEF Decide, TypeOK
  <2>3. QED
    BY <1>1, <2>2 DEF CalmInv
<1>6. ASSUME NEW w \in Worker, Write(w) PROVE CalmInv'
  <2>1. /\ UNCHANGED <<status, building, queue, stopped, request>>
        /\ \A v \in Worker \ {w} : stage'[v] = stage[v]
        /\ overtaken' = (overtaken \/ \E t \in stopped[w] : status[t] \notin {"IDLE", "FAILED"})
    BY <1>6 DEF Write, TypeOK
  <2>2. \A t \in stopped[w] : status[t] \in {"IDLE", "FAILED"}
    BY <2>1 DEF Calm
  <2>3. QED
    BY <1>1, <2>1, <2>2 DEF CalmInv
<1>7. ASSUME NEW w \in Worker, Check(w) PROVE CalmInv'
  <2>1. /\ UNCHANGED <<status, building, queue, stopped, request>> /\ stage[w] = "written"
        /\ \A v \in Worker \ {w} : stage'[v] = stage[v]
    BY <1>7 DEF Check, TypeOK
  <2>2. QED
    BY <1>1, <2>1 DEF CalmInv
<1>8. ASSUME NEW w \in Worker, Commit(w) PROVE CalmInv'
  <2>1. /\ stage[w] \in {"closing", "leaving"} /\ status' = Seen(w)
        /\ UNCHANGED <<building, request>>
        /\ \A v \in Worker \ {w} : stage'[v] = stage[v] /\ stopped'[v] = stopped[v]
        /\ stage'[w] = "free"
        /\ job[w] # None /\ job[w] \in queue
    BY <1>8 DEF Commit, Release, TypeOK, LockInv
  <2>2. queue' = queue \ {job[w]}
    <3>1. repeats = 0 /\ repeats' = 0
      BY <1>0 DEF Calm
    <3>2. QED
      BY <1>8, <3>1 DEF Commit
  <2>3. \A t \in Task : status'[t] = IF t = job[w] THEN result[w].report
                                     ELSE IF t \in stopped[w] THEN "FAILED" ELSE status[t]
    BY <2>1 DEF Seen
  <2>4. status[job[w]] = "STARTED" /\ job[w] \notin building
    BY <1>1, <2>1
  <2>5. \A t \in stopped[w] : status[t] \in {"IDLE", "FAILED"}
    BY <1>1, <2>1
  <2>6. /\ building \subseteq Task /\ queue \subseteq Task
        /\ \A v \in Worker : stopped[v] \subseteq Task
    BY DEF TypeOK
  <2>7. \A r \in User : Failed(request[r]) \subseteq Task
    BY DEF Failed
  <2>8. \A t \in building' \cup queue' : status'[t] = "STARTED"
    BY <1>1, <2>1, <2>2, <2>3, <2>4, <2>5, <2>6
  <2>9. \A v \in Worker : stage'[v] \in {"written", "closing", "leaving"} =>
           \A t \in stopped'[v] : status'[t] \in {"IDLE", "FAILED"}
    <3> SUFFICES ASSUME NEW v \in Worker, stage'[v] \in {"written", "closing", "leaving"},
                        NEW t \in stopped'[v]
                 PROVE  status'[t] \in {"IDLE", "FAILED"}
      OBVIOUS
    <3>1. v # w
      BY <2>1
    <3>2. t \in stopped[v] /\ status[t] \in {"IDLE", "FAILED"} /\ t \in Task
      BY <1>1, <2>1, <2>6, <3>1
    <3>3. t # job[w]
      BY <2>4, <3>2
    <3>4. QED
      BY <2>3, <3>2, <3>3
  <2>10. \A r \in User : request'[r] # None =>
            \A t \in Failed(request'[r]) : status'[t] = "FAILED"
    BY <1>1, <2>1, <2>3, <2>4, <2>7
  <2>11. QED
    BY <1>1, <2>1, <2>2, <2>8, <2>9, <2>10 DEF CalmInv
<1>9. ASSUME NEW w \in Worker, Crash(w) PROVE CalmInv'
  <2>1. /\ UNCHANGED <<status, building, queue, request>> /\ stage'[w] = "free"
        /\ \A v \in Worker \ {w} : stage'[v] = stage[v] /\ stopped'[v] = stopped[v]
    BY <1>9 DEF Crash, Release, TypeOK
  <2>2. QED
    BY <1>1, <2>1 DEF CalmInv
<1>10. ASSUME NEW r \in User, ReadMatrix(r) PROVE CalmInv'
  <2>1. /\ UNCHANGED <<status, building, queue, stage, stopped>>
        /\ request' = [request EXCEPT ![r] = status]
        /\ overlapped' = (overlapped \/ \E o \in User : request[o] # None)
    BY <1>10 DEF ReadMatrix
  <2>2. \A o \in User : request[o] = None
    BY <2>1 DEF Calm
  <2>3. request'[r] = status /\ \A o \in User \ {r} : request'[o] = None
    BY <2>1, <2>2 DEF TypeOK
  <2>4. QED
    BY <1>1, <2>1, <2>3 DEF CalmInv, Failed
<1>11. ASSUME NEW r \in User, NEW newDeps, request[r] # None, WriteMatrix(r, newDeps)
       PROVE  CalmInv'
  <2>1. /\ status' = [t \in Task |-> IF t \in Failed(request[r]) THEN "IDLE" ELSE status[t]]
        /\ UNCHANGED <<building, queue, stage, stopped>>
        /\ request' = [request EXCEPT ![r] = None]
    BY <1>11 DEF WriteMatrix
  <2>2. \A o \in User : request'[o] = None
    BY <1>1, <1>11, <2>1 DEF TypeOK
  <2>3. \A t \in Failed(request[r]) : status[t] = "FAILED"
    BY <1>1, <1>11
  <2>4. /\ building \subseteq Task /\ queue \subseteq Task
        /\ \A v \in Worker : stopped[v] \subseteq Task
    BY DEF TypeOK
  <2>5. \A t \in building \cup queue : status'[t] = "STARTED"
    BY <1>1, <2>1, <2>3, <2>4
  <2>6. \A w \in Worker : stage[w] \in {"written", "closing", "leaving"} =>
            \A t \in stopped[w] : status'[t] \in {"IDLE", "FAILED"}
    BY <1>1, <2>1, <2>4
  <2>7. QED
    BY <1>1, <2>1, <2>2, <2>5, <2>6 DEF CalmInv
<1>12. ASSUME NEW r \in User, Conflict(r) PROVE CalmInv'
  <2>1. /\ UNCHANGED <<status, building, queue, stage, stopped>>
        /\ \A o \in User : request'[o] = None \/ request'[o] = request[o]
    BY <1>12 DEF Conflict, TypeOK
  <2>2. QED
    BY <1>1, <2>1 DEF CalmInv
<1>13. ASSUME UNCHANGED vars PROVE CalmInv'
  BY <1>1, <1>13 DEF vars, CalmInv
<1>14. CalmInv'
  <2>1. CASE \E t \in Task : GetTask(t) \/ PostDone(t)
    BY <2>1, <1>2, <1>3
  <2>2. ASSUME NEW w \in Worker,
               \/ \E t \in Task : Lock(w, t)
               \/ Processes(w)
               \/ Write(w) \/ Check(w) \/ Commit(w) \/ Crash(w)
        PROVE  CalmInv'
    BY <2>2, <1>4, <1>5, <1>6, <1>7, <1>8, <1>9
  <2>3. ASSUME NEW r \in User, RestartFailed(r) \/ RestartParallel(r)
        PROVE  CalmInv'
    <3>1. CASE RestartFailed(r)
      BY <3>1, <1>11 DEF RestartFailed
    <3>2. CASE RestartParallel(r)
      BY <3>2, <1>11 DEF RestartParallel
    <3>3. QED
      BY <2>3, <3>1, <3>2
  <2>4. CASE \E r \in User : ReadMatrix(r) \/ RestartFailed(r) \/ RestartParallel(r) \/ Conflict(r)
    BY <2>3, <2>4, <1>10, <1>12
  <2>5. QED
    BY <2>1, <2>2, <2>4, <1>13 DEF Next
<1>15. QED
  BY <1>14 DEF CalmInv

\* The second worker to count sees the first one's task unfinished.
LEMMA CloseStep ==
  ASSUME TypeOK, LockInv, CalmInv, OneWorkerCloses, [Next]_vars
  PROVE  OneWorkerCloses'
<1>1. CASE ~Calm'
  <2>1. overlapped' \/ repeats' # 0 \/ overtaken'
    BY <1>1 DEF Calm
  <2>2. repeats' \in Nat
    BY FinishAssumption DEF TypeOK, Next, GetTask, PostDone, Lock, Processes, Reports, Raises, Decide,
       Write, Check, Commit, Crash, ReadMatrix, RestartFailed, RestartParallel, WriteMatrix,
       Conflict, vars
  <2>3. QED
    BY <2>1, <2>2 DEF OneWorkerCloses
<1>2. CASE Calm'
  <2>1. Calm
    BY <1>2, CalmBefore
  <2>2. \A v, w \in Worker : stage[v] = "closing" /\ stage[w] = "closing" => v = w
    BY <2>1 DEF OneWorkerCloses, Calm
  <2>3. ASSUME NEW w \in Worker, Check(w) PROVE OneWorkerCloses'
    <3>1. /\ stage[w] = "written"
          /\ stage'[w] = IF AllFinished(Seen(w)) THEN "closing" ELSE "leaving"
          /\ \A v \in Worker \ {w} : stage'[v] = stage[v]
      BY <2>3 DEF Check, TypeOK
    <3>2. ASSUME NEW v \in Worker \ {w}, stage[v] = "closing"
          PROVE  ~AllFinished(Seen(w))
      <4>1. job[v] \in queue /\ job[v] \in Task /\ status[job[v]] = "STARTED"
        BY <2>1, <3>2 DEF LockInv, CalmInv, TypeOK
      <4>2. job[v] \in Locked(v) /\ Locked(w) = {job[w]} \cup stopped[w]
        BY <3>1, <3>2 DEF Locked
      <4>3. job[v] \notin {job[w]} \cup stopped[w]
        BY <4>2 DEF LockInv
      <4>4. Seen(w)[job[v]] = "STARTED"
        BY <4>1, <4>3 DEF Seen
      <4>5. QED
        BY <4>1, <4>4 DEF AllFinished, Settled
    <3>3. QED
      BY <2>2, <3>1, <3>2 DEF OneWorkerCloses
  <2>4. CASE ~\E w \in Worker : Check(w)
    <3>1. \A v \in Worker : stage'[v] = "closing" => stage[v] = "closing"
      BY <2>4 DEF TypeOK, Next, GetTask, PostDone, Lock, Processes, Reports, Raises, Decide,
         Write, Commit, Crash, Release, ReadMatrix, RestartFailed, RestartParallel, WriteMatrix,
         Conflict, vars
    <3>2. QED
      BY <2>2, <3>1 DEF OneWorkerCloses
  <2>5. QED
    BY <2>3, <2>4
<1>3. QED
  BY <1>1, <1>2

------------------------------------------------------------------------------
(* A worker that is alone closes the build                                 *)

\* Counting what is finished before and after a step.
LEMMA AloneStep ==
  ASSUME TypeOK, LockInv, AloneInv, [Next]_vars
  PROVE  AloneInv'
<1> SUFFICES ASSUME ~together'
             PROVE  (/\ \A v, w \in Worker : stage[v] # "free" /\ stage[w] # "free" => v = w
                     /\ \A w \in Worker : stage[w] = "leaving" => ~AllFinished(Seen(w))
                     /\ AllFinished(status) => closings > 0)'
  BY DEF AloneInv
<1>0. ~together
  BY DEF TypeOK, Next, GetTask, PostDone, Lock, Processes, Reports, Raises, Decide, Write, Check,
         Commit, Crash, ReadMatrix, RestartFailed, RestartParallel, WriteMatrix, Conflict, vars
<1>1. /\ \A v, w \in Worker : stage[v] # "free" /\ stage[w] # "free" => v = w
      /\ \A w \in Worker : stage[w] = "leaving" => ~AllFinished(Seen(w))
      /\ AllFinished(status) => closings > 0
  BY <1>0 DEF AloneInv
<1>2. ASSUME UNCHANGED <<job, stage, result, stopped, closings>>,
             status' \in [Task -> Status],
             \A t \in Task : status[t] \notin Settled => status'[t] \notin Settled
      PROVE  AloneInv'
  <2>1. \A w \in Worker : ~AllFinished(Seen(w)) => ~AllFinished(Seen(w))'
    BY <1>2 DEF AllFinished, Seen
  <2>2. AllFinished(status)' => AllFinished(status)
    BY <1>2 DEF AllFinished
  <2>3. QED
    BY <1>1, <1>2, <2>1, <2>2 DEF AloneInv
<1>3. ASSUME NEW t \in Task, GetTask(t) \/ PostDone(t) PROVE AloneInv'
  <2>1. /\ UNCHANGED <<job, stage, result, stopped, closings>>
        /\ status' = status \/ status' = [status EXCEPT ![t] = "STARTED"]
    BY <1>3 DEF GetTask, PostDone
  <2>2. /\ status' \in [Task -> Status]
        /\ \A u \in Task : status[u] \notin Settled => status'[u] \notin Settled
    BY <2>1 DEF TypeOK, Status, Settled, Unfinished
  <2>3. QED
    BY <1>2, <2>1, <2>2
<1>4. ASSUME NEW r \in User, NEW newDeps, WriteMatrix(r, newDeps) PROVE AloneInv'
  <2>1. /\ UNCHANGED <<job, stage, result, stopped, closings>>
        /\ status' = [t \in Task |-> IF t \in Failed(request[r]) THEN "IDLE" ELSE status[t]]
    BY <1>4 DEF WriteMatrix
  <2>2. /\ status' \in [Task -> Status]
        /\ \A u \in Task : status[u] \notin Settled => status'[u] \notin Settled
    BY <2>1 DEF TypeOK, Status, Settled, Unfinished
  <2>3. QED
    BY <1>2, <2>1, <2>2
<1>5. ASSUME NEW r \in User, ReadMatrix(r) \/ Conflict(r) PROVE AloneInv'
  <2>1. UNCHANGED <<status, job, stage, result, stopped, closings>>
    BY <1>5 DEF ReadMatrix, Conflict
  <2>2. QED
    BY <1>2, <2>1 DEF TypeOK
<1>6. ASSUME NEW w \in Worker, UNCHANGED <<status, closings>>,
             \/ stage[w] # "free" \/ \A v \in Worker : stage[v] = "free",
             \A v \in Worker \ {w} : stage'[v] = stage[v],
             stage'[w] = "leaving" => ~AllFinished(Seen(w))'
      PROVE  AloneInv'
  <2>1. \A v \in Worker \ {w} : stage'[v] = "free"
    BY <1>1, <1>6
  <2>2. QED
    BY <1>1, <1>6, <2>1 DEF AloneInv
<1>7. ASSUME NEW w \in Worker, NEW t \in Task, Lock(w, t) PROVE AloneInv'
  <2>1. /\ UNCHANGED <<status, closings>>
        /\ stage'[w] = "locked"
        /\ \A v \in Worker \ {w} : stage'[v] = stage[v]
        /\ together' = (together \/ \E v \in Worker : stage[v] # "free")
    BY <1>7 DEF Lock, TypeOK
  <2>2. \A v \in Worker : stage[v] = "free"
    BY <2>1
  <2>3. QED
    BY <1>6, <2>1, <2>2
<1>8. ASSUME NEW w \in Worker, Processes(w) PROVE AloneInv'
  <2>1. PICK report \in Report, others \in SUBSET Task : Decide(w, report, others)
    BY <1>8, DecideType
  <2>2. /\ UNCHANGED <<status, closings>> /\ stage[w] = "locked" /\ stage'[w] = "decided"
        /\ \A v \in Worker \ {w} : stage'[v] = stage[v]
    BY <2>1 DEF Decide, TypeOK
  <2>3. QED
    BY <1>6, <2>2
<1>9. ASSUME NEW w \in Worker, Write(w) \/ Crash(w) PROVE AloneInv'
  <2>1. /\ UNCHANGED <<status, closings>> /\ stage[w] # "free" /\ stage'[w] \in {"written", "free"}
        /\ \A v \in Worker \ {w} : stage'[v] = stage[v]
    BY <1>9 DEF Write, Crash, Release, TypeOK
  <2>2. QED
    BY <1>6, <2>1
<1>10. ASSUME NEW w \in Worker, Check(w) PROVE AloneInv'
  <2>1. /\ UNCHANGED <<status, closings, job, result, stopped>> /\ stage[w] = "written"
        /\ stage'[w] = IF AllFinished(Seen(w)) THEN "closing" ELSE "leaving"
        /\ \A v \in Worker \ {w} : stage'[v] = stage[v]
    BY <1>10 DEF Check, TypeOK
  <2>2. Seen(w)' = Seen(w)
    BY <2>1 DEF Seen
  <2>3. stage'[w] = "leaving" => ~AllFinished(Seen(w))'
    BY <2>1, <2>2 DEF AllFinished
  <2>4. QED
    BY <1>6, <2>1, <2>3
<1>11. ASSUME NEW w \in Worker, Commit(w) PROVE AloneInv'
  <2>1. /\ stage[w] \in {"closing", "leaving"} /\ status' = Seen(w) /\ stage'[w] = "free"
        /\ closings' = IF stage[w] = "closing" THEN closings + 1 ELSE closings
        /\ \A v \in Worker \ {w} : stage'[v] = stage[v]
    BY <1>11 DEF Commit, Release, TypeOK
  <2>2. \A v \in Worker : stage'[v] = "free"
    BY <1>1, <2>1
  <2>3. AllFinished(status') => stage[w] = "closing"
    BY <1>1, <2>1
  <2>4. AllFinished(status)' => closings' > 0
    BY <2>1, <2>3 DEF TypeOK, AllFinished
  <2>5. QED
    BY <2>2, <2>4 DEF AloneInv
<1>12. ASSUME UNCHANGED vars PROVE AloneInv'
  <2>1. UNCHANGED <<status, job, stage, result, stopped, closings>>
    BY <1>12 DEF vars
  <2>2. status' \in [Task -> Status]
    BY <2>1 DEF TypeOK
  <2>3. QED
    BY <1>2, <2>1, <2>2
<1>13. AloneInv'
  <2>1. ASSUME NEW w \in Worker,
               \/ \E t \in Task : Lock(w, t)
               \/ Processes(w)
               \/ Write(w) \/ Check(w) \/ Commit(w) \/ Crash(w)
        PROVE  AloneInv'
    BY <2>1, <1>7, <1>8, <1>9, <1>10, <1>11
  <2>2. ASSUME NEW r \in User, RestartFailed(r) \/ RestartParallel(r) PROVE AloneInv'
    <3>1. CASE RestartFailed(r)
      BY <3>1, <1>4 DEF RestartFailed
    <3>2. CASE RestartParallel(r)
      BY <3>2, <1>4 DEF RestartParallel
    <3>3. QED
      BY <2>2, <3>1, <3>2
  <2>3. CASE \E r \in User : ReadMatrix(r) \/ RestartFailed(r) \/ RestartParallel(r) \/ Conflict(r)
    BY <2>2, <2>3, <1>4, <1>5
  <2>4. CASE \E t \in Task : GetTask(t) \/ PostDone(t)
    BY <2>4, <1>3
  <2>5. QED
    BY <1>12, <2>1, <2>3, <2>4 DEF Next
<1>14. QED
  BY <1>13 DEF AloneInv

------------------------------------------------------------------------------
(* The theorems                                                            *)

LEMMA FinishInit ==
  ASSUME Init
  PROVE  FinishInv
<1>1. /\ \A w \in Worker : stage[w] = "free" /\ job[w] = None /\ stopped[w] = {} /\ Locked(w) = {}
      /\ \A r \in User : request[r] = None
      /\ building = {} /\ queue = {}
  BY DEF Init, Locked
<1>2. LockInv /\ CalmInv
  BY <1>1 DEF LockInv, CalmInv
<1>3. ~AllFinished(status)
  BY PlanAssumption DEF AllFinished, Init, Settled
<1>4. AloneInv /\ OneWorkerCloses
  BY <1>1, <1>3 DEF AloneInv, OneWorkerCloses
<1>5. QED
  BY <1>2, <1>4 DEF FinishInv

\* The inductive invariant: row locks exclude each other; while no restarts
\* overlapped, no message was processed twice and no started task was stopped,
\* whatever is built or queued is STARTED; and a worker that has the build for
\* itself leaves it open only if it saw an unfinished task.
THEOREM FinishInvariant == Spec => []FinishInv
<1>1. Init => FinishInv
  BY FinishInit
<1>2. TypeOK /\ FinishInv /\ [Next]_vars => FinishInv'
  BY LockStep, CalmStep, AloneStep, CloseStep DEF FinishInv
<1>3. QED
  BY <1>1, <1>2, FinishTypeCorrect, PTL DEF Spec

\* _build_done counts the finished tasks in its own transaction: two workers are
\* never both about to create the tests of a build, because the second one sees
\* the first one's task STARTED.  Exempted are a message processed again, restart
\* requests that overlapped, and a fast fail of a task that a node had taken.
THEOREM OneWorkerClosesBuild == Spec => []OneWorkerCloses
<1>1. FinishInv => OneWorkerCloses
  BY DEF FinishInv
<1>2. QED
  BY <1>1, FinishInvariant, PTL

\* Crashes, repeated messages and restarts, in any number, never leave a finished
\* build without its tests: that takes two transactions of _build_done open at
\* the same time, each of which counts the other's task as unfinished.
THEOREM OpenOnlyByOverlap == Spec => []OpenOnlyAfterOverlap
<1>1. TypeOK /\ FinishInv => OpenOnlyAfterOverlap
  BY DEF FinishInv, AloneInv, OpenOnlyAfterOverlap, LastTaskClosesBuild, TypeOK
<1>2. QED
  BY <1>1, FinishTypeCorrect, FinishInvariant, PTL

------------------------------------------------------------------------------
(* What is committed are steps of the schedule                             *)

\* What has been promised so far: nobody waits for a task that has settled,
\* and no tasks wait for each other.
WaitsInv == Calm /\ ~outdated =>
    /\ \A t \in Task : \A d \in deps[t] : status[d] \in Unfinished
    /\ \A S \in SUBSET Task : S # {} => \E t \in S : deps[t] \cap S = {}
\* A request has read a task that had failed
RequestInv == \A r \in User : request[r] # None => Failed(request[r]) # {}

LEMMA WaitsInit == Init => WaitsInv /\ RequestInv
<1> SUFFICES ASSUME Init PROVE WaitsInv /\ RequestInv
  OBVIOUS
<1>1. \A t \in Task : \A d \in deps[t] : status[d] \in Unfinished
  BY PlannedDepsType DEF Init, Unfinished
<1>2. ASSUME NEW S \in SUBSET Task, S # {} PROVE \E t \in S : deps[t] \cap S = {}
  <2>1. PICK t \in S : PlannedDeps(t) \cap S = {}
    BY <1>2, PlanAcyclic
  <2>2. QED
    BY <2>1 DEF Init
<1>3. QED
  BY <1>1, <1>2 DEF Init, WaitsInv, RequestInv

\* Handing a task out starts it.
LEMMA GetTaskSteps ==
    ASSUME TypeOK, NEW t \in Task, GetTask(t)
    PROVE  Schedule!Next /\ (WaitsInv => WaitsInv') /\ (RequestInv => RequestInv')
<1>1. /\ status[t] = "IDLE" /\ deps[t] = {} /\ deps' = deps /\ request' = request
      /\ status' = [status EXCEPT ![t] = "STARTED"]
      /\ Calm' = Calm /\ outdated' = outdated
  BY DEF GetTask, Calm
<1>2. Schedule!Start(t)
  BY <1>1 DEF Schedule!Start, PhaseOf, TypeOK
<1>3. \A d \in Task : status[d] \in Unfinished => status'[d] \in Unfinished
  BY <1>1 DEF TypeOK, Unfinished
<1>4. \A u \in Task : deps[u] \subseteq Task
  BY DEF TypeOK
<1>5. WaitsInv => WaitsInv'
  BY <1>1, <1>3, <1>4 DEF WaitsInv
<1>6. RequestInv => RequestInv'
  BY <1>1 DEF RequestInv
<1> QED
  BY <1>2, <1>5, <1>6 DEF Schedule!Next

\* A worker that commits settles its task and those it stops: the idle ones,
\* the others having failed already.
LEMMA CommitSteps ==
    ASSUME TypeOK, LockInv, CalmInv, WaitsInv, Calm, ~outdated, NEW w \in Worker, Commit(w)
    PROVE  Schedule!Next /\ WaitsInv' /\ (RequestInv => RequestInv')
<1> DEFINE t == job[w]
           idle == {u \in stopped[w] : status[u] = "IDLE"}
           gone == {t} \cup stopped[w]
<1>1. /\ stage[w] \in {"closing", "leaving"} /\ status' = Seen(w)
      /\ deps' = [u \in Task |-> deps[u] \ gone]
      /\ request' = request /\ outdated' = outdated
  BY DEF Commit
<1>2. t \in Task /\ t \in queue /\ stopped[w] \subseteq Task
  BY <1>1 DEF LockInv, TypeOK
<1>3. \A u \in stopped[w] : status[u] \in {"IDLE", "FAILED"}
  BY <1>1 DEF CalmInv
<1>4. \A u \in Task : status'[u] = IF u = t THEN result[w].report
                                   ELSE IF u \in stopped[w] THEN "FAILED" ELSE status[u]
  BY <1>1 DEF Seen
<1>5. result[w].report \in {"COMPLETED", "FAILED", "EXCLUDED"}
  BY DEF TypeOK, Report
<1>6. /\ \A u \in Task : \A d \in deps[u] : status[d] \in Unfinished
      /\ \A S \in SUBSET Task : S # {} => \E u \in S : deps[u] \cap S = {}
      /\ \A u \in Task : deps[u] \subseteq Task
  BY DEF WaitsInv, TypeOK
<1>7. \A u \in Task : deps'[u] = deps[u] \ ({t} \cup idle)
  BY <1>1, <1>2, <1>3, <1>6 DEF Unfinished
<1>8. \A u \in Task : PhaseOf(status'[u]) = IF u \in {t} \cup idle THEN "settled"
                                            ELSE PhaseOf(status[u])
  BY <1>2, <1>3, <1>4, <1>5 DEF PhaseOf
<1>9. Schedule!Settle(t, idle)
  <2>1. deps' = [u \in Task |-> deps[u] \ ({t} \cup idle)]
    BY <1>1, <1>7
  <2>2. \A u \in idle : [x \in Task |-> PhaseOf(status[x])][u] = "open"
    BY <1>2 DEF PhaseOf
  <2>3. [u \in Task |-> PhaseOf(status'[u])] =
           [u \in Task |-> IF u \in {t} \cup idle THEN "settled"
                           ELSE [x \in Task |-> PhaseOf(status[x])][u]]
    BY <1>8
  <2> QED
    BY <2>1, <2>2, <2>3 DEF Schedule!Settle
<1>10. Schedule!Next
  BY <1>2, <1>9 DEF Schedule!Next
<1>11. \A u \in Task : \A d \in deps'[u] : status'[d] \in Unfinished
  BY <1>1, <1>4, <1>6
<1>12. ASSUME NEW S \in SUBSET Task, S # {} PROVE \E u \in S : deps'[u] \cap S = {}
  <2>1. PICK u \in S : deps[u] \cap S = {}
    BY <1>6, <1>12
  <2> QED
    BY <1>1, <2>1
<1>13. WaitsInv' /\ (RequestInv => RequestInv')
  BY <1>1, <1>11, <1>12 DEF WaitsInv, RequestInv
<1> QED
  BY <1>10, <1>13

\* A restart opens what it has read as failed, which still is, and adds rows that
\* order these tasks; the other rows it adds name tasks that had not settled, or
\* the restart is outdated.
LEMMA RestartSteps ==
    ASSUME TypeOK, TypeOK', CalmInv, WaitsInv, RequestInv, Calm, ~outdated', NEW r \in User,
           request[r] # None, NEW new, NewRowsOrder(request[r], new), WriteMatrix(r, new)
    PROVE  Schedule!Next /\ WaitsInv' /\ RequestInv'
<1> DEFINE again == Failed(request[r])
<1>1. /\ status' = [t \in Task |-> IF t \in again THEN "IDLE" ELSE status[t]]
      /\ deps' = [t \in Task |-> deps[t] \cup new[t]]
      /\ request' = [request EXCEPT ![r] = None]
      /\ ~outdated
      /\ \A t \in Task : \A u \in new[t] \ again : ~(request[r][u] = "IDLE" /\ Finished(u))
  BY DEF WriteMatrix
<1>2. /\ again # {} /\ again \subseteq Task
      /\ \A t \in again : status[t] = "FAILED"
  BY DEF RequestInv, CalmInv, Failed
<1>3. /\ \A u \in Task : \A d \in deps[u] : status[d] \in Unfinished
      /\ \A S \in SUBSET Task : S # {} => \E u \in S : deps[u] \cap S = {}
      /\ \A u \in Task : deps[u] \subseteq Task
  BY <1>1 DEF WaitsInv, TypeOK
<1>4. \A t \in Task : deps[t] \cap again = {}
  BY <1>2, <1>3 DEF Unfinished
<1>5. /\ \A t \in Task \ again : new[t] = {}
      /\ \A t \in Task : \A d \in new[t] : d \in Task /\ (d \in again \/ request[r][d] = "IDLE")
      /\ \A S \in SUBSET again : S # {} => \E t \in S : new[t] \cap S = {}
  BY DEF NewRowsOrder, Failed
<1>6. status \in [Task -> Status]
  BY DEF TypeOK
<1>7. \A u \in Task : \A d \in deps'[u] : status'[d] \in Unfinished
  <2> SUFFICES ASSUME NEW u \in Task, NEW d \in deps'[u] PROVE status'[d] \in Unfinished
    OBVIOUS
  <2>1. CASE d \in deps[u]
    BY <1>1, <1>3, <1>4, <2>1
  <2>2. CASE d \in new[u] /\ d \in again
    BY <1>1, <1>2, <2>2 DEF Unfinished
  <2>3. CASE d \in new[u] /\ d \notin again
    <3>1. d \in Task /\ ~Finished(d)
      BY <1>1, <1>5, <2>3
    <3>2. status[d] \in Unfinished
      BY <1>6, <3>1 DEF Finished, Status
    <3> QED
      BY <1>1, <2>3, <3>1, <3>2
  <2> QED
    BY <1>1, <2>1, <2>2, <2>3
<1>8. ASSUME NEW S \in SUBSET Task, S # {} PROVE \E t \in S : deps'[t] \cap S = {}
  <2>1. CASE S \subseteq again
    <3>1. PICK t \in S : new[t] \cap S = {}
      BY <1>5, <1>8, <2>1
    <3> QED
      BY <1>1, <1>4, <2>1, <3>1
  <2>2. CASE ~(S \subseteq again)
    <3>1. S \ again \in SUBSET Task /\ S \ again # {}
      BY <2>2
    <3>2. PICK t \in S \ again : deps[t] \cap (S \ again) = {}
      BY <1>3, <3>1
    <3> QED
      BY <1>1, <1>4, <1>5, <3>2
  <2> QED
    BY <2>1, <2>2
<1>9. Schedule!Reopen(again)
  <2> DEFINE ph == [t \in Task |-> PhaseOf(status[t])]
             phn == [t \in Task |-> PhaseOf(status'[t])]
  <2>1. \A t \in again : ph[t] = "settled"
    BY <1>2 DEF PhaseOf
  <2>2. phn = [t \in Task |-> IF t \in again THEN "open" ELSE ph[t]]
    BY <1>1, <1>2 DEF PhaseOf
  <2>3. deps' \in [Task -> SUBSET Task]
    BY DEF TypeOK
  <2>4. /\ \A t \in Task \ again : deps'[t] = deps[t]
        /\ \A t \in again : deps[t] \subseteq deps'[t]
    BY <1>1, <1>2, <1>5
  <2>5. \A t \in Task : \A d \in deps'[t] : phn[d] # "settled"
    BY <1>7, <2>3 DEF PhaseOf, Unfinished
  <2>6. Schedule!Acyclic(deps')
    BY <1>8 DEF Schedule!Acyclic
  <2> QED
    BY <1>2, <2>1, <2>2, <2>3, <2>4, <2>5, <2>6 DEF Schedule!Reopen
<1>10. Schedule!Next
  BY <1>2, <1>9 DEF Schedule!Next
<1>11. WaitsInv'
  BY <1>7, <1>8 DEF WaitsInv
<1>12. RequestInv'
  BY <1>1 DEF RequestInv, TypeOK
<1> QED
  BY <1>10, <1>11, <1>12

\* The other steps commit nothing of the tasks.
LEMMA QuietSteps ==
    ASSUME TypeOK, UNCHANGED <<status, deps, outdated>>, Calm' => Calm
    PROVE  WaitsInv => WaitsInv'
  BY DEF WaitsInv

\* One step, unless something was excepted before it or the step is outdated.
Scheduled ==
    \/ UNCHANGED <<status, deps>> \/ Schedule!Next
    \/ overlapped \/ repeats > 0 \/ overtaken \/ outdated'

LEMMA ScheduledStep ==
    ASSUME TypeOK, TypeOK', FinishInv, WaitsInv, RequestInv, [Next]_vars
    PROVE  Scheduled /\ WaitsInv' /\ RequestInv'
<1> USE DEF FinishInv
<1>0. /\ Calm' => Calm
      /\ outdated \in BOOLEAN /\ outdated' \in BOOLEAN
  BY CalmBefore DEF TypeOK
<1>1. ASSUME NEW t \in Task, GetTask(t) PROVE Scheduled /\ WaitsInv' /\ RequestInv'
  BY <1>1, GetTaskSteps DEF Scheduled
<1>2. ASSUME UNCHANGED <<status, deps, request, outdated>>
      PROVE  Scheduled /\ WaitsInv' /\ RequestInv'
  BY <1>0, <1>2, QuietSteps DEF Scheduled, RequestInv
<1>3. ASSUME NEW w \in Worker, Commit(w) PROVE Scheduled /\ WaitsInv' /\ RequestInv'
  <2>1. outdated' = outdated /\ request' = request
    BY <1>3 DEF Commit
  <2>2. CASE Calm /\ ~outdated
    BY <1>3, <2>2, CommitSteps DEF Scheduled
  <2>3. CASE ~(Calm /\ ~outdated)
    <3>1. repeats \in Nat /\ overlapped \in BOOLEAN /\ overtaken \in BOOLEAN
      BY DEF TypeOK
    <3>2. Scheduled
      BY <2>1, <2>3, <3>1 DEF Scheduled, Calm
    <3> QED
      BY <1>0, <2>1, <2>3, <3>2 DEF WaitsInv, RequestInv
  <2> QED
    BY <2>2, <2>3
<1>4. ASSUME NEW r \in User, NEW new, NewRowsOrder(request[r], new), request[r] # None,
             WriteMatrix(r, new)
      PROVE  Scheduled /\ WaitsInv' /\ RequestInv'
  <2>1. request' = [request EXCEPT ![r] = None] /\ UNCHANGED <<overlapped, overtaken, repeats>>
    BY <1>4 DEF WriteMatrix
  <2>2. CASE Calm /\ ~outdated'
    BY <1>4, <2>2, RestartSteps DEF Scheduled
  <2>3. CASE ~(Calm /\ ~outdated')
    <3>1. repeats \in Nat /\ overlapped \in BOOLEAN /\ overtaken \in BOOLEAN
      BY DEF TypeOK
    <3>2. Scheduled
      BY <2>3, <3>1 DEF Scheduled, Calm
    <3>3. RequestInv'
      BY <2>1 DEF RequestInv, TypeOK
    <3> QED
      BY <1>0, <2>3, <3>2, <3>3 DEF WaitsInv
  <2> QED
    BY <2>2, <2>3
<1>5. ASSUME NEW r \in User, ReadMatrix(r) PROVE Scheduled /\ WaitsInv' /\ RequestInv'
  <2>1. /\ UNCHANGED <<status, deps, outdated>> /\ Failed(status) # {}
        /\ request' = [request EXCEPT ![r] = status]
    BY <1>5 DEF ReadMatrix
  <2>2. RequestInv'
    BY <2>1 DEF RequestInv, TypeOK
  <2> QED
    BY <1>0, <2>1, <2>2, QuietSteps DEF Scheduled
<1>6. ASSUME NEW r \in User, Conflict(r) PROVE Scheduled /\ WaitsInv' /\ RequestInv'
  <2>1. /\ UNCHANGED <<status, deps, outdated>> /\ request' = [request EXCEPT ![r] = None]
    BY <1>6 DEF Conflict
  <2>2. RequestInv'
    BY <2>1 DEF RequestInv, TypeOK
  <2> QED
    BY <1>0, <2>1, <2>2, QuietSteps DEF Scheduled
<1>7. ASSUME NEW r \in User, RestartFailed(r) \/ RestartParallel(r)
      PROVE  Scheduled /\ WaitsInv' /\ RequestInv'
  <2>1. CASE RestartFailed(r)
    BY <1>4, <2>1, ChainOrders DEF RestartFailed
  <2>2. CASE RestartParallel(r)
    BY <1>4, <2>2, ParallelOrders DEF RestartParallel
  <2> QED
    BY <1>7, <2>1, <2>2
<1>8. ASSUME NEW w \in Worker,
             \/ \E t \in Task : Lock(w, t)
             \/ Processes(w) \/ Write(w) \/ Check(w) \/ Crash(w)
      PROVE  UNCHANGED <<status, deps, request, outdated>>
  BY <1>8 DEF Lock, Processes, Reports, Raises, Decide, Write, Check, Crash
<1>9. ASSUME NEW t \in Task, PostDone(t) PROVE UNCHANGED <<status, deps, request, outdated>>
  BY <1>9 DEF PostDone
<1>10. ASSUME UNCHANGED vars PROVE UNCHANGED <<status, deps, request, outdated>>
  BY <1>10 DEF vars
<1> QED
  BY <1>1, <1>2, <1>3, <1>5, <1>6, <1>7, <1>8, <1>9, <1>10 DEF Next

\* What MCBuildFinish checks as CommitsScheduleSteps, for any plan, workers,
\* restart requests, crashes and repeats: however the statements of the
\* transactions interleave, what each commits is a step of TaskSchedule, unless
\* restart requests overlapped, a message was repeated, a worker stopped a task
\* that was handed out, or a restart had read a task that has finished since
\* (_build_done, fast_fail_other_tasks_by_ref, update_failed_build_items).
THEOREM CommitsAreScheduleSteps == Spec => CommitsScheduleSteps
<1>1. Init => WaitsInv /\ RequestInv
  BY WaitsInit
<1>2. TypeOK /\ TypeOK' /\ FinishInv /\ WaitsInv /\ RequestInv /\ [Next]_vars =>
         Scheduled /\ WaitsInv' /\ RequestInv'
  BY ScheduledStep
<1>3. [Scheduled]_vars => [\/ UNCHANGED <<status, deps>> \/ Schedule!Next
                           \/ overlapped \/ repeats > 0 \/ overtaken \/ outdated']_vars
  BY DEF Scheduled
<1> QED
  BY <1>1, <1>2, <1>3, FinishTypeCorrect, FinishInvariant, PTL DEF Spec, CommitsScheduleSteps
==============================================================================
