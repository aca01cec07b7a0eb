------------------------------- MODULE TestTasks -------------------------------
(***************************************************************************)
(* The tests of one build.  Test tasks are created by the worker that      *)
(* closes the build and by users who restart tests; the test system (ALTS) *)
(* polls for them and reports back; dramatiq workers record the results;   *)
(* users cancel the tests of the build.                                    *)
(*                                                                         *)
(* Creating tests is two steps, as in the code nothing is locked between   *)
(* reading the latest revision and inserting the new rows.  Everything     *)
(* else is one transaction.  One creation is a "run" of its build task:    *)
(* it adds one row for each package, all with the same revision.           *)
(***************************************************************************)
EXTENDS Integers, FiniteSets, FiniteSetsExt

CONSTANTS
    BuildTask,    \* the completed tasks of the build that are not "src"
    TestPackage,  \* the binary packages of each of them
    Creator,      \* transactions that may create tests at the same time
    Batch,        \* test tasks handed out per poll: limit(10)
    MaxRuns,      \* bound: runs of each build task
    MaxCancels,   \* bound: cancel requests
    MaxFaults,    \* bound: lost or repeated messages, failing calls
    NoTxn         \* no transaction open

ASSUME TestAssumption ==
    /\ IsFiniteSet(BuildTask) /\ IsFiniteSet(TestPackage)
    /\ Batch \in Nat \ {0} /\ MaxRuns \in Nat
    /\ MaxCancels \in Nat /\ MaxFaults \in Nat

VARIABLES
    runs,       \* runs[t]: how often tests were created for t
    revision,   \* revision[t][n]: TestTask.revision of the n-th run
    origin,     \* origin[t][n]: who created it: "close", "build" or "task"
    status,     \* TestTask.status of every test created so far, else "none"
    cancelled,  \* Build.cancel_testing
    txn,        \* txn[c]: the open transaction of creator c
    running,    \* tests ALTS is running
    told,       \* tests ALTS was told to cancel and has not reported
    queue,      \* complete_test_task messages
    overlapped, \* two creators had open transactions
    raced,      \* tests were cancelled while a creator's was open
    cancels, faults

testVars == <<runs, revision, origin, status, cancelled, txn, running, told, queue,
              overlapped, raced, cancels, faults>>

Run  == 1..MaxRuns
Test == [task : BuildTask, run : Run, package : TestPackage]

\* TestTaskStatus
Final  == {"COMPLETED", "FAILED", "CANCELLED"}
Status == {"CREATED", "STARTED"} \cup Final

TestMessage == [test : Test, verdict : {"success", "failure", "revoked"}]
Origin  == {"close", "build", "task"}
Txn == [origin : Origin, revision : [BuildTask -> 0..MaxRuns]]

TestTypeOK ==
    /\ runs \in [BuildTask -> 0..MaxRuns]
    /\ revision \in [BuildTask -> [Run -> 0..MaxRuns]]
    /\ origin \in [BuildTask -> [Run -> Origin]]
    /\ status \in [Test -> Status \cup {"none"}]
    /\ cancelled \in BOOLEAN
    /\ txn \in [Creator -> Txn \cup {NoTxn}]
    /\ running \subseteq Test /\ told \subseteq Test
    /\ queue \subseteq TestMessage
    /\ overlapped \in BOOLEAN /\ raced \in BOOLEAN
    /\ cancels \in 0..MaxCancels /\ faults \in 0..MaxFaults

TestInit ==
    /\ runs = [t \in BuildTask |-> 0]
    /\ revision = [t \in BuildTask |-> [n \in Run |-> 0]]
    /\ origin = [t \in BuildTask |-> [n \in Run |-> "close"]]
    /\ status = [i \in Test |-> "none"]
    /\ cancelled = FALSE
    /\ txn = [c \in Creator |-> NoTxn]
    /\ running = {} /\ told = {} /\ queue = {}
    /\ overlapped = FALSE /\ raced = FALSE
    /\ cancels = 0 /\ faults = 0

Charge(isFault) ==
    /\ isFault => faults < MaxFaults
    /\ faults' = IF isFault THEN faults + 1 ELSE faults

------------------------------------------------------------------------------
(* Creating test tasks                                                     *)

\* Mutant: the latest revision is that of the finished runs.
LatestFinished(t) ==
    Max({0} \cup {revision[t][n] : n \in {k \in 1..runs[t] : \A p \in TestPackage :
            status[[task |-> t, run |-> k, package |-> p]] \in Final}})

\* func.max(TestTask.revision) over the committed rows of t, 0 for none.
LatestRevision(t) == Max({0} \cup {revision[t][n] : n \in 1..runs[t]})

\* test_tasks[-1].revision is the latest: the relationship is ordered by it.
LatestFailed(t) ==
    \E n \in 1..runs[t], p \in TestPackage :
        /\ revision[t][n] = LatestRevision(t)
        /\ status[[task |-> t, run |-> n, package |-> p]] = "FAILED"

\* A creator reads the latest revisions of the tasks and goes one up.
Open(c, from, tasks) ==
    /\ txn[c] = NoTxn
    /\ \A t \in tasks : runs[t] < MaxRuns
    /\ txn' = [txn EXCEPT ![c] =
                  [origin |-> from,
                   revision |-> [t \in BuildTask |->
                                    IF t \in tasks THEN LatestRevision(t) + 1 ELSE 0]]]
    /\ overlapped' = (overlapped \/ \E d \in Creator : txn[d] # NoTxn)
    /\ UNCHANGED <<runs, revision, origin, status, cancelled, running, told, queue,
                   raced, cancels, faults>>

\* restart_build_tests updates the build first and keeps its row locked.
BuildLocked == \E c \in Creator : txn[c] # NoTxn /\ txn[c].origin = "build"

\* Mutant: the worker does not look at cancel_testing.
CloseAlways(c) == Open(c, "close", BuildTask)

\* _build_done, unless testing was cancelled.
CloseBuild(c) == ~cancelled /\ Open(c, "close", BuildTask)

\* restart_build_tests: the tasks with a failed test in the latest revision.
RestartBuild(c) == ~BuildLocked /\ Open(c, "build", {t \in BuildTask : LatestFailed(t)})

\* restart_build_task_tests: whatever the tests of the task are doing.
RestartTask(c, t) == Open(c, "task", {t})

\* create_test_tasks inserts the rows and the transaction commits.  The
\* worker that closes the build updates the build's row last.
Create(c) ==
    LET tasks == {t \in BuildTask : txn[c].revision[t] > 0} IN
    /\ txn[c] # NoTxn
    /\ txn[c].origin = "close" => ~BuildLocked
    /\ \A t \in tasks : runs[t] < MaxRuns
    /\ runs' = [t \in BuildTask |-> IF t \in tasks THEN runs[t] + 1 ELSE runs[t]]
    /\ revision' = [t \in BuildTask |-> IF t \in tasks
                       THEN [revision[t] EXCEPT ![runs[t] + 1] = txn[c].revision[t]]
                       ELSE revision[t]]
    /\ origin' = [t \in BuildTask |-> IF t \in tasks
                     THEN [origin[t] EXCEPT ![runs[t] + 1] = txn[c].origin]
                     ELSE origin[t]]
    /\ status' = [i \in Test |-> IF i.task \in tasks /\ i.run = runs[i.task] + 1
                                 THEN "CREATED" ELSE status[i]]
    /\ cancelled' = (cancelled /\ txn[c].origin # "build")
    /\ txn' = [txn EXCEPT ![c] = NoTxn]
    /\ UNCHANGED <<running, told, queue, overlapped, raced, cancels, faults>>

------------------------------------------------------------------------------
(* ALTS                                                                    *)

Created == {i \in Test : status[i] = "CREATED"}

\* get_available_test_tasks: a batch is STARTED when the transaction
\* commits.  There is no lease: if the answer is lost the tests stay so.
GetTests ==
    \E batch \in SUBSET Created, lost \in BOOLEAN :
        /\ batch # {} /\ Cardinality(batch) <= Batch
        /\ Cardinality(batch) = Batch \/ batch = Created
        /\ Charge(lost)
        /\ status' = [i \in Test |-> IF i \in batch THEN "STARTED" ELSE status[i]]
        /\ running' = IF lost THEN running ELSE running \cup batch
        /\ UNCHANGED <<runs, revision, origin, cancelled, txn, told, queue,
                       overlapped, raced, cancels>>

\* ALTS calls back; a test it was told to cancel may come back revoked.
Report(i) ==
    /\ i \in running
    /\ running' = running \ {i}
    /\ \E v \in {"success", "failure"} \cup (IF i \in told THEN {"revoked"} ELSE {}) :
          queue' = queue \cup {[test |-> i, verdict |-> v]}
    /\ told' = told \ {i}
    /\ UNCHANGED <<runs, revision, origin, status, cancelled, txn,
                       overlapped, raced, cancels, faults>>

------------------------------------------------------------------------------
(* Workers: complete_test_task                                             *)

\* Mutant: revoked tests are ignored.
IgnoreRevoked(verdict) ==
    CASE verdict = "success" -> "COMPLETED"
      [] verdict = "failure" -> "FAILED"
      [] verdict = "revoked" -> "STARTED"

Outcome(verdict) ==
    CASE verdict = "success" -> "COMPLETED"
      [] verdict = "failure" -> "FAILED"
      [] verdict = "revoked" -> "CANCELLED"

\* The result is recorded whatever the status of the test is; when the logs
\* cannot be converted it is FAILED.  The message is acknowledged, or comes
\* again.
Complete(m) ==
    /\ \E outcome \in {Outcome(m.verdict), "FAILED"}, repeat \in BOOLEAN :
          /\ status' = [status EXCEPT ![m.test] = outcome]
          /\ queue' = IF repeat THEN queue ELSE queue \ {m}
          /\ Charge(repeat)
    /\ UNCHANGED <<runs, revision, origin, cancelled, txn, running, told,
                   overlapped, raced, cancels>>

\* Processing raises.  The handler writes FAILED and raises again, so the
\* session rolls back, and with max_retries=0 the message is not retried.
CompleteRaises(m) ==
    /\ Charge(TRUE)
    /\ queue' = queue \ {m}
    /\ UNCHANGED <<runs, revision, origin, status, cancelled, txn, running, told,
                   overlapped, raced, cancels>>

------------------------------------------------------------------------------
(* Users: cancel_build_tests                                               *)

\* The build is marked, its waiting tests are cancelled, and ALTS is told to
\* stop the others.
Cancel ==
    /\ cancels < MaxCancels /\ cancels' = cancels + 1
    /\ ~BuildLocked
    /\ cancelled' = TRUE
    /\ status' = [i \in Test |-> IF status[i] = "CREATED" THEN "CANCELLED" ELSE status[i]]
    /\ told' = told \cup {i \in Test : status[i] = "STARTED"}
    /\ raced' = (raced \/ \E c \in Creator : txn[c] # NoTxn)
    /\ UNCHANGED <<runs, revision, origin, txn, running, queue, overlapped, faults>>

\* The call to ALTS fails after ALTS got it: nothing is committed.
CancelFails ==
    /\ cancels < MaxCancels /\ cancels' = cancels + 1
    /\ ~BuildLocked
    /\ Charge(TRUE)
    /\ \E i \in Test : status[i] = "STARTED"
    /\ told' = told \cup {i \in Test : status[i] = "STARTED"}
    /\ UNCHANGED <<runs, revision, origin, status, cancelled, txn, running, queue,
                   overlapped, raced>>

TestNext ==
    \/ \E c \in Creator :
          \/ CloseBuild(c) \/ RestartBuild(c) \/ Create(c)
          \/ \E t \in BuildTask : RestartTask(c, t)
    \/ GetTests
    \/ \E i \in running : Report(i)
    \/ \E m \in queue : Complete(m) \/ CompleteRaises(m)
    \/ Cancel \/ CancelFails

TestSpec == TestInit /\ [][TestNext]_testVars

\* ALTS polls and reports, workers serve the queue, transactions end.
TestFairness ==
    /\ WF_testVars(GetTests)
    /\ \A i \in Test : WF_testVars(Report(i))
    /\ \A m \in TestMessage : WF_testVars(m \in queue /\ Complete(m))
    /\ \A c \in Creator : WF_testVars(Create(c))

FairTestSpec == TestSpec /\ TestFairness
------------------------------------------------------------------------------
(* Properties                                                              *)

\* Two runs of a build task have different revisions, so that "the latest
\* revision" is one run, unless two transactions created tests together.
RevisionIsOneRun ==
    overlapped \/ \A t \in BuildTask : \A m, n \in 1..runs[t] :
                      revision[t][m] = revision[t][n] => m = n

\* Once the tests of a build are cancelled none is waiting to be handed out
\* but those of tasks the user restarted, unless tests were being created
\* when the cancel request came.
CancelHolds ==
    cancelled /\ ~raced =>
        \A i \in Created : origin[i.task][i.run] = "task"

\* Without faults every test gets an outcome: there is no lease and no
\* retry behind it, so nothing else ends a test.
EveryTestEnds ==
    \/ <>(faults > 0)
    \/ \A i \in Test : status[i] \in {"CREATED", "STARTED"} ~> status[i] \in Final
==============================================================================
