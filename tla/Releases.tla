------------------------------- MODULE Releases -------------------------------
(***************************************************************************)
(* Releasing builds to the production repositories of one platform or      *)
(* product.  A user plans a release of some builds, edits the plan, and    *)
(* commits or reverts it: the endpoint marks the release as in progress    *)
(* and sends a message, and the one worker of the "releases" queue changes *)
(* the repositories in Pulp and then the database.                         *)
(*                                                                         *)
(* A build stands for its packages.  Pulp is external: what was changed    *)
(* there is not undone when a transaction is rolled back.                  *)
(***************************************************************************)
EXTENDS Integers, FiniteSets

CONSTANTS
    Release,     \* ids of the releases
    Build,       \* builds to release
    MaxRequests, \* bound: commit and revert requests
    MaxEdits,    \* bound: changes of a release
    MaxFaults,   \* bound: workers that die or run into the time limit
    None         \* no release, no message being processed

ASSUME ReleaseAssumption ==
    /\ MaxRequests \in Nat /\ MaxEdits \in Nat /\ MaxFaults \in Nat
    /\ None \notin Release

VARIABLES
    community,  \* Product.is_community: which planner is used
    elsewhere,  \* builds whose packages some production repository had before
    status,     \* Release.status; "none" before it is created or once deleted
    builds,     \* Release.build_ids
    plan,       \* Release.plan["packages"], as the builds they are from
    releaseOf,  \* Build.release_id
    released,   \* builds with Build.released
    prod,       \* builds whose packages are where their release puts them
    product,    \* Product.builds
    errata,     \* builds whose errata packages are marked as released
    doomed,     \* releases a deletion has seen as scheduled
    asked,      \* endpoint transactions that sent their message and are open
    queue,      \* messages of the "releases" queue
    job,        \* the message the worker processes
    loaded,     \* the release in the worker's session
    shared,     \* two releases had a build in common
    edited,     \* a release was changed after its first commit or revert
    stale,      \* the worker loaded a status that an open request was changing
    hidden,     \* a job failed half way on a release not marked as in progress
    requests, edits, faults

vars == <<community, elsewhere, status, builds, plan, releaseOf, released, prod,
          product, errata, doomed, asked, queue, job, loaded, shared, edited, stale,
          hidden, requests, edits, faults>>

\* ReleaseStatus
Status == {"SCHEDULED", "IN_PROGRESS", "COMPLETED", "FAILED", "REVERTED"}
Loaded == [status : Status \cup {"none"}, builds : SUBSET Build, plan : SUBSET Build]
Message == [release : Release, kind : {"commit", "revert"}, nr : 1..MaxRequests]

ASSUME MessageAssumption == None \notin Message

TypeOK ==
    /\ community \in BOOLEAN
    /\ elsewhere \subseteq Build
    /\ status \in [Release -> Status \cup {"none"}]
    /\ builds \in [Release -> SUBSET Build] /\ plan \in [Release -> SUBSET Build]
    /\ releaseOf \in [Build -> Release \cup {None}]
    /\ released \subseteq Build /\ prod \subseteq Build
    /\ product \subseteq Build /\ errata \subseteq Build
    /\ doomed \subseteq Release
    /\ asked \subseteq Message /\ queue \subseteq Message
    /\ job \in Message \cup {None}
    /\ loaded \in Loaded
    /\ {shared, edited, stale, hidden} \subseteq BOOLEAN
    /\ requests \in 0..MaxRequests /\ edits \in 0..MaxEdits /\ faults \in 0..MaxFaults

Nothing == [status |-> "none", builds |-> {}, plan |-> {}]

Init ==
    /\ community \in BOOLEAN
    /\ elsewhere \in IF community THEN {{}} ELSE SUBSET Build
    /\ status = [r \in Release |-> "none"]
    /\ builds = [r \in Release |-> {}] /\ plan = [r \in Release |-> {}]
    /\ releaseOf = [b \in Build |-> None]
    /\ released = {} /\ prod = {} /\ product = {} /\ errata = {}
    /\ asked = {} /\ queue = {} /\ job = None /\ loaded = Nothing
    /\ doomed = {} /\ shared = FALSE /\ edited = FALSE /\ stale = FALSE /\ hidden = FALSE
    /\ requests = 0 /\ edits = 0 /\ faults = 0

repositories == <<releaseOf, released, prod, product, errata>>
broker == <<asked, queue, job, loaded, stale, hidden, requests>>

------------------------------------------------------------------------------
(* Users: routers/releases.py and crud/release.py                          *)

\* get_release_for_update, UPDATE and DELETE wait for a request that has
\* updated the row and not committed.
FreeRow(r) == \A m \in asked : m.release # r

Shares(r, bs) == \E q \in Release \ {r} : builds[q] \cap bs # {}

\* create_new_release: nothing keeps a build out of a second release.
Create(r, bs) ==
    /\ status[r] = "none" /\ builds[r] = {}
    /\ bs # {}
    /\ status' = [status EXCEPT ![r] = "SCHEDULED"]
    /\ builds' = [builds EXCEPT ![r] = bs]
    /\ plan' = [plan EXCEPT ![r] = bs]
    /\ shared' = (shared \/ Shares(r, bs))
    /\ UNCHANGED <<community, elsewhere, repositories, doomed, broker, edited, edits, faults>>

\* update_release, whatever the status is: other builds and their plan, or
\* another plan for the same builds.
Update(r, bs, packages) ==
    /\ status[r] # "none" /\ FreeRow(r)
    /\ edits < MaxEdits /\ edits' = edits + 1
    /\ bs # {} /\ packages \subseteq bs
    /\ bs # builds[r] => packages = bs
    /\ builds' = [builds EXCEPT ![r] = bs]
    /\ plan' = [plan EXCEPT ![r] = packages]
    /\ shared' = (shared \/ Shares(r, bs))
    /\ edited' = (edited \/ status[r] # "SCHEDULED")
    /\ UNCHANGED <<community, elsewhere, status, repositories, doomed, broker, faults>>

\* remove_release looks for a scheduled release, without a lock, ...
CheckScheduled(r) ==
    /\ status[r] = "SCHEDULED"
    /\ r \notin doomed
    /\ doomed' = doomed \cup {r}
    /\ UNCHANGED <<community, elsewhere, status, builds, plan, repositories, broker,
                   shared, edited, edits, faults>>

\* ... and deletes the row, whatever its status is by then, unless a build
\* refers to it (build_releases_id_fkey).
Delete(r) ==
    /\ r \in doomed /\ FreeRow(r)
    /\ doomed' = doomed \ {r}
    /\ status' = IF \E b \in Build : releaseOf[b] = r THEN status
                 ELSE [status EXCEPT ![r] = "none"]
    /\ UNCHANGED <<community, elsewhere, builds, plan, repositories, broker, shared,
                   edited, edits, faults>>

\* The commit and revert endpoints update the status, whatever it is, and
\* send the message; their transaction is still open.
Ask(r, kind) ==
    LET m == [release |-> r, kind |-> kind, nr |-> requests + 1] IN
    /\ status[r] # "none" /\ FreeRow(r)
    /\ requests < MaxRequests /\ requests' = requests + 1
    /\ asked' = asked \cup {m}
    /\ queue' = queue \cup {m}
    /\ UNCHANGED <<community, elsewhere, status, builds, plan, repositories, doomed,
                   job, loaded, shared, edited, stale, hidden, edits, faults>>

\* The transaction of the endpoint commits.
Answer(m) ==
    /\ m \in asked
    /\ asked' = asked \ {m}
    /\ status' = [status EXCEPT ![m.release] = "IN_PROGRESS"]
    /\ UNCHANGED <<community, elsewhere, builds, plan, repositories, doomed, queue,
                   job, loaded, shared, edited, stale, hidden, requests, edits, faults>>

------------------------------------------------------------------------------
(* The worker: commit_release and revert_release                           *)

\* crud/release.py loads the release without a lock.  A release that is gone
\* ends the job.
Load(m) ==
    /\ job = None
    /\ m \in queue
    /\ LET r == m.release IN
       IF status[r] = "none"
       THEN queue' = queue \ {m} /\ UNCHANGED <<job, loaded, stale>>
       ELSE /\ job' = m
            /\ loaded' = [status |-> status[r], builds |-> builds[r], plan |-> plan[r]]
            /\ stale' = (stale \/ ~FreeRow(r))
            /\ UNCHANGED queue
    /\ UNCHANGED <<community, elsewhere, status, builds, plan, repositories, doomed,
                   asked, shared, edited, hidden, requests, edits, faults>>

\* The planner selects it again, FOR UPDATE: it waits for the row, but the
\* session keeps what it has loaded.
Works(kind) ==
    /\ job # None /\ job.kind = kind
    /\ FreeRow(job.release) /\ status[job.release] # "none"

\* Mutants: a failure is not written; a commit is completed whatever came of it.
KeepFailed(r, new) == status' = IF new = "FAILED" THEN status ELSE [status EXCEPT ![r] = new]
CompleteAll(r, new) ==
    status' = [status EXCEPT ![r] = IF job.kind = "commit" THEN "COMPLETED" ELSE new]

\* Setting the status that was loaded writes nothing.
SetStatus(r, new) ==
    status' = IF new = loaded.status THEN status ELSE [status EXCEPT ![r] = new]

\* The plan is written with a new "last_log".
SetPlan(r) == plan' = [plan EXCEPT ![r] = loaded.plan]

\* Both planners keep Product.builds, of a community product only, ...
JoinProduct(bs) == product' = IF community THEN product \cup bs ELSE product
LeaveProduct(bs) == product' = IF community THEN product \ bs ELSE product

\* ... and mark errata packages, of a platform only, when the release is
\* COMPLETED as the row is read again.
MarkErrata(r) ==
    errata' = IF ~community /\ status'[r] = "COMPLETED" THEN errata \cup loaded.plan
              ELSE errata

\* The packages the builds made are removed; those found elsewhere were added
\* under another href and stay.
Remove(packages) == prod' = prod \ (packages \ elsewhere)

Done ==
    /\ queue' = queue \ {job}
    /\ job' = None /\ loaded' = Nothing
    /\ UNCHANGED <<community, elsewhere, builds, doomed, asked, shared, edited, stale,
                   requests, edits>>

\* execute_release_plan succeeds: the packages are in the repositories and the
\* builds are released by this release.
Commit ==
    LET r == job.release IN
    /\ Works("commit") /\ loaded.plan # {}
    /\ prod' = prod \cup loaded.plan
    /\ SetStatus(r, "COMPLETED") /\ SetPlan(r)
    /\ releaseOf' = [b \in Build |-> IF b \in loaded.builds THEN r ELSE releaseOf[b]]
    /\ released' = released \cup loaded.builds
    /\ JoinProduct(loaded.builds) /\ MarkErrata(r)
    /\ Done /\ UNCHANGED <<hidden, faults>>

\* Mutant: a failure leaves the builds' mark alone.
KeepMark ==
    LET r == job.release IN
    /\ Works("commit")
    /\ \E some \in SUBSET loaded.plan : prod' = prod \cup some
    /\ SetStatus(r, "FAILED") /\ SetPlan(r)
    /\ releaseOf' = [b \in Build |-> IF b \in loaded.builds THEN r ELSE releaseOf[b]]
    /\ Done /\ UNCHANGED <<released, product, errata, hidden, faults>>

\* execute_release_plan raises (also for an empty plan), after some of the
\* repositories were changed: the failure is committed.
CommitRaises ==
    LET r == job.release IN
    /\ Works("commit")
    /\ \E some \in SUBSET loaded.plan : prod' = prod \cup some
    /\ SetStatus(r, "FAILED") /\ SetPlan(r)
    /\ releaseOf' = [b \in Build |-> IF b \in loaded.builds THEN r ELSE releaseOf[b]]
    /\ released' = released \ loaded.builds
    /\ Done /\ UNCHANGED <<product, errata, hidden, faults>>

\* Mutant: the builds keep the release that is reverted.
RevertPackages ==
    LET r == job.release IN
    /\ Works("revert")
    /\ Remove(loaded.plan)
    /\ errata' = errata \ loaded.plan
    /\ LeaveProduct(loaded.builds)
    /\ SetStatus(r, "REVERTED") /\ SetPlan(r)
    /\ Done /\ UNCHANGED <<releaseOf, released, hidden, faults>>

\* revert_release_plan.
Revert ==
    LET r    == job.release
        mine == {b \in loaded.builds : releaseOf[b] = r}
    IN
    /\ Works("revert")
    /\ Remove(loaded.plan)
    /\ errata' = errata \ loaded.plan
    /\ releaseOf' = [b \in Build |-> IF b \in mine THEN None ELSE releaseOf[b]]
    /\ released' = released \ mine
    /\ LeaveProduct(loaded.builds)
    /\ SetStatus(r, "REVERTED") /\ SetPlan(r)
    /\ Done /\ UNCHANGED <<hidden, faults>>

Fails ==
    /\ faults < MaxFaults /\ faults' = faults + 1
    /\ hidden' = (hidden \/ status[job.release] # "IN_PROGRESS")
    /\ UNCHANGED <<status, plan, releaseOf, released, product, errata>>

\* revert_release sets FAILED and raises: the transaction is rolled back.
RevertRaises ==
    /\ Works("revert")
    /\ \E some \in SUBSET loaded.plan : Remove(some)
    /\ Fails
    /\ Done

\* The worker dies after some of the repositories were changed.  Its message
\* is delivered again, or dropped when it was the time limit.
Crash ==
    /\ \E kind \in {"commit", "revert"} : Works(kind)
    /\ \E some \in SUBSET loaded.plan :
          IF job.kind = "commit" THEN prod' = prod \cup some ELSE Remove(some)
    /\ Fails
    /\ queue' \in {queue, queue \ {job}}
    /\ job' = None /\ loaded' = Nothing
    /\ UNCHANGED <<community, elsewhere, builds, doomed, asked, shared, edited, stale,
                   requests, edits>>

\* The release was deleted since it was loaded: DataNotFoundError.
Gone ==
    /\ job # None /\ status[job.release] = "none"
    /\ Done
    /\ UNCHANGED <<status, plan, repositories, hidden, faults>>

Next ==
    \/ \E r \in Release, bs \in SUBSET Build :
          \/ Create(r, bs)
          \/ \E packages \in SUBSET bs : Update(r, bs, packages)
    \/ \E r \in Release : CheckScheduled(r) \/ Delete(r)
    \/ \E r \in Release, kind \in {"commit", "revert"} : Ask(r, kind)
    \/ \E m \in asked : Answer(m)
    \/ \E m \in queue : Load(m)
    \/ Commit \/ CommitRaises \/ Revert \/ RevertRaises \/ Crash \/ Gone

Spec == Init /\ [][Next]_vars
------------------------------------------------------------------------------
(* Properties                                                              *)

\* A build is marked as released only by a release that exists and is
\* committed, or whose next commit or revert has been asked for, unless a
\* release was changed after it was committed.
ReleasedByCompleted ==
    edited \/ \A b \in released :
        releaseOf[b] # None /\ status[releaseOf[b]] \in {"COMPLETED", "IN_PROGRESS"}

\* A completed release is whole, however often it was committed, failed, was
\* reverted or interrupted before: its packages are in production, its builds
\* released and in the community product, its errata packages marked; unless
\* releases share builds, one was changed after it was committed, or a job
\* failed whose mark another job had replaced.
CompletedIsWhole ==
    shared \/ edited \/ hidden \/ \A r \in Release : status[r] = "COMPLETED" =>
        /\ plan[r] \subseteq prod
        /\ builds[r] \subseteq released
        /\ IF community THEN builds[r] \subseteq product ELSE plan[r] \subseteq errata

\* Nothing is left of a reverted release ("Builds still has references to
\* release", "Packages are not marked as proposal", "Product still has
\* references to release"), but for packages that were in production before.
RevertedIsGone ==
    shared \/ edited \/ hidden \/ \A r \in Release : status[r] = "REVERTED" =>
        /\ plan[r] \cap prod \subseteq elsewhere
        /\ \A b \in builds[r] : releaseOf[b] # r /\ b \notin released
        /\ (plan[r] \cap errata) \cup (builds[r] \cap product) = {}

\* When the queue is served no release is left in progress, unless the
\* worker was interrupted, a revert failed, or the worker had loaded the
\* status before the endpoint committed it.
Decided ==
    queue = {} /\ asked = {} /\ faults = 0 /\ ~stale =>
        \A r \in Release : status[r] # "IN_PROGRESS"
==============================================================================
