# AlmaLinux build system web server: a verification project

The web server (`src/alws`) is the centre of the AlmaLinux build system. Users
ask it for builds, tests, signatures and releases; build nodes, sign nodes and
the test system (ALTS) poll it for tasks and post results; dramatiq workers
process the results; Pulp stores the packages. Its state is in PostgreSQL, is
changed by many processes side by side, and is shared with systems that cannot
be rolled back. This directory models that core in TLA+, checks it with TLC on
small instances and proves part of it for every instance with TLAPS.

Modules, runs, the source lines of every definition, hazards, findings and
theorems are listed in `PROJECT.json`. Run a check with
`tlc -config <run>.cfg <module>`, the proofs with `tlapm <module>`.

## The system

| Component | State | Operations | What is hard |
|---|---|---|---|
| build creation (`crud/build.py`, `build_planner.py`, `dramatiq/build.py`) | builds, module build indexes, tasks, module indexes, repositories in Pulp | preview, request, `start_build` | two transactions and Pulp in one job, redelivery, an index read and written unlocked, what the beholder answers twice |
| dependency map (`build_planner.py`) | dependency rows | write the map | order of arches, platforms and projects |
| build task queue (`crud/build_node.py`, `routers/builds.py`) | status, `ts`, dependencies, source RPM URL of each task | poll, ping, done, two kinds of restart, cancel | nodes that go silent, late and double results, rows that keep tasks waiting |
| build_done workers (`dramatiq/build.py`) | the transactions of several processes | process a result, fast fail, close the build | READ COMMITTED, unlocked reads, redelivery |
| artifacts of builds (`crud/build_node.py`, `utils/multilib.py`, `utils/noarch.py`, `utils/modularity.py`) | artifact rows, packages and the module in the build's repositories | publish, share between architectures, rewrite the module | Pulp is changed at once, rows with the transaction; tasks of one project side by side |
| Pulp transactions (`utils/pulp_client.py`) | the record of the current transaction | begin, commit, rollback | that nothing is ever recorded |
| package tests (`crud/test.py`, `dramatiq/tests.py`) | test tasks and revisions | create, restart, hand out, record, cancel | creators that overlap, rolled back failures |
| product sign keys (`crud/sign_task.py`) | key requests, keys, which is active | request, poll, complete | two transactions in one request |
| package signing (`crud/sign_task.py`, `dramatiq/sign_task.py`) | sign tasks, signed hrefs, Pulp | create, poll, complete | Pulp is not rolled back, unlocked selects |
| releases (`crud/release.py`, `dramatiq/releases.py`, `release_planner.py`) | release status and plan, marks on builds and errata, production | create, update, delete, commit, revert | a message sent before its commit, a stale session, failures half way |
| release plans (`release_planner.py`, `utils/beholder_client.py`) | plan and log of a release, production, the cache of answers | plan, edit, check, execute, undo | answers that overwrite each other, plans older than production |
| errata (`crud/errata.py`, `dramatiq/errata.py`) | records, rows that match packages with builds, updateinfo | match, review, release one and many, reset | four writers of the same rows, one of them the releases worker |
| OVAL (`crud/errata.py`, `utils/errata.py`, `utils/oval_add_al8_gpg_keys.py`) | none, a document made of the rows | two documents, second key of AlmaLinux 8 | records half released, shared identifiers |
| products (`crud/products.py`, `dramatiq/products.py`) | products, their builds and repositories | create, extend, remove; add and remove builds | three worker processes, Pulp against the database, names that are prefixes |
| teams and permissions (`crud/teams.py`, `crud/user.py`, `perms/`) | users, teams, roles | members, roles, the check, removal of users | roles named by text, removal half way |
| exporters and uploads (`scripts/exporters/`, `utils/exporter.py`, `utils/uploader.py`) | repository versions, publications, the export directory, `repomd.xml.asc` | release, upload, export, sign, collect errata | processes that share a directory and do not know of each other |

Interactions: a started build gives the queue its tasks; results put packages
into the build's repositories; a closed build creates test tasks; a signed build
can be released; a release moves packages to production, marks builds and
releases rows of errata; errata go to the updateinfo of production; the
exporters copy production to the mirrors. Products hold builds, teams hold
products. Endpoints talk to workers by RabbitMQ messages (at least once,
acknowledged after the actor returns), workers to nodes by database rows only.

Processes, from `docker-compose.yml`: the queues of errata, releases, sign and
tests have one process with one thread; `product_modify` has three; builds
(`default`, `sources`) several. The models take over exactly this: one `job`
variable where there is one worker, a set `Worker` where there are more.

## The modules

| Module | About | Extends |
|---|---|---|
| `BuildPlan` | the dependency map, as functions | |
| `TaskSchedule` | abstract: what the queue promises | |
| `BuildTasks` | the queue, one transaction per action | `BuildPlan`; implements `TaskSchedule` |
| `BuildFinish` | its workers, statement by statement | `BuildPlan`; implements `TaskSchedule` |
| `BuildArtifacts` | packages and modules of a build | |
| `ModuleIndex`, `BuildStart` | what a module is built of; from request to tasks | `BuildStart` on `ModuleIndex` |
| `TestTasks` | package tests | |
| `SignKeys`, `SignTasks` | keys, and signatures made with them | `SignTasks` on `SignKeys` |
| `Releases` | releases and their worker | |
| `Beholder`, `ReleasePlan` | answers, plans and production | `ReleasePlan` on `Beholder` |
| `Errata` | records, rows and updateinfo | |
| `OvalDocument`, `ErrataOval` | the documents as functions; of the rows of `Errata` | `ErrataOval` on both |
| `Teams`, `Products` | who may do what; products and their builds | `Products` on `Teams` |
| `ExportErrata`, `RepoExport` | errata of an export; one repository on its way to disk | `RepoExport` on `ExportErrata` |
| `MC...` | instances for TLC | |
| `BuildPlanProofs` | lemmas on plans and restarts, for both specifications of the queue | `BuildPlan` |
| `BuildTasksProofs` | the queue, and the start of a build before it | `BuildTasks`, `BuildStart`, `BuildPlanProofs` |
| `BuildFinishProofs` | the workers of the queue | `BuildFinish`, `BuildPlanProofs` |
| `NodeTasksProofs` | what is handed to test systems and sign nodes | `TestTasks`, `SignTasks` |
| `RepositoriesProofs` | repositories in Pulp: of builds, and on their way to disk | `BuildArtifacts`, `RepoExport` |
| `ProductsProofs` | products, teams and the plans of releases | `Products`, `ReleasePlan` |
| `ReleasesProofs`, `ErrataProofs` | releases; errata | the module |

**BuildPlan** - which task waits for which. `PlannedDeps` is
`build_dependency_map`; `ChainDeps` and `ParallelDeps` are the rows
`update_failed_build_items` and `..._in_parallel` add when failed tasks restart.
A task is its database id, and ids follow the planner's loop (platform, arch with
"src" first, project), which the code's `ORDER BY id` relies on.

**TaskSchedule** - phases of tasks and a waiting relation; a task starts only
when it waits for nothing, is opened again only after it settled, and then
waiting is acyclic and names unsettled tasks only.

**BuildTasks** - one action per endpoint or message. `GetTask` is
`get_available_build_task` with its lease: the timestamp is abstracted to what
the poll query tells apart (unset, fresh, three hours ahead, expired). `Process`
is a worker: it stores the result or fails, settles the task and those that fail
with it, deletes the rows that name them, and closes the build when every task
is finished. `Restart` and `Cancel` are the users; `Expire`, `Abandon` and the
repeated or dropped messages are the faults.

**BuildFinish** - the same transactions statement by statement for several
worker processes and restart requests. Committed state is in `status`, `deps`,
`url`; what a transaction has written but not committed is in `stage`, `result`
(the status and whether a source RPM came with it), `stopped`. `Results` are
those nodes may post: the proofs allow all of them, the instances leave out
excluded ones, which stop nobody. A statement sees the committed state when it
starts and its own writes (READ COMMITTED); `FreeRow` and `Locked` are row locks.
`overtaken` and
`outdated` remember that a transaction wrote what another one had made untrue
since it was read: a task it was about to stop was handed out, or one that it
made others wait for was finished.

**BuildArtifacts** - the same job seen from Pulp: rows in the worker's
transaction, packages and modules in Pulp at once. `begin` of `PulpClient` sets
the record of the transaction to an empty one, which counts as none, so that
nothing is recorded and `rollback` restores nothing; the model therefore has no
transaction of Pulp. A result is a message, and a task may have several of them:
when its lease ends and another node builds it too (`GetTask`), or when a message
comes again (`Redeliver`). `build_done` does not ask whether the task is finished
(only the endpoint that takes the result does), and neither does `Begin`. Tasks
also finish without a job of their own: `Cancel`, the fast fail of the tasks of
a project whose source package failed (in `Commit`), and that after an exception
(in `Raise`).

**ModuleIndex, BuildStart** - `CreateBuild` is preview and request;
`SendStartBuild` the message; `Fetch`, `ReadIndex`, `Increment`, `Plan`,
`InitBuildRepos`, `Commit`, `Ack` are the steps of `start_build`, whose module
build index is read in one statement, counted up in another and committed apart
from the tasks. The beholder is asked in one instant by `Plan`; a module and
its -devel counterpart filter the same packages; platforms come in the order of
the request. `StartAssumption` says what a request is: platforms, each named once,
with architectures of machines, and tasks that are packages or modules.

**TestTasks** - creation in two steps (read the latest revision, insert rows),
the only unlocked read and write there; the rest is one transaction each.

**SignKeys, SignTasks** - polling in two steps (select, then update by id), key
completion in two transactions, and results that change Pulp before the
database. A signed package is named by the task and node that signed it.

**Releases** - endpoints whose message can overtake their commit (`Ask`,
`Answer`), the worker whose session has loaded the release before it locks it
(`Load`, `Works`, `SetStatus`), and commits and reverts that fail or are
interrupted after some of the repositories were changed. A build stands for its
packages and their errata, whose record is not released by itself. How a plan is
computed, and the many reasons a commit fails for, are one failure.

**Beholder, ReleasePlan** - the other half of a release. `Beholder` turns a
sequence of answers into the cache and the plan of one package, `ReleasePlan`
plans, edits, commits (with the checks against production) and reverts two
releases of copies of the same packages, one request at a time, as
`Releases` and its locks make sure. Both planners are there: a variable chooses.

**Errata** - rows per package and build, with every writer of them:
`FinishMatch` (matching, reset), `CloseEdit` (review), `MarkReleased` and
`MarkReverted` (the releases worker, after it has changed Pulp) and the jobs of
the errata worker, `Begin` to `Publish`. Edits and matchings are read and
written in two steps, as the requests are, and so is each record of a job:
`LoadPlatform` asks Pulp what is in production, `Reject` or `Prepare` works with
that answer later. `Held` are the rows a job has written, whose locks others wait
for (`FreeToWrite`). What `Lose` leaves in Pulp is any part of the calls under way.
Constants say what the architectures of packages and repositories decide: which
builds may be adopted (`Adoptable`) and to which repositories' records a package is
never appended (`Foreign`).

**OvalDocument, ErrataOval** - `errata_records_to_oval`,
`new_errata_records_to_oval` and `add_multiple_gpg_keys` as recursive operators
on trees of criteria. `ErrataOval` applies them to the rows `Errata` has at any
moment; as the document depends on two sets only, each pair is judged once.
An id has a brand, a kind and a number, as links go by the whole id.

**Teams, Products** - one transaction per request about teams; a product's
requests, workers and the removal of users against them. A request that changes
Pulp before the database fails is a disjunct of its own; a removal (of a product
or of a user) is two steps or more, as it holds no lock. Roles are looked up by a
part of their name, so a team whose own name has that part gets another
(`ManagerNamed`, `ContributorNamed`).

**RepoExport, ExportErrata** - one repository: its latest version, publication
and modules in Pulp, and the directory with packages, repodata and signature.
Scripts (`packages_exporter.py`, `products_exporter.py`), the web export and
`MetadataUploader` interleave step by step.

## What the runs check

| Run | Instance | Shows |
|---|---|---|
| `build_order` | 2 projects x (src, x86_64); every kind of result; 1 restart, and 1 cancel or fault | the queue implements `TaskSchedule` (`ImplementsSchedule`), an unfinished build has a task that may start, a build stops with its source, is closed when its tasks are finished, and ends (`EventuallyFinished`) |
| `finish_races` | 4 tasks: a project for two platforms, with two arches on one, and a second project; 2 workers, 2 users; 2 of 2 restart requests, 1 crash and 1 repeated message; results completed, failed, and failed with the source RPM | two workers never close one build, it is left open only when workers overlap, and what is committed are steps of `TaskSchedule` |
| `finish_missed` | 3 tasks, 2 workers | the finding below |
| `tests_life` | 1 build task, 2 creators, 2 runs, 1 cancel, 1 fault | one run per revision, cancelling holds, every test ends |
| `signing` | 2 key requests, 2 sign tasks, 2 nodes, 2 packages, 1 retry, 2 faults | one active key, rows that name what is in Pulp, a signed build is whole, sign tasks end |
| `releases` | 2 releases, 2 builds, 2 requests, 1 edit, 1 interruption | marks stand for a release, completed releases are whole, of reverted ones nothing is left, releases are decided |
| `release_plan` | 2 releases of 2 packages, up to 2 of 9 answers, 3 contents of production, 3 requests, 1 edit, both planners | all repositories keep one copy; the best answer is planned |
| `errata` | 2 records with 3 packages in 2 builds and 2 repositories, one of another architecture than a package it gets; 3 events | released records are published, those in progress are owned, what counts as released is in production, one build is approved; the OVAL documents are closed and mean what the advisories say |
| `build_start` | 2 of 4 builds on 2 workers, 1 crash, 1 failure of Pulp or the beholder, 1 new build the beholder knows | tasks once and complete; the dist of each project; modules that take over whole components |
| `artifacts` | a project for i686, x86_64 and aarch64, one for x86_64, of which three tasks are handed out; 2 workers, 1 restart, 1 fault or cancel | noarch packages are shared, the module is final and complete, rows are published |
| `products` | 1 product of a team called after contributors, that may be removed and created again, 2 builds, 2 repositories, 2 users, 2 workers, 3 requests | repositories hold the builds of the product, builds in products keep theirs, owners stay managers |
| `exports` | 1 repository, 2 exporters, 3 modules, 4 packages; of 2 exports, 2 releases or reverts, 1 upload, 1 web export and 1 failure any four | uploads keep packages, an export is what was published, the signature fits, errata do not depend on the order of threads |

Bounds. Every interesting order needs two of something - projects, arches,
workers, requests, nodes, releases, records - and one or two disturbances; the
instances have these. Requests, restarts, cancels, faults and edits are counted
by bounds in the guards (`Max...`); a run of actions between two of them is not
bounded. Constraints cut what costs time and shows nothing new:

* `OneDisturbance`: in `build_order` a cancel or a fault, not both (it cuts unfair
  actions only, so that liveness is not weakened beyond it);
* `Bounded` (`artifacts`): one of restart, fault and cancel, where a fault is a call
  that raises, a worker that dies or a second result. The task for aarch64 is there
  to be fast-failed and cancelled; when it is handed out, the second project is not,
  and a restart and a second disturbance may come, one task at a time;
* `KeysFirstInOrder` (`signing`): the build gets packages only once the keys are
  settled, after one history of theirs; keys never look at the build, so that all
  histories of the keys, and all of the build after one, are explored. Packages
  and sign tasks, which differ in nothing, come in one order;
* `StillPromised` (`finish_races`): two disturbances, none before a build that failed
  after it had made the source RPM is reported, and no state after which all
  three properties except what happens: their exceptions never end;
* `TwoDisturbances` (`build_start`), `FewDisturbances` (`exports`).

`Products` has two workers where the deployment has three processes: two suffice
for a modification to overlap another of the same build, and the third could only
add a second overlap, of which `off` keeps no count. Releases, builds,
repositories, workers and users that differ in nothing are symmetric, never in a
run with a liveness property. In `release_plan` the initial contents of
production have one copy of each package (`PlanAssumption`), which is what the
property then says of all later ones, and answers come in the order in which the
planner reads them (`InOrder`): `platform` is the place of a platform in it. Deadlock is not checked: a build, a queue or
a release that is done rests.

Many properties except a situation the code does not handle. The exception is a
disjunct or a set in the property that names it (`overlapped`, `raced`, `broken`,
`late`, `edited`, `forced`, `stuck`, `unpublished`, `off`, `hurt`, `torn`, `cut`,
`stale`, `overtaken`, `outdated`, `halted`, `declared`, `amended`), never a hidden guard; what happens in it is listed under "What the
code does in the excepted cases".

Fairness (`FairSpec`). Build nodes and ALTS poll for ever and post what they
got; workers take every message; time passes, so leases expire. All are weak
and per task, message or node. Users, cancels and faults are never fair. Tests
and sign tasks have no lease: their liveness is claimed without faults only;
`EventuallyFinished` is claimed of builds nobody cancelled.

The type invariants of `BuildTasks`, `BuildFinish`, `SignTasks`, `SignKeys`,
`Errata`, `Products` and `Teams` are theorems, that of `Releases` is part of
`ReleasesInvariant`, and those of `BuildArtifacts` and `RepoExport` are
`ArtifactsType` and `ExportTypeOK` in their proofs; `TypeOK` of the other
modules holds on the instances of their runs and is kept out of the cfgs.

### Finding

`finish_missed`: two workers that finish the last two tasks side by side each
miss the other's uncommitted status; nobody creates the tests or sets
`finished_at` (the comment at `dramatiq/build.py:193`: "The last completed task
will trigger the creation of the test tasks").

### What the code does in the excepted cases

Of these the repository nowhere says that they should be otherwise, or the
disagreement is plain from reading and no run is spent on it.

*Build tasks.* `task.build_srpm_url = None` (`dramatiq/build.py:214`) assigns no
column, so the URL stays set when all tasks failed. The ping of a second node
shortens the three hour lease of a result in the queue
(`crud/build_node.py:287`), and
the task is handed out again. A second platform's source task that was handed
out stops the fast fail; one that is handed out after the fast fail has read it as
idle (`crud/build_node.py:960`, a select that locks nothing) is failed while a node
builds it; once it is restarted, two messages of it may both close the build. A parallel restart that has read a task as idle
(116) makes others wait for it when it is finished meanwhile: the row stays, and
they never start. Tasks restarted after a cancel may wait for a cancelled
task for ever; a build whose last tasks are cancelled never gets `finished_at`;
a restart that races a worker may close the build early.

*Start of a build.* A crash between commit and send, an exception, or a death
after the repositories were created leaves a build without tasks for good. Two
overlapping starts draw the same module build index. A package requested after a
module (`build_planner.py:467`) and a module without a -devel counterpart (594,
631) fail the start. With two modules the second one's tasks get the first one's
dist, and with definitions of the build's own it takes that dist for its tag's; with
two platforms each ref's tasks are doubled and share the first platform's dist. The
source of a component all of whose packages are filtered is listed in neither
module unless a package of its name is filtered, too (`modularity.py:323`). The beta index mixes stable and beta versions; components with
a "+" get no source and nothing on i686; those the user takes out lack multilib.
Fake modules stay in Pulp after an error.

*Artifacts.* Multilib packages depend on the order in which the two tasks end
(`multilib.py:107`, against the comment at `build_planner.py:668`). Tasks of one
project that end side by side may each keep their own noarch package; tasks of
one architecture may lose each other's module; a job that raises leaves
packages, repositories and modules in Pulp of which no row knows. Sharing and the
final module are left to the job that finds all others finished, and a task that
is cancelled (`crud/build_node.py:225`), fast-failed (885-912, 952-990) or whose
processing raises has none: when it is the last of its project, the completed tasks
keep different noarch packages; when it is the last of its architecture, the module
keeps its random version (against the comments at 738 and 763). A call that raises
for the first task of a project does this to all other architectures. A second
result of a finished task adds its packages to the first one's: Pulp keeps one of
each name, version and architecture, and the rows name packages that are gone.

*Tests.* When recording a result raises, marking it as failed is rolled back
too (`dramatiq/tests.py:36`); a late or repeated result overwrites an outcome
(`crud/test.py:426`).

*Keys and signing.* A failed key generation leaves its request handed out, and
the endpoint raises while it renders its answer (`crud/sign_task.py:373`); a key
request cut between its transactions leaves a product without an active key. A
result that stops half way has renamed rows it never stored; a later result's
status wins while the build stays signed; packages that come late stay unsigned
in a signed build. A request for a small signature waits for ever when no node
listens (`routers/sign_task.py:106`).

*Releases.* A worker that loads a release before the endpoint commits
IN_PROGRESS holds the old status (`crud/release.py:196`): writing the same one
again is no change, and a COMPLETED release that is committed again stays in
progress. (`tests/test_api/test_releases.py:106` asserts COMPLETED, in the order
in which the commit comes first.) A failed revert leaves its release in progress
and its packages partly removed; an edited release reverts the new plan, not the
committed one; two releases of one build undo each other. A plan may bring back
the copy of a reverted release; shared repository records overwrite
trustworthiness (`release_planner.py:1591`), and one arbitrary repository is kept per
name (1580-1620). Of two equally good answers the second, if it has no
repositories, forgets those of the first (1214). With the beholder disabled modules are dropped (1364-1367), a
module's fallback names a repository that may not exist (1434-1457).
`update_release` skips the check of compatible platforms; the community planner
never looks for copies in production.

*Errata.* A request that approves a build (`crud/errata.py:1485`) changes row
after row and raises when it meets a released one of another build ("There is
already released package with same source"); its router answers `ok: false`
without an exception (`routers/errata.py:204`), so that the transaction commits
what was changed, and two builds may be approved. A record whose rows were reset leaves the old document and stays in
the new one; a record released by force of which no named package was released
gets a definition that holds on every system of the release; the `object_ref`
of a variable is never renamed (`crud/errata.py:681-698`), so
the object is not found and dangles. The document of AlmaLinux 8 without a
signature state fails an assertion (`oval_add_al8_gpg_keys.py:227`) and with it
the endpoint. A bulk release that is lost
after its commit has released records that are not published. Where a repository
lists the record already, packages of another architecture are passed over
(`crud/errata.py:1730`): an i686 package of a record that reached an x86_64
repository by an earlier release (or a lost one) is never added to it there,
and the record is released without it. A release reads production before it locks
the rows (2112 and 1832; 2186, 2273 and 2396 likewise): when a revert of the build
comes in between, its rows say released and it is gone. Editors may also set
released themselves (`routers/errata.py:204`; `schemas/errata_schema.py:155` takes any
status), whatever production has.

*Products.* The repositories of a removed product stay, as their names are
looked for among those of distributions (`crud/products.py:316`), and the next
product of that name takes over what they hold; distributions of products whose
name begins alike are deleted. A removal of a user that is rolled back has
deleted the Pulp repositories of the builds it had come to, which may then still
be added to a product. Two modifications of one build may leave its packages
against the rows.

*Exports.* An upload of a module that is new to Pulp to a repository that is not
of a build returns early, though the answer says "has been updated"; one that changes
nothing adds what the previous version removed. `repo_post_processing` of the
product exporter always returns False. `errata.json` keeps only the last
collection; the dates of `errata.full.json` are those of the first record met;
references repeat and nsvca of one collection leak to later ones. The web export
deletes the scripts' file system exporter and leaves an old `repomd.xml.asc`; a
missing `repomd.xml` makes the collection of errata raise and the signing stop. A
revert leaves the modules of its release.

## What is proved

For all values of the constants, under the assumptions named where they are
declared (`PlanAssumption`, `KeyAssumption`, `TestAssumption`,
`MarkersAssumption`, ...): ids are naturals that follow the planner's order,
bounds are naturals, markers such as `None` are no rows, answers and updateinfo are
finite sequences with dates and priorities that are numbers. TLC evaluates each
assumption in the runs, and each inductive invariant was checked with TLC on the
run's instance before it was proved (`PlansHold` of the start on part of the run's
states, as it quantifies over numberings). For a named part of an invariant that its own
step cannot keep, the text says which other part it needs.

* **Plans** (`BuildPlanProofs`). Lemmas that `PlannedDeps` and the rows of both
  restarts follow an order, on which both specifications of the queue rest; the
  least-number principle they need comes from `WellFoundedInduction`.
* **Build tasks** (`BuildTasksProofs`). `TypeCorrect`. `WaitInvariant`, with `NoCycles`,
  `NoStaleRows`, `StartedIsFree`, `NeverBlocked`: `WaitInv` is `WaitsOnUnsettled
  /\ NoDependencyCycle /\ StartedWaitsForNothing`. None of the three is
  inductive alone: new rows could close a circle with old ones unless old rows
  name unsettled tasks only, while restarted tasks were settled; and a task
  that was handed out could get a row unless restarts touch settled tasks only.
  Acyclicity is "every non-empty set has a task that waits for none of it",
  which needs no induction over paths: the least row of the set is such a task.
  The first two have no run of their own, as `TaskSchedule` demands them.
* `OrderOfPlan`, from `OrderInv`: until the first restart a planned dependency is
  still a row or is finished. `ClosedWhenFinished`: a build nobody cancelled is
  closed by the time its tasks are finished. `BuildImplementsSchedule`: initial
  states of `BuildTasks` map to initial states of `TaskSchedule`, and every step to
  a step or a stutter.
* `ProjectsStopWithSource` says `StopsWithItsSource` under two hypotheses that the
  code needs, too: each project has a ref and a source task of its own, which holds
  for one platform (with several, a ref has a source task on each, and one that was
  handed out stops the fast fail of the others), and a node that excludes an
  architecture sends the source RPM. `FirstInv` adds that no other task of a
  project is touched before its source task is finished, that the URL is there once
  it is finished well, that nodes and messages are about tasks that were handed
  out, and that nothing is idle after a cancel. Without the last, a task
  cancelled on its own would keep a failing source task from stopping the rest.
* **Start of a build** (`BuildTasksProofs`). `StartHolds`, for `StartInvariant`, and
  from it `StartTasksAreGrid`, `StartDistIsOwn`, `StartPrebuiltIsWhole`. The planner is
  a fold over the requested tasks, of folds over platforms and over the projects of
  a module. `FoldExists` and `FoldRuns` turn such a fold into a sequence of states, each one
  step after the last, by the recursion on sets that the community modules
  define it with; along it, `UpTo` carries what a step keeps. `Planned` is what all
  steps keep: the tasks so far fill the grid of projects and targets, the modules are
  those of their tasks, with the index of the preview, and every task behind has
  its dist. `StartInvariant` says of the workers that who is about to commit has
  created the repositories and is the only one (`Once`, why a second delivery adds
  nothing), that a plan is of the build's own preview and the index drawn
  (`PlansHold`), and that no index drawn is above the platform's, so that the next
  is new (`NotAbove`), while a worker nobody has overtaken still holds the last
  (`UpToDate`). What a module index lists (`ListsAre`, `WholeIs`) is set algebra about
  the answers of the beholder.
* **Workers of a build** (`BuildFinishProofs`). `FinishTypeCorrect`,
  `FinishInvariant`, `OneWorkerClosesBuild`, `OpenOnlyByOverlap`. Why two workers
  never both close a build is not in the count itself: `LockInv` says that row
  locks exclude each other, `CalmInv` that whatever is built or waits in the queue
  is STARTED and that nobody is about to stop or restart it. So the task of the
  second worker is unfinished for the first. `AloneInv` says why a worker that is
  alone cannot miss anything: no transaction but its own changes statuses between
  its count and its commit to finished. `CommitsAreScheduleSteps`: what is
  committed under READ COMMITTED are steps of `TaskSchedule`, from `WaitsInv` (until
  a transaction wrote what had become untrue, waiting is acyclic and names
  unsettled tasks only) and `RequestInv` (a request has read a task that failed).
* **Repositories of a build** (`RepositoriesProofs`). `ArtifactsBase` says what a
  job has at hand in each stage and whose it is: its task is nobody else's and
  finished only if it is processed again (then its project is `torn`), what it adds
  belongs to its project, and of overlapping jobs of a project that is not torn at
  most one shares. `RowsPublished`, from `PublishedInv`: a row may run
  ahead of Pulp only while the job that shares its noarch package has stored it
  there and not yet written its rows. `NoarchShared`, from `NoarchInv`: the job of
  the last task, if it was alone, takes every completed task, and leaves one
  noarch package in each repository it has come to (`ShareInv`); until another job
  does, a project whose last task had no such job is in `cut`. `ModulesFinal`, from
  `ModuleInv`: the repository has the module the database knows, or the one a job
  has written since, which lists no less; that is false of the module alone, as a
  job replaces what it read when it began.
* **Exports** (`RepositoriesProofs`). `UploadsKeepPackages`, from `UploadInv`: what
  an upload has read is still so as long as no release came in between.
  `SignaturesMatch`, from `SignInv`: who writes repodata has removed the
  signature, and who works alone signs what it sent. `ExportsArePublished`, from
  `ExportInv`: it holds after overlapping exports, too, since each of them
  copies the same version (`Still`, `Copying`), those that change packages write
  repodata later (`Indexed`), and those that remove repodata download them first
  (`Present`). `ErrataKeepNoOrder` is about a fold over paths, of folds over their
  records: whatever their order, what was merged so far spans exactly the records
  that were read (`Collects`, `Spans`), and one record at most does
  (`SpansIsExpected`).
* **Tests** (`NodeTasksProofs`). `RevisionsAreRuns`: two runs share no revision
  unless creators overlapped. `NumberInv` says more: the n-th run has revision
  n, one creator at most has read and not yet written, and it is about to write
  the next number. `CancellingHolds`, from `CancelInv`, which adds that the
  creators at work after a cancel are requests of users.
* **Signing** (`NodeTasksProofs`). `KeysInvariant`, `ActiveKeyIsUnique`,
  `SigningKeepsKeys`: one active key between completions, also under
  `SignTasks`, unless polls or completions overlap or a request is cut or
  repeated. `KeysInv` adds that one poll and one completion are under way and
  that a key is added once. `SigningTypeCorrect`; `RowsFollowRepository`, from
  `RepairInv`: while a row differs from the repository a successful result with
  its package is still queued, so that the retry, or the next delivery, repairs
  it; `SignedBuildIsWhole`, from `WholeInv`: until a package comes late, every
  node and every result has all packages of the build and a task that was handed
  out, which no new package can slip past.
* **Releases** (`ReleasesProofs`). `ReleasesInvariant`, `MarkedByRelease`: builds
  are marked by a release that stands for them. `ReleasedByCompleted` is not
  inductive: a failed commit unmarks the builds the worker has loaded, so one
  must know that these are the release's builds (`JobInv`), that a marked build
  is still among them (`HomeInv`), and that an edit cannot slip between a request
  and its commit (`QueueInv`: a release in the queue is not scheduled any more,
  or its row is locked). `SetStatus` writes nothing when the loaded status is
  the new one; `JobInv` says that the row is then in that status or in progress.
  `CompletedReleasesAreWhole` and `RevertedReleasesAreGone` add `PlanInv`: plans of
  releases that share no build share no package, and a job works on its own.
  `RequestsAreDecided`, from `TurnInv`: a release in progress has a message nobody
  has begun, or one whose job found it in progress and will write what came of it.
* **Release plans** (`ProductsProofs`). `PlansInvariant`,
  `ProductionHasOneCopy`. The copies in production can agree only if each plan
  does (`PlansAgree`: all entries for a package name one copy) and if a commit
  replaces a package everywhere: for AlmaLinux the check of the plan finds it, for
  a community product `PlansCover` says that a package is only where the plan of
  the next release puts it, too. `BestAnswersArePlanned`: the cache is a fold over
  the answers (`LinesRun`); once the best of a package is read, what is known of it
  only grows (`LaterLineKeeps`), as lines that follow are another's, or for i686 keep
  what was found, or are as good; `BestIsFound`, `EntriesHave` and `CheckedCovers`
  carry it through the search, the entries of the plan and the check.
* **Errata** (`ErrataProofs`). `ErrataTypeCorrect`. `RecordsAreOwned`: records in
  progress wait for a message or a job. `ReleasedRecordsArePublished`, from
  `JobInv` and `PublishInv`: what a job found ready is in updateinfo before its
  commit, or, in a bulk release, in the repositories that list the record, and the
  others follow; but for packages of another architecture in repositories that had
  the record (`Placed`), which the property excepts by name. `RowsInvariant`: a request and a job know the rows they work on,
  as matchings that replace them are noticed or locked out (`EditInv`, `UsedInv`).
  On it rest `ReleasedRowsAreInProduction` and `OneBuildIsApproved`. `ProductionInv`
  says of the rows a job has written (`Held`) that their builds were in production
  at that moment, or the record is in `raced`; from then on the planner waits for
  these rows, so that their builds cannot leave before the commit.
* **Products and teams** (`ProductsProofs`). `OwnersManage`: the owner of a team
  is a member and has the manager's role, unless the name of the team hides
  that role: roles are taken from others only, a member that leaves is not the
  owner, and a user who owns a team is not removed. `MembersStay`, from
  `KeepInv`: a build in a product has a row that no removal has marked as done,
  and a built one has lost its repositories only to such a removal.
  `ProductsTypeCorrect`, `ModificationsInvariant`, `ProductsHoldTheirBuilds`:
  `LoneInv` says that a modification that started alone knows what the rows say
  and that every repository it has come to is as it wants it, `ApartInv` that one
  that did not has left its repositories open, and `IdInv` that a message of a
  product that was removed is told apart from one of its successor.

Only model-checked:

* The documents (`OvalIsClosed`, `OvalKeepsMeaning`): recursive operators, in whose
  modules there are no theorems.
* Liveness (`EventuallyFinished`, `EveryTestEnds`, `EverySignTaskEnds`): the prover
  has neither fairness nor ENABLED.

## Not modelled

* Authentication, platforms, flavours, repositories, test repositories: rows
  that are created, read, updated and deleted, with no behaviour of their own.
* COPR, GitHub, Gitea: calls to services, or listings in their form; failures are
  logged, and nothing the other components keep depends on the answers.
* Git cacher: it copies the repositories of an organisation into one value of
  Redis. A failed page counts as an empty one and drops repositories until the
  next pass; a failed index stores the new `updated_at` with no tags, which stay
  away until the next push; the listener compares full refs with short names,
  so that tags repeat; and listener and cacher overwrite each other's value.
* Routers are part of the actions of their components; schema, migrations and
  one-off scripts have no behaviour to check.
* Details left out, which no property here could tell apart. `BuildArtifacts`: excluded
  results; a second row of one name in a task that was processed twice; the select
  and the update of a fast fail are one step. `Errata`: a job marks the rows of
  a record for all repositories in one step, where the code goes from one to the next, and
  the deadlock this allows with a revert, which fails one of the two. `Products.RemoveBuild`:
  publications and distributions (`crud/build.py:385`, 415;
  `crud/products.py:355-359`). `RepoExport.RegenerateRepoMetadata`: `createrepo_c` with the
  cached repodata (`--update-md-path`) and the refresh of that cache
  (`base_exporter.py:78-93`), which spares time.
* Of modelled components: log repositories, checksums and statistics of builds;
  platforms of keys, and small files signed through Redis; modules of release
  plans, debug packages, notarization, the reasons a signature check fails for;
  texts and listings of errata, the OVAL generator (a library, its data are
  constants), the smallest version chosen by comparing text
  (`crud/errata.py:1950-2010`) and the hour the document is cached for
  (2016-2033); removal of a released build; contexts and texts of modules; OSV,
  RSS and HTML of exports, the choice of repositories, web exports side by side.

## Plan

Done, in this order: the build task queue and its schedule; its workers under
READ COMMITTED; tests; signing and keys; releases; errata and OVAL; products,
teams and the removal of builds and users; artifacts, multilib and modules;
release plans; the start of a build; exports and uploads; proofs of the queue, of
the start of a build, of tests, signing, releases, release plans, errata, products, of the workers of a
build, of its repositories and of exports.

What would be next:

1. An abstract specification of a release (planned, committed whole, gone) that
   `Releases` implements where no job fails, and `ReleasePlan` composed with it.
2. Modules of release plans, and the removal of a build that was released.
3. Small files signed through Redis: nodes that reconnect, and answers that come
   after the request was given up.
