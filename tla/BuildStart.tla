------------------------------- MODULE BuildStart -------------------------------
(***************************************************************************)
(* From a request for a build to its tasks.  create_build commits a row    *)
(* without tasks and sends start_build; a worker draws the platforms'      *)
(* module build indexes in a transaction of its own, plans the tasks in a  *)
(* second one (add_git_project for every requested package or module),     *)
(* creates the build's repositories in Pulp and commits.                   *)
(*                                                                         *)
(* The message is delivered again when the worker dies before it has       *)
(* acknowledged it; an exception ends it (max_retries=0).  Pulp's          *)
(* repositories survive both.  A build's request is a constant, except     *)
(* for the components that are taken over, which the preview finds; the    *)
(* user may leave out further ones.                                        *)
(***************************************************************************)
EXTENDS ModuleIndex, SequencesExt

CONSTANTS
    Build, Worker, Platform,
    Request,     \* build -> [platforms, tasks, definitions, dist, beta]
    NoDist, None,
    Knowledge,   \* what the beholder may come to know
    Failures,    \* the distributions and modules a request for them fails for
    MaxBuilds, MaxChanges, MaxCrashes, MaxFailures

\* A request names platforms once each, and architectures of machines
ASSUME StartAssumption ==
    /\ None \notin Build \cup Platform
    /\ NoDist \notin [module : Nat, index : Nat, prefix : Platform]
    /\ \A b \in Build :
          /\ Request[b].platforms \in Seq([name : Platform, arches : Seq(STRING)])
          /\ Request[b].platforms # <<>>
          /\ \A i, j \in DOMAIN Request[b].platforms :
                Request[b].platforms[i].name = Request[b].platforms[j].name => i = j
          /\ \A p \in Range(Request[b].platforms) : Range(p.arches) \cap {"src", "noarch"} = {}
          /\ DOMAIN Request[b].tasks = 1..Len(Request[b].tasks) /\ Len(Request[b].tasks) \in Nat
          /\ \A t \in Range(Request[b].tasks) :
                t.kind \in {"git", "module"} /\ t.wants \in [Component -> Nat] /\ t.left \subseteq Component

IsModule(t) == t.kind = "module"
HasModules(b) == \E t \in Range(Request[b].tasks) : IsModule(t)
PlatformsOf(b) == {p.name : p \in Range(Request[b].platforms)}
RequestedArches(b, name) == (CHOOSE p \in Range(Request[b].platforms) : p.name = name).arches

VARIABLES
    known,       \* what the package beholder knows
    row,         \* build -> "none", "unsent" or "sent"
    preview,     \* build -> what its preview found: [known, failing, refs]
    messages,    \* builds with a start_build message
    buildIndex,  \* platform -> Platform.module_build_index
    worker,      \* worker -> [build, stage, index, stale, plan]
    inPulp,      \* builds with repositories in Pulp
    plans,       \* build -> its committed plans: [plan, stale]
    changes, crashes, failures

startVars == <<known, row, preview, messages, buildIndex, worker, inPulp, plans, changes, crashes, failures>>

NoIndex == [p \in Platform |-> 0]
Idle == [build |-> None, stage |-> "idle", index |-> NoIndex, stale |-> FALSE, plan |-> <<>>]

(***************************************************************************)
(* The planner: its state after the requested tasks so far.                *)
(***************************************************************************)
NewPlanner(b, index, knows, failing) ==
    [build |-> b, index |-> index, known |-> knows, failing |-> failing, error |-> FALSE,
     arches |-> [p \in PlatformsOf(b) |-> RequestedArches(b, p)],
     modules |-> {}, tasks |-> {}, next |-> 0, nr |-> 0,
     dist |-> NoDist, dists |-> <<>>, buildDist |-> Request[b].dist]

BuildTask(s, p, arch) == [index |-> s.next, platform |-> p, arch |-> arch, nr |-> s.nr]
RpmModule(s, p, arch, lists) == [platform |-> p, arch |-> arch, nr |-> s.nr, lists |-> lists]
ModulesOf(s, p, arch) == {m \in s.modules : m.platform = p /\ m.arch = arch}
\* calc_dist_macro, from the first module of a platform and architecture
CalcDistMacro(s, p, arch, prefix) ==
    [module |-> Min({m.nr : m \in ModulesOf(s, p, arch)}), index |-> s.index[p], prefix |-> prefix]

\* Mutant: the user's dist is not looked at.
OverUsersDist(dist, tag, macro) == IF tag # NoDist THEN tag ELSE IF macro # NoDist THEN macro ELSE dist
\* A dist that is set is taken; a tag's goes before the macro
TakeDist(dist, tag, macro) ==
    IF dist # NoDist THEN dist ELSE IF tag # NoDist THEN tag ELSE macro

\* _add_single_project.  The tasks of all projects of a module share one
\* dictionary of mock options, so a dist that is set is taken from then on,
\* and the tasks have the one that was set last.
AddSingleProject(s, prefix, tag) ==
    LET platforms == Request[s.build].platforms
        arches == [p \in DOMAIN s.arches |->
                      IF "src" \in Range(s.arches[p]) THEN s.arches[p] ELSE <<"src">> \o s.arches[p]]
        withModules == {i \in DOMAIN platforms :
                           ModulesOf(s, platforms[i].name, Last(arches[platforms[i].name])) # {}}
        last == platforms[Max(withModules)].name
    IN [s EXCEPT
          !.arches = arches,
          !.error = @ \/ (prefix = None /\ withModules # {}),
          !.dist = TakeDist(@, tag, IF withModules = {} \/ prefix = None THEN NoDist
                                    ELSE CalcDistMacro(s, last, Last(arches[last]), prefix)),
          !.tasks = @ \cup UNION {{BuildTask(s, p, a) : a \in Range(arches[p])} : p \in DOMAIN arches},
          !.next = @ + 1]

\* _add_single_module, for one platform: its modules in every architecture
\* that is listed by now, then every project on all platforms.  Without a
\* -devel module the loop variable is None when its definitions are read.
IndexModule(s, t, platform, refs) ==
    LET lists(a) == PrepareModuleIndex(s.known, s.failing, refs, a, Request[s.build].beta) IN
    [s EXCEPT
        !.error = @ \/ ~t.devel,
        !.modules = @ \cup {RpmModule(s, platform, a, lists(a)) : a \in Range(s.arches[platform])}]
EnabledIn(refs) == {c \in Component : refs[c].enabled}
AddModuleOn(s, t, platform, refs) ==
    FoldLeft(LAMBDA r, c : AddSingleProject(r, platform, t.tag), IndexModule(s, t, platform, refs),
             SetToSeq(EnabledIn(refs)))

\* The module's own options, or the build's when these define something
AddSingleModule(s, t, refs) ==
    LET shared == Request[s.build].definitions
        added == FoldLeft(LAMBDA r, p : AddModuleOn(r, t, p.name, refs),
                          [s EXCEPT !.dist = IF shared THEN s.buildDist ELSE NoDist],
                          Request[s.build].platforms)
    IN [added EXCEPT !.buildDist = IF shared THEN added.dist ELSE @]

AddGitProject(s, t, refs) ==
    LET begun == [s EXCEPT !.nr = @ + 1]
        added == IF IsModule(t) THEN AddSingleModule(begun, t, refs)
                 ELSE AddSingleProject([begun EXCEPT !.dist = t.dist], None, t.tag)
    IN [added EXCEPT !.dists = Append(@, added.dist)]

\* refs: what the preview has found for each task
PlanBuild(b, refs, index, knows, failing) ==
    FoldLeft(LAMBDA s, i : IF s.error THEN s ELSE AddGitProject(s, Request[b].tasks[i], refs[i]),
             NewPlanner(b, index, knows, failing), [i \in DOMAIN Request[b].tasks |-> i])

(***************************************************************************)
(* The request.                                                            *)
(***************************************************************************)
StartInit ==
    /\ known \in Knowledge
    /\ row = [b \in Build |-> "none"]
    /\ preview = [b \in Build |-> <<>>]
    /\ messages = {}
    /\ buildIndex = NoIndex
    /\ worker = [w \in Worker |-> Idle]
    /\ inPulp = {}
    /\ plans = [b \in Build |-> <<>>]
    /\ changes = 0 /\ crashes = 0 /\ failures = 0

MayFail(failing) == failing = {} \/ (failing \in Failures /\ failures < MaxFailures)
Count(failing) == failures' = IF failing = {} THEN failures ELSE failures + 1

Arches(b) == UNION {Range(p.arches) : p \in Range(Request[b].platforms)}
GetModulePreview(b, t, knows, failing) ==
    [c \in Component |->
        LET ref == GetModuleRef(knows, failing, c, t.wants[c], Arches(b), Request[b].beta)
        IN [ref EXCEPT !.enabled = @ /\ c \notin t.left]]

\* The user previews the build's modules and sends the request; a module
\* without anything to build is refused
CreateBuild(b, failing) ==
    LET refs == [i \in DOMAIN Request[b].tasks |-> GetModulePreview(b, Request[b].tasks[i], known, failing)]
    IN /\ row[b] = "none" /\ Cardinality({c \in Build : row[c] # "none"}) < MaxBuilds
       /\ MayFail(failing) /\ Count(failing)
       /\ \A i \in DOMAIN refs :
             IsModule(Request[b].tasks[i]) => EnabledIn(refs[i]) # {}
       /\ row' = [row EXCEPT ![b] = "unsent"]
       /\ preview' = [preview EXCEPT ![b] = [known |-> known, failing |-> failing, refs |-> refs]]
       /\ UNCHANGED <<known, messages, buildIndex, worker, inPulp, plans, changes, crashes>>

\* start_build.send, after the commit
SendStartBuild(b) ==
    /\ row[b] = "unsent"
    /\ row' = [row EXCEPT ![b] = "sent"]
    /\ messages' = messages \cup {b}
    /\ UNCHANGED <<known, preview, buildIndex, worker, inPulp, plans, changes, crashes, failures>>

\* The beholder learns of other builds
BeholderChanges ==
    /\ changes < MaxChanges
    /\ changes' = changes + 1
    /\ known' \in Knowledge \ {known}
    /\ UNCHANGED <<row, preview, messages, buildIndex, worker, inPulp, plans, crashes, failures>>

(***************************************************************************)
(* The worker.                                                             *)
(***************************************************************************)
At(w, stage) == worker[w].stage = stage
Move(w, to) == worker' = [worker EXCEPT ![w] = to]
Stay == UNCHANGED <<known, row, preview, changes, crashes>>

Fetch(w, b) ==
    /\ At(w, "idle") /\ b \in messages
    /\ messages' = messages \ {b}
    /\ Move(w, [Idle EXCEPT !.build = b, !.stage = IF HasModules(b) THEN "read" ELSE "plan"])
    /\ Stay /\ UNCHANGED <<buildIndex, inPulp, plans, failures>>

\* The indexes are loaded, and counted up by the database and in memory
ReadIndex(w) ==
    /\ At(w, "read")
    /\ Move(w, [worker[w] EXCEPT !.stage = "increment", !.index = buildIndex])
    /\ Stay /\ UNCHANGED <<messages, buildIndex, inPulp, plans, failures>>

\* Mutant: only a build that has been planned counts up.
IncrementInMemory(w) ==
    LET ours == PlatformsOf(worker[w].build) IN
    /\ At(w, "increment")
    /\ worker' = [worker EXCEPT ![w].stage = "plan", ![w].index = [p \in Platform |-> @[p] + (IF p \in ours THEN 1 ELSE 0)]]
    /\ Stay /\ UNCHANGED <<messages, buildIndex, inPulp, plans, failures>>

Increment(w) ==
    LET ours == PlatformsOf(worker[w].build)
        up(index) == [p \in Platform |-> IF p \in ours THEN index[p] + 1 ELSE index[p]]
    IN /\ At(w, "increment")
       /\ buildIndex' = up(buildIndex)
       /\ worker' = [v \in Worker |->
             IF v = w THEN [worker[w] EXCEPT !.stage = "plan", !.index = up(@)]
             ELSE [worker[v] EXCEPT !.stale = @ \/ (At(v, "increment") /\ ours \cap PlatformsOf(worker[v].build) # {})]]
       /\ Stay /\ UNCHANGED <<messages, inPulp, plans, failures>>

\* The build's modules and tasks; an exception rolls them back for good
Plan(w, failing) ==
    LET b == worker[w].build
        plan == PlanBuild(b, preview[b].refs, worker[w].index, known, failing)
    IN /\ At(w, "plan")
       /\ MayFail(failing) /\ Count(failing)
       /\ Move(w, IF plan.error THEN Idle ELSE [worker[w] EXCEPT !.stage = "repos", !.plan = plan])
       /\ Stay /\ UNCHANGED <<messages, buildIndex, inPulp, plans>>

\* Mutant: repositories that exist are used.
TakeBuildRepos(w) ==
    /\ At(w, "repos")
    /\ inPulp' = inPulp \cup {worker[w].build}
    /\ Move(w, [worker[w] EXCEPT !.stage = "commit"])
    /\ Stay /\ UNCHANGED <<messages, buildIndex, plans, failures>>

\* init_build_repos: Pulp refuses a name that exists, which ends the message
InitBuildRepos(w) ==
    /\ At(w, "repos")
    /\ inPulp' = inPulp \cup {worker[w].build}
    /\ Move(w, IF worker[w].build \in inPulp THEN Idle ELSE [worker[w] EXCEPT !.stage = "commit"])
    /\ Stay /\ UNCHANGED <<messages, buildIndex, plans, failures>>

\* One of the calls fails, others have created their repository
PulpFails(w) ==
    /\ At(w, "repos") /\ failures < MaxFailures
    /\ failures' = failures + 1
    /\ inPulp' \in {inPulp, inPulp \cup {worker[w].build}}
    /\ Move(w, Idle)
    /\ Stay /\ UNCHANGED <<messages, buildIndex, plans>>

Commit(w) ==
    /\ At(w, "commit")
    /\ plans' = [plans EXCEPT ![worker[w].build] =
          Append(@, [plan |-> worker[w].plan, stale |-> worker[w].stale])]
    /\ Move(w, [worker[w] EXCEPT !.stage = "ack"])
    /\ Stay /\ UNCHANGED <<messages, buildIndex, inPulp, failures>>

Ack(w) ==
    /\ At(w, "ack")
    /\ Move(w, Idle)
    /\ Stay /\ UNCHANGED <<messages, buildIndex, inPulp, plans, failures>>

\* The worker dies, perhaps among the calls to Pulp
Crash(w) ==
    /\ ~At(w, "idle") /\ crashes < MaxCrashes
    /\ crashes' = crashes + 1
    /\ messages' = messages \cup {worker[w].build}
    /\ inPulp' \in IF At(w, "repos") THEN {inPulp, inPulp \cup {worker[w].build}} ELSE {inPulp}
    /\ Move(w, Idle)
    /\ UNCHANGED <<known, row, preview, buildIndex, plans, changes, failures>>

StartNext ==
    \/ \E b \in Build :
          \/ \E failing \in Failures \cup {{}} : CreateBuild(b, failing)
          \/ SendStartBuild(b)
          \/ \E w \in Worker : Fetch(w, b)
    \/ BeholderChanges
    \/ \E w \in Worker :
          \/ ReadIndex(w) \/ Increment(w) \/ InitBuildRepos(w) \/ PulpFails(w)
          \/ Commit(w) \/ Ack(w) \/ Crash(w)
          \/ \E failing \in Failures \cup {{}} : Plan(w, failing)

StartSpec == StartInit /\ [][StartNext]_startVars

(***************************************************************************)
(* Properties.                                                             *)
(***************************************************************************)
\* A build gets its tasks once, although start_build is delivered again when
\* the worker has died, after the commit too: one task for every project,
\* platform and architecture, sources included.  build_dependency_map and
\* everything that looks tasks up by index, platform and architecture relies
\* on it.
OnOnePlatform(b) == Len(Request[b].platforms) = 1
Projects(b, refs) ==
    FoldLeft(LAMBDA n, i : n + (IF IsModule(Request[b].tasks[i])
                                THEN Cardinality(EnabledIn(refs[i])) ELSE 1),
             0, [i \in DOMAIN Request[b].tasks |-> i])
Targets(b) == UNION {{p.name} \X (Range(p.arches) \cup {"src"}) : p \in Range(Request[b].platforms)}
TasksAreGrid ==
    \A b \in Build :
        /\ Len(plans[b]) <= 1
        /\ \A committed \in Range(plans[b]) :
              LET tasks == committed.plan.tasks
                  indexes == {t.index : t \in tasks}
              IN /\ {<<t.index, <<t.platform, t.arch>>>> : t \in tasks} = indexes \X Targets(b)
                 /\ Cardinality(tasks) = Cardinality(indexes) * Cardinality(Targets(b))
                 /\ OnOnePlatform(b) => indexes = 0..(Projects(b, preview[b].refs) - 1)

\* The dist of a package is the user's, else that of its git tag; that of a
\* build's only module, or of one with options of its own, the same, and without
\* a tag that of the only module names it and the index drawn for it.  No two
\* builds draw the same index, unless another one has counted it up between
\* the two statements (both drew the same).
UsersDist(b, t) ==
    IF ~IsModule(t) THEN t.dist ELSE IF Request[b].definitions THEN Request[b].dist ELSE NoDist
OnlyModule(b, i) == \A j \in DOMAIN Request[b].tasks : IsModule(Request[b].tasks[j]) => j = i
DistOf(b, i, plan) ==
    LET t == Request[b].tasks[i]
        p == Request[b].platforms[1]
    IN /\ UsersDist(b, t) # NoDist => plan.dists[i] = UsersDist(b, t)
       /\ UsersDist(b, t) = NoDist =>
             /\ ~IsModule(t) => plan.dists[i] = t.tag
             /\ IsModule(t) /\ t.tag # NoDist /\ (OnlyModule(b, i) \/ ~Request[b].definitions) =>
                   plan.dists[i] = t.tag
             /\ IsModule(t) /\ t.tag = NoDist /\ OnlyModule(b, i) /\ OnOnePlatform(b) /\ p.arches # <<>> =>
                   plan.dists[i] = [module |-> i, index |-> plan.index[p.name], prefix |-> p.name]
DistIsOwn ==
    /\ \A b \in Build : \A committed \in Range(plans[b]) : \A i \in DOMAIN Request[b].tasks :
          DistOf(b, i, committed.plan)
    /\ \A b, c \in {b \in Build : HasModules(b)} : b # c =>
          \A x \in Range(plans[b]), y \in Range(plans[c]) :
             ~x.stale /\ ~y.stale =>
                \A p \in PlatformsOf(b) \cap PlatformsOf(c) : x.plan.index[p] # y.plan.index[p]

\* A component that the preview takes over is in the module as a whole: in
\* each architecture all its packages of the version that was asked for, its
\* source, and in x86_64 the i686 packages.  The beholder must know the same,
\* and answer, at the request and when the build is started; and of a
\* component whose packages are all filtered the source must be, too.
SourceIsListed(c) == c \in Filtered \/ \E p \in PackagesOf[c] : p.name \notin Filtered
PrebuiltIsWhole ==
    \A b \in Build : \A committed \in Range(plans[b]) :
        LET plan == committed.plan IN
        plan.known = preview[b].known /\ plan.failing = {} /\ preview[b].failing = {} /\ ~Request[b].beta =>
            \A m \in plan.modules, c \in Component \ Renamed :
                m.arch # "src" /\ preview[b].refs[m.nr][c].added # {} /\ SourceIsListed(c) =>
                    LET v == Request[b].tasks[m.nr].wants[c] IN
                    {a \in m.lists["plain"] \cup m.lists["devel"] : a.comp = c} =
                        Built(c, v, m.arch) \cup {SourceOf(c, v)}
                        \cup (IF m.arch = X86 THEN Multilib(c, v) ELSE {})
===============================================================================
