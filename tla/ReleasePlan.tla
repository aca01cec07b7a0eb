----------------------------- MODULE ReleasePlan ------------------------------
(***************************************************************************)
(* The packages of a release: in which repositories of the platform, or of *)
(* the community product, the plan puts each, which copy of it is          *)
(* released, and what executing and reverting plans makes of production,   *)
(* release after release.  The requests and their worker are in Releases,  *)
(* which takes a plan as a whole; signatures, modules and notarization are *)
(* left out.                                                               *)
(*                                                                         *)
(* Builds that build a package again produce copies of one NEVRA.          *)
(***************************************************************************)
EXTENDS Beholder, FiniteSets

CONSTANTS
    Release, BuildId,
    BuildOf,        \* the build a release is of
    Beta,           \* builds with a beta flavour
    Package,        \* [version, arch, task]: task is the architecture it was built for
    PlatformRepo,   \* <<name, arch>> of the repositories of the platform
    ProductRepo,    \* those a community product has for the platform
    PriorityArch,   \* Platform.copy_priority_arches
    Answers,        \* sequences of lines beholder may answer with
    Production,     \* what the repositories may hold at first: one copy of a package
    MaxRequests, MaxEdits,
    Nothing

Arch == {repo[2] : repo \in PlatformRepo}
Copies == [build : BuildId, package : Package]

\* retrieve_responses: platforms by priority, of a platform the vaguest match first
InOrder(s) == \A i, j \in DOMAIN s : i < j =>
    \/ s[i].platform < s[j].platform
    \/ s[i].platform = s[j].platform /\ s[i].priority >= s[j].priority

ASSUME PlanAssumption ==
    /\ Beta \subseteq BuildId /\ BuildOf \in [Release -> BuildId]
    /\ MaxRequests \in Nat /\ MaxEdits \in Nat
    \* get_production_repositories_mapping: of an architecture the last one
    /\ ProductRepo \subseteq PlatformRepo
    /\ \A r, s \in ProductRepo : r[2] = s[2] => r = s
    /\ Nothing \notin Copies
    /\ \A a \in DOMAIN WeakOf : a \notin WeakOf[a]
    /\ \A s \in Answers :
          /\ Len(s) \in Nat /\ DOMAIN s = 1..Len(s) /\ InOrder(s)
          /\ \A i \in DOMAIN s : /\ s[i].arch \in DOMAIN WeakOf /\ s[i].devel \in BOOLEAN
                                /\ s[i].platform \in Nat /\ s[i].priority \in Nat
    /\ \A held \in Production :
          /\ held \in [PlatformRepo -> SUBSET Copies]
          /\ \A r, s \in PlatformRepo : r[2] # I686 /\ s[2] # I686 =>
                \A c \in held[r], d \in held[s] : c.package = d.package => c = d

VARIABLES
    community, \* which planner is used: Product.is_community
    lines,    \* what beholder answers
    prod,     \* copies in the repositories of the platform
    plan,     \* Release.plan["packages"]
    log,      \* Release.plan["last_log"]
    done,     \* releases that are completed
    forced,   \* packages that were ever released by force
    edited,   \* releases whose plan a user changed
    requests, edits
planVars == <<community, lines, prod, plan, log, done, forced, edited, requests, edits>>

\* A copy of a package; an entry of a plan: a package for repositories of one name
Copy(b, p) == [build |-> b, package |-> p]
CopiesOf(p, repos) == {c \in UNION {prod[repo] : repo \in repos} : c.package = p}

PlanInit ==
    /\ community \in BOOLEAN
    /\ IF community THEN lines = <<>> /\ prod = [repo \in PlatformRepo |-> {}]
       ELSE lines \in Answers /\ prod \in Production
    /\ plan = [r \in Release |-> Nothing] /\ log = [r \in Release |-> Nothing]
    /\ done = {} /\ forced = {} /\ edited = {} /\ requests = 0 /\ edits = 0

(***************************************************************************)
(* get_release_plan                                                        *)
(***************************************************************************)
\* Everything goes to "devel" that beholder knows nothing of
DevelRepo(p) == <<"devel", IF p.arch = "src" THEN "src" ELSE p.task>>
\* get_pulp_based_response, and the plan of a package nothing was found for
Unknown(p) == {DevelRepo(p)}
\* The repositories of the platform for what was found
Known(p, found) ==
    {repo \in (IF found = {} THEN Unknown(p)
               ELSE {IF repo \in PlatformRepo THEN repo ELSE DevelRepo(p) : repo \in found}) :
        repo \in PlatformRepo}

\* Functions that choose one of the values that are possible for each argument
Selections(possible) ==
    {f \in [DOMAIN possible -> UNION Range(possible)] : \A x \in DOMAIN possible : f[x] \in possible[x]}

\* One entry for a name, with any of the repositories of that name, and all
\* architectures it is for
Entry(p, repos, repo) ==
    LET archs == {other[2] : other \in {other \in repos : other[1] = repo[1]}} IN
    [package |-> p, repos |-> {repo}, force |-> FALSE, from |-> Nothing,
     arches |-> IF p.arch = "noarch" THEN Arch
                ELSE IF p.arch = I686 /\ "x86_64" \in archs THEN archs \cup {I686} ELSE archs]
Entries(p, repos) ==
    {{Entry(p, repos, repo) : repo \in Range(chosen)} :
        chosen \in Selections([name \in {repo[1] : repo \in repos} |-> {repo \in repos : repo[1] = name}])}

\* The copy of a package that production has: where the architecture has priority,
\* else anywhere but for i686
Present(p) ==
    LET first == CopiesOf(p, {repo \in PlatformRepo : repo[2] \in PriorityArch \ {I686}}) IN
    IF first # {} THEN first ELSE CopiesOf(p, {repo \in PlatformRepo : repo[2] # I686})

\* Mutant: what was found when the release was planned is used.
AsPlanned(entries) == {entries}

\* check_packages_presence_in_prod_repositories: what was found earlier stays when
\* production has no copy any more
Checked(entries) ==
    {{[e EXCEPT !.from = IF found[e.package] = Nothing THEN @ ELSE found[e.package]] : e \in entries} :
        found \in Selections([p \in Package |-> IF Present(p) = {} THEN {Nothing} ELSE Present(p)])}

\* What the planner may find for a package, and how it may enter a plan
Found(p, b, cache) ==
    {plain \cup devel :
        plain \in FindReleaseRepos(cache, p.version, p.arch, b \in Beta, FALSE),
        devel \in FindReleaseRepos(cache, p.version, p.arch, b \in Beta, TRUE)}
EntriesFor(p, b, cache) == UNION {Entries(p, Known(p, f)) : f \in Found(p, b, cache)}

Plans(r, cache) ==
    {UNION Range(choice) :
        choice \in Selections([p \in Package |-> EntriesFor(p, BuildOf[r], cache)])}

\* CommunityReleasePlanner: the product's repository of the architecture, which it
\* must have, or all of them; production is not looked at
RepoFor(p) ==
    IF p.arch = "noarch" THEN ProductRepo ELSE {repo \in ProductRepo : repo[2] = p.arch}
CommunityPlans ==
    {{[package |-> p, repos |-> RepoFor(p), force |-> FALSE, from |-> Nothing,
       arches |-> IF p.arch = "noarch" THEN Arch ELSE {p.arch} \cup multilib[p]] : p \in Package} :
        multilib \in {m \in [Package -> {{}, {"x86_64"}}] :
            \A p \in Package : (p.arch # "noarch" => RepoFor(p) # {}) /\ (p.arch # I686 => m[p] = {})}}

\* Only AlmaLinux's planner checks what production has
Updated(entries) == IF community THEN {entries} ELSE Checked(entries)

Plan(r) ==
    /\ plan[r] = Nothing
    /\ \E entries \in (IF community THEN CommunityPlans ELSE Plans(r, Cache(lines))) :
          \E checked \in Updated(entries) : plan' = [plan EXCEPT ![r] = checked]
    /\ UNCHANGED <<community, lines, prod, log, done, forced, edited, requests, edits>>

\* update_release: the plan as the user sends it back, with packages to force and
\* repositories for the architectures of an entry
Edit(r) ==
    /\ plan[r] # Nothing /\ edits < MaxEdits /\ edits' = edits + 1
    /\ \E force \in SUBSET Package, all \in SUBSET Package :
          LET sent == {[e EXCEPT !.force = e.package \in force,
                                 !.repos = IF e.package \in all
                                           THEN {repo \in PlatformRepo :
                                                    /\ \E own \in @ : own[1] = repo[1]
                                                    /\ repo[2] \in e.arches}
                                           ELSE @] : e \in plan[r]}
          IN \E checked \in Updated(sent) : plan' = [plan EXCEPT ![r] = checked]
    /\ edited' = edited \cup {r}
    /\ UNCHANGED <<community, lines, prod, log, done, forced, requests>>

(***************************************************************************)
(* execute_release_plan and remove_packages_from_repositories              *)
(***************************************************************************)
MayRequest == requests < MaxRequests /\ requests' = requests + 1
Released(r, e) == IF e.force \/ e.from = Nothing THEN Copy(BuildOf[r], e.package) ELSE e.from
Has(repo, p) == CopiesOf(p, {repo}) # {}
Targets(e) == {repo \in e.repos : community \/ e.force \/ ~Has(repo, e.package)}
Refused(e) == e.from = Nothing /\ Targets(e) # e.repos

\* Pulp keeps one copy of a NEVRA in a repository
Put(copies, new) == {c \in copies : \A n \in new : n.package # c.package} \cup new

Execute(r, entries) ==
    /\ prod' = [repo \in PlatformRepo |->
           Put(prod[repo], {Released(r, e) : e \in {e \in entries : repo \in Targets(e)}})]
    /\ done' = done \cup {r}
    /\ forced' = forced \cup {e.package : e \in {e \in entries : e.force}}
    /\ log' = [log EXCEPT ![r] = <<"committed">>]

\* The message names a package and a repository that has it
Refuse(r, entries) ==
    /\ \E e \in {e \in entries : Refused(e)} : \E repo \in e.repos \ Targets(e) :
          log' = [log EXCEPT ![r] = <<"refused", e.package, repo>>]
    /\ done' = done \ {r}
    /\ UNCHANGED <<prod, forced>>

\* The plan changes in place: what the check found is saved when the log changes
Commit(r) ==
    /\ MayRequest /\ plan[r] \notin {Nothing, {}}
    /\ \E entries \in Updated(plan[r]) :
          /\ IF \E e \in entries : Refused(e) THEN Refuse(r, entries) ELSE Execute(r, entries)
          /\ plan' = IF log' = log THEN plan ELSE [plan EXCEPT ![r] = entries]
    /\ UNCHANGED <<community, lines, edited, edits>>

\* The copies of the release's own builds leave all of its repositories
Revert(r) ==
    /\ MayRequest /\ r \in done
    /\ LET repos == UNION {e.repos : e \in plan[r]}
           own == {Copy(BuildOf[r], e.package) : e \in plan[r]}
       IN prod' = [repo \in PlatformRepo |-> IF repo \in repos THEN prod[repo] \ own ELSE prod[repo]]
    /\ done' = done \ {r} /\ log' = [log EXCEPT ![r] = <<"reverted">>]
    /\ UNCHANGED <<community, lines, plan, forced, edited, edits>>

PlanNext == \E r \in Release : Plan(r) \/ Edit(r) \/ Commit(r) \/ Revert(r)

PlanSpec == PlanInit /\ [][PlanNext]_planVars

(***************************************************************************)
(* Properties.                                                             *)
(***************************************************************************)
\* However often a package is built again, planned, released and reverted, all
\* repositories of production but those for i686 have the same copy of it, unless
\* it was released by force, or a plan of a community product was edited, which
\* nothing checks (release_planner.py:1079).
OneCopy ==
    (community /\ edited # {}) \/ \A p \in Package \ forced :
        \A c, d \in CopiesOf(p, {repo \in PlatformRepo : repo[2] # I686}) : c = d

\* The best that the most important platform says of a package is planned: no
\* answer for another architecture, stability or version takes its place
\* (release_planner.py:1217).  Left out: architectures that take over what is
\* known of another one, but for i686, and answers next to an equally good one
\* without repositories.
Weak == UNION {WeakOf[a] : a \in DOMAIN WeakOf}
SameAs(m, l) == m.arch = l.arch /\ m.platform = l.platform /\ m.priority = l.priority
Best(i, p, beta) ==
    LET l == lines[i]
        about == {j \in DOMAIN lines : /\ Key(lines[j], p.arch) = Key(l, p.arch)
                                       /\ p.arch \in {lines[j].arch} \cup WeakOf[lines[j].arch]}
    IN /\ l.arch = p.arch /\ l.version = p.version /\ l.beta = beta
       /\ \A j \in about : lines[j].platform <= l.platform /\ lines[j].priority >= l.priority
       /\ \A j \in about : lines[j].repos # {} \/ ~SameAs(lines[j], l)
BestAnswerIsPlanned ==
    \A r \in Release \ edited : plan[r] # Nothing =>
        \A p \in Package, i \in DOMAIN lines :
            Best(i, p, BuildOf[r] \in Beta) /\ p.arch \notin Weak \ {I686} =>
                \A repo \in lines[i].repos \cap PlatformRepo :
                    \E e \in plan[r] : /\ e.package = p
                                       /\ \E own \in e.repos : own[1] = repo[1]
                                       /\ repo[2] \in e.arches
===============================================================================
