------------------------------- MODULE Products -------------------------------
(***************************************************************************)
(* Products: the repositories that users fill with the packages of their   *)
(* builds.  Requests change the database in one transaction each; what a   *)
(* request changes in Pulp stays when its transaction is rolled back.      *)
(* Builds are added and removed by the workers of the product_modify       *)
(* queue, several processes that never retry, and users are removed by a   *)
(* worker, together with their builds.                                     *)
(*                                                                         *)
(* The packages of one build for one repository are one unit, builds share *)
(* no packages, and a product is always created for the same owner.        *)
(***************************************************************************)
EXTENDS Teams

CONSTANTS
    Product, Build, Repo, Worker,
    TeamOf,      \* the team named after a product
    OwnerOf,     \* the user a product is created for
    NamedAfter,  \* the products whose full name begins with that of a product
    ReposOf,     \* the repositories a build has packages for
    RoleSets,    \* the sets of roles a request about roles may name
    MaxEvents,   \* bound on the requests after creation
    New, Gone, Queued

ASSUME ProductsAssumption ==
    /\ TeamOf \in [Product -> Team] /\ OwnerOf \in [Product -> User]
    /\ NamedAfter \in [Product -> SUBSET Product]
    /\ ReposOf \in [Build -> SUBSET Repo] /\ RoleSets \subseteq SUBSET RoleName /\ MaxEvents \in Nat

VARIABLES
    product,   \* id and repositories of a product in the database
    members,   \* builds in products
    build,     \* New, Gone, or owner, team and whether it is built
    stored,    \* builds whose repositories are in Pulp
    content,   \* what the Pulp repositories of a product hold
    served,    \* products whose distributions are in Pulp
    keyed,     \* products with a sign key repository in Pulp
    queue,     \* messages for the workers
    job,       \* what a worker does
    removal,   \* the product as a request to remove it loaded it
    leaving,   \* users to be removed: queued, or the builds to do and done
    events,
    off,       \* of builds and repositories whose state an interrupted,
               \* overlapped or early modification left open
    hurt       \* builds that lost their Pulp repositories to a rolled back removal
pulpVars == <<stored, content, served, keyed>>
workVars == <<queue, job>>
leaveVars == <<leaving, hurt>>
vars == <<teamVars, product, members, build, pulpVars, workVars, removal, leaveVars, events, off>>

Change == {"add", "remove"}
Units == Build \X Repo
Message == [id : 1..MaxEvents, build : Build, product : Product, of : 0..MaxEvents, change : Change]
Job == [msg : Message, held : BOOLEAN, repos : SUBSET Repo, todo : SUBSET Repo,
        stage : {"loaded", "looked"}, alone : BOOLEAN, changed : BOOLEAN]
ProductRow == [id : 0..MaxEvents, repos : SUBSET Repo]
BuildRow == [owner : User, team : Team, built : BOOLEAN]
LeavingRow == [todo : SUBSET Build, done : SUBSET Build]

ASSUME MarkersAssumption ==
    /\ New # Gone /\ {New, Gone} \cap BuildRow = {} /\ {None, Queued} \cap LeavingRow = {}
    /\ None \notin ProductRow /\ None \notin Job

TypeOK ==
    /\ TeamsTypeOK
    /\ product \in [Product -> ProductRow \cup {None}]
    /\ members \subseteq Product \X Build
    /\ build \in [Build -> BuildRow \cup {New, Gone}]
    /\ stored \subseteq Build
    /\ content \in [Product -> SUBSET Units]
    /\ served \subseteq Product /\ keyed \subseteq Product
    /\ queue \subseteq Message
    /\ job \in [Worker -> Job \cup {None}]
    /\ removal \in [Product -> [id : 0..MaxEvents, held : SUBSET Build] \cup {None}]
    /\ leaving \in [User -> LeavingRow \cup {None, Queued}]
    /\ events \in 0..MaxEvents
    /\ off \subseteq Product \X Units
    /\ hurt \subseteq Build

Init ==
    /\ user = User /\ team = [t \in Team |-> None] /\ roles = [u \in User |-> {}]
    /\ product = [p \in Product |-> None] /\ members = {}
    /\ build = [b \in Build |-> New] /\ stored = {}
    /\ content = [p \in Product |-> {}] /\ served = {} /\ keyed = {}
    /\ queue = {} /\ job = [w \in Worker |-> None]
    /\ removal = [p \in Product |-> None] /\ leaving = [u \in User |-> None]
    /\ events = 0 /\ off = {} /\ hurt = {}

Request == events < MaxEvents /\ events' = events + 1
InDB(b) == build[b] \notin {New, Gone}
BuildsOf(p) == {b \in Build : <<p, b>> \in members}
Doing(p, b) == {w \in Worker : job[w] # None /\ job[w].msg.product = p /\ job[w].msg.build = b}
\* The product a message is about is still the one in the database
Same(m) == product[m.product] # None /\ product[m.product].id = m.of
Pair(p, b, repos) == {<<p, <<b, r>>>> : r \in repos}
\* Rows of builds that a removal of their owner has deleted and not committed
Locked == UNION {leaving[u].done : u \in {v \in User : leaving[v] \notin {None, Queued}}}
ProductAllows(u, p, action) == CanPerform(u, OwnerOf[p], RolesOf(TeamOf[p]), action)
\* Units of new repositories of a product that are not what its builds say
Leftover(p, repos) ==
    {<<p, x>> : x \in {x \in Build \X repos :
        Doing(p, x[1]) # {} \/ (x \in content[p]) # (<<p, x[1]>> \in members)}}

(***************************************************************************)
(* Requests about products and builds.                                     *)
(***************************************************************************)
\* add_repos_to_product: Pulp repositories of that name are taken over as they
\* are, and those without a distribution get one
AddRepos(p) == served' = served \cup {p}

\* create_product: a sign key repository that exists is an error
CreateProduct(p, repos, community) ==
    LET t == TeamOf[p]
        owner == OwnerOf[p] IN
    /\ owner \in user /\ product[p] = None
    /\ AddRepos(p)
    /\ \/ community /\ p \in keyed /\ UNCHANGED <<teamVars, product, keyed, off>>
       \/ /\ community => p \notin keyed
          /\ keyed' = IF community THEN keyed \cup {p} ELSE keyed
          /\ IF team[t] = None THEN NewTeam(t, owner) ELSE UNCHANGED team
          /\ roles' = [roles EXCEPT ![owner] = @ \cup RolesOf(t)]
          /\ product' = [product EXCEPT ![p] = [id |-> events, repos |-> repos]]
          /\ off' = (off \ ({p} \X Units)) \cup Leftover(p, repos)
          /\ UNCHANGED user
    /\ UNCHANGED <<members, build, stored, content, workVars, removal, leaveVars, events>>

\* add_platform_to_product
AddPlatform(u, p, repos) ==
    /\ Request
    /\ u \in user /\ product[p] # None /\ ProductAllows(u, p, "UpdateProduct")
    /\ product' = [product EXCEPT ![p].repos = @ \cup repos]
    /\ AddRepos(p)
    /\ off' = off \cup Leftover(p, repos \ product[p].repos)
    /\ UNCHANGED <<teamVars, members, build, stored, content, keyed, workVars, removal, leaveVars>>

\* modify_product: membership is checked now, the worker changes it later
ModifyProduct(u, p, b, change) ==
    /\ Request
    /\ u \in user /\ product[p] # None /\ InDB(b) /\ ProductAllows(u, p, "UpdateProduct")
    /\ (change = "add") = (<<p, b>> \notin members)
    /\ queue' = queue \cup {[id |-> events', build |-> b, product |-> p,
                             of |-> product[p].id, change |-> change]}
    /\ UNCHANGED <<teamVars, product, members, build, pulpVars, job, removal, leaveVars, off>>

\* remove_product.  The names of its repositories are looked for among those of
\* distributions, which end in "-distro": none is deleted.
BeginRemoval(u, p) ==
    /\ Request
    /\ u \in user /\ product[p] # None /\ removal[p] = None
    /\ ProductAllows(u, p, "DeleteProduct")
    /\ \A b \in Build : InDB(b) /\ build[b].team = TeamOf[p] => build[b].built
    /\ removal' = [removal EXCEPT ![p] = [id |-> product[p].id, held |-> BuildsOf(p)]]
    /\ served' = served \ NamedAfter[p]
    /\ UNCHANGED <<teamVars, product, members, build, stored, content, keyed, workVars,
                   leaveVars, off>>

\* The rows are deleted as they were loaded, or not at all
EndRemoval(p) ==
    /\ removal[p] # None
    /\ removal' = [removal EXCEPT ![p] = None]
    /\ \/ UNCHANGED <<product, members>>
       \/ /\ BuildsOf(p) = removal[p].held
          /\ product' = [product EXCEPT ![p] = None]
          /\ members' = members \ ({p} \X Build)
    /\ UNCHANGED <<teamVars, build, pulpVars, workVars, leaveVars, events, off>>

CreateBuild(u, p, b) ==
    /\ u \in user /\ product[p] # None /\ build[b] = New /\ ProductAllows(u, p, "CreateBuild")
    /\ build' = [build EXCEPT ![b] = [owner |-> u, team |-> TeamOf[p], built |-> FALSE]]
    /\ UNCHANGED <<teamVars, product, members, pulpVars, workVars, removal, leaveVars, events, off>>

\* The repositories of a build get their packages from the tasks of the build
FinishBuild(b) ==
    /\ InDB(b) /\ ~build[b].built /\ b \notin Locked
    /\ build' = [build EXCEPT ![b].built = TRUE]
    /\ stored' = stored \cup {b}
    /\ UNCHANGED <<teamVars, product, members, content, served, keyed, workVars, removal,
                   leaveVars, events, off>>

\* What remove_build_data leaves: failures of Pulp are logged
Unstored(b) == stored' \in {stored, stored \ {b}}

RemoveBuild(b) ==
    /\ Request
    /\ InDB(b) /\ b \notin Locked /\ \A p \in Product : <<p, b>> \notin members
    /\ build' = [build EXCEPT ![b] = Gone]
    /\ Unstored(b)
    /\ UNCHANGED <<teamVars, product, members, content, served, keyed, workVars, removal,
                   leaveVars, off>>

(***************************************************************************)
(* The workers of product_modify.                                          *)
(***************************************************************************)
\* A message whose product or build is gone fails before it does anything
Load(w, m) ==
    LET p == m.product
        b == m.build
        found == Same(m) /\ InDB(b) IN
    /\ job[w] = None /\ m \in queue
    /\ queue' = queue \ {m}
    /\ IF found
       THEN job' = [v \in Worker |->
                CASE v = w -> [msg |-> m, held |-> <<p, b>> \in members, repos |-> product[p].repos,
                               todo |-> {}, stage |-> "loaded", changed |-> FALSE,
                               alone |-> Doing(p, b) = {} /\ build[b].built]
                  [] v \in Doing(p, b) -> [job[v] EXCEPT !.alone = FALSE]
                  [] OTHER -> job[v]]
       ELSE UNCHANGED job
    /\ UNCHANGED <<teamVars, product, members, build, pulpVars, removal, leaveVars, events, off>>

\* get_packages: packages of the build the repository has not, or has
Existing(p, b) == {r \in Repo : <<b, r>> \in content[p]}
Wanted(mine, there, change) == IF change = "add" THEN mine \ there ELSE mine \cap there

\* prepare_repo_modify_dict
Look(w) ==
    /\ job[w] # None /\ job[w].stage = "loaded"
    /\ LET j == job[w]
           b == j.msg.build
           mine == {r \in j.repos \cap ReposOf[b] : b \in stored}
       IN /\ InDB(b) /\ build[b].built => b \in stored
          /\ job' = [job EXCEPT ![w].stage = "looked",
                       ![w].todo = Wanted(mine, Existing(j.msg.product, b), j.msg.change)]
    /\ UNCHANGED <<teamVars, product, members, build, pulpVars, queue, removal, leaveVars, events, off>>

Modify(w, r) ==
    /\ job[w] # None /\ r \in job[w].todo
    /\ LET m == job[w].msg
           unit == {<<m.build, r>>} IN
       content' = [content EXCEPT ![m.product] = IF m.change = "add" THEN @ \cup unit ELSE @ \ unit]
    /\ job' = [job EXCEPT ![w].todo = @ \ {r}, ![w].changed = TRUE]
    /\ UNCHANGED <<teamVars, product, members, build, stored, served, keyed, queue, removal,
                   leaveVars, events, off>>

\* The membership as it was loaded decides what is written: a build that was
\* there is not added again, one that was not cannot be removed.  Keys of the
\* database and the counts of deleted rows refuse what no longer fits.
Recorded(j, m) ==
    LET p == j.msg.product
        b == j.msg.build IN
    \/ j.msg.change = "add" /\ j.held /\ m = members
    \/ /\ j.msg.change = "add" /\ ~j.held /\ <<p, b>> \notin members
       /\ Same(j.msg) /\ InDB(b)
       /\ m = members \cup {<<p, b>>}
    \/ /\ j.msg.change = "remove" /\ j.held /\ <<p, b>> \in members
       /\ Same(j.msg)
       /\ m = members \ {<<p, b>>}

\* Mutant: the calls that modify the repositories are not waited for.
FinishEarly(w) ==
    /\ job[w] # None /\ job[w].stage = "looked"
    /\ job[w].msg.build \notin Locked
    /\ Recorded(job[w], members')
    /\ LET pair == Pair(job[w].msg.product, job[w].msg.build, job[w].repos) IN
       off' = IF job[w].alone /\ Same(job[w].msg) THEN off \ pair ELSE off \cup pair
    /\ job' = [job EXCEPT ![w] = None]
    /\ UNCHANGED <<teamVars, product, build, pulpVars, queue, removal, leaveVars, events>>

Finish(w) ==
    /\ job[w] # None /\ job[w].stage = "looked" /\ job[w].todo = {}
    /\ LET j == job[w]
           pair == Pair(j.msg.product, j.msg.build, j.repos) IN
       /\ j.msg.build \notin Locked
       /\ Recorded(j, members')
       /\ off' = IF j.alone /\ Same(j.msg) THEN off \ pair ELSE off \cup pair
    /\ job' = [job EXCEPT ![w] = None]
    /\ UNCHANGED <<teamVars, product, build, pulpVars, queue, removal, leaveVars, events>>

\* A failing call to Pulp, a refused commit, the time limit, or a worker that
\* dies, whose message is delivered again
Lose(w) ==
    /\ job[w] # None
    /\ job' = [job EXCEPT ![w] = None]
    /\ queue' \in {queue, queue \cup {job[w].msg}}
    /\ off' = IF job[w].changed \/ ~job[w].alone
              THEN off \cup Pair(job[w].msg.product, job[w].msg.build, job[w].repos) ELSE off
    /\ UNCHANGED <<teamVars, product, members, build, pulpVars, removal, leaveVars, events>>

(***************************************************************************)
(* The removal of a user.                                                  *)
(***************************************************************************)
Owns(u) ==
    \/ \E p \in Product : product[p] # None /\ OwnerOf[p] = u
    \/ \E t \in Team : team[t] # None /\ u \in team[t].members \cup {team[t].owner}

AskToRemove(u) ==
    /\ Request
    /\ u \in user /\ ~Owns(u) /\ leaving[u] = None
    /\ leaving' = [leaving EXCEPT ![u] = Queued]
    /\ UNCHANGED <<teamVars, product, members, build, pulpVars, workVars, removal, off, hurt>>

Leave(u) ==
    /\ leaving[u] = Queued
    /\ leaving' = [leaving EXCEPT ![u] =
            [todo |-> {b \in Build : InDB(b) /\ build[b].owner = u}, done |-> {}]]
    /\ UNCHANGED <<teamVars, product, members, build, pulpVars, workVars, removal, events, off, hurt>>

\* Mutant: the products of a build are not looked at.
LeaveAnyBuild(u, b) ==
    /\ leaving[u] \notin {None, Queued} /\ b \in leaving[u].todo /\ InDB(b)
    /\ leaving' = [leaving EXCEPT ![u] = [todo |-> @.todo \ {b}, done |-> @.done \cup {b}]]
    /\ Unstored(b)
    /\ UNCHANGED <<teamVars, product, members, build, content, served, keyed, workVars,
                   removal, events, off, hurt>>

\* remove_build_job for one of the builds: its rows go with the transaction,
\* its Pulp repositories at once
LeaveBuild(u, b) ==
    /\ leaving[u] \notin {None, Queued} /\ b \in leaving[u].todo
    /\ InDB(b) /\ \A p \in Product : <<p, b>> \notin members
    /\ leaving' = [leaving EXCEPT ![u] = [todo |-> @.todo \ {b}, done |-> @.done \cup {b}]]
    /\ Unstored(b)
    /\ UNCHANGED <<teamVars, product, members, build, content, served, keyed, workVars,
                   removal, events, off, hurt>>

Left(u) ==
    /\ leaving[u] \notin {None, Queued} /\ leaving[u].todo = {}
    /\ ~Owns(u) /\ \A b \in Build : InDB(b) /\ build[b].owner = u => b \in leaving[u].done
    /\ user' = user \ {u} /\ roles' = [roles EXCEPT ![u] = {}]
    /\ build' = [b \in Build |-> IF b \in leaving[u].done THEN Gone ELSE build[b]]
    /\ leaving' = [leaving EXCEPT ![u] = None]
    /\ UNCHANGED <<team, product, members, pulpVars, workVars, removal, events, off, hurt>>

\* A build that is in a product, one that is gone, rows that refer to the user or
\* the end of the worker: the transaction is rolled back, nothing tries again
\* unless the worker died
Stay(u) ==
    /\ leaving[u] \notin {None, Queued}
    /\ leaving' \in {[leaving EXCEPT ![u] = v] : v \in {None, Queued}}
    /\ hurt' = hurt \cup leaving[u].done
    /\ UNCHANGED <<teamVars, product, members, build, pulpVars, workVars, removal, events, off>>

(***************************************************************************)
(* Requests about teams.                                                   *)
(***************************************************************************)
Referred(t) ==
    \/ \E p \in Product : product[p] # None /\ TeamOf[p] = t
    \/ \E b \in Build : InDB(b) /\ build[b].team = t

ChangeTeam ==
    /\ Request
    /\ \E u \in User, t \in Team :
          \/ CreateTeam(t, u)
          \/ RemoveTeam(u, t, Referred(t))
          \/ \E m \in User :
                \/ AddMember(u, t, m)
                \/ RemoveMember(u, t, m)
                \/ \E names \in RoleSets : AddRoles(u, m, {t} \X names) \/ RemoveRoles(u, m, {t} \X names)
    /\ UNCHANGED <<product, members, build, pulpVars, workVars, removal, leaveVars, off>>

Next ==
    \/ \E p \in Product, repos \in SUBSET Repo \ {{}}, c \in BOOLEAN : CreateProduct(p, repos, c)
    \/ \E u \in User, p \in Product, repos \in SUBSET Repo \ {{}} : AddPlatform(u, p, repos)
    \/ \E u \in User, p \in Product, b \in Build, c \in Change : ModifyProduct(u, p, b, c)
    \/ \E u \in User, p \in Product : BeginRemoval(u, p)
    \/ \E p \in Product : EndRemoval(p)
    \/ \E u \in User, p \in Product, b \in Build : CreateBuild(u, p, b)
    \/ \E b \in Build : FinishBuild(b) \/ RemoveBuild(b)
    \/ \E w \in Worker : (\E m \in queue : Load(w, m)) \/ Look(w) \/ Finish(w) \/ Lose(w)
    \/ \E w \in Worker, r \in Repo : Modify(w, r)
    \/ \E u \in User : AskToRemove(u) \/ Leave(u) \/ Left(u) \/ Stay(u)
    \/ \E u \in User, b \in Build : LeaveBuild(u, b)
    \/ ChangeTeam

Spec == Init /\ [][Next]_vars

(***************************************************************************)
(* Properties.                                                             *)
(***************************************************************************)
\* Every repository of a product holds the packages of exactly the builds the
\* database lists, however the modifications of the product, of its platforms
\* and its removal interleave.  Left out: builds being modified, and what an
\* interrupted or overlapped modification, a build that was not finished or a
\* platform added later left open (dramatiq/products.py).
ProductHoldsItsBuilds ==
    \A p \in Product, b \in Build : product[p] # None /\ Doing(p, b) = {} =>
        \A r \in product[p].repos \cap ReposOf[b] : <<p, <<b, r>>>> \notin off =>
            (<<b, r>> \in content[p] <=> <<p, b>> \in members)

\* A build in a product is in the database, and once it is built its Pulp
\* repositories are there too, unless the removal of its owner was rolled back
\* after it had deleted them (crud/build.py remove_build_data).
MembersKeepRepositories ==
    \A p \in Product, b \in Build : <<p, b>> \in members =>
        InDB(b) /\ (build[b].built => b \in stored \cup hurt)

===============================================================================
