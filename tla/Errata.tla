-------------------------------- MODULE Errata --------------------------------
(***************************************************************************)
(* Advisories ("errata records") of one platform: they are matched with    *)
(* packages of builds, reviewed package by package, and released, which    *)
(* adds them to the updateinfo of the production repositories in Pulp.     *)
(*                                                                         *)
(* The API and the one worker of the "errata" queue change the rows of a   *)
(* record, the worker of the "releases" queue puts builds into production  *)
(* and takes them out.  Pulp is external and never rolled back.            *)
(***************************************************************************)
EXTENDS Integers, FiniteSets

CONSTANTS
    Record, Package, Build, Repo,
    RecordOf,    \* the record an errata package belongs to
    SourceOf,    \* its source package
    Candidates,  \* the builds with an artifact of its name, version and arch
    Adoptable,   \* those whose artifact in production has its arch and names its source
    ReposOf,     \* the repositories a build's artifact for it is released to
    Foreign,     \* repositories of another arch than the artifact's, if it has one
    Issued,      \* records issued by AlmaLinux itself
    Editor,      \* requests that may change packages side by side
    MaxEvents,   \* bound: requests, edits, resets, moved builds and lost jobs
    None

ASSUME ErrataAssumption ==
    /\ RecordOf \in [Package -> Record]
    /\ Candidates \in [Package -> SUBSET Build] /\ Adoptable \in [Package -> SUBSET Build]
    /\ ReposOf \in [Package -> SUBSET Repo] /\ Foreign \in [Package -> SUBSET Repo]
    /\ Issued \subseteq Record
    /\ MaxEvents \in Nat

VARIABLES
    status,      \* NewErrataRecord.release_status; "none" before it is created
    match,       \* status of the NewErrataToALBSPackage row of a package and build
    adopted,     \* packages whose row was found in production and names no build
    production,  \* builds whose packages are in the production repositories
    advisory,    \* <<package, build, repository>> listed in updateinfo
    planner,     \* the move of a build that is in Pulp and not yet in the database
    matchers,    \* transactions that looked up production to match records
    edit,        \* open requests to change package statuses
    asked,       \* release requests that have read the records' statuses
    queue,       \* release messages
    job,         \* the release the worker is processing
    unpublished, \* records committed as released before they were added to Pulp
    stuck,       \* records whose job was lost
    overlapped,  \* records with an edit that wrote over rows it had not read
    halted,      \* records with an approval that was answered an error and changed rows
    raced,       \* records matched or released with an old state of production
    declared,    \* records with packages a reviewer has set to "released"
    amended,     \* records and repositories that had them when they were released
    forced,      \* records last released by force
    events       \* requests, edits, resets, moves and lost jobs so far

rows == <<status, match, adopted>>
ghosts == <<overlapped, halted, raced, declared, amended, forced>>
vars == <<rows, production, advisory, planner, matchers, edit, asked, queue, job,
          unpublished, stuck, ghosts, events>>

\* ErrataReleaseStatus and ErrataPackageStatus
ReleaseStatus == {"NOT_RELEASED", "IN_PROGRESS", "RELEASED", "FAILED"}
PackageStatus == {"proposal", "skipped", "released", "approved"}

Matches == [Package -> [Build -> PackageStatus \cup {"none"}]]
PackagesOf(r) == {p \in Package : RecordOf[p] = r}
Row == {pb \in Package \X Build : pb[2] \in Candidates[pb[1]]}
StatusOf(m, row) == m[row[1]][row[2]]
Only(m, ps) == [p \in Package |-> IF p \in ps THEN m[p] ELSE [b \in Build |-> "none"]]
With(m, written) ==
    [p \in Package |-> [b \in Build |->
        IF <<p, b>> \in DOMAIN written THEN written[<<p, b>>] ELSE m[p][b]]]

Message == [records : SUBSET Record, late : BOOLEAN, force : BOOLEAN]
Matcher == [records : SUBSET Record, seen : SUBSET Build, create : BOOLEAN, worker : BOOLEAN]
Edit == [record : Record, build : Build, to : PackageStatus, rows : SUBSET Row,
         seen : Matches, adopted : SUBSET Package, gone : BOOLEAN]
Job == [message : Message, todo : SUBSET Record, record : Record \cup {None},
        found : SUBSET Build, seen : Matches, used : SUBSET Row,
        ready : SUBSET Record, failed : SUBSET Record, publishing : BOOLEAN]
Move == [build : Build, add : BOOLEAN]

ASSUME NoneAssumption == None \notin Job \cup Move \cup Record

TypeOK ==
    /\ status \in [Record -> ReleaseStatus \cup {"none"}]
    /\ match \in Matches /\ adopted \subseteq Package
    /\ production \subseteq Build
    /\ advisory \subseteq Package \X Build \X Repo
    /\ planner \in Move \cup {None}
    /\ matchers \subseteq Matcher
    /\ edit \in [Editor -> Edit \cup {None}]
    /\ asked \subseteq [message : Message, update : SUBSET Record]
    /\ queue \subseteq Message
    /\ job \in Job \cup {None}
    /\ unpublished \cup stuck \cup overlapped \cup halted \cup raced
           \cup declared \cup forced \subseteq Record
    /\ amended \subseteq Record \X Repo

Init ==
    /\ status = [r \in Record |-> "none"]
    /\ match = [p \in Package |-> [b \in Build |-> "none"]] /\ adopted = {}
    /\ production \in SUBSET Build
    /\ advisory = {} /\ planner = None /\ matchers = {}
    /\ edit = [e \in Editor |-> None]
    /\ asked = {} /\ queue = {} /\ job = None
    /\ unpublished = {} /\ stuck = {} /\ overlapped = {}
    /\ halted = {} /\ raced = {} /\ declared = {} /\ amended = {} /\ forced = {}
    /\ events = 0

WorkerIdle == job = None /\ ~\E x \in matchers : x.worker

\* Records whose row some transaction holds FOR UPDATE
Locked ==
    (IF job = None \/ job.publishing THEN {} ELSE job.message.records)
        \cup UNION {x.records : x \in {y \in matchers : ~y.create}}

\* Rows the job has written and not committed: those it found approved, a row
\* that was released already is left alone
Held == {row \in job.used : StatusOf(job.seen, row) # "released"}
FreeToWrite(written) == job # None /\ ~job.publishing => written \cap Held = {}

-----------------------------------------------------------------------------
(* Matching *)

\* Builds in production that match the package: one of them is adopted, passing
\* over noarch artifacts for a package of an arch.  For a new record that
\* AlmaLinux issued production is not looked at.
Found(p, x) ==
    IF x.create /\ RecordOf[p] \in Issued THEN {}
    ELSE x.seen \cap Candidates[p] \cap Adoptable[p]

\* get_matching_albs_packages: the row of the build found in production, or one
\* row for every build with a matching artifact ("named": the request names the
\* build whose artifacts count).
Matching(p, x, adopt, named) ==
    [b \in Build |->
        IF adopt # None THEN (IF b = adopt THEN "released" ELSE "none")
        ELSE IF b \notin Candidates[p] \/ named \notin {None, b} THEN "none"
        ELSE IF x.create /\ RecordOf[p] \in Issued THEN "approved" ELSE "proposal"]

\* A transaction locks records and asks Pulp what is in production
StartMatch(rs, create, worker) ==
    /\ matchers' = matchers \cup
           {[records |-> rs, seen |-> production, create |-> create, worker |-> worker]}
    /\ UNCHANGED <<rows, production, advisory, planner, edit, asked, queue, job,
                   unpublished, stuck, ghosts>>

\* create_new_errata and create_errata, processed by the worker
StartCreate(r) ==
    /\ WorkerIdle /\ status[r] = "none"
    /\ StartMatch({r}, TRUE, TRUE) /\ UNCHANGED events

\* reset_matched_errata_packages: the API, on a record of any status
StartReset(r) ==
    /\ events < MaxEvents /\ status[r] # "none" /\ r \notin Locked
    /\ StartMatch({r}, FALSE, FALSE) /\ events' = events + 1

\* reset_records_threshold: the worker, on the records that are not released
StartResetMany ==
    LET rs == {r \in Record : status[r] = "NOT_RELEASED"} IN
    /\ events < MaxEvents /\ WorkerIdle /\ rs # {} /\ rs \cap Locked = {}
    /\ StartMatch(rs, FALSE, TRUE) /\ events' = events + 1

\* The old rows are deleted, the matching ones inserted, and that committed
FinishMatch(x) ==
    LET ps == {p \in Package : RecordOf[p] \in x.records} IN
    /\ x \in matchers /\ matchers' = matchers \ {x}
    /\ \E adopt \in [ps -> Build \cup {None}], named \in Build \cup {None} :
          /\ \A p \in ps : IF Found(p, x) = {} THEN adopt[p] = None
                           ELSE adopt[p] \in Found(p, x)
          /\ named # None => x.create /\ x.records \subseteq Issued
          /\ match' = [p \in Package |->
                 IF p \in ps THEN Matching(p, x, adopt[p], named) ELSE match[p]]
          /\ adopted' = (adopted \ ps) \cup {p \in ps : adopt[p] # None}
    /\ status' = [r \in Record |->
           IF x.create /\ r \in x.records THEN "NOT_RELEASED" ELSE status[r]]
    /\ edit' = [e \in Editor |->
           IF edit[e] # None /\ edit[e].record \in x.records
           THEN [edit[e] EXCEPT !.gone = TRUE] ELSE edit[e]]
    /\ raced' = raced \cup (IF x.seen = production /\ planner = None THEN {} ELSE x.records)
    /\ UNCHANGED <<production, advisory, planner, asked, queue, job, unpublished, stuck,
                   overlapped, halted, declared, amended, forced, events>>

-----------------------------------------------------------------------------
(* Review: update_package_status, which locks nothing *)

OpenEdit(e) ==
    /\ events < MaxEvents /\ edit[e] = None
    /\ \E p \in Package, b \in Build, to \in PackageStatus :
        LET mine == {row \in Row : /\ RecordOf[row[1]] = RecordOf[p]
                                   /\ SourceOf[row[1]] = SourceOf[p]
                                   /\ StatusOf(match, row) # "none"}
        IN /\ \E row \in mine : row[2] = b
           /\ edit' = [edit EXCEPT ![e] =
                  [record |-> RecordOf[p], build |-> b, to |-> to, rows |-> mine,
                   seen |-> Only(match, PackagesOf(RecordOf[p])),
                   adopted |-> adopted \cap PackagesOf(RecordOf[p]), gone |-> FALSE]]
    /\ events' = events + 1
    /\ UNCHANGED <<rows, production, advisory, planner, matchers, asked, queue, job,
                   unpublished, stuck, ghosts>>

DecideOwn(x, row) ==
    IF row[2] = x.build /\ row[1] \notin x.adopted THEN x.to ELSE StatusOf(x.seen, row)

\* What the request makes of a row: its build's rows get the new status, an
\* approval skips the other builds' rows.  A row found in production names no build.
Decided(x, row) ==
    IF row[2] = x.build /\ row[1] \notin x.adopted THEN x.to
    ELSE IF x.to = "approved" THEN "skipped" ELSE StatusOf(x.seen, row)

\* The rows the loop has changed when it ends: all, or, when it meets a released
\* row, those it came across before, package by package in no particular order.
\* The endpoint answers the error and what was changed is committed.
Visited(x) ==
    LET released == {row \in x.rows : StatusOf(x.seen, row) = "released"} IN
    IF released = {} THEN {x.rows}
    ELSE {v \in SUBSET (x.rows \ released) :
             \E stop \in released : \A row, other \in x.rows :
                 row \in v /\ row[1] # stop[1] /\ other[1] = row[1] => other \in v}

\* Only rows whose status changed are written.  If one of them is gone the
\* transaction fails; the worker's uncommitted rows are waited for.
CloseEdit(e) ==
    LET x == edit[e] IN
    /\ x # None /\ edit' = [edit EXCEPT ![e] = None]
    /\ \E v \in Visited(x) :
        LET changed == {row \in v : Decided(x, row) # StatusOf(x.seen, row)} IN
        /\ FreeToWrite(changed)
        /\ IF x.gone THEN UNCHANGED <<match, overlapped, halted, declared>>
           ELSE /\ match' = With(match, [row \in changed |-> Decided(x, row)])
                /\ overlapped' = overlapped \cup
                       (IF \E row \in x.rows : StatusOf(match, row) # StatusOf(x.seen, row)
                        THEN {x.record} ELSE {})
                /\ halted' = halted \cup
                       (IF x.to = "approved" /\ v # x.rows /\ changed # {} THEN {x.record} ELSE {})
                /\ declared' = declared \cup (IF x.to = "released" /\ changed # {} THEN {x.record} ELSE {})
    /\ UNCHANGED <<status, adopted, production, advisory, planner, matchers, asked, queue,
                   job, unpublished, stuck, raced, amended, forced, events>>

-----------------------------------------------------------------------------
(* The releases worker: Pulp first, the rows of errata packages at commit *)

StartMove(b, add) ==
    /\ planner = None /\ events < MaxEvents /\ events' = events + 1
    /\ add <=> b \notin production
    /\ planner' = [build |-> b, add |-> add]
    /\ production' = IF add THEN production \cup {b} ELSE production \ {b}
    /\ UNCHANGED <<rows, advisory, matchers, edit, asked, queue, job, unpublished, stuck,
                   ghosts>>

RowsOf(b) == {row \in Row : row[2] = b /\ StatusOf(match, row) # "none"}

\* check_released_errata_packages: all rows of the build are marked as released,
\* unless the record of the first of them is released already
MarkReleased ==
    /\ planner # None /\ planner.add /\ planner' = None
    /\ LET mine == RowsOf(planner.build) IN
       \/ /\ mine = {} /\ UNCHANGED match
       \/ \E first \in mine :
             IF status[RecordOf[first[1]]] = "RELEASED" THEN UNCHANGED match
             ELSE /\ FreeToWrite(mine)
                  /\ match' = With(match, [row \in mine |-> "released"])
    /\ UNCHANGED <<status, adopted, production, advisory, matchers, edit, asked, queue, job,
                   unpublished, stuck, ghosts, events>>

\* revert_release_plan: whatever their record's status is
MarkReverted ==
    /\ planner # None /\ ~planner.add /\ planner' = None
    /\ FreeToWrite(RowsOf(planner.build))
    /\ match' = With(match, [row \in RowsOf(planner.build) |-> "proposal"])
    /\ UNCHANGED <<status, adopted, production, advisory, matchers, edit, asked, queue, job,
                   unpublished, stuck, ghosts, events>>

-----------------------------------------------------------------------------
(* Release requests *)

\* The statuses are read without a lock.  A request for one record is refused
\* while it is in progress, a bulk request when all its records are.
ReadRequest(rs, late, force) ==
    LET update == {r \in rs : status[r] # "IN_PROGRESS"} IN
    /\ events < MaxEvents /\ events' = events + 1
    /\ \A r \in rs : status[r] # "none"
    /\ update # {} /\ (late => Cardinality(rs) > 1)
    /\ asked' = asked \cup
           {[message |-> [records |-> rs, late |-> late, force |-> force], update |-> update]}
    /\ UNCHANGED <<rows, production, advisory, planner, matchers, edit, queue, job,
                   unpublished, stuck, ghosts>>

\* The update waits for the rows' locks; the message names all records asked for
SendRequest(q) ==
    /\ q \in asked /\ asked' = asked \ {q}
    /\ q.update \cap Locked = {}
    /\ status' = [r \in Record |-> IF r \in q.update THEN "IN_PROGRESS" ELSE status[r]]
    /\ queue' = queue \cup {q.message}
    /\ UNCHANGED <<match, adopted, production, advisory, planner, matchers, edit, job,
                   unpublished, stuck, ghosts, events>>

-----------------------------------------------------------------------------
(* The release job *)

Begin(m) ==
    /\ WorkerIdle /\ m \in queue /\ queue' = queue \ {m}
    /\ m.records \cap Locked = {}
    /\ job' = [message |-> m, todo |-> m.records, record |-> None, found |-> {},
               seen |-> Only(match, UNION {PackagesOf(r) : r \in m.records}), used |-> {},
               ready |-> {}, failed |-> {}, publishing |-> FALSE]
    /\ stuck' = stuck \ m.records
    /\ UNCHANGED <<rows, production, advisory, planner, matchers, edit, asked, unpublished,
                   ghosts, events>>

\* load_platform_packages: what is in production when the record's turn comes
LoadPlatform(r) ==
    /\ job # None /\ r \in job.todo /\ job.record = None
    /\ job' = [job EXCEPT !.record = r, !.found = production]
    /\ UNCHANGED <<rows, production, advisory, planner, matchers, edit, asked, queue,
                   unpublished, stuck, ghosts, events>>

UsedAnywhere(r) ==
    {row \in Row : RecordOf[row[1]] = r /\ StatusOf(job.seen, row) \in {"released", "approved"}}

\* get_albs_packages_from_record: rows that may be released and were in production
Used(r) == {row \in Row : /\ RecordOf[row[1]] = r /\ row[2] \in job.found
                          /\ StatusOf(job.seen, row) \in {"released", "approved"}}
MissingAll(r) == {p \in PackagesOf(r) : Used(r) = {}}
Missing(r) == {p \in PackagesOf(r) : \A row \in Used(r) : row[1] # p}

\* Repositories that list the record
Having(r) == {repo \in Repo : \E old \in advisory : RecordOf[old[1]] = r /\ old[3] = repo}

\* append_update_packages_in_update_records: used packages are added to the
\* record where a repository has it, but for packages of another arch
Appended(r, used) ==
    {a \in Package \X Build \X Repo :
        /\ <<a[1], a[2]>> \in used /\ a[3] \in ReposOf[a[1]] \ Foreign[a[1]]
        /\ a[3] \in Having(r)}

\* release_errata_packages: a repository without the record gets it, with one
\* row per package
Added(r, used, listed) ==
    {a \in Package \X Build \X Repo :
        /\ RecordOf[a[1]] = r
        /\ <<a[1], a[2]>> \in used /\ a[3] \in ReposOf[a[1]]
        /\ ~\E old \in listed : RecordOf[old[1]] = r /\ old[3] = a[3]
        /\ \A b \in Build : <<a[1], b>> \in used =>
              b = a[2] \/ a[2] = CHOOSE c \in Build : <<a[1], c>> \in used}

\* A record whose packages are not all there is marked as failed, unless forced
Reject(r) ==
    /\ job # None /\ job.record = r /\ Missing(r) # {} /\ ~job.message.force
    /\ job' = [job EXCEPT !.todo = @ \ {r}, !.record = None, !.failed = @ \cup {r}]
    /\ UNCHANGED <<rows, production, advisory, planner, matchers, edit, asked, queue,
                   unpublished, stuck, ghosts, events>>

\* process_errata_release_for_repos: the rows are written and locked, the record
\* goes to Pulp; the bulk release of old records leaves the adding for later
Releasable(r) == job.record = r /\ (Missing(r) = {} \/ job.message.force)
AddedNow(r) == IF job.message.late THEN {} ELSE Added(r, Used(r), advisory)
Prepare(r) ==
    /\ job # None /\ Releasable(r)
    /\ advisory' = advisory \cup Appended(r, Used(r)) \cup AddedNow(r)
    /\ job' = [job EXCEPT !.todo = @ \ {r}, !.record = None, !.ready = @ \cup {r},
                          !.used = @ \cup Used(r)]
    /\ raced' = raced \cup
           (IF \E row \in Used(r) : row[2] \in job.found \ production THEN {r} ELSE {})
    /\ amended' = amended \cup {<<r, repo>> : repo \in Having(r)}
    /\ UNCHANGED <<rows, production, planner, matchers, edit, asked, queue, unpublished,
                   stuck, overlapped, halted, declared, forced, events>>

SettleReady(r) == IF r \in job.ready THEN "RELEASED" ELSE status[r]
Settle(r) ==
    IF r \in job.ready THEN "RELEASED" ELSE IF r \in job.failed THEN "FAILED" ELSE status[r]

Commit ==
    /\ job # None /\ ~job.publishing /\ job.todo = {}
    /\ status' = [r \in Record |-> Settle(r)]
    /\ match' = With(match, [row \in Held |-> "released"])
    /\ IF job.message.late
       THEN /\ job' = [job EXCEPT !.publishing = TRUE]
            /\ unpublished' = unpublished \cup job.ready
       ELSE /\ job' = None /\ unpublished' = unpublished \ job.ready
    /\ forced' = IF job.message.force THEN forced \cup job.ready ELSE forced \ job.ready
    /\ UNCHANGED <<adopted, production, advisory, planner, matchers, edit, asked, queue,
                   stuck, overlapped, halted, raced, declared, amended, events>>

\* The bulk release of old records adds them to Pulp after the commit
Publish ==
    /\ job # None /\ job.publishing /\ job' = None
    /\ advisory' = advisory \cup UNION {Added(r, job.used, advisory) : r \in job.ready}
    /\ unpublished' = unpublished \ job.ready
    /\ UNCHANGED <<rows, production, planner, matchers, edit, asked, queue, stuck, ghosts,
                   events>>

\* What the job has added to Pulp since its last step, and what it may have: a
\* record is added nowhere before it is appended to wherever it is listed.
Underway ==
    LET doing == {r \in Record : Releasable(r)} IN
    {[sure |-> {}, maybe |-> Appended(r, Used(r))] : r \in doing}
    \cup {[sure |-> Appended(r, Used(r)), maybe |-> AddedNow(r)] : r \in doing}
    \cup {[sure |-> {}, maybe |-> IF job.publishing
              THEN UNION {Added(r, job.used, advisory) : r \in job.ready} ELSE {}]}

\* A call to Pulp fails or the time limit strikes: the transaction is rolled
\* back, Pulp keeps what it got, and the message is not retried.  When the
\* process dies the message is delivered again.
Lose(redeliver) ==
    /\ job # None /\ events < MaxEvents /\ events' = events + 1
    /\ \E call \in Underway, done \in SUBSET (Record \X Repo) :
          advisory' = advisory \cup call.sure
                          \cup {a \in call.maybe : <<RecordOf[a[1]], a[3]>> \in done}
    /\ queue' = IF redeliver THEN queue \cup {job.message} ELSE queue
    /\ stuck' = IF redeliver \/ job.publishing THEN stuck ELSE stuck \cup job.message.records
    /\ job' = None
    /\ UNCHANGED <<rows, production, planner, matchers, edit, asked, unpublished, overlapped,
                   halted, raced, declared, amended, forced>>

-----------------------------------------------------------------------------
Next ==
    \/ \E r \in Record : StartCreate(r) \/ StartReset(r)
    \/ StartResetMany
    \/ \E x \in matchers : FinishMatch(x)
    \/ \E e \in Editor : OpenEdit(e) \/ CloseEdit(e)
    \/ \E b \in Build, add \in BOOLEAN : StartMove(b, add)
    \/ MarkReleased \/ MarkReverted
    \/ \E rs \in SUBSET Record, late, force \in BOOLEAN : ReadRequest(rs, late, force)
    \/ \E q \in asked : SendRequest(q)
    \/ \E m \in queue : Begin(m)
    \/ \E r \in Record : LoadPlatform(r) \/ Reject(r) \/ Prepare(r)
    \/ Commit \/ Publish
    \/ \E redeliver \in BOOLEAN : Lose(redeliver)

Spec == Init /\ [][Next]_vars

-----------------------------------------------------------------------------
(* Properties *)

\* A released record is in the updateinfo of every repository it concerns, with
\* a build for each of its packages, unless it was released by force or its bulk
\* release was lost after the commit: the checks of release_errata_record, the
\* tasks it awaits and the order in which the bulk release adds records.  Where
\* a repository has the record already, packages of another arch are left out.
ReleasedIsPublished ==
    \A r \in Record : status[r] = "RELEASED" /\ r \notin forced \cup unpublished =>
        \A p \in PackagesOf(r) : \E b \in Build : \A repo \in ReposOf[p] :
            \/ <<p, b, repo>> \in advisory
            \/ repo \in Foreign[p] /\ <<r, repo>> \in amended

\* A record in progress waits in the queue or is being released, so that its
\* status will be settled, unless the job that had it was lost.
InProgressIsOwned ==
    \A r \in Record : status[r] = "IN_PROGRESS" =>
        \/ r \in stuck
        \/ \E m \in queue : r \in m.records
        \/ job # None /\ r \in job.message.records

\* A row says "released" only while its build is in production: what the planner
\* undoes is undone for the rows, also while matchings and release jobs run.  Not
\* so for a record matched or released with an old state of production, a build
\* having left between the look and the write, or set by a reviewer's hand.
ReleasedIsInProduction ==
    \A row \in Row :
        StatusOf(match, row) = "released" /\ RecordOf[row[1]] \notin raced \cup declared =>
            row[2] \in production \/ (planner # None /\ planner.build = row[2])

\* Approving the packages of one build rules the other builds out, unless the
\* request changed some rows before it met a released one: its error is answered
\* and what it changed is committed.
OneBuildApproved ==
    \A p \in Package : RecordOf[p] \notin Issued \cup overlapped \cup halted =>
        Cardinality({b \in Build : match[p][b] = "approved"}) <= 1
===============================================================================
