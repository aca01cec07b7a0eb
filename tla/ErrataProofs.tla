----------------------------- MODULE ErrataProofs -----------------------------
(***************************************************************************)
(* Advisories, for any records, packages, builds and repositories, any     *)
(* number of requests and any interruptions: a released record is in the   *)
(* updateinfo, no record stays in progress without a job, what a row says  *)
(* is released is in production, and approving a build rules others out.   *)
(***************************************************************************)
EXTENDS Errata, FiniteSetTheorems, TLAPS

------------------------------------------------------------------------------
(* Rows                                                                    *)

LEMMA RowPair ==
  ASSUME NEW row \in Row
  PROVE  /\ row = <<row[1], row[2]>> /\ row[1] \in Package /\ row[2] \in Build
         /\ row[2] \in Candidates[row[1]]
BY DEF Row

LEMMA WithType ==
  ASSUME NEW m \in Matches, NEW w,
         \A row \in DOMAIN w : w[row] \in PackageStatus \cup {"none"}
  PROVE  With(m, w) \in Matches
BY DEF With, Matches

LEMMA WithStatus ==
  ASSUME NEW m, NEW w, NEW p \in Package, NEW b \in Build
  PROVE  With(m, w)[p][b] = IF <<p, b>> \in DOMAIN w THEN w[<<p, b>>] ELSE m[p][b]
BY DEF With

LEMMA OnlyType ==
  ASSUME NEW m \in Matches, NEW ps
  PROVE  Only(m, ps) \in Matches
<1>1. [b \in Build |-> "none"] \in [Build -> PackageStatus \cup {"none"}]
  OBVIOUS
<1>2. QED
  BY <1>1 DEF Only, Matches

LEMMA MatchingType ==
  ASSUME NEW p, NEW x, NEW adopt, NEW named
  PROVE  Matching(p, x, adopt, named) \in [Build -> PackageStatus \cup {"none"}]
BY DEF Matching, PackageStatus

\* What a request writes is a status, but "released" only where that was asked.
LEMMA DecidedType ==
  ASSUME NEW x \in Edit, NEW row \in Row
  PROVE  /\ Decided(x, row) \in PackageStatus \cup {"none"}
         /\ Decided(x, row) \in {x.to, "skipped", StatusOf(x.seen, row)}
<1>1. StatusOf(x.seen, row) \in PackageStatus \cup {"none"}
  BY RowPair DEF StatusOf, Edit, Matches
<1>2. x.to \in PackageStatus
  BY DEF Edit
<1>3. QED
  BY <1>1, <1>2 DEF Decided, PackageStatus

------------------------------------------------------------------------------
(* Types                                                                   *)

\* Matching, the review and the releases worker.
LEMMA ReviewType ==
  ASSUME TypeOK,
         \/ \E r \in Record : StartCreate(r) \/ StartReset(r)
         \/ StartResetMany
         \/ \E x \in matchers : FinishMatch(x)
         \/ \E e \in Editor : OpenEdit(e) \/ CloseEdit(e)
         \/ \E b \in Build, add \in BOOLEAN : StartMove(b, add)
         \/ MarkReleased \/ MarkReverted
  PROVE  TypeOK'
<1>1. ASSUME NEW rs \in SUBSET Record, NEW create \in BOOLEAN, NEW worker \in BOOLEAN,
             StartMatch(rs, create, worker)
      PROVE  TypeOK'
  <2>1. [records |-> rs, seen |-> production, create |-> create, worker |-> worker] \in Matcher
    BY DEF Matcher, TypeOK
  <2>2. matchers' \subseteq Matcher
    BY <1>1, <2>1 DEF StartMatch, TypeOK
  <2>3. QED
    BY <1>1, <2>2 DEF StartMatch, TypeOK, rows, ghosts
<1>2. CASE \E r \in Record : StartCreate(r) \/ StartReset(r)
  BY <1>1, <1>2 DEF StartCreate, StartReset
<1>3. CASE StartResetMany
  <2>1. {r \in Record : status[r] = "NOT_RELEASED"} \in SUBSET Record
    OBVIOUS
  <2>2. QED
    BY <1>1, <1>3, <2>1 DEF StartResetMany
<1>4. ASSUME NEW x \in matchers, FinishMatch(x) PROVE TypeOK'
  <2>1. match' \in Matches
    <3>1. \A p, adopt, named :
             Matching(p, x, adopt, named) \in [Build -> PackageStatus \cup {"none"}]
      BY MatchingType
    <3>2. QED
      BY <1>4, <3>1 DEF FinishMatch, TypeOK, Matches
  <2>2. status' \in [Record -> ReleaseStatus \cup {"none"}]
    BY <1>4 DEF FinishMatch, TypeOK, ReleaseStatus
  <2>3. edit' \in [Editor -> Edit \cup {None}]
    <3>1. \A e \in Editor : edit[e] # None => [edit[e] EXCEPT !.gone = TRUE] \in Edit
      BY DEF TypeOK, Edit
    <3>2. QED
      BY <1>4, <3>1 DEF FinishMatch, TypeOK
  <2>4. x.records \subseteq Record
    BY DEF TypeOK, Matcher
  <2>5. adopted' \subseteq Package /\ raced' \subseteq Record /\ matchers' \subseteq Matcher
    BY <1>4, <2>4 DEF FinishMatch, TypeOK
  <2>6. QED
    BY <1>4, <2>1, <2>2, <2>3, <2>5 DEF FinishMatch, TypeOK
<1>5. ASSUME NEW e \in Editor, OpenEdit(e) PROVE TypeOK'
  <2>0. PICK p \in Package, b \in Build, to \in PackageStatus :
           edit' = [edit EXCEPT ![e] =
                  [record |-> RecordOf[p], build |-> b, to |-> to,
                   rows |-> {row \in Row : /\ RecordOf[row[1]] = RecordOf[p]
                                           /\ SourceOf[row[1]] = SourceOf[p]
                                           /\ StatusOf(match, row) # "none"},
                   seen |-> Only(match, PackagesOf(RecordOf[p])),
                   adopted |-> adopted \cap PackagesOf(RecordOf[p]), gone |-> FALSE]]
    BY <1>5 DEF OpenEdit
  <2>1. PICK mine \in SUBSET Row :
           edit' = [edit EXCEPT ![e] =
                  [record |-> RecordOf[p], build |-> b, to |-> to, rows |-> mine,
                   seen |-> Only(match, PackagesOf(RecordOf[p])),
                   adopted |-> adopted \cap PackagesOf(RecordOf[p]), gone |-> FALSE]]
    BY <2>0
  <2>2. RecordOf[p] \in Record /\ to \in PackageStatus
    BY ErrataAssumption
  <2>3. Only(match, PackagesOf(RecordOf[p])) \in Matches
    BY OnlyType DEF TypeOK
  <2>4. adopted \cap PackagesOf(RecordOf[p]) \subseteq Package
    BY DEF TypeOK
  <2>5. edit' \in [Editor -> Edit \cup {None}]
    BY <2>1, <2>2, <2>3, <2>4 DEF TypeOK, Edit
  <2>6. QED
    BY <1>5, <2>5 DEF OpenEdit, TypeOK, rows, ghosts
<1>6. ASSUME NEW e \in Editor, CloseEdit(e) PROVE TypeOK'
  <2>1. edit[e] \in Edit /\ edit' \in [Editor -> Edit \cup {None}]
    BY <1>6 DEF CloseEdit, TypeOK
  <2>2. match' \in Matches
    <3>1. \A row \in edit[e].rows : Decided(edit[e], row) \in PackageStatus \cup {"none"}
      BY <2>1, DecidedType DEF Edit
    <3>2. PICK v \in Visited(edit[e]) :
             \/ match' = match
             \/ match' = With(match, [row \in {row \in v :
                   Decided(edit[e], row) # StatusOf(edit[e].seen, row)} |-> Decided(edit[e], row)])
      BY <1>6 DEF CloseEdit
    <3>3. v \subseteq edit[e].rows
      BY DEF Visited
    <3>4. QED
      BY <3>1, <3>2, <3>3, WithType DEF TypeOK
  <2>3. edit[e].record \in Record
    BY <2>1 DEF Edit
  <2>4. overlapped' \subseteq Record /\ halted' \subseteq Record /\ declared' \subseteq Record
    BY <1>6, <2>3 DEF CloseEdit, TypeOK
  <2>5. QED
    BY <1>6, <2>1, <2>2, <2>4 DEF CloseEdit, TypeOK
<1>7. ASSUME NEW b \in Build, NEW add \in BOOLEAN, StartMove(b, add) PROVE TypeOK'
  <2>1. planner' \in Move /\ production' \subseteq Build
    BY <1>7 DEF StartMove, Move, TypeOK
  <2>2. QED
    BY <1>7, <2>1 DEF StartMove, TypeOK, rows, ghosts
<1>8. CASE MarkReleased \/ MarkReverted
  <2>1. match' \in Matches
    <3>1. \/ match' = match
          \/ \E S : match' = With(match, [row \in S |-> "released"])
          \/ \E S : match' = With(match, [row \in S |-> "proposal"])
      BY <1>8 DEF MarkReleased, MarkReverted
    <3>2. QED
      BY <3>1, WithType DEF TypeOK, PackageStatus
  <2>2. QED
    BY <1>8, <2>1 DEF MarkReleased, MarkReverted, TypeOK, ghosts
<1>9. QED
  BY <1>2, <1>3, <1>4, <1>5, <1>6, <1>7, <1>8

\* Requests and the release job.
LEMMA ReleaseType ==
  ASSUME TypeOK,
         \/ \E rs \in SUBSET Record, late, force \in BOOLEAN : ReadRequest(rs, late, force)
         \/ \E q \in asked : SendRequest(q)
         \/ \E m \in queue : Begin(m)
         \/ \E r \in Record : LoadPlatform(r) \/ Reject(r) \/ Prepare(r)
         \/ Commit \/ Publish
         \/ \E redeliver \in BOOLEAN : Lose(redeliver)
  PROVE  TypeOK'
<1>0. job # None => job \in Job /\ job.message \in Message
  BY DEF TypeOK, Job
<1>1. ASSUME NEW rs \in SUBSET Record, NEW late \in BOOLEAN, NEW force \in BOOLEAN,
             ReadRequest(rs, late, force)
      PROVE  TypeOK'
  <2>1. [records |-> rs, late |-> late, force |-> force] \in Message
    BY DEF Message
  <2>2. asked' \subseteq [message : Message, update : SUBSET Record]
    BY <1>1, <2>1 DEF ReadRequest, TypeOK
  <2>3. QED
    BY <1>1, <2>2 DEF ReadRequest, TypeOK, rows, ghosts
<1>2. ASSUME NEW q \in asked, SendRequest(q) PROVE TypeOK'
  <2>1. q.message \in Message
    BY DEF TypeOK
  <2>2. status' \in [Record -> ReleaseStatus \cup {"none"}]
    BY <1>2 DEF SendRequest, TypeOK, ReleaseStatus
  <2>3. QED
    BY <1>2, <2>1, <2>2 DEF SendRequest, TypeOK, ghosts
<1>3. ASSUME NEW m \in queue, Begin(m) PROVE TypeOK'
  <2>1. m \in Message /\ m.records \subseteq Record
    BY DEF TypeOK, Message
  <2>2. Only(match, UNION {PackagesOf(r) : r \in m.records}) \in Matches
    BY OnlyType DEF TypeOK
  <2>3. job' \in Job
    BY <1>3, <2>1, <2>2 DEF Begin, Job
  <2>4. QED
    BY <1>3, <2>3 DEF Begin, TypeOK, rows, ghosts
<1>4. ASSUME NEW r \in Record, Reject(r) PROVE TypeOK'
  <2>1. job' \in Job
    BY <1>0, <1>4 DEF Reject, Job
  <2>2. QED
    BY <1>4, <2>1 DEF Reject, TypeOK, rows, ghosts
<1>10. ASSUME NEW r \in Record, LoadPlatform(r) PROVE TypeOK'
  <2>1. job' \in Job
    BY <1>0, <1>10 DEF LoadPlatform, Job, TypeOK
  <2>2. QED
    BY <1>10, <2>1 DEF LoadPlatform, TypeOK, rows, ghosts
<1>5. ASSUME NEW r \in Record, Prepare(r) PROVE TypeOK'
  <2>1. Used(r) \subseteq Row
    BY DEF Used
  <2>2. job' \in Job
    BY <1>0, <1>5, <2>1 DEF Prepare, Job
  <2>3. advisory' \subseteq Package \X Build \X Repo
    BY <1>5 DEF Prepare, Appended, AddedNow, Added, TypeOK
  <2>4. raced' \subseteq Record /\ amended' \subseteq Record \X Repo
    <3>1. raced' \subseteq raced \cup {r}
      BY <1>5 DEF Prepare
    <3>2. Having(r) \subseteq Repo
      BY DEF Having
    <3>3. amended' = amended \cup {<<r, repo>> : repo \in Having(r)}
      BY <1>5 DEF Prepare
    <3>4. raced \subseteq Record /\ amended \subseteq Record \X Repo
      BY DEF TypeOK
    <3>5. QED
      BY <3>1, <3>2, <3>3, <3>4
  <2>5. QED
    BY <1>5, <2>2, <2>3, <2>4 DEF Prepare, TypeOK, rows
<1>6. CASE Commit
  <2>1. job \in Job /\ job.ready \subseteq Record
    BY <1>0, <1>6 DEF Commit, Job
  <2>2. job' \in Job \cup {None}
    BY <1>6, <2>1 DEF Commit, Job
  <2>3. status' \in [Record -> ReleaseStatus \cup {"none"}]
    BY <1>6 DEF Commit, Settle, TypeOK, ReleaseStatus
  <2>4. match' \in Matches
    <3>1. PICK S : match' = With(match, [row \in S |-> "released"])
      BY <1>6 DEF Commit
    <3>2. QED
      BY <3>1, WithType DEF TypeOK, PackageStatus
  <2>5. unpublished' \subseteq Record /\ forced' \subseteq Record
    BY <1>6, <2>1 DEF Commit, TypeOK
  <2>6. QED
    BY <1>6, <2>2, <2>3, <2>4, <2>5 DEF Commit, TypeOK
<1>7. CASE Publish
  <2>1. advisory' \subseteq Package \X Build \X Repo
    BY <1>7 DEF Publish, Added, TypeOK
  <2>2. QED
    BY <1>7, <2>1 DEF Publish, TypeOK, rows, ghosts
<1>8. ASSUME NEW redeliver \in BOOLEAN, Lose(redeliver) PROVE TypeOK'
  <2>1. job.message \in Message /\ job.message.records \subseteq Record
    BY <1>0, <1>8 DEF Lose, Message
  <2>2. advisory' \subseteq Package \X Build \X Repo
    <3>1. \A r, used, listed : Appended(r, used) \cup Added(r, used, listed)
                                  \subseteq Package \X Build \X Repo
      BY DEF Appended, Added
    <3>2. \A call \in Underway : call.sure \cup call.maybe \subseteq Package \X Build \X Repo
      <4> SUFFICES ASSUME NEW call \in Underway
                   PROVE  call.sure \cup call.maybe \subseteq Package \X Build \X Repo
        OBVIOUS
      <4>1. \/ call = [sure |-> {}, maybe |-> IF job.publishing
                       THEN UNION {Added(r, job.used, advisory) : r \in job.ready} ELSE {}]
            \/ \E r \in Record : call = [sure |-> {}, maybe |-> Appended(r, Used(r))]
            \/ \E r \in Record : call = [sure |-> Appended(r, Used(r)), maybe |-> AddedNow(r)]
        BY DEF Underway
      <4>2. \A r : AddedNow(r) \subseteq Package \X Build \X Repo
        BY <3>1 DEF AddedNow
      <4>3. QED
        BY <3>1, <4>1, <4>2
    <3>3. QED
      BY <1>8, <3>2 DEF Lose, TypeOK
  <2>3. stuck' \subseteq Record /\ queue' \subseteq Message
    BY <1>8, <2>1 DEF Lose, TypeOK
  <2>4. QED
    BY <1>8, <2>2, <2>3 DEF Lose, TypeOK, rows
<1>9. QED
  BY <1>1, <1>2, <1>3, <1>4, <1>5, <1>6, <1>7, <1>8, <1>10

\* Every variable keeps its type, for any records, packages and builds.
THEOREM ErrataTypeCorrect == Spec => []TypeOK
<1>1. Init => TypeOK
  BY DEF Init, TypeOK, Matches
<1>2. TypeOK /\ [Next]_vars => TypeOK'
  <2> SUFFICES ASSUME TypeOK, [Next]_vars PROVE TypeOK'
    OBVIOUS
  <2>1. CASE Next
    BY <2>1, ReviewType, ReleaseType DEF Next
  <2>2. CASE UNCHANGED vars
    BY <2>2 DEF vars, rows, ghosts, TypeOK
  <2>3. QED
    BY <2>1, <2>2
<1>3. QED
  BY <1>1, <1>2, PTL DEF Spec

\* What the steps of a job make of it.
LEMMA JobSteps ==
  ASSUME TypeOK
  PROVE  /\ \A m \in queue : Begin(m) => job' \in Job /\ job' # None
         /\ \A r \in Record : LoadPlatform(r) =>
               /\ job' # None /\ job'.message = job.message /\ job'.publishing = job.publishing
               /\ job'.todo = job.todo /\ job'.ready = job.ready /\ job'.failed = job.failed
               /\ job'.used = job.used /\ job'.seen = job.seen /\ job'.record = r
         /\ \A r \in Record : Reject(r) =>
               /\ job' # None /\ job'.message = job.message /\ job'.publishing = job.publishing
               /\ job'.todo = job.todo \ {r} /\ job'.ready = job.ready
               /\ job'.failed = job.failed \cup {r}
               /\ job'.used = job.used /\ job'.seen = job.seen /\ job'.record = None
         /\ \A r \in Record : Prepare(r) =>
               /\ job' # None /\ job'.message = job.message /\ job'.publishing = job.publishing
               /\ job'.todo = job.todo \ {r} /\ job'.ready = job.ready \cup {r}
               /\ job'.failed = job.failed
               /\ job'.used = job.used \cup Used(r) /\ job'.seen = job.seen
               /\ job'.record = None
         /\ Commit /\ job' # None =>
               /\ job.message.late
               /\ job'.message = job.message /\ job'.publishing
               /\ job'.todo = job.todo /\ job'.ready = job.ready /\ job'.failed = job.failed
               /\ job'.used = job.used /\ job'.record = job.record
<1>0. job # None => job \in Job /\ job.message \in Message
  BY DEF TypeOK, Job
<1>1. ASSUME NEW m \in queue, Begin(m) PROVE job' \in Job /\ job' # None
  <2>1. m \in Message /\ m.records \subseteq Record
    BY DEF TypeOK, Message
  <2>2. Only(match, UNION {PackagesOf(r) : r \in m.records}) \in Matches
    BY OnlyType DEF TypeOK
  <2>3. job' \in Job
    BY <1>1, <2>1, <2>2 DEF Begin, Job
  <2>4. QED
    BY <2>3, NoneAssumption
<1>6. ASSUME NEW r \in Record, LoadPlatform(r)
      PROVE  /\ job' # None /\ job'.message = job.message /\ job'.publishing = job.publishing
             /\ job'.todo = job.todo /\ job'.ready = job.ready /\ job'.failed = job.failed
             /\ job'.used = job.used /\ job'.seen = job.seen /\ job'.record = r
  <2>1. job \in Job /\ job' = [job EXCEPT !.record = r, !.found = production]
    BY <1>0, <1>6 DEF LoadPlatform
  <2>2. job' \in Job
    BY <2>1 DEF Job, TypeOK
  <2>3. QED
    BY <2>1, <2>2, NoneAssumption DEF Job
<1>2. ASSUME NEW r \in Record, Reject(r)
      PROVE  /\ job' # None /\ job'.message = job.message /\ job'.publishing = job.publishing
             /\ job'.todo = job.todo \ {r} /\ job'.ready = job.ready
             /\ job'.failed = job.failed \cup {r}
             /\ job'.used = job.used /\ job'.seen = job.seen /\ job'.record = None
  <2>1. job \in Job
        /\ job' = [job EXCEPT !.todo = @ \ {r}, !.record = None, !.failed = @ \cup {r}]
    BY <1>0, <1>2 DEF Reject
  <2>2. job' \in Job
    BY <2>1 DEF Job
  <2>3. QED
    BY <2>1, <2>2, NoneAssumption DEF Job
<1>3. ASSUME NEW r \in Record, Prepare(r)
      PROVE  /\ job' # None /\ job'.message = job.message /\ job'.publishing = job.publishing
             /\ job'.todo = job.todo \ {r} /\ job'.ready = job.ready \cup {r}
             /\ job'.failed = job.failed
             /\ job'.used = job.used \cup Used(r) /\ job'.seen = job.seen
             /\ job'.record = None
  <2>1. job \in Job
        /\ job' = [job EXCEPT !.todo = @ \ {r}, !.record = None, !.ready = @ \cup {r},
                              !.used = @ \cup Used(r)]
    BY <1>0, <1>3 DEF Prepare
  <2>2. Used(r) \subseteq Row
    BY DEF Used
  <2>3. job' \in Job
    BY <2>1, <2>2 DEF Job
  <2>4. QED
    BY <2>1, <2>3, NoneAssumption DEF Job
<1>4. ASSUME Commit, job' # None
      PROVE  /\ job.message.late
             /\ job'.message = job.message /\ job'.publishing
             /\ job'.todo = job.todo /\ job'.ready = job.ready /\ job'.failed = job.failed
             /\ job'.used = job.used /\ job'.record = job.record
  BY <1>0, <1>4 DEF Commit, Job
<1>5. QED
  BY <1>1, <1>2, <1>3, <1>4, <1>6

------------------------------------------------------------------------------
(* Records in progress                                                     *)

\* A request updates records its message names, a job has a decision on every
\* record it has begun, and after its commit it owns none.
OwnedInv ==
    /\ \A q \in asked : q.update \subseteq q.message.records
    /\ job # None => job.message.records \subseteq job.todo \cup job.ready \cup job.failed
    /\ \A r \in Record : status[r] = "IN_PROGRESS" =>
          \/ r \in stuck
          \/ \E m \in queue : r \in m.records
          \/ job # None /\ ~job.publishing /\ r \in job.message.records

LEMMA OwnedStep ==
  ASSUME TypeOK, OwnedInv, [Next]_vars
  PROVE  OwnedInv'
<1>1. ASSUME UNCHANGED <<asked, job, stuck, queue>>,
             \A r \in Record : status'[r] = "IN_PROGRESS" => status[r] = "IN_PROGRESS"
      PROVE  OwnedInv'
  BY <1>1 DEF OwnedInv
<1>2. CASE \/ \E r \in Record : StartCreate(r) \/ StartReset(r)
           \/ StartResetMany
           \/ \E e \in Editor : OpenEdit(e) \/ CloseEdit(e)
           \/ \E b \in Build, add \in BOOLEAN : StartMove(b, add)
           \/ MarkReleased \/ MarkReverted
           \/ UNCHANGED vars
  BY <1>1, <1>2 DEF StartCreate, StartReset, StartResetMany, StartMatch, OpenEdit, CloseEdit,
                    StartMove, MarkReleased, MarkReverted, vars, rows
<1>3. ASSUME NEW x \in matchers, FinishMatch(x) PROVE OwnedInv'
  BY <1>1, <1>3 DEF FinishMatch
<1>4. ASSUME NEW rs \in SUBSET Record, NEW late \in BOOLEAN, NEW force \in BOOLEAN,
             ReadRequest(rs, late, force)
      PROVE  OwnedInv'
  <2>1. UNCHANGED <<status, job, stuck, queue>>
    BY <1>4 DEF ReadRequest, rows
  <2>2. \A q \in asked' : q.update \subseteq q.message.records
    BY <1>4 DEF ReadRequest, OwnedInv
  <2>3. QED
    BY <2>1, <2>2 DEF OwnedInv
<1>5. ASSUME NEW q \in asked, SendRequest(q) PROVE OwnedInv'
  <2>1. /\ asked' = asked \ {q} /\ queue' = queue \cup {q.message} /\ job' = job /\ stuck' = stuck
        /\ status' = [r \in Record |-> IF r \in q.update THEN "IN_PROGRESS" ELSE status[r]]
    BY <1>5 DEF SendRequest
  <2>2. QED
    BY <2>1 DEF OwnedInv
<1>6. ASSUME NEW m \in queue, Begin(m) PROVE OwnedInv'
  <2>1. /\ asked' = asked /\ status' = status /\ job = None
        /\ queue' = queue \ {m} /\ stuck' = stuck \ m.records
    BY <1>6 DEF Begin, WorkerIdle, rows
  <2>2. job' # None
    BY <1>6, JobSteps
  <2>3. job'.message = m /\ job'.todo = m.records /\ ~job'.publishing
    BY <1>6 DEF Begin
  <2>4. QED
    BY <2>1, <2>2, <2>3 DEF OwnedInv
<1>7. ASSUME NEW r \in Record, LoadPlatform(r) \/ Reject(r) \/ Prepare(r) PROVE OwnedInv'
  <2>1. UNCHANGED <<status, asked, stuck, queue>> /\ job # None
    BY <1>7 DEF LoadPlatform, Reject, Prepare, rows
  <2>2. /\ job' # None
        /\ job'.message = job.message /\ job'.publishing = job.publishing
        /\ job.todo \cup job.ready \cup job.failed \subseteq job'.todo \cup job'.ready \cup job'.failed
    BY <1>7, JobSteps
  <2>3. QED
    BY <2>1, <2>2 DEF OwnedInv
<1>8. CASE Commit
  <2>1. /\ job # None /\ asked' = asked /\ queue' = queue /\ stuck' = stuck
        /\ status' = [r \in Record |-> Settle(r)] /\ job.todo = {}
    BY <1>8 DEF Commit
  <2>2. job.message.records \subseteq job.ready \cup job.failed
    BY <2>1 DEF OwnedInv
  <2>3. ASSUME NEW r \in Record, status'[r] = "IN_PROGRESS"
        PROVE  r \in stuck \/ \E m \in queue : r \in m.records
    BY <2>1, <2>2, <2>3 DEF Settle, OwnedInv
  <2>4. job' # None => job'.message = job.message /\ job'.todo = job.todo
                       /\ job'.ready = job.ready /\ job'.failed = job.failed
    BY <1>8, JobSteps
  <2>5. QED
    BY <2>1, <2>3, <2>4 DEF OwnedInv
<1>9. CASE Publish
  BY <1>9 DEF Publish, OwnedInv, rows
<1>10. ASSUME NEW redeliver \in BOOLEAN, Lose(redeliver) PROVE OwnedInv'
  <2>1. /\ job' = None /\ status' = status /\ asked' = asked /\ queue \subseteq queue'
        /\ stuck \subseteq stuck'
        /\ job.publishing \/ job.message \in queue' \/ job.message.records \subseteq stuck'
    BY <1>10 DEF Lose, rows
  <2>2. QED
    BY <2>1 DEF OwnedInv
<1>11. QED
  BY <1>2, <1>3, <1>4, <1>5, <1>6, <1>7, <1>8, <1>9, <1>10 DEF Next

\* A record in progress waits for a job or has one that will settle its status,
\* unless its job was lost (release_errata_record and its bulk variant).
THEOREM RecordsAreOwned == Spec => []InProgressIsOwned
<1>1. Init => OwnedInv
  BY DEF Init, OwnedInv
<1>2. TypeOK /\ OwnedInv /\ [Next]_vars => OwnedInv'
  BY OwnedStep
<1>3. OwnedInv => InProgressIsOwned
  BY DEF OwnedInv, InProgressIsOwned
<1>4. QED
  BY ErrataTypeCorrect, <1>1, <1>2, <1>3, PTL DEF Spec

------------------------------------------------------------------------------
(* Released records                                                        *)

\* A repository has the record; a package is in a repository, or of another arch
\* than one that had the record before; the packages of a record are all in
\* updateinfo so far, or all have a build the job may add.
Listed(r, repo) == \E old \in advisory : RecordOf[old[1]] = r /\ old[3] = repo
Placed(p, b, repo) ==
    \/ <<p, b, repo>> \in advisory
    \/ repo \in Foreign[p] /\ <<RecordOf[p], repo>> \in amended
Published(r) ==
    \A p \in PackagesOf(r) : \E b \in Build : \A repo \in ReposOf[p] : Placed(p, b, repo)
Covered(r) == \A p \in PackagesOf(r) : \E b \in Build : <<p, b>> \in job.used

\* The records of a job are decided one by one, and after its commit a job that
\* was forced has said so.
JobInv == job # None =>
    /\ job.todo \cap job.ready = {} /\ job.record \in job.todo \cup {None}
    /\ \A row \in job.used : RecordOf[row[1]] \in job.ready
    /\ job.publishing => job.message.late /\ job.todo = {}
                         /\ (job.message.force => job.ready \subseteq forced)

\* What a job found ready is in updateinfo, or, in a bulk release, where the record
\* was listed already, and the other repositories are still to come.
PublishInv ==
    /\ job # None =>
          /\ ~job.message.force => \A r \in job.ready : Covered(r)
          /\ ~job.message.late /\ ~job.message.force => \A r \in job.ready : Published(r)
          /\ job.message.late => \A row \in job.used : \A repo \in ReposOf[row[1]] :
                Listed(RecordOf[row[1]], repo) => Placed(row[1], row[2], repo)
    /\ \A r \in Record : status[r] = "RELEASED" /\ r \notin forced \cup unpublished =>
          Published(r)

\* Adding a record puts one and the same build of a package into every
\* repository that does not list the record.
LEMMA AddedOnce ==
  ASSUME NEW r, NEW used, NEW p \in PackagesOf(r), NEW b \in Build, <<p, b>> \in used
  PROVE  \E c \in Build :
            /\ <<p, c>> \in used
            /\ \A repo \in ReposOf[p] :
                  Listed(r, repo) \/ <<p, c, repo>> \in Added(r, used, advisory)
<1> DEFINE c == CHOOSE d \in Build : <<p, d>> \in used
<1>1. c \in Build /\ <<p, c>> \in used
  OBVIOUS
<1>2. p \in Package /\ RecordOf[p] = r /\ ReposOf[p] \subseteq Repo
  BY ErrataAssumption DEF PackagesOf
<1>3. ASSUME NEW repo \in ReposOf[p], ~Listed(r, repo)
      PROVE  <<p, c, repo>> \in Added(r, used, advisory)
  BY <1>1, <1>2, <1>3 DEF Added, Listed
<1>4. QED
  BY <1>1, <1>3

\* Preparing a record places its packages where it is listed.
LEMMA PlacedWhereListed ==
  ASSUME NEW r, Prepare(r), NEW p \in PackagesOf(r), NEW b \in Build, <<p, b>> \in Used(r),
         NEW repo \in ReposOf[p], Listed(r, repo)
  PROVE  Placed(p, b, repo)'
<1>1. p \in Package /\ repo \in Repo /\ RecordOf[p] = r
  BY ErrataAssumption DEF PackagesOf
<1>2. repo \in Having(r)
  BY <1>1 DEF Having, Listed
<1>3. CASE repo \in Foreign[p]
  <2>1. <<r, repo>> \in amended'
    BY <1>2 DEF Prepare
  <2>2. QED
    BY <1>1, <1>3, <2>1 DEF Placed
<1>4. CASE repo \notin Foreign[p]
  <2>1. <<p, b, repo>> \in Appended(r, Used(r))
    BY <1>1, <1>2, <1>4 DEF Appended
  <2>2. QED
    BY <2>1 DEF Prepare, Placed
<1>5. QED
  BY <1>3, <1>4

LEMMA JobInvStep ==
  ASSUME TypeOK, JobInv, [Next]_vars
  PROVE  JobInv'
<1>1. CASE UNCHANGED <<job, forced>>
  BY <1>1 DEF JobInv
<1>2. CASE \/ \E r \in Record : StartCreate(r) \/ StartReset(r)
           \/ StartResetMany
           \/ \E x \in matchers : FinishMatch(x)
           \/ \E e \in Editor : OpenEdit(e) \/ CloseEdit(e)
           \/ \E b \in Build, add \in BOOLEAN : StartMove(b, add)
           \/ MarkReleased \/ MarkReverted
           \/ \E rs \in SUBSET Record, late, force \in BOOLEAN : ReadRequest(rs, late, force)
           \/ \E q \in asked : SendRequest(q)
           \/ UNCHANGED vars
  BY <1>1, <1>2 DEF StartCreate, StartReset, StartResetMany, StartMatch, FinishMatch, OpenEdit,
       CloseEdit, StartMove, MarkReleased, MarkReverted, ReadRequest, SendRequest, vars, ghosts
<1>3. ASSUME NEW m \in queue, Begin(m) PROVE JobInv'
  BY <1>3 DEF Begin, JobInv
<1>4. ASSUME NEW r \in Record, Reject(r) PROVE JobInv'
  <2>1. job # None /\ forced' = forced
    BY <1>4 DEF Reject, ghosts
  <2>2. QED
    BY <1>4, <2>1, JobSteps DEF JobInv
<1>9. ASSUME NEW r \in Record, LoadPlatform(r) PROVE JobInv'
  <2>1. job # None /\ r \in job.todo /\ forced' = forced
    BY <1>9 DEF LoadPlatform, ghosts
  <2>2. QED
    BY <1>9, <2>1, JobSteps DEF JobInv
<1>5. ASSUME NEW r \in Record, Prepare(r) PROVE JobInv'
  <2>1. job # None /\ forced' = forced /\ r \in job.todo
    BY <1>5, NoneAssumption DEF Prepare, Releasable, JobInv
  <2>2. /\ job'.message = job.message /\ job'.publishing = job.publishing
        /\ job'.todo = job.todo \ {r} /\ job'.ready = job.ready \cup {r}
        /\ job'.used = job.used \cup Used(r) /\ job'.record = None
    BY <1>5, JobSteps
  <2>3. \A row \in Used(r) : RecordOf[row[1]] = r
    BY DEF Used
  <2>4. ~job.publishing
    BY <2>1 DEF JobInv
  <2>5. QED
    BY <2>1, <2>2, <2>3, <2>4 DEF JobInv
<1>6. CASE Commit
  <2>1. job # None /\ job.todo = {} /\ (job.message.force => job.ready \subseteq forced')
    BY <1>6 DEF Commit
  <2>2. QED
    BY <1>6, <2>1, JobSteps DEF JobInv
<1>7. CASE Publish \/ \E redeliver \in BOOLEAN : Lose(redeliver)
  BY <1>7 DEF Publish, Lose, JobInv
<1>8. QED
  BY <1>2, <1>3, <1>4, <1>5, <1>6, <1>7, <1>9 DEF Next

LEMMA PublishStep ==
  ASSUME TypeOK, JobInv, PublishInv, [Next]_vars
  PROVE  PublishInv'
<1>1. ASSUME UNCHANGED <<advisory, amended>>, job' = job \/ job' = None,
             unpublished' = unpublished, forced' = forced,
             \A r \in Record : status'[r] = "RELEASED" => status[r] = "RELEASED"
      PROVE  PublishInv'
  BY <1>1 DEF PublishInv, Covered, Published, Placed, Listed
<1>2. CASE \/ \E r \in Record : StartCreate(r) \/ StartReset(r)
           \/ StartResetMany
           \/ \E e \in Editor : OpenEdit(e) \/ CloseEdit(e)
           \/ \E b \in Build, add \in BOOLEAN : StartMove(b, add)
           \/ MarkReleased \/ MarkReverted
           \/ \E rs \in SUBSET Record, late, force \in BOOLEAN : ReadRequest(rs, late, force)
           \/ UNCHANGED vars
  BY <1>1, <1>2 DEF StartCreate, StartReset, StartResetMany, StartMatch, OpenEdit, CloseEdit,
       StartMove, MarkReleased, MarkReverted, ReadRequest, vars, rows, ghosts
<1>3. CASE (\E x \in matchers : FinishMatch(x)) \/ \E q \in asked : SendRequest(q)
  BY <1>1, <1>3 DEF FinishMatch, SendRequest, ghosts
<1>4. ASSUME NEW m \in queue, Begin(m) PROVE PublishInv'
  <2>1. /\ job'.ready = {} /\ job'.used = {}
        /\ UNCHANGED <<advisory, amended, unpublished, forced, status>>
    BY <1>4 DEF Begin, rows, ghosts
  <2>2. QED
    BY <2>1 DEF PublishInv, Published, Placed
<1>5. ASSUME NEW r \in Record, LoadPlatform(r) \/ Reject(r) PROVE PublishInv'
  <2>1. job # None /\ UNCHANGED <<advisory, amended, unpublished, forced, status>>
    BY <1>5 DEF LoadPlatform, Reject, rows, ghosts
  <2>2. job'.message = job.message /\ job'.ready = job.ready /\ job'.used = job.used
    BY <1>5, JobSteps
  <2>3. QED
    BY <2>1, <2>2 DEF PublishInv, Published, Placed, Covered, Listed
<1>6. ASSUME NEW r \in Record, Prepare(r) PROVE PublishInv'
  <2>1. /\ job # None /\ r \in job.todo /\ UNCHANGED <<unpublished, forced, status>>
        /\ Missing(r) = {} \/ job.message.force
    BY <1>6, NoneAssumption DEF Prepare, Releasable, JobInv, rows
  <2>2. /\ job'.message = job.message /\ job'.ready = job.ready \cup {r}
        /\ job'.used = job.used \cup Used(r)
    BY <1>6, JobSteps
  <2>3. /\ advisory \subseteq advisory' /\ amended \subseteq amended'
        /\ job.message.late => advisory' = advisory \cup Appended(r, Used(r))
        /\ ~job.message.late => Added(r, Used(r), advisory) \subseteq advisory'
    BY <1>6 DEF Prepare, AddedNow
  <2>12. \A p, b, repo : Placed(p, b, repo) => Placed(p, b, repo)'
    BY <2>3 DEF Placed
  <2>4. \A q : Published(q) => Published(q)'
    BY <2>12 DEF Published
  <2>5. ASSUME ~job.message.force, NEW p \in PackagesOf(r)
        PROVE  \E b \in Build : <<p, b>> \in Used(r)
    <3>1. PICK row \in Used(r) : row[1] = p
      BY <2>1, <2>5 DEF Missing
    <3>2. row = <<p, row[2]>> /\ row[2] \in Build
      BY <3>1, RowPair DEF Used
    <3>3. QED
      BY <3>1, <3>2
  <2>6. ~job'.message.force => \A q \in job'.ready : Covered(q)'
    BY <2>1, <2>2, <2>5 DEF PublishInv, Covered
  <2>7. ASSUME ~job.message.force, ~job.message.late
        PROVE  Published(r)'
    <3> SUFFICES ASSUME NEW p \in PackagesOf(r)
                 PROVE  \E b \in Build : \A repo \in ReposOf[p] : Placed(p, b, repo)'
      BY DEF Published
    <3>1. PICK b \in Build : <<p, b>> \in Used(r)
      BY <2>5, <2>7
    <3>2. PICK c \in Build :
            /\ <<p, c>> \in Used(r)
            /\ \A repo \in ReposOf[p] :
                  Listed(r, repo) \/ <<p, c, repo>> \in Added(r, Used(r), advisory)
      BY <3>1, AddedOnce
    <3>3. QED
      <4>1. \A repo \in ReposOf[p] : <<p, c, repo>> \in advisory' => Placed(p, c, repo)'
        BY DEF Placed
      <4>2. \A repo \in ReposOf[p] : Listed(r, repo) => Placed(p, c, repo)'
        BY <1>6, <3>2, PlacedWhereListed
      <4>3. QED
        BY <2>3, <2>7, <3>2, <4>1, <4>2
  <2>8. ASSUME job.message.late, NEW row \in job'.used, NEW repo \in ReposOf[row[1]],
               Listed(RecordOf[row[1]], repo)'
        PROVE  Placed(row[1], row[2], repo)'
    <3>1. \A a \in Appended(r, Used(r)) : RecordOf[a[1]] = r /\ Listed(r, a[3])
      BY DEF Appended, Used, Having, Listed
    <3>2. Listed(RecordOf[row[1]], repo)
      BY <2>3, <2>8, <3>1 DEF Listed
    <3>3. CASE row \in job.used
      BY <2>1, <2>8, <2>12, <3>2, <3>3 DEF PublishInv
    <3>4. CASE row \in Used(r)
      <4>1. /\ row = <<row[1], row[2]>> /\ row[1] \in PackagesOf(r) /\ row[2] \in Build
            /\ RecordOf[row[1]] = r
        BY <3>4, RowPair DEF Used, PackagesOf
      <4>2. QED
        BY <1>6, <3>2, <3>4, <4>1, PlacedWhereListed
    <3>5. QED
      BY <2>2, <2>8, <3>3, <3>4
  <2>9. QED
    BY <2>1, <2>2, <2>4, <2>6, <2>7, <2>8 DEF PublishInv
<1>7. CASE Commit
  <2>1. /\ job # None /\ UNCHANGED <<advisory, amended>> /\ status' = [q \in Record |-> Settle(q)]
        /\ forced' = IF job.message.force THEN forced \cup job.ready ELSE forced \ job.ready
        /\ IF job.message.late THEN unpublished' = unpublished \cup job.ready
           ELSE unpublished' = unpublished \ job.ready
    BY <1>7 DEF Commit
  <2>2. job' # None => job'.message = job.message /\ job'.ready = job.ready
                       /\ job'.used = job.used
    BY <1>7, JobSteps
  <2>3. ASSUME NEW r \in Record, status'[r] = "RELEASED", r \notin forced' \cup unpublished'
        PROVE  Published(r)'
    <3>1. CASE r \in job.ready
      BY <2>1, <2>3, <3>1 DEF PublishInv, Published, Placed
    <3>2. CASE r \notin job.ready
      <4>1. status[r] = "RELEASED" /\ r \notin forced \cup unpublished
        BY <2>1, <2>3, <3>2 DEF Settle
      <4>2. QED
        BY <2>1, <4>1 DEF PublishInv, Published, Placed
    <3>3. QED
      BY <3>1, <3>2
  <2>4. QED
    BY <2>1, <2>2, <2>3 DEF PublishInv, Covered, Published, Placed, Listed
<1>8. CASE Publish
  <2>1. /\ job # None /\ job.publishing /\ job' = None /\ UNCHANGED <<status, forced, amended>>
        /\ advisory' = advisory \cup UNION {Added(q, job.used, advisory) : q \in job.ready}
        /\ unpublished' = unpublished \ job.ready
    BY <1>8 DEF Publish, rows, ghosts
  <2>2. job.message.late
    BY <2>1 DEF JobInv
  <2>3. ASSUME NEW r \in Record, status'[r] = "RELEASED", r \notin forced' \cup unpublished'
        PROVE  Published(r)'
    <3>1. CASE r \in job.ready
      <4>1. Covered(r)
        BY <2>1, <2>3, <3>1 DEF JobInv, PublishInv
      <4> SUFFICES ASSUME NEW p \in PackagesOf(r)
                   PROVE  \E b \in Build : \A repo \in ReposOf[p] : Placed(p, b, repo)'
        BY DEF Published
      <4>2. PICK b \in Build : <<p, b>> \in job.used
        BY <4>1 DEF Covered
      <4>3. PICK c \in Build :
              /\ <<p, c>> \in job.used
              /\ \A repo \in ReposOf[p] :
                    Listed(r, repo) \/ <<p, c, repo>> \in Added(r, job.used, advisory)
        BY <4>2, AddedOnce
      <4>4. \A repo \in ReposOf[p] : Listed(r, repo) => Placed(p, c, repo)
        BY <2>1, <2>2, <4>3 DEF PublishInv, PackagesOf
      <4>5. QED
        BY <2>1, <3>1, <4>3, <4>4 DEF Placed
    <3>2. CASE r \notin job.ready
      BY <2>1, <2>3, <3>2 DEF PublishInv, Published, Placed
    <3>3. QED
      BY <3>1, <3>2
  <2>4. QED
    BY <2>1, <2>3 DEF PublishInv
<1>9. ASSUME NEW redeliver \in BOOLEAN, Lose(redeliver) PROVE PublishInv'
  <2>1. /\ job' = None /\ advisory \subseteq advisory'
        /\ UNCHANGED <<status, forced, unpublished, amended>>
    BY <1>9 DEF Lose, rows
  <2>2. QED
    BY <2>1 DEF PublishInv, Published, Placed
<1>10. QED
  BY <1>2, <1>3, <1>4, <1>5, <1>6, <1>7, <1>8, <1>9 DEF Next

\* A released record is in the updateinfo of every repository it concerns, with a
\* build for each of its packages, unless it was released by force or its bulk
\* release was lost after the commit; packages of another arch than a repository
\* that had the record before are left out there (process_errata_release_for_repos,
\* append_update_packages_in_update_records, bulk_errata_records_release).
THEOREM ReleasedRecordsArePublished == Spec => []ReleasedIsPublished
<1>1. Init => JobInv /\ PublishInv
  BY DEF Init, JobInv, PublishInv
<1>2. TypeOK /\ JobInv /\ PublishInv /\ [Next]_vars => JobInv' /\ PublishInv'
  BY JobInvStep, PublishStep
<1>3. PublishInv => ReleasedIsPublished
  <2> SUFFICES ASSUME PublishInv, NEW r \in Record, status[r] = "RELEASED",
                      r \notin forced \cup unpublished, NEW p \in PackagesOf(r)
               PROVE  \E b \in Build : \A repo \in ReposOf[p] :
                         \/ <<p, b, repo>> \in advisory
                         \/ repo \in Foreign[p] /\ <<r, repo>> \in amended
    BY DEF ReleasedIsPublished
  <2>1. PICK b \in Build : \A repo \in ReposOf[p] : Placed(p, b, repo)
    BY DEF PublishInv, Published
  <2>2. QED
    BY <2>1 DEF Placed, PackagesOf
<1>4. QED
  BY ErrataTypeCorrect, <1>1, <1>2, <1>3, PTL DEF Spec

------------------------------------------------------------------------------
(* Which rows there are                                                    *)

CandidateInv == \A p \in Package, b \in Build : match[p][b] # "none" => b \in Candidates[p]

\* A request knows all rows of the packages it is about, unless a matching has
\* replaced them.
EditInv == \A e \in Editor : edit[e] # None =>
    /\ \A row \in edit[e].rows :
          RecordOf[row[1]] = edit[e].record /\ StatusOf(edit[e].seen, row) # "none"
    /\ ~edit[e].gone => \A row \in edit[e].rows, other \in Row :
          other[1] = row[1] => (StatusOf(match, other) # "none" <=> other \in edit[e].rows)

\* A job holds the locks of its records: no matching is under way for them, and
\* the rows it has read and used are still there.
UsedInv ==
    /\ \A x \in matchers : x.create => x.worker
    /\ job # None /\ ~job.publishing =>
          /\ \A x \in matchers : x.records \cap job.message.records = {}
          /\ job.todo \subseteq job.message.records /\ job.record \in job.todo \cup {None}
          /\ \A p \in Package, b \in Build :
                RecordOf[p] \in job.message.records /\ job.seen[p][b] # "none"
                    => match[p][b] # "none"
          /\ \A row \in job.used :
                RecordOf[row[1]] \in job.message.records /\ StatusOf(match, row) # "none"

RowsInv == CandidateInv /\ EditInv /\ UsedInv

\* What a request writes: "released" if that was asked, and never a row that is gone.
LEMMA EditWrites ==
  ASSUME TypeOK, EditInv, NEW e \in Editor, CloseEdit(e)
  PROVE  \/ match' = match
         \/ \E v \in Visited(edit[e]), changed \in SUBSET edit[e].rows :
               /\ ~edit[e].gone
               /\ changed = {row \in v : Decided(edit[e], row) # StatusOf(edit[e].seen, row)}
               /\ match' = With(match, [row \in changed |-> Decided(edit[e], row)])
               /\ \A row \in changed : /\ row \in Row /\ StatusOf(match, row) # "none"
                                       /\ Decided(edit[e], row) \in {edit[e].to, "skipped"}
                                       /\ Decided(edit[e], row) # "none"
               /\ edit[e].to = "released" /\ changed # {} => edit[e].record \in declared'
<1>1. edit[e] \in Edit /\ edit[e].rows \subseteq Row /\ edit[e] # None
  BY DEF TypeOK, CloseEdit, Edit
<1>2. PICK v \in Visited(edit[e]) :
         \/ match' = match
         \/ /\ ~edit[e].gone
            /\ match' = With(match, [row \in {row \in v :
                  Decided(edit[e], row) # StatusOf(edit[e].seen, row)} |-> Decided(edit[e], row)])
            /\ declared' = declared \cup (IF edit[e].to = "released" /\ {row \in v :
                  Decided(edit[e], row) # StatusOf(edit[e].seen, row)} # {}
                                          THEN {edit[e].record} ELSE {})
  BY DEF CloseEdit
<1>3. v \subseteq edit[e].rows
  BY DEF Visited
<1> DEFINE changed == {row \in v : Decided(edit[e], row) # StatusOf(edit[e].seen, row)}
<1>4. changed \in SUBSET edit[e].rows
  BY <1>3
<1>5. ASSUME NEW row \in changed, ~edit[e].gone
      PROVE  /\ row \in Row /\ StatusOf(match, row) # "none"
             /\ Decided(edit[e], row) \in {edit[e].to, "skipped"}
             /\ Decided(edit[e], row) # "none"
  <2>1. row \in Row /\ row \in edit[e].rows
    BY <1>1, <1>3
  <2>2. StatusOf(match, row) # "none"
    BY <1>1, <1>5, <2>1 DEF EditInv
  <2>3. Decided(edit[e], row) \in {edit[e].to, "skipped"}
    BY <1>1, <2>1, DecidedType
  <2>4. edit[e].to # "none"
    BY <1>1 DEF Edit, PackageStatus
  <2>5. QED
    BY <2>1, <2>2, <2>3, <2>4
<1>6. QED
  BY <1>2, <1>4, <1>5

\* Only a matching adds and removes rows.
LEMMA RowsStay ==
  ASSUME TypeOK, EditInv, UsedInv, [Next]_vars, ~\E x \in matchers : FinishMatch(x)
  PROVE  \A p \in Package, b \in Build : match'[p][b] # "none" <=> match[p][b] # "none"
<1> SUFFICES ASSUME NEW p \in Package, NEW b \in Build
             PROVE  match'[p][b] # "none" <=> match[p][b] # "none"
  OBVIOUS
<1>1. CASE match' = match
  BY <1>1
<1>2. ASSUME NEW S, \A row \in S : StatusOf(match, row) # "none", NEW s, s # "none",
             match' = With(match, [row \in S |-> s])
      PROVE  match'[p][b] # "none" <=> match[p][b] # "none"
  <2>1. <<p, b>> \in S => match[p][b] # "none"
    BY <1>2 DEF StatusOf
  <2>2. match'[p][b] = IF <<p, b>> \in S THEN s ELSE match[p][b]
    BY <1>2, WithStatus
  <2>3. QED
    BY <1>2, <2>1, <2>2
<1>3. CASE \E e \in Editor : CloseEdit(e)
  <2>1. PICK e \in Editor : CloseEdit(e)
    BY <1>3
  <2>2. ASSUME match' # match
        PROVE  match'[p][b] # "none" <=> match[p][b] # "none"
    <3>1. PICK changed \in SUBSET edit[e].rows :
             /\ match' = With(match, [row \in changed |-> Decided(edit[e], row)])
             /\ \A row \in changed : StatusOf(match, row) # "none" /\ Decided(edit[e], row) # "none"
      BY <2>1, <2>2, EditWrites
    <3>2. <<p, b>> \in changed => match[p][b] # "none"
      BY <3>1 DEF StatusOf
    <3>3. match'[p][b] = IF <<p, b>> \in changed THEN Decided(edit[e], <<p, b>>) ELSE match[p][b]
      BY <3>1, WithStatus
    <3>4. QED
      BY <3>1, <3>2, <3>3
  <2>3. QED
    BY <1>1, <2>2
<1>4. CASE MarkReleased \/ MarkReverted
  <2>1. PICK s \in {"released", "proposal"} :
           match' = match \/ match' = With(match, [row \in RowsOf(planner.build) |-> s])
    BY <1>4 DEF MarkReleased, MarkReverted
  <2>2. \A row \in RowsOf(planner.build) : StatusOf(match, row) # "none"
    BY DEF RowsOf
  <2>3. QED
    BY <1>1, <1>2, <2>1, <2>2
<1>5. CASE Commit
  <2>1. job # None /\ ~job.publishing /\ match' = With(match, [row \in Held |-> "released"])
    BY <1>5 DEF Commit
  <2>2. \A row \in Held : StatusOf(match, row) # "none"
    BY <2>1 DEF UsedInv, Held
  <2>3. QED
    BY <1>2, <2>1, <2>2
<1>6. QED
  BY <1>1, <1>3, <1>4, <1>5 DEF Next, StartCreate, StartReset, StartResetMany, StartMatch,
     OpenEdit, StartMove, ReadRequest, SendRequest, Begin, LoadPlatform, Reject, Prepare, Publish, Lose,
     rows, vars

\* A matching replaces the rows of its records, tells the requests about them,
\* and touches no record a job has locked.
LEMMA MatchingRows ==
  ASSUME TypeOK, NEW x \in matchers, FinishMatch(x)
  PROVE  /\ \A p \in Package, b \in Build :
               RecordOf[p] \notin x.records => match'[p][b] = match[p][b]
         /\ \A p \in Package, b \in Build : RecordOf[p] \in x.records =>
               /\ match'[p][b] # "none" => b \in Candidates[p]
               /\ match'[p][b] = "approved" => RecordOf[p] \in Issued
               /\ match'[p][b] = "released" => b \in x.seen
         /\ \A e \in Editor :
               IF edit[e] # None /\ edit[e].record \in x.records
               THEN edit'[e] = [edit[e] EXCEPT !.gone = TRUE] ELSE edit'[e] = edit[e]
<1> DEFINE ps == {p \in Package : RecordOf[p] \in x.records}
<1>1. PICK adopt \in [ps -> Build \cup {None}], named \in Build \cup {None} :
         /\ \A p \in ps : IF Found(p, x) = {} THEN adopt[p] = None
                          ELSE adopt[p] \in Found(p, x)
         /\ match' = [p \in Package |->
                IF p \in ps THEN Matching(p, x, adopt[p], named) ELSE match[p]]
  BY DEF FinishMatch
<1>2. \A p \in Package, b \in Build :
         RecordOf[p] \notin x.records => match'[p][b] = match[p][b]
  BY <1>1
<1>3. ASSUME NEW p \in Package, NEW b \in Build, RecordOf[p] \in x.records
      PROVE  /\ match'[p][b] # "none" => b \in Candidates[p]
             /\ match'[p][b] = "approved" => RecordOf[p] \in Issued
             /\ match'[p][b] = "released" => b \in x.seen
  <2>1. match'[p][b] = Matching(p, x, adopt[p], named)[b]
    BY <1>1, <1>3
  <2>2. CASE adopt[p] # None
    <3>1. adopt[p] \in x.seen \cap Candidates[p]
      BY <1>1, <1>3, <2>2 DEF Found
    <3>2. match'[p][b] = IF b = adopt[p] THEN "released" ELSE "none"
      BY <2>1, <2>2 DEF Matching
    <3>3. QED
      BY <3>1, <3>2
  <2>3. CASE adopt[p] = None
    <3>1. match'[p][b] = IF b \notin Candidates[p] \/ named \notin {None, b} THEN "none"
             ELSE IF x.create /\ RecordOf[p] \in Issued THEN "approved" ELSE "proposal"
      BY <2>1, <2>3 DEF Matching
    <3>2. QED
      BY <3>1
  <2>4. QED
    BY <2>2, <2>3
<1>4. \A e \in Editor :
         IF edit[e] # None /\ edit[e].record \in x.records
         THEN edit'[e] = [edit[e] EXCEPT !.gone = TRUE] ELSE edit'[e] = edit[e]
  BY DEF FinishMatch
<1>5. QED
  BY <1>2, <1>3, <1>4

LEMMA EditStep ==
  ASSUME TypeOK, RowsInv, [Next]_vars
  PROVE  EditInv'
<1>1. ASSUME NEW x \in matchers, FinishMatch(x) PROVE EditInv'
  <2> SUFFICES ASSUME NEW e \in Editor, edit'[e] # None
               PROVE  /\ \A row \in edit'[e].rows :
                            /\ RecordOf[row[1]] = edit'[e].record
                            /\ StatusOf(edit'[e].seen, row) # "none"
                      /\ ~edit'[e].gone => \A row \in edit'[e].rows, other \in Row :
                            other[1] = row[1] =>
                               (StatusOf(match', other) # "none" <=> other \in edit'[e].rows)
    BY DEF EditInv, StatusOf
  <2>1. IF edit[e] # None /\ edit[e].record \in x.records
        THEN edit'[e] = [edit[e] EXCEPT !.gone = TRUE] ELSE edit'[e] = edit[e]
    BY <1>1, MatchingRows
  <2>2. edit[e] \in Edit \cup {None}
    BY DEF TypeOK
  <2>3. CASE edit[e] # None /\ edit[e].record \in x.records
    <3>1. /\ edit'[e].to = edit[e].to /\ edit'[e].rows = edit[e].rows
          /\ edit'[e].record = edit[e].record /\ edit'[e].seen = edit[e].seen
          /\ edit'[e].gone
      BY <2>1, <2>2, <2>3 DEF Edit
    <3>2. QED
      BY <2>3, <3>1 DEF RowsInv, EditInv
  <2>4. CASE ~(edit[e] # None /\ edit[e].record \in x.records)
    <3>1. edit'[e] = edit[e] /\ edit[e] # None /\ edit[e].record \notin x.records
      BY <2>1, <2>4
    <3>2. ASSUME NEW row \in edit[e].rows, NEW other \in Row, other[1] = row[1]
          PROVE  StatusOf(match', other) = StatusOf(match, other)
      <4>1. RecordOf[other[1]] \notin x.records
        BY <3>1, <3>2 DEF RowsInv, EditInv
      <4>2. QED
        BY <1>1, <4>1, RowPair, MatchingRows DEF StatusOf
    <3>3. QED
      BY <3>1, <3>2 DEF RowsInv, EditInv
  <2>5. QED
    BY <2>3, <2>4
<1>2. ASSUME ~\E x \in matchers : FinishMatch(x),
             \A e \in Editor : edit'[e] = edit[e] \/ edit'[e] = None
      PROVE  EditInv'
  <2>1. \A row \in Row : StatusOf(match', row) # "none" <=> StatusOf(match, row) # "none"
    BY <1>2, RowsStay, RowPair DEF RowsInv, StatusOf
  <2>2. QED
    BY <1>2, <2>1 DEF RowsInv, EditInv, StatusOf
<1>3. ASSUME NEW e \in Editor, OpenEdit(e) PROVE EditInv'
  <2>1. PICK p \in Package, b \in Build, to \in PackageStatus :
           LET mine == {row \in Row : /\ RecordOf[row[1]] = RecordOf[p]
                                      /\ SourceOf[row[1]] = SourceOf[p]
                                      /\ StatusOf(match, row) # "none"}
           IN edit' = [edit EXCEPT ![e] =
                  [record |-> RecordOf[p], build |-> b, to |-> to, rows |-> mine,
                   seen |-> Only(match, PackagesOf(RecordOf[p])),
                   adopted |-> adopted \cap PackagesOf(RecordOf[p]), gone |-> FALSE]]
    BY <1>3 DEF OpenEdit
  <2>2. match' = match /\ edit \in [Editor -> Edit \cup {None}]
    BY <1>3 DEF OpenEdit, rows, TypeOK
  <2> DEFINE mine == {row \in Row : /\ RecordOf[row[1]] = RecordOf[p]
                                    /\ SourceOf[row[1]] = SourceOf[p]
                                    /\ StatusOf(match, row) # "none"}
             x == edit'[e]
  <2>3. /\ x.record = RecordOf[p] /\ x.to = to /\ x.rows = mine
        /\ x.seen = Only(match, PackagesOf(RecordOf[p]))
    BY <2>1, <2>2
  <2>4. \A row \in mine : StatusOf(x.seen, row) = StatusOf(match, row)
    BY <2>3, RowPair DEF StatusOf, Only, PackagesOf
  <2>5. \A row \in mine, other \in Row : other[1] = row[1] =>
           (StatusOf(match, other) # "none" <=> other \in mine)
    OBVIOUS
  <2>6. \A d \in Editor \ {e} : edit'[d] = edit[d]
    BY <2>1, <2>2
  <2> HIDE DEF x, mine
  <2>7. \A d \in Editor : edit'[d] # None =>
           /\ \A row \in edit'[d].rows :
                 RecordOf[row[1]] = edit'[d].record /\ StatusOf(edit'[d].seen, row) # "none"
           /\ ~edit'[d].gone => \A row \in edit'[d].rows, other \in Row :
                 other[1] = row[1] => (StatusOf(match, other) # "none" <=> other \in edit'[d].rows)
    <3> TAKE d \in Editor
    <3>1. CASE d = e
      BY <2>3, <2>4, <2>5, <3>1 DEF x, mine
    <3>2. CASE d # e
      BY <2>6, <3>2 DEF RowsInv, EditInv
    <3>3. QED
      BY <3>1, <3>2
  <2>8. QED
    BY <2>2, <2>7 DEF EditInv, StatusOf
<1>4. CASE ~(\E x \in matchers : FinishMatch(x)) /\ ~(\E e \in Editor : OpenEdit(e))
  <2>1. \A e \in Editor : edit'[e] = edit[e] \/ edit'[e] = None
    BY <1>4 DEF TypeOK, Next, StartCreate, StartReset, StartResetMany, StartMatch, CloseEdit,
       StartMove, MarkReleased, MarkReverted, ReadRequest, SendRequest, Begin, LoadPlatform, Reject, Prepare,
       Commit, Publish, Lose, vars
  <2>2. QED
    BY <1>2, <1>4, <2>1
<1>5. QED
  BY <1>1, <1>3, <1>4

LEMMA CandidateStep ==
  ASSUME TypeOK, RowsInv, [Next]_vars
  PROVE  CandidateInv'
<1>1. CASE \E x \in matchers : FinishMatch(x)
  BY <1>1, MatchingRows DEF RowsInv, CandidateInv
<1>2. CASE ~\E x \in matchers : FinishMatch(x)
  BY <1>2, RowsStay DEF RowsInv, CandidateInv
<1>3. QED
  BY <1>1, <1>2

LEMMA UsedStep ==
  ASSUME TypeOK, RowsInv, [Next]_vars
  PROVE  UsedInv'
<1>0. job # None => job \in Job /\ job.used \subseteq Row
  BY DEF TypeOK, Job
<1>1. ASSUME NEW rs \in SUBSET Record, NEW create \in BOOLEAN, NEW worker \in BOOLEAN,
             StartMatch(rs, create, worker), create => worker,
             job # None /\ ~job.publishing => rs \cap job.message.records = {}
      PROVE  UsedInv'
  <2>1. job' = job /\ match' = match
    BY <1>1 DEF StartMatch, rows
  <2>2. \A x \in matchers' : x \in matchers \/ (x.records = rs /\ (x.create => x.worker))
    BY <1>1 DEF StartMatch
  <2>3. QED
    BY <1>1, <2>1, <2>2 DEF RowsInv, UsedInv, StatusOf
<1>2. ASSUME NEW r \in Record, StartCreate(r) PROVE UsedInv'
  BY <1>1, <1>2 DEF StartCreate, WorkerIdle
<1>3. ASSUME NEW r \in Record, StartReset(r) PROVE UsedInv'
  <2>1. job # None /\ ~job.publishing => {r} \cap job.message.records = {}
    BY <1>3 DEF StartReset, Locked
  <2>2. QED
    BY <1>1, <1>3, <2>1 DEF StartReset
<1>4. CASE StartResetMany
  <2>1. {r \in Record : status[r] = "NOT_RELEASED"} \in SUBSET Record
    OBVIOUS
  <2>2. QED
    BY <1>1, <1>4, <2>1 DEF StartResetMany, WorkerIdle
<1>5. ASSUME NEW x \in matchers, FinishMatch(x) PROVE UsedInv'
  <2>1. job' = job /\ matchers' = matchers \ {x}
    BY <1>5 DEF FinishMatch
  <2>2. ASSUME job # None, ~job.publishing
        PROVE  \A p \in Package, b \in Build :
                  RecordOf[p] \in job.message.records => match'[p][b] = match[p][b]
    <3>1. x.records \cap job.message.records = {}
      BY <2>2 DEF RowsInv, UsedInv
    <3>2. QED
      BY <1>5, <3>1, MatchingRows
  <2>3. QED
    BY <1>0, <2>1, <2>2, RowPair DEF RowsInv, UsedInv, StatusOf
<1>6. ASSUME ~\E x \in matchers : FinishMatch(x), matchers' = matchers, job' = job \/ job' = None
      PROVE  UsedInv'
  <2>1. \A p \in Package, b \in Build : match'[p][b] # "none" <=> match[p][b] # "none"
    BY <1>6, RowsStay DEF RowsInv
  <2>2. QED
    BY <1>0, <1>6, <2>1, RowPair DEF RowsInv, UsedInv, StatusOf
<1>7. CASE \/ \E e \in Editor : OpenEdit(e) \/ CloseEdit(e)
           \/ \E b \in Build, add \in BOOLEAN : StartMove(b, add)
           \/ MarkReleased \/ MarkReverted
           \/ \E rs \in SUBSET Record, late, force \in BOOLEAN : ReadRequest(rs, late, force)
           \/ \E q \in asked : SendRequest(q)
           \/ Publish
           \/ \E redeliver \in BOOLEAN : Lose(redeliver)
           \/ UNCHANGED vars
  <2>1. matchers' = matchers /\ (job' = job \/ job' = None)
    BY <1>7 DEF OpenEdit, CloseEdit, StartMove, MarkReleased, MarkReverted, ReadRequest,
                SendRequest, Publish, Lose, vars
  <2>2. QED
    BY <1>5, <1>6, <2>1
<1>8. ASSUME NEW m \in queue, Begin(m) PROVE UsedInv'
  <2>1. /\ matchers' = matchers /\ match' = match
        /\ \A x \in matchers : ~x.worker
        /\ m.records \cap Locked = {}
        /\ job'.message = m /\ job'.todo = m.records /\ job'.used = {} /\ job'.record = None
        /\ job'.seen = Only(match, UNION {PackagesOf(r) : r \in m.records})
    BY <1>8 DEF Begin, WorkerIdle, rows
  <2>2. \A x \in matchers : ~x.create /\ x.records \cap m.records = {}
    BY <2>1 DEF RowsInv, UsedInv, Locked
  <2>3. \A p \in Package, b \in Build : job'.seen[p][b] # "none" => match[p][b] # "none"
    BY <2>1 DEF Only
  <2>4. QED
    BY <2>1, <2>2, <2>3 DEF UsedInv
<1>9. ASSUME NEW r \in Record, Reject(r) PROVE UsedInv'
  <2>1. job # None /\ matchers' = matchers /\ match' = match
    BY <1>9 DEF Reject, rows
  <2>2. /\ job'.message = job.message /\ job'.publishing = job.publishing
        /\ job'.todo = job.todo \ {r} /\ job'.used = job.used /\ job'.seen = job.seen
        /\ job'.record = None
    BY <1>9, JobSteps
  <2>3. QED
    BY <2>1, <2>2 DEF RowsInv, UsedInv, StatusOf
<1>13. ASSUME NEW r \in Record, LoadPlatform(r) PROVE UsedInv'
  <2>1. job # None /\ matchers' = matchers /\ match' = match /\ r \in job.todo
    BY <1>13 DEF LoadPlatform, rows
  <2>2. /\ job'.message = job.message /\ job'.publishing = job.publishing
        /\ job'.todo = job.todo /\ job'.used = job.used /\ job'.seen = job.seen
        /\ job'.record = r
    BY <1>13, JobSteps
  <2>3. QED
    BY <2>1, <2>2 DEF RowsInv, UsedInv, StatusOf
<1>10. ASSUME NEW r \in Record, Prepare(r) PROVE UsedInv'
  <2>1. job # None /\ matchers' = matchers /\ match' = match /\ job.record = r
    BY <1>10 DEF Prepare, Releasable, rows
  <2>2. /\ job'.message = job.message /\ job'.publishing = job.publishing
        /\ job'.todo = job.todo \ {r} /\ job'.used = job.used \cup Used(r)
        /\ job'.seen = job.seen /\ job'.record = None
    BY <1>10, JobSteps
  <2>3. ASSUME ~job.publishing, NEW row \in Used(r)
        PROVE  RecordOf[row[1]] \in job.message.records /\ StatusOf(match, row) # "none"
    <3>1. row \in Row /\ RecordOf[row[1]] = r /\ StatusOf(job.seen, row) # "none"
      BY DEF Used
    <3>2. r \in job.message.records
      BY <2>1, <2>3, NoneAssumption DEF RowsInv, UsedInv
    <3>3. QED
      BY <2>1, <2>3, <3>1, <3>2, RowPair DEF RowsInv, UsedInv, StatusOf
  <2>4. QED
    BY <2>1, <2>2, <2>3 DEF RowsInv, UsedInv, StatusOf
<1>11. CASE Commit
  <2>1. matchers' = matchers /\ (job' # None => job'.publishing)
    <3>1. matchers' = matchers
      BY <1>11 DEF Commit
    <3>2. QED
      BY <1>11, <3>1, JobSteps
  <2>2. QED
    BY <2>1 DEF RowsInv, UsedInv
<1>12. QED
  BY <1>2, <1>3, <1>4, <1>5, <1>7, <1>8, <1>9, <1>10, <1>11, <1>13 DEF Next

\* A request and a release job know the rows they work on: these exist until a
\* matching replaces them, which the request notices and the job's locks prevent
\* (update_package_status, release_errata_record with FOR UPDATE).
THEOREM RowsInvariant == Spec => []RowsInv
<1>1. Init => RowsInv
  BY DEF Init, RowsInv, CandidateInv, EditInv, UsedInv
<1>2. TypeOK /\ RowsInv /\ [Next]_vars => RowsInv'
  BY CandidateStep, EditStep, UsedStep DEF RowsInv
<1>3. QED
  BY ErrataTypeCorrect, <1>1, <1>2, PTL DEF Spec

------------------------------------------------------------------------------
(* Rows and production                                                     *)

Here(b) == b \in production \/ (planner # None /\ planner.build = b)

\* The builds of the rows a job has written were in production at that moment, or
\* its record is marked as raced; they cannot leave before the job has committed:
\* the planner waits for their rows.
ProductionInv ==
    /\ planner # None /\ planner.add => planner.build \in production
    /\ job # None /\ ~job.publishing =>
          \A row \in Held : Here(row[2]) \/ RecordOf[row[1]] \in raced
    /\ ReleasedIsInProduction

LEMMA ProductionStep ==
  ASSUME TypeOK, RowsInv, ProductionInv, [Next]_vars
  PROVE  ProductionInv'
<1>0. job # None => job \in Job /\ job.used \subseteq Row
  BY DEF TypeOK, Job
<1>1. ASSUME UNCHANGED <<match, production, planner, raced, declared>>,
             job' = job \/ job' = None
      PROVE  ProductionInv'
  BY <1>1 DEF ProductionInv, Here, ReleasedIsInProduction, StatusOf, Held
<1>2. CASE \/ \E r \in Record : StartCreate(r) \/ StartReset(r)
           \/ StartResetMany
           \/ \E e \in Editor : OpenEdit(e)
           \/ \E rs \in SUBSET Record, late, force \in BOOLEAN : ReadRequest(rs, late, force)
           \/ \E q \in asked : SendRequest(q)
           \/ Publish
           \/ \E redeliver \in BOOLEAN : Lose(redeliver)
           \/ UNCHANGED vars
  BY <1>1, <1>2 DEF StartCreate, StartReset, StartResetMany, StartMatch, OpenEdit, ReadRequest,
                    SendRequest, Publish, Lose, rows, ghosts, vars
<1>3. ASSUME NEW x \in matchers, FinishMatch(x) PROVE ProductionInv'
  <2>1. /\ UNCHANGED <<production, planner, job, declared>>
        /\ raced' = raced \cup (IF x.seen = production /\ planner = None THEN {} ELSE x.records)
    BY <1>3 DEF FinishMatch
  <2>2. ASSUME NEW row \in Row, StatusOf(match', row) = "released",
               RecordOf[row[1]] \notin raced' \cup declared
        PROVE  Here(row[2])
    <3>1. CASE RecordOf[row[1]] \in x.records
      BY <1>3, <2>1, <2>2, <3>1, RowPair, MatchingRows DEF StatusOf, Here
    <3>2. CASE RecordOf[row[1]] \notin x.records
      <4>1. StatusOf(match, row) = "released"
        BY <1>3, <2>2, <3>2, RowPair, MatchingRows DEF StatusOf
      <4>2. QED
        BY <2>1, <2>2, <4>1 DEF ProductionInv, ReleasedIsInProduction, Here
    <3>3. QED
      BY <3>1, <3>2
  <2>3. QED
    BY <2>1, <2>2 DEF ProductionInv, ReleasedIsInProduction, Here, StatusOf, Held
<1>4. ASSUME NEW e \in Editor, CloseEdit(e) PROVE ProductionInv'
  <2>1. UNCHANGED <<production, planner, job, raced>> /\ declared \subseteq declared'
    BY <1>4 DEF CloseEdit
  <2>2. ASSUME NEW row \in Row, StatusOf(match', row) = "released",
               RecordOf[row[1]] \notin declared'
        PROVE  StatusOf(match, row) = "released"
    <3>1. CASE match' = match
      BY <2>2, <3>1 DEF StatusOf
    <3>2. ASSUME match' # match PROVE StatusOf(match, row) = "released"
      <4>1. PICK changed \in SUBSET edit[e].rows :
               /\ match' = With(match, [one \in changed |-> Decided(edit[e], one)])
               /\ \A one \in changed : Decided(edit[e], one) \in {edit[e].to, "skipped"}
               /\ edit[e].to = "released" /\ changed # {} => edit[e].record \in declared'
        BY <1>4, <3>2, EditWrites DEF RowsInv
      <4>5. \A one \in edit[e].rows : RecordOf[one[1]] = edit[e].record
        BY <1>4 DEF RowsInv, EditInv, CloseEdit
      <4>6. row \in changed => Decided(edit[e], row) # "released"
        BY <2>2, <4>1, <4>5
      <4>2. row = <<row[1], row[2]>> /\ row[1] \in Package /\ row[2] \in Build
        BY RowPair
      <4>3. StatusOf(match', row) = IF row \in changed THEN Decided(edit[e], row)
                                    ELSE StatusOf(match, row)
        BY <4>1, <4>2, WithStatus DEF StatusOf
      <4>4. QED
        BY <2>2, <4>3, <4>6
    <3>3. QED
      BY <3>1, <3>2
  <2>3. QED
    BY <2>1, <2>2 DEF ProductionInv, ReleasedIsInProduction, Here, Held
<1>5. ASSUME NEW b \in Build, NEW add \in BOOLEAN, StartMove(b, add) PROVE ProductionInv'
  <2>1. /\ UNCHANGED <<match, job, raced, declared>>
        /\ planner = None /\ planner' = [build |-> b, add |-> add]
        /\ production' = IF add THEN production \cup {b} ELSE production \ {b}
    BY <1>5 DEF StartMove, rows, ghosts
  <2>2. planner' # None /\ planner'.build = b /\ planner'.add = add
    <3>1. planner' \in Move
      BY <2>1 DEF Move
    <3>2. QED
      BY <2>1, <3>1, NoneAssumption
  <2>3. \A c : Here(c) => Here(c)'
    BY <2>1, <2>2 DEF Here
  <2>4. QED
    BY <2>1, <2>2, <2>3 DEF ProductionInv, ReleasedIsInProduction, Here, StatusOf, Held
<1>6. ASSUME MarkReleased PROVE ProductionInv'
  <2>1. /\ UNCHANGED <<production, job, raced, declared>> /\ planner' = None
        /\ planner # None /\ planner.add
        /\ \/ match' = match
           \/ match' = With(match, [row \in RowsOf(planner.build) |-> "released"])
    BY <1>6 DEF MarkReleased, ghosts
  <2>2. \A c : Here(c) => Here(c)'
    BY <2>1 DEF ProductionInv, Here
  <2>3. ASSUME NEW row \in Row, StatusOf(match', row) = "released"
        PROVE  StatusOf(match, row) = "released" \/ Here(row[2])
    <3>1. row = <<row[1], row[2]>> /\ row[1] \in Package /\ row[2] \in Build
      BY RowPair
    <3>2. row \in RowsOf(planner.build) \/ StatusOf(match', row) = StatusOf(match, row)
      BY <2>1, <3>1, WithStatus DEF StatusOf
    <3>3. QED
      BY <2>1, <2>3, <3>2 DEF RowsOf, Here
  <2>4. QED
    BY <2>1, <2>2, <2>3 DEF ProductionInv, ReleasedIsInProduction, Here, StatusOf, Held
<1>7. ASSUME MarkReverted PROVE ProductionInv'
  <2>1. /\ UNCHANGED <<production, job, raced, declared>> /\ planner' = None
        /\ planner # None /\ FreeToWrite(RowsOf(planner.build))
        /\ match' = With(match, [row \in RowsOf(planner.build) |-> "proposal"])
    BY <1>7 DEF MarkReverted, ghosts
  <2>2. ASSUME job # None, ~job.publishing, NEW row \in Held, RecordOf[row[1]] \notin raced
        PROVE  row[2] \in production
    <3>1. row \in Row /\ StatusOf(match, row) # "none"
      BY <1>0, <2>2 DEF RowsInv, UsedInv, Held
    <3>2. row \notin RowsOf(planner.build)
      BY <2>1, <2>2 DEF FreeToWrite
    <3>3. row[2] # planner.build
      BY <3>1, <3>2 DEF RowsOf
    <3>4. QED
      BY <2>2, <3>3 DEF ProductionInv, Here
  <2>3. ASSUME NEW row \in Row, StatusOf(match', row) = "released"
        PROVE  StatusOf(match, row) = "released" /\ row[2] # planner.build
    <3>1. row = <<row[1], row[2]>> /\ row[1] \in Package /\ row[2] \in Build
      BY RowPair
    <3>2. StatusOf(match', row) = IF row \in RowsOf(planner.build) THEN "proposal"
                                  ELSE StatusOf(match, row)
      BY <2>1, <3>1, WithStatus DEF StatusOf
    <3>3. QED
      BY <2>3, <3>2 DEF RowsOf
  <2>4. QED
    BY <2>1, <2>2, <2>3 DEF ProductionInv, ReleasedIsInProduction, Here, Held
<1>8. ASSUME NEW m \in queue, Begin(m) PROVE ProductionInv'
  <2>1. UNCHANGED <<match, production, planner, raced, declared>> /\ job'.used = {}
    BY <1>8 DEF Begin, rows, ghosts
  <2>2. QED
    BY <2>1 DEF ProductionInv, ReleasedIsInProduction, Here, StatusOf, Held
<1>9. ASSUME NEW r \in Record, LoadPlatform(r) \/ Reject(r) PROVE ProductionInv'
  <2>1. UNCHANGED <<match, production, planner, raced, declared>> /\ job # None
    BY <1>9 DEF LoadPlatform, Reject, rows, ghosts
  <2>2. job'.used = job.used /\ job'.publishing = job.publishing /\ job'.seen = job.seen
    BY <1>9, JobSteps
  <2>3. QED
    BY <2>1, <2>2 DEF ProductionInv, ReleasedIsInProduction, Here, StatusOf, Held
<1>10. ASSUME NEW r \in Record, Prepare(r) PROVE ProductionInv'
  <2>1. UNCHANGED <<match, production, planner, declared>> /\ job # None /\ raced \subseteq raced'
    BY <1>10 DEF Prepare, rows
  <2>2. /\ job'.used = job.used \cup Used(r) /\ job'.publishing = job.publishing
        /\ job'.seen = job.seen
    BY <1>10, JobSteps
  <2>3. \A row \in Used(r) : row[2] \in production \/ RecordOf[row[1]] \in raced'
    <3>1. \A row \in Used(r) : RecordOf[row[1]] = r /\ row[2] \in job.found
      BY DEF Used
    <3>2. (\E row \in Used(r) : row[2] \in job.found \ production) => r \in raced'
      BY <1>10 DEF Prepare
    <3>3. QED
      BY <3>1, <3>2
  <2>4. \A row \in Held' : row \in Held \/ row \in Used(r)
    BY <2>2 DEF Held
  <2>5. QED
    BY <2>1, <2>2, <2>3, <2>4 DEF ProductionInv, ReleasedIsInProduction, Here, StatusOf
<1>11. ASSUME Commit PROVE ProductionInv'
  <2>1. /\ UNCHANGED <<production, planner, raced, declared>>
        /\ job # None /\ ~job.publishing
        /\ match' = With(match, [row \in Held |-> "released"])
    BY <1>11 DEF Commit
  <2>2. job' # None => job'.publishing
    BY <1>11, JobSteps
  <2>3. ASSUME NEW row \in Row, StatusOf(match', row) = "released", RecordOf[row[1]] \notin raced
        PROVE  StatusOf(match, row) = "released" \/ Here(row[2])
    <3>1. row = <<row[1], row[2]>> /\ row[1] \in Package /\ row[2] \in Build
      BY RowPair
    <3>2. row \in Held \/ StatusOf(match', row) = StatusOf(match, row)
      BY <2>1, <3>1, WithStatus DEF StatusOf
    <3>3. QED
      BY <2>1, <2>3, <3>2 DEF ProductionInv
  <2>4. QED
    BY <2>1, <2>2, <2>3 DEF ProductionInv, ReleasedIsInProduction, Here, StatusOf
<1>12. QED
  BY <1>2, <1>3, <1>4, <1>5, <1>6, <1>7, <1>8, <1>9, <1>10, <1>11 DEF Next

\* A row says "released" only while its build is in production, whatever matchings,
\* requests, moves of builds and release jobs run side by side, unless a reviewer
\* said so or the record was matched or released with a state of production that
\* was out of date (load_platform_packages, check_released_errata_packages,
\* revert_release_plan, process_errata_release_for_repos).
THEOREM ReleasedRowsAreInProduction == Spec => []ReleasedIsInProduction
<1>1. Init => ProductionInv
  BY RowPair DEF Init, ProductionInv, ReleasedIsInProduction, StatusOf
<1>2. TypeOK /\ RowsInv /\ ProductionInv /\ [Next]_vars => ProductionInv'
  BY ProductionStep
<1>3. ProductionInv => ReleasedIsInProduction
  BY DEF ProductionInv
<1>4. QED
  BY ErrataTypeCorrect, RowsInvariant, <1>1, <1>2, <1>3, PTL DEF Spec

------------------------------------------------------------------------------
(* Approved builds                                                         *)

Apart(p) == RecordOf[p] \notin Issued \cup overlapped \cup halted

ApprovedInv ==
    \A p \in Package : Apart(p) => \A b, c \in Build :
        match[p][b] = "approved" /\ match[p][c] = "approved" => b = c

\* A request that read what is still there and did not stop before its end leaves
\* no row approved but those of its build, among the packages it is about.
LEMMA EditApproves ==
  ASSUME TypeOK, RowsInv, NEW e \in Editor, CloseEdit(e), NEW p \in Package, Apart(p)',
         RecordOf[p] = edit[e].record
  PROVE  \/ \A b \in Build : match'[p][b] = "approved" => match[p][b] = "approved"
         \/ \A b \in Build : match'[p][b] = "approved" => b = edit[e].build
<1> DEFINE x == edit[e]
<1>1. x \in Edit /\ x.rows \subseteq Row
  BY DEF TypeOK, CloseEdit, Edit
<1>2. PICK v \in Visited(x) :
         LET changed == {row \in v : Decided(x, row) # StatusOf(x.seen, row)} IN
         IF x.gone THEN match' = match
         ELSE /\ match' = With(match, [row \in changed |-> Decided(x, row)])
              /\ overlapped' = overlapped \cup
                     (IF \E row \in x.rows : StatusOf(match, row) # StatusOf(x.seen, row)
                      THEN {x.record} ELSE {})
              /\ halted' = halted \cup (IF x.to = "approved" /\ v # x.rows /\ changed # {}
                                        THEN {x.record} ELSE {})
  BY DEF CloseEdit
<1> DEFINE changed == {row \in v : Decided(x, row) # StatusOf(x.seen, row)}
<1>3. v \subseteq x.rows
  BY DEF Visited
<1>4. ASSUME ~x.gone, NEW b \in Build
      PROVE  match'[p][b] = IF <<p, b>> \in changed THEN Decided(x, <<p, b>>) ELSE match[p][b]
  BY <1>2, <1>4, WithStatus
<1>5. ASSUME ~x.gone PROVE \A row \in x.rows : StatusOf(match, row) = StatusOf(x.seen, row)
  BY <1>2, <1>5 DEF Apart
<1>6. CASE x.gone
  BY <1>2, <1>6
<1>7. CASE ~x.gone /\ x.to # "approved"
  <2>1. \A row : Decided(x, row) \in {x.to, StatusOf(x.seen, row)}
    BY <1>7 DEF Decided
  <2>2. \A row \in changed : Decided(x, row) # "approved"
    BY <1>7, <2>1
  <2>3. QED
    BY <1>4, <1>7, <2>2
<1>8. CASE ~x.gone /\ x.to = "approved"
  <2>1. changed = {} \/ v = x.rows
    BY <1>2, <1>8 DEF Apart
  <2>2. CASE changed = {}
    BY <1>4, <1>8, <2>2
  <2>3. CASE v = x.rows
    <3>1. \A row \in x.rows : Decided(x, row) = "approved" => row[2] = x.build
      BY <1>8 DEF Decided
    <3>2. CASE \E b \in Build : <<p, b>> \in x.rows
      <4>1. \A b \in Build : match[p][b] # "none" => <<p, b>> \in x.rows
        <5> SUFFICES ASSUME NEW b \in Build, match[p][b] # "none" PROVE <<p, b>> \in x.rows
          OBVIOUS
        <5>1. PICK c \in Build : <<p, c>> \in x.rows
          BY <3>2
        <5>2. b \in Candidates[p]
          BY DEF RowsInv, CandidateInv
        <5>3. <<p, b>> \in Row /\ StatusOf(match, <<p, b>>) # "none"
          BY <5>2 DEF Row, StatusOf
        <5>4. edit[e] # None
          BY DEF CloseEdit
        <5>5. \A row \in x.rows, other \in Row : other[1] = row[1] =>
                 (StatusOf(match, other) # "none" <=> other \in x.rows)
          BY <1>8, <5>4 DEF RowsInv, EditInv
        <5> DEFINE one == <<p, b>>
                   two == <<p, c>>
        <5>6. one[1] = two[1] /\ one \in Row /\ two \in x.rows /\ StatusOf(match, one) # "none"
          BY <5>1, <5>3
        <5> HIDE DEF one, two
        <5>7. one \in x.rows
          BY <5>5, <5>6
        <5>8. QED
          BY <5>7 DEF one
      <4>2. ASSUME NEW b \in Build, match'[p][b] = "approved" PROVE b = x.build
        <5>1. <<p, b>> \in changed \/ match[p][b] = "approved"
          BY <1>4, <1>8, <4>2
        <5>2. <<p, b>> \in x.rows
          BY <1>3, <4>1, <5>1
        <5>3. StatusOf(match, <<p, b>>) = match[p][b]
          BY DEF StatusOf
        <5>4. Decided(x, <<p, b>>) = "approved"
          BY <1>4, <1>5, <1>8, <2>3, <4>2, <5>2, <5>3
        <5>5. QED
          BY <3>1, <5>2, <5>4
      <4>3. QED
        BY <4>2
    <3>3. CASE ~\E b \in Build : <<p, b>> \in x.rows
      BY <1>3, <1>4, <1>8, <3>3
    <3>4. QED
      BY <3>2, <3>3
  <2>4. QED
    BY <2>1, <2>2, <2>3
<1>9. QED
  BY <1>6, <1>7, <1>8

LEMMA ApprovedStep ==
  ASSUME TypeOK, RowsInv, ApprovedInv, [Next]_vars
  PROVE  ApprovedInv'
<1>1. \A p \in Package : Apart(p)' => Apart(p)
  <2>1. overlapped \subseteq overlapped' /\ halted \subseteq halted'
    BY DEF Next, StartCreate, StartReset, StartResetMany, StartMatch, FinishMatch, OpenEdit,
           CloseEdit, StartMove, MarkReleased, MarkReverted, ReadRequest, SendRequest, Begin,
           LoadPlatform, Reject, Prepare, Commit, Publish, Lose, ghosts, vars
  <2>2. QED
    BY <2>1 DEF Apart
<1>2. ASSUME NEW x \in matchers, FinishMatch(x) PROVE ApprovedInv'
  <2> SUFFICES ASSUME NEW p \in Package, Apart(p)', NEW b \in Build, NEW c \in Build,
                      match'[p][b] = "approved", match'[p][c] = "approved"
               PROVE  b = c
    BY DEF ApprovedInv
  <2>1. RecordOf[p] \notin x.records
    BY <1>1, <1>2, MatchingRows DEF Apart
  <2>2. match[p][b] = "approved" /\ match[p][c] = "approved"
    BY <1>2, <2>1, MatchingRows
  <2>3. QED
    BY <1>1, <2>2 DEF ApprovedInv
<1>3. ASSUME NEW e \in Editor, CloseEdit(e) PROVE ApprovedInv'
  <2> SUFFICES ASSUME NEW p \in Package, Apart(p)', NEW b \in Build, NEW c \in Build,
                      match'[p][b] = "approved", match'[p][c] = "approved"
               PROVE  b = c
    BY DEF ApprovedInv
  <2>1. CASE RecordOf[p] = edit[e].record
    <3>1. \/ match[p][b] = "approved" /\ match[p][c] = "approved"
          \/ b = edit[e].build /\ c = edit[e].build
      BY <1>3, <2>1, EditApproves
    <3>2. QED
      BY <1>1, <3>1 DEF ApprovedInv
  <2>2. CASE RecordOf[p] # edit[e].record
    <3>1. edit[e] # None
      BY <1>3 DEF CloseEdit
    <3>2. \A one \in Build : match'[p][one] = match[p][one]
      <4>1. CASE match' = match
        BY <4>1
      <4>2. ASSUME match' # match, NEW one \in Build PROVE match'[p][one] = match[p][one]
        <5>1. PICK changed \in SUBSET edit[e].rows :
                 match' = With(match, [row \in changed |-> Decided(edit[e], row)])
          BY <1>3, <4>2, EditWrites DEF RowsInv
        <5>2. \A row \in edit[e].rows : RecordOf[row[1]] = edit[e].record
          BY <3>1 DEF RowsInv, EditInv
        <5>3. <<p, one>> \notin changed
          <6> DEFINE pair == <<p, one>>
          <6>1. pair[1] = p
            OBVIOUS
          <6> HIDE DEF pair
          <6>2. pair \notin changed
            BY <2>2, <5>2, <6>1
          <6>3. QED
            BY <6>2 DEF pair
        <5>4. QED
          BY <5>1, <5>3, WithStatus
      <4>3. QED
        BY <4>1, <4>2
    <3>3. QED
      BY <1>1, <3>2 DEF ApprovedInv
  <2>3. QED
    BY <2>1, <2>2
<1>4. ASSUME \A p \in Package, b \in Build :
                match'[p][b] = "approved" => match[p][b] = "approved"
      PROVE  ApprovedInv'
  BY <1>1, <1>4 DEF ApprovedInv
<1>5. ASSUME NEW s, s # "approved", NEW S,
             match' = match \/ match' = With(match, [row \in S |-> s])
      PROVE  ApprovedInv'
  <2>1. ASSUME NEW p \in Package, NEW b \in Build PROVE match'[p][b] \in {s, match[p][b]}
    <3>1. With(match, [row \in S |-> s])[p][b]
              = IF <<p, b>> \in S THEN s ELSE match[p][b]
      BY WithStatus
    <3>2. QED
      BY <1>5, <3>1
  <2>2. QED
    BY <1>4, <1>5, <2>1
<1>6. CASE MarkReleased \/ MarkReverted
  <2>1. PICK s \in {"released", "proposal"} :
           match' = match \/ match' = With(match, [row \in RowsOf(planner.build) |-> s])
    BY <1>6 DEF MarkReleased, MarkReverted
  <2>2. QED
    BY <1>5, <2>1
<1>7. CASE Commit
  <2>1. match' = With(match, [row \in Held |-> "released"])
    BY <1>7 DEF Commit
  <2>2. QED
    BY <1>5, <2>1
<1>8. CASE match' = match
  BY <1>4, <1>8
<1>9. QED
  BY <1>2, <1>3, <1>6, <1>7, <1>8 DEF Next, StartCreate, StartReset, StartResetMany, StartMatch,
     OpenEdit, StartMove, ReadRequest, SendRequest, Begin, LoadPlatform, Reject, Prepare, Publish, Lose,
     rows, vars

\* Approving the packages of one build rules the other builds out, for any number
\* of requests side by side, unless a request wrote over rows it had not read or
\* stopped at a released row (update_package_status).
THEOREM OneBuildIsApproved == Spec => []OneBuildApproved
<1>1. Init => ApprovedInv
  BY DEF Init, ApprovedInv
<1>2. TypeOK /\ RowsInv /\ ApprovedInv /\ [Next]_vars => ApprovedInv'
  BY ApprovedStep
<1>3. ApprovedInv => OneBuildApproved
  <2> SUFFICES ASSUME ApprovedInv, NEW p \in Package, Apart(p)
               PROVE  Cardinality({b \in Build : match[p][b] = "approved"}) <= 1
    BY DEF OneBuildApproved, Apart
  <2> DEFINE approved == {b \in Build : match[p][b] = "approved"}
  <2>1. CASE approved = {}
    BY <2>1, FS_EmptySet
  <2>2. CASE approved # {}
    <3>1. PICK b \in approved : TRUE
      BY <2>2
    <3>2. approved = {b}
      BY <3>1 DEF ApprovedInv
    <3>3. Cardinality({b}) = 1
      BY FS_Singleton
    <3>4. QED
      BY <3>2, <3>3
  <2>3. QED
    BY <2>1, <2>2
<1>4. QED
  BY ErrataTypeCorrect, RowsInvariant, <1>1, <1>2, <1>3, PTL DEF Spec
===============================================================================
