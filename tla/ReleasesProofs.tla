---------------------------- MODULE ReleasesProofs ----------------------------
(***************************************************************************)
(* Builds are marked as released by a release that stands for them, for    *)
(* any number of releases, builds, requests, edits and interruptions.      *)
(***************************************************************************)
EXTENDS Releases, TLAPS

\* A release that exists has builds; one that a message waits for is not
\* scheduled any more, or its request is still open.
QueueInv ==
    /\ \A r \in Release : status[r] # "none" => builds[r] # {}
    /\ \A m \in asked : status[m.release] # "none"
    /\ \A m \in queue :
          /\ builds[m.release] # {}
          /\ status[m.release] = "SCHEDULED" => ~FreeRow(m.release)

\* The worker's release is the one in the database, but for the status a
\* request has set, unless it was deleted or edited.
JobInv ==
    job # None =>
        /\ job \in queue
        /\ status[job.release] \in {loaded.status, "IN_PROGRESS", "none"}
        /\ edited \/ loaded.builds = builds[job.release]

\* The release of a build was committed, and is still about the build.
HomeInv ==
    \A b \in Build : releaseOf[b] # None =>
        /\ status[releaseOf[b]] \notin {"none", "SCHEDULED"}
        /\ edited \/ b \in builds[releaseOf[b]]

ReleaseInv == TypeOK /\ QueueInv /\ JobInv /\ HomeInv /\ ReleasedByCompleted

LEMMA InitType == Init => TypeOK
<1> USE ReleaseAssumption
<1> SUFFICES ASSUME Init PROVE TypeOK
  OBVIOUS
<1>1. elsewhere \subseteq Build /\ community \in BOOLEAN
  BY DEF Init
<1>2. {shared, edited, stale, hidden} \subseteq BOOLEAN
  BY DEF Init
<1>3. requests \in 0..MaxRequests /\ edits \in 0..MaxEdits /\ faults \in 0..MaxFaults
  BY DEF Init
<1>4. loaded \in Loaded
  BY DEF Init, Nothing, Loaded
<1>5. QED
  BY <1>1, <1>2, <1>3, <1>4 DEF Init, TypeOK, Status

LEMMA StepType == TypeOK /\ [Next]_vars => TypeOK'
<1> USE ReleaseAssumption
<1> SUFFICES ASSUME TypeOK, [Next]_vars PROVE TypeOK'
  OBVIOUS
<1>1. ASSUME NEW r \in Release, NEW bs \in SUBSET Build, Create(r, bs)
      PROVE  TypeOK'
  BY <1>1 DEF TypeOK, Create, repositories, broker, Status
<1>2. ASSUME NEW r \in Release, NEW bs \in SUBSET Build, NEW packages \in SUBSET bs,
             Update(r, bs, packages)
      PROVE  TypeOK'
  BY <1>2 DEF TypeOK, Update, repositories, broker
<1>3. ASSUME NEW r \in Release, CheckScheduled(r)
      PROVE  TypeOK'
  BY <1>3 DEF TypeOK, CheckScheduled, repositories, broker
<1>4. ASSUME NEW r \in Release, Delete(r)
      PROVE  TypeOK'
  BY <1>4 DEF TypeOK, Delete, repositories, broker
<1>5. ASSUME NEW r \in Release, NEW kind \in {"commit", "revert"}, Ask(r, kind)
      PROVE  TypeOK'
  <2>1. requests + 1 \in 1..MaxRequests
    BY <1>5 DEF TypeOK, Ask
  <2>2. [release |-> r, kind |-> kind, nr |-> requests + 1] \in Message
    BY <2>1 DEF Message
  <2>3. QED
    BY <1>5, <2>1, <2>2 DEF TypeOK, Ask, repositories
<1>6. ASSUME NEW m \in asked, Answer(m)
      PROVE  TypeOK'
  BY <1>6 DEF TypeOK, Answer, repositories, Status, Message
<1>7. ASSUME NEW m \in queue, Load(m)
      PROVE  TypeOK'
  <2>1. m.release \in Release
    BY DEF TypeOK, Message
  <2>2. loaded' \in Loaded
    BY <1>7, <2>1 DEF TypeOK, Load, Loaded
  <2>3. {shared, edited, stale, hidden}' \subseteq BOOLEAN
    BY <1>7 DEF TypeOK, Load
  <2>4. QED
    BY <1>7, <2>2, <2>3 DEF TypeOK, Load, repositories
<1>8. ASSUME job # None
      PROVE  job \in Message /\ job.release \in Release
  BY <1>8 DEF TypeOK, Message
<1>9. Nothing \in Loaded
  BY DEF Nothing, Loaded
<1>10. loaded.builds \subseteq Build /\ loaded.plan \subseteq Build
  BY DEF TypeOK, Loaded
<1>11. CASE Commit
  BY <1>8, <1>9, <1>10, <1>11
     DEF TypeOK, Commit, Works, SetStatus, SetPlan, Done, Status,
           JoinProduct, MarkErrata
<1>12. CASE CommitRaises
  BY <1>8, <1>9, <1>10, <1>12
     DEF TypeOK, CommitRaises, Works, SetStatus, SetPlan, Done, Status
<1>13. CASE Revert
  BY <1>8, <1>9, <1>10, <1>13
     DEF TypeOK, Revert, Works, SetStatus, SetPlan, Done, Status,
           Remove, LeaveProduct
<1>14. CASE RevertRaises
  BY <1>9, <1>14 DEF TypeOK, RevertRaises, Remove, Fails, Done
<1>15. CASE Crash
  BY <1>9, <1>10, <1>15 DEF TypeOK, Crash, Remove, Fails
<1>16. CASE Gone
  BY <1>9, <1>16 DEF TypeOK, Gone, Done, repositories
<1>17. CASE UNCHANGED vars
  BY <1>17 DEF TypeOK, vars
<1>18. QED
  BY <1>1, <1>2, <1>3, <1>4, <1>5, <1>6, <1>7, <1>11, <1>12, <1>13, <1>14, <1>15,
     <1>16, <1>17 DEF Next

LEMMA InitInv == Init => ReleaseInv
<1> SUFFICES ASSUME Init PROVE ReleaseInv
  OBVIOUS
<1>1. TypeOK
  BY InitType
<1>2. QueueInv
  BY DEF Init, QueueInv
<1>3. JobInv /\ HomeInv /\ ReleasedByCompleted
  BY DEF Init, JobInv, HomeInv, ReleasedByCompleted
<1>4. QED
  BY <1>1, <1>2, <1>3 DEF ReleaseInv

\* Creating, editing and deleting releases.
LEMMA EditStep ==
  ASSUME ReleaseInv, NEW r \in Release,
         \/ \E bs \in SUBSET Build : Create(r, bs)
         \/ \E bs \in SUBSET Build, packages \in SUBSET Build : Update(r, bs, packages)
         \/ CheckScheduled(r)
         \/ Delete(r)
  PROVE  QueueInv' /\ JobInv' /\ HomeInv' /\ ReleasedByCompleted'
<1> USE DEF ReleaseInv
<1>0. \A m \in asked \cup queue : m.release \in Release
  BY DEF TypeOK, Message
<1>1. \A b \in Build : releaseOf[b] # None => releaseOf[b] \in Release
  BY DEF TypeOK
<1>2. asked' = asked /\ queue' = queue /\ job' = job /\ loaded' = loaded
      /\ releaseOf' = releaseOf /\ released' = released
  BY DEF Create, Update, CheckScheduled, Delete, broker, repositories
<1>3. job # None => job \in queue /\ job.release \in Release
  BY <1>0 DEF JobInv
<1>4. released \subseteq Build
  BY DEF TypeOK
<1>5. CASE \E bs \in SUBSET Build : Create(r, bs)
  <2>1. PICK bs \in SUBSET Build : Create(r, bs)
    BY <1>5
  <2>2. /\ status[r] = "none" /\ builds[r] = {} /\ bs # {}
        /\ status' = [status EXCEPT ![r] = "SCHEDULED"]
        /\ builds' = [builds EXCEPT ![r] = bs]
        /\ edited' = edited
    BY <2>1 DEF Create
  <2>3. QueueInv'
    BY <1>0, <1>2, <2>2 DEF QueueInv, FreeRow, TypeOK
  <2>4. JobInv'
    BY <1>2, <1>3, <2>2 DEF QueueInv, JobInv, TypeOK
  <2>5. HomeInv' /\ ReleasedByCompleted'
    BY <1>1, <1>2, <1>4, <2>2 DEF HomeInv, ReleasedByCompleted, TypeOK
  <2>6. QED
    BY <2>3, <2>4, <2>5
<1>6. CASE \E bs \in SUBSET Build, packages \in SUBSET Build : Update(r, bs, packages)
  <2>1. PICK bs \in SUBSET Build, packages \in SUBSET Build : Update(r, bs, packages)
    BY <1>6
  <2>2. /\ status' = status /\ FreeRow(r) /\ bs # {}
        /\ builds' = [builds EXCEPT ![r] = bs]
        /\ edited' = (edited \/ status[r] # "SCHEDULED")
    BY <2>1 DEF Update
  <2>3. QueueInv'
    BY <1>0, <1>2, <2>2 DEF QueueInv, FreeRow, TypeOK
  <2>4. JobInv'
    BY <1>2, <1>3, <2>2 DEF QueueInv, JobInv, TypeOK
  <2>5. HomeInv' /\ ReleasedByCompleted'
    BY <1>1, <1>2, <1>4, <2>2 DEF HomeInv, ReleasedByCompleted, TypeOK
  <2>6. QED
    BY <2>3, <2>4, <2>5
<1>7. CASE CheckScheduled(r)
  BY <1>2, <1>7 DEF CheckScheduled, QueueInv, FreeRow, JobInv, HomeInv, ReleasedByCompleted
<1>8. CASE Delete(r)
  <2>1. /\ FreeRow(r) /\ builds' = builds /\ edited' = edited
        /\ \/ status' = status
           \/ status' = [status EXCEPT ![r] = "none"] /\ \A b \in Build : releaseOf[b] # r
    BY <1>8 DEF Delete
  <2>2. QueueInv'
    BY <1>0, <1>2, <2>1 DEF QueueInv, FreeRow, TypeOK
  <2>3. JobInv'
    BY <1>2, <1>3, <2>1 DEF QueueInv, JobInv, TypeOK
  <2>4. HomeInv' /\ ReleasedByCompleted'
    BY <1>1, <1>2, <1>4, <2>1 DEF HomeInv, ReleasedByCompleted, TypeOK
  <2>5. QED
    BY <2>2, <2>3, <2>4
<1>9. QED
  BY <1>5, <1>6, <1>7, <1>8

\* Requests, and the worker loading a release.
LEMMA RequestStep ==
  ASSUME ReleaseInv,
         \/ \E r \in Release, kind \in {"commit", "revert"} : Ask(r, kind)
         \/ \E m \in asked : Answer(m)
         \/ \E m \in queue : Load(m)
  PROVE  QueueInv' /\ JobInv' /\ HomeInv' /\ ReleasedByCompleted'
<1> USE DEF ReleaseInv
<1>1. \A m \in asked \cup queue : m.release \in Release
  BY DEF TypeOK, Message
<1>2. \A b \in Build : releaseOf[b] # None => releaseOf[b] \in Release
  BY DEF TypeOK
<1>3. builds' = builds /\ releaseOf' = releaseOf /\ released' = released /\ edited' = edited
  BY DEF Ask, Answer, Load, repositories
<1>4. released \subseteq Build
  BY DEF TypeOK
<1>5. ASSUME NEW r \in Release, NEW kind \in {"commit", "revert"}, Ask(r, kind)
      PROVE  QueueInv' /\ JobInv' /\ HomeInv' /\ ReleasedByCompleted'
  <2>1. PICK m : /\ m.release = r
                 /\ asked' = asked \cup {m} /\ queue' = queue \cup {m}
    BY <1>5 DEF Ask
  <2>2. status' = status /\ status[r] # "none" /\ job' = job /\ loaded' = loaded
    BY <1>5 DEF Ask
  <2>3. QueueInv'
    BY <1>1, <1>3, <2>1, <2>2 DEF QueueInv, FreeRow
  <2>4. JobInv' /\ HomeInv' /\ ReleasedByCompleted'
    BY <1>3, <2>1, <2>2 DEF JobInv, HomeInv, ReleasedByCompleted
  <2>5. QED
    BY <2>3, <2>4
<1>6. ASSUME NEW m \in asked, Answer(m)
      PROVE  QueueInv' /\ JobInv' /\ HomeInv' /\ ReleasedByCompleted'
  <2>1. /\ asked' = asked \ {m} /\ queue' = queue /\ job' = job /\ loaded' = loaded
        /\ status' = [status EXCEPT ![m.release] = "IN_PROGRESS"]
    BY <1>6 DEF Answer
  <2>2. QueueInv'
    BY <1>1, <1>3, <2>1 DEF QueueInv, FreeRow, TypeOK
  <2>3. JobInv'
    BY <1>1, <1>3, <2>1 DEF JobInv, TypeOK
  <2>4. HomeInv' /\ ReleasedByCompleted'
    BY <1>1, <1>2, <1>3, <1>4, <2>1 DEF HomeInv, ReleasedByCompleted, TypeOK
  <2>5. QED
    BY <2>2, <2>3, <2>4
<1>7. ASSUME NEW m \in queue, Load(m)
      PROVE  QueueInv' /\ JobInv' /\ HomeInv' /\ ReleasedByCompleted'
  <2>1. job = None /\ asked' = asked /\ status' = status /\ queue' \subseteq queue
    BY <1>7 DEF Load
  <2>2. QueueInv'
    BY <1>3, <2>1 DEF QueueInv, FreeRow
  <2>3. job' # None =>
          /\ job' = m /\ queue' = queue
          /\ loaded'.status = status[m.release] /\ loaded'.builds = builds[m.release]
    BY <1>7 DEF Load
  <2>4. JobInv'
    BY <1>3, <2>1, <2>3 DEF JobInv
  <2>5. HomeInv' /\ ReleasedByCompleted'
    BY <1>3, <2>1 DEF HomeInv, ReleasedByCompleted
  <2>6. QED
    BY <2>2, <2>4, <2>5
<1>8. QED
  BY <1>5, <1>6, <1>7

\* A job that ends leaves the queue and the requests as they should be, if it
\* writes a status other than "none" and "SCHEDULED".
LEMMA JobEnds ==
  ASSUME ReleaseInv, NEW r \in Release, Works("commit") \/ Works("revert"),
         r = job.release,
         asked' = asked, queue' \subseteq queue, builds' = builds, job' = None,
         \/ status' = status
         \/ \E s \in Status \ {"SCHEDULED"} : status' = [status EXCEPT ![r] = s]
  PROVE  QueueInv' /\ JobInv'
<1>1. \A m \in asked \cup queue : m.release \in Release
  BY DEF ReleaseInv, TypeOK, Message
<1>2. \A q \in Release : /\ status'[q] = "none" => status[q] = "none"
                         /\ status[q] = "none" => status'[q] = "none"
                         /\ status'[q] = "SCHEDULED" => status[q] = "SCHEDULED"
  BY DEF ReleaseInv, TypeOK, Status, Works
<1>3. QueueInv'
  BY <1>1, <1>2 DEF ReleaseInv, QueueInv, FreeRow
<1>4. JobInv'
  BY DEF JobInv
<1>5. QED
  BY <1>3, <1>4

\* The worker ends a job.
LEMMA WorkerStep ==
  ASSUME ReleaseInv,
         Commit \/ CommitRaises \/ Revert \/ RevertRaises \/ Crash \/ Gone
  PROVE  QueueInv' /\ JobInv' /\ HomeInv' /\ ReleasedByCompleted'
<1> DEFINE r == job.release
<1> USE DEF ReleaseInv
<1>0. job # None /\ job' = None /\ asked' = asked /\ builds' = builds /\ edited' = edited
      /\ queue' \subseteq queue
  BY DEF Commit, CommitRaises, Revert, RevertRaises, Crash, Gone, Works, Done
<1>1. r \in Release
  BY <1>0 DEF TypeOK, Message
<1>2. \A b \in Build : releaseOf[b] # None => releaseOf[b] \in Release
  BY DEF TypeOK
<1>3. released \subseteq Build /\ loaded.builds \subseteq Build
  BY DEF TypeOK, Loaded
<1>4. status[r] \in {loaded.status, "IN_PROGRESS", "none"}
      /\ (edited \/ loaded.builds = builds[r])
  BY <1>0 DEF JobInv
<1> HIDE DEF r
<1>5. CASE Commit
  <2>1. /\ Works("commit") /\ status[r] # "none"
        /\ SetStatus(r, "COMPLETED")
        /\ releaseOf' = [b \in Build |-> IF b \in loaded.builds THEN r ELSE releaseOf[b]]
        /\ released' = released \cup loaded.builds
    BY <1>5 DEF Commit, Works, r
  <2>2. status'[r] \in {"COMPLETED", "IN_PROGRESS"} /\ \A q \in Release \ {r} : status'[q] = status[q]
    BY <1>1, <1>4, <2>1 DEF SetStatus, TypeOK
  <2>3. QueueInv' /\ JobInv'
    BY <1>0, <1>1, <2>1, JobEnds DEF SetStatus, Status, r
  <2>4. HomeInv'
    BY <1>0, <1>2, <1>4, <2>1, <2>2 DEF HomeInv
  <2>5. ReleasedByCompleted'
    BY <1>0, <1>1, <1>2, <1>3, <2>1, <2>2, ReleaseAssumption DEF ReleasedByCompleted
  <2>6. QED
    BY <2>3, <2>4, <2>5
<1>6. CASE CommitRaises
  <2>1. /\ Works("commit") /\ status[r] # "none"
        /\ SetStatus(r, "FAILED")
        /\ releaseOf' = [b \in Build |-> IF b \in loaded.builds THEN r ELSE releaseOf[b]]
        /\ released' = released \ loaded.builds
    BY <1>6 DEF CommitRaises, Works, r
  <2>2. status'[r] \in {"FAILED", "IN_PROGRESS"} /\ \A q \in Release \ {r} : status'[q] = status[q]
    BY <1>1, <1>4, <2>1 DEF SetStatus, TypeOK
  <2>3. QueueInv' /\ JobInv'
    BY <1>0, <1>1, <2>1, JobEnds DEF SetStatus, Status, r
  <2>4. HomeInv'
    BY <1>0, <1>2, <1>4, <2>1, <2>2 DEF HomeInv
  <2>5. ReleasedByCompleted'
    BY <1>0, <1>1, <1>2, <1>3, <1>4, <2>1, <2>2 DEF ReleasedByCompleted, HomeInv
  <2>6. QED
    BY <2>3, <2>4, <2>5
<1>7. CASE Revert
  <2> DEFINE mine == {b \in loaded.builds : releaseOf[b] = r}
  <2>1. /\ Works("revert") /\ status[r] # "none"
        /\ SetStatus(r, "REVERTED")
        /\ releaseOf' = [b \in Build |-> IF b \in mine THEN None ELSE releaseOf[b]]
        /\ released' = released \ mine
    BY <1>7 DEF Revert, Works, r
  <2>2. status'[r] \in {"REVERTED", "IN_PROGRESS"} /\ \A q \in Release \ {r} : status'[q] = status[q]
    BY <1>1, <1>4, <2>1 DEF SetStatus, TypeOK
  <2>3. QueueInv' /\ JobInv'
    BY <1>0, <1>1, <2>1, JobEnds DEF SetStatus, Status, r
  <2>4. HomeInv'
    BY <1>0, <1>2, <2>1, <2>2 DEF HomeInv
  <2>5. ReleasedByCompleted'
    BY <1>0, <1>1, <1>2, <1>3, <1>4, <2>1, <2>2 DEF ReleasedByCompleted, HomeInv
  <2>6. QED
    BY <2>3, <2>4, <2>5
<1>8. CASE RevertRaises \/ Crash
  <2>1. /\ Works("commit") \/ Works("revert")
        /\ status' = status /\ releaseOf' = releaseOf /\ released' = released
    BY <1>8 DEF RevertRaises, Crash, Fails
  <2>2. QueueInv' /\ JobInv'
    BY <1>0, <1>1, <2>1, JobEnds DEF r
  <2>3. HomeInv' /\ ReleasedByCompleted'
    BY <1>0, <2>1 DEF HomeInv, ReleasedByCompleted
  <2>4. QED
    BY <2>2, <2>3
<1>9. CASE Gone
  <2>1. status' = status /\ releaseOf' = releaseOf /\ released' = released
    BY <1>9 DEF Gone, repositories
  <2>2. QED
    BY <1>0, <2>1 DEF QueueInv, FreeRow, JobInv, HomeInv, ReleasedByCompleted
<1>10. QED
  BY <1>5, <1>6, <1>7, <1>8, <1>9

\* The inductive invariant.
THEOREM ReleasesInvariant == Spec => []ReleaseInv
<1>1. ReleaseInv /\ [Next]_vars => ReleaseInv'
  <2> SUFFICES ASSUME ReleaseInv, [Next]_vars PROVE ReleaseInv'
    OBVIOUS
  <2>1. TypeOK'
    BY StepType DEF ReleaseInv
  <2>2. QueueInv' /\ JobInv' /\ HomeInv' /\ ReleasedByCompleted'
    <3>1. CASE \E r \in Release, bs \in SUBSET Build :
                  Create(r, bs) \/ \E packages \in SUBSET bs : Update(r, bs, packages)
      BY <3>1, EditStep
    <3>2. CASE \E r \in Release : CheckScheduled(r) \/ Delete(r)
      BY <3>2, EditStep
    <3>3. CASE (\E r \in Release, kind \in {"commit", "revert"} : Ask(r, kind))
               \/ (\E m \in asked : Answer(m)) \/ (\E m \in queue : Load(m))
      BY <3>3, RequestStep
    <3>4. CASE Commit \/ CommitRaises \/ Revert \/ RevertRaises \/ Crash \/ Gone
      BY <3>4, WorkerStep
    <3>5. CASE UNCHANGED vars
      BY <3>5 DEF vars, ReleaseInv, QueueInv, FreeRow, JobInv, HomeInv, ReleasedByCompleted
    <3>6. QED
      BY <3>1, <3>2, <3>3, <3>4, <3>5 DEF Next
  <2>3. QED
    BY <2>1, <2>2 DEF ReleaseInv
<1>2. QED
  BY InitInv, <1>1, PTL DEF Spec

\* A build is marked as released only by a release that exists and is
\* committed or whose next commit or revert was asked for, as long as no
\* release is edited after it was committed (Build.released, Release.status).
THEOREM MarkedByRelease == Spec => []ReleasedByCompleted
<1>1. ReleaseInv => ReleasedByCompleted
  BY DEF ReleaseInv
<1>2. QED
  BY ReleasesInvariant, <1>1, PTL

------------------------------------------------------------------------------
(* What a release has done to the repositories and the database *)

\* Releases that share no build plan different packages, and the worker puts
\* packages of the release's own builds into production.
PlanInv ==
    /\ shared \/ \A q, r \in Release : q # r => builds[q] \cap builds[r] = {}
    /\ edited \/ \A r \in Release : plan[r] \subseteq builds[r]
    /\ edited \/ job = None \/ loaded.plan \subseteq loaded.builds
    /\ community \/ product = {}

LEMMA PlanStep ==
  ASSUME ReleaseInv, PlanInv, [Next]_vars
  PROVE  PlanInv'
<1> USE DEF ReleaseInv
<1>0. builds \in [Release -> SUBSET Build] /\ plan \in [Release -> SUBSET Build]
  BY DEF TypeOK
<1>1. ASSUME NEW r \in Release, NEW bs \in SUBSET Build, Create(r, bs)
      PROVE  PlanInv'
  <2>1. /\ builds' = [builds EXCEPT ![r] = bs] /\ plan' = [plan EXCEPT ![r] = bs]
        /\ shared' = (shared \/ Shares(r, bs)) /\ edited' = edited
        /\ UNCHANGED <<job, loaded, community, product>>
    BY <1>1 DEF Create, repositories, broker
  <2>2. shared' \/ \A q, s \in Release : q # s => builds'[q] \cap builds'[s] = {}
    <3>1. shared \/ \A q, s \in Release : q # s => builds[q] \cap builds[s] = {}
      BY DEF PlanInv
    <3>2. (shared \/ Shares(r, bs)) => shared'
      BY <2>1
    <3>3. Shares(r, bs) \/ \A q \in Release \ {r} : builds[q] \cap bs = {}
      BY DEF Shares
    <3>4. builds'[r] = bs /\ \A q \in Release \ {r} : builds'[q] = builds[q]
      BY <1>0, <2>1
    <3>5. QED
      BY <3>1, <3>2, <3>3, <3>4
  <2>3. edited' \/ \A s \in Release : plan'[s] \subseteq builds'[s]
    BY <1>0, <2>1 DEF PlanInv
  <2>4. QED
    BY <2>1, <2>2, <2>3 DEF PlanInv
<1>2. ASSUME NEW r \in Release, NEW bs \in SUBSET Build, NEW packages \in SUBSET bs,
             Update(r, bs, packages)
      PROVE  PlanInv'
  <2>1. /\ builds' = [builds EXCEPT ![r] = bs] /\ plan' = [plan EXCEPT ![r] = packages]
        /\ shared' = (shared \/ Shares(r, bs)) /\ (edited => edited')
        /\ UNCHANGED <<job, loaded, community, product>>
    BY <1>2 DEF Update, repositories, broker
  <2>2. shared' \/ \A q, s \in Release : q # s => builds'[q] \cap builds'[s] = {}
    <3>1. shared \/ \A q, s \in Release : q # s => builds[q] \cap builds[s] = {}
      BY DEF PlanInv
    <3>2. (shared \/ Shares(r, bs)) => shared'
      BY <2>1
    <3>3. Shares(r, bs) \/ \A q \in Release \ {r} : builds[q] \cap bs = {}
      BY DEF Shares
    <3>4. builds'[r] = bs /\ \A q \in Release \ {r} : builds'[q] = builds[q]
      BY <1>0, <2>1
    <3>5. QED
      BY <3>1, <3>2, <3>3, <3>4
  <2>3. edited' \/ \A s \in Release : plan'[s] \subseteq builds'[s]
    BY <1>0, <1>2, <2>1 DEF PlanInv
  <2>4. QED
    BY <2>1, <2>2, <2>3 DEF PlanInv
<1>3. ASSUME NEW r \in Release, CheckScheduled(r) \/ Delete(r)
      PROVE  PlanInv'
  BY <1>3 DEF CheckScheduled, Delete, PlanInv, repositories, broker
<1>4. ASSUME NEW r \in Release, NEW kind \in {"commit", "revert"}, Ask(r, kind)
      PROVE  PlanInv'
  BY <1>4 DEF Ask, PlanInv, repositories
<1>5. ASSUME NEW m \in asked, Answer(m)
      PROVE  PlanInv'
  BY <1>5 DEF Answer, PlanInv, repositories
<1>6. ASSUME NEW m \in queue, Load(m)
      PROVE  PlanInv'
  <2>1. m.release \in Release
    BY DEF TypeOK, Message
  <2>2. QED
    BY <1>6, <2>1 DEF Load, PlanInv, repositories
<1>7. CASE Commit \/ CommitRaises \/ Revert
  <2>1. job # None /\ job.release \in Release /\ job' = None
        /\ SetPlan(job.release) /\ builds' = builds /\ shared' = shared /\ edited' = edited
        /\ community' = community
    BY <1>7 DEF Commit, CommitRaises, Revert, Works, Done, TypeOK, Message
  <2>2. community \/ product' = product
    BY <1>7 DEF Commit, CommitRaises, Revert, JoinProduct, LeaveProduct
  <2>3. edited \/ loaded.plan \subseteq builds[job.release]
    BY <2>1 DEF JobInv, PlanInv
  <2>4. QED
    BY <1>0, <2>1, <2>2, <2>3 DEF SetPlan, PlanInv
<1>8. CASE RevertRaises \/ Crash \/ Gone
  BY <1>8 DEF RevertRaises, Crash, Gone, Fails, Done, repositories, PlanInv
<1>9. CASE UNCHANGED vars
  BY <1>9 DEF vars, PlanInv
<1>10. QED
  BY <1>1, <1>2, <1>3, <1>4, <1>5, <1>6, <1>7, <1>8, <1>9 DEF Next

\* While no release was edited or shares a build, what the worker writes is
\* about the builds of its own release only.
LEMMA JobIsApart ==
  ASSUME ReleaseInv, PlanInv, ~shared, ~edited, job # None
  PROVE  /\ job.release \in Release
         /\ loaded.builds = builds[job.release] /\ loaded.plan \subseteq loaded.builds
         /\ \A r \in Release \ {job.release} :
               plan[r] \cap loaded.plan = {} /\ builds[r] \cap loaded.builds = {}
         /\ status[job.release] \in {loaded.status, "IN_PROGRESS", "none"}
<1>1. job.release \in Release
  BY DEF ReleaseInv, TypeOK, Message
<1>2. QED
  BY <1>1 DEF ReleaseInv, JobInv, PlanInv

\* A step that is not the worker's keeps what was released, and no release is
\* completed or reverted by it.
LEMMA UsersKeep ==
  ASSUME ReleaseInv, PlanInv, ~shared', ~edited',
         \/ \E r \in Release, bs \in SUBSET Build :
               Create(r, bs) \/ \E packages \in SUBSET bs : Update(r, bs, packages)
         \/ \E r \in Release : CheckScheduled(r) \/ Delete(r)
         \/ \E r \in Release, kind \in {"commit", "revert"} : Ask(r, kind)
         \/ \E m \in asked : Answer(m)
         \/ \E m \in queue : Load(m)
         \/ Gone
         \/ UNCHANGED vars
  PROVE  /\ UNCHANGED <<repositories, community, elsewhere, hidden>>
         /\ ~shared /\ ~edited
         /\ \A r \in Release : status'[r] \in {"COMPLETED", "REVERTED"} =>
               status[r] = status'[r] /\ plan'[r] = plan[r] /\ builds'[r] = builds[r]
<1>0. /\ builds \in [Release -> SUBSET Build] /\ plan \in [Release -> SUBSET Build]
      /\ status \in [Release -> Status \cup {"none"}]
      /\ \A m \in asked : m.release \in Release
      /\ shared \in BOOLEAN /\ edited \in BOOLEAN
  BY DEF ReleaseInv, TypeOK, Message
<1>1. ASSUME NEW r \in Release, NEW bs \in SUBSET Build, Create(r, bs)
      PROVE  /\ UNCHANGED <<repositories, community, elsewhere, hidden>>
             /\ ~shared /\ ~edited
             /\ \A q \in Release : status'[q] \in {"COMPLETED", "REVERTED"} =>
                   status[q] = status'[q] /\ plan'[q] = plan[q] /\ builds'[q] = builds[q]
  BY <1>0, <1>1 DEF Create, repositories, broker
<1>2. ASSUME NEW r \in Release, NEW bs \in SUBSET Build, NEW packages \in SUBSET bs,
             Update(r, bs, packages)
      PROVE  /\ UNCHANGED <<repositories, community, elsewhere, hidden>>
             /\ ~shared /\ ~edited
             /\ \A q \in Release : status'[q] \in {"COMPLETED", "REVERTED"} =>
                   status[q] = status'[q] /\ plan'[q] = plan[q] /\ builds'[q] = builds[q]
  BY <1>0, <1>2 DEF Update, repositories, broker
<1>3. ASSUME NEW r \in Release, CheckScheduled(r) \/ Delete(r)
      PROVE  /\ UNCHANGED <<repositories, community, elsewhere, hidden>>
             /\ ~shared /\ ~edited
             /\ \A q \in Release : status'[q] \in {"COMPLETED", "REVERTED"} =>
                   status[q] = status'[q] /\ plan'[q] = plan[q] /\ builds'[q] = builds[q]
  BY <1>0, <1>3 DEF CheckScheduled, Delete, repositories, broker
<1>4. ASSUME NEW m \in asked, Answer(m)
      PROVE  /\ UNCHANGED <<repositories, community, elsewhere, hidden>>
             /\ ~shared /\ ~edited
             /\ \A q \in Release : status'[q] \in {"COMPLETED", "REVERTED"} =>
                   status[q] = status'[q] /\ plan'[q] = plan[q] /\ builds'[q] = builds[q]
  BY <1>0, <1>4 DEF Answer, repositories
<1>5. CASE \/ \E r \in Release, kind \in {"commit", "revert"} : Ask(r, kind)
           \/ \E m \in queue : Load(m)
           \/ Gone
           \/ UNCHANGED vars
  BY <1>5 DEF Ask, Load, Gone, Done, repositories, vars
<1>6. QED
  BY <1>1, <1>2, <1>3, <1>4, <1>5

\* What a job leaves of its release, and of the others.
LEMMA WholeStep ==
  ASSUME ReleaseInv, PlanInv, CompletedIsWhole, [Next]_vars
  PROVE  CompletedIsWhole'
<1> SUFFICES ASSUME ~shared', ~edited', ~hidden', NEW q \in Release, status'[q] = "COMPLETED"
             PROVE  /\ plan'[q] \subseteq prod'
                    /\ builds'[q] \subseteq released'
                    /\ IF community' THEN builds'[q] \subseteq product'
                                     ELSE plan'[q] \subseteq errata'
  BY DEF CompletedIsWhole
<1> DEFINE r == job.release
<1>0. CASE ~(Commit \/ CommitRaises \/ Revert \/ RevertRaises \/ Crash)
  <2>1. /\ UNCHANGED <<repositories, community, elsewhere, hidden>>
        /\ ~shared /\ ~edited
        /\ status[q] = status'[q] /\ plan'[q] = plan[q] /\ builds'[q] = builds[q]
    BY <1>0, UsersKeep DEF Next
  <2>2. QED
    BY <2>1 DEF CompletedIsWhole, repositories
<1>1. CASE Commit \/ CommitRaises \/ Revert \/ RevertRaises \/ Crash
  <2>0. /\ builds' = builds /\ ~shared /\ ~edited /\ community' = community /\ job # None
        /\ status[r] # "none"
    BY <1>1 DEF Commit, CommitRaises, Revert, RevertRaises, Crash, Works, Done
  <2>1. /\ r \in Release
        /\ loaded.builds = builds[r] /\ loaded.plan \subseteq loaded.builds
        /\ \A p \in Release \ {r} :
              plan[p] \cap loaded.plan = {} /\ builds[p] \cap loaded.builds = {}
        /\ status[r] \in {loaded.status, "IN_PROGRESS"}
    BY <2>0, JobIsApart
  <2>2. status \in [Release -> Status \cup {"none"}] /\ plan \in [Release -> SUBSET Build]
        /\ hidden \in BOOLEAN
    BY DEF ReleaseInv, TypeOK
  <2> HIDE DEF r
  <2>3. CASE Commit
    <3>1. /\ prod' = prod \cup loaded.plan /\ released' = released \cup loaded.builds
          /\ SetStatus(r, "COMPLETED") /\ SetPlan(r) /\ JoinProduct(loaded.builds)
          /\ MarkErrata(r) /\ hidden' = hidden
      BY <2>3 DEF Commit, r
    <3>2. CASE q = r
      BY <2>0, <2>1, <2>2, <3>1, <3>2 DEF SetPlan, JoinProduct, MarkErrata
    <3>3. CASE q # r
      <4>1. status[q] = "COMPLETED" /\ plan'[q] = plan[q]
        BY <2>1, <2>2, <3>1, <3>3 DEF SetStatus, SetPlan
      <4>2. QED
        BY <2>0, <3>1, <4>1 DEF CompletedIsWhole, JoinProduct, MarkErrata
    <3>4. QED
      BY <3>2, <3>3
  <2>4. CASE CommitRaises
    <3>1. /\ prod \subseteq prod' /\ released' = released \ loaded.builds
          /\ SetStatus(r, "FAILED") /\ SetPlan(r)
          /\ hidden' = hidden /\ product' = product /\ errata' = errata
      BY <2>4 DEF CommitRaises, r
    <3>2. q # r
      BY <2>1, <2>2, <3>1 DEF SetStatus
    <3>3. status[q] = "COMPLETED" /\ plan'[q] = plan[q]
      BY <2>1, <2>2, <3>1, <3>2 DEF SetStatus, SetPlan
    <3>4. QED
      BY <2>0, <2>1, <3>1, <3>2, <3>3 DEF CompletedIsWhole
  <2>5. CASE Revert
    <3>1. /\ Remove(loaded.plan) /\ errata' = errata \ loaded.plan
          /\ released \ loaded.builds \subseteq released'
          /\ LeaveProduct(loaded.builds)
          /\ SetStatus(r, "REVERTED") /\ SetPlan(r) /\ hidden' = hidden
      BY <2>5 DEF Revert, r
    <3>2. q # r
      BY <2>1, <2>2, <3>1 DEF SetStatus
    <3>3. status[q] = "COMPLETED" /\ plan'[q] = plan[q]
      BY <2>1, <2>2, <3>1, <3>2 DEF SetStatus, SetPlan
    <3>4. QED
      BY <2>0, <2>1, <3>1, <3>2, <3>3 DEF CompletedIsWhole, Remove, LeaveProduct
  <2>6. CASE RevertRaises \/ Crash
    <3>1. /\ status' = status /\ plan' = plan /\ released' = released
          /\ product' = product /\ errata' = errata
          /\ hidden' = (hidden \/ status[r] # "IN_PROGRESS")
          /\ prod \ loaded.plan \subseteq prod'
      BY <2>6 DEF RevertRaises, Crash, Fails, Remove, r
    <3>2. q # r
      BY <2>2, <3>1
    <3>3. QED
      BY <2>0, <2>1, <2>2, <3>1, <3>2 DEF CompletedIsWhole
  <2>7. QED
    BY <1>1, <2>3, <2>4, <2>5, <2>6
<1>2. QED
  BY <1>0, <1>1

LEMMA GoneStep ==
  ASSUME ReleaseInv, PlanInv, RevertedIsGone, [Next]_vars
  PROVE  RevertedIsGone'
<1> SUFFICES ASSUME ~shared', ~edited', ~hidden', NEW q \in Release, status'[q] = "REVERTED"
             PROVE  /\ plan'[q] \cap prod' \subseteq elsewhere'
                    /\ \A b \in builds'[q] : releaseOf'[b] # q /\ b \notin released'
                    /\ (plan'[q] \cap errata') \cup (builds'[q] \cap product') = {}
  BY DEF RevertedIsGone
<1> DEFINE r == job.release
<1>0. CASE ~(Commit \/ CommitRaises \/ Revert \/ RevertRaises \/ Crash)
  <2>1. /\ UNCHANGED <<repositories, community, elsewhere, hidden>>
        /\ ~shared /\ ~edited
        /\ status[q] = status'[q] /\ plan'[q] = plan[q] /\ builds'[q] = builds[q]
    BY <1>0, UsersKeep DEF Next
  <2>2. QED
    BY <2>1 DEF RevertedIsGone, repositories
<1>1. CASE Commit \/ CommitRaises \/ Revert \/ RevertRaises \/ Crash
  <2>0. /\ builds' = builds /\ ~shared /\ ~edited /\ community' = community /\ job # None
        /\ elsewhere' = elsewhere /\ status[r] # "none"
    BY <1>1 DEF Commit, CommitRaises, Revert, RevertRaises, Crash, Works, Done
  <2>1. /\ r \in Release
        /\ loaded.builds = builds[r] /\ loaded.plan \subseteq loaded.builds
        /\ \A p \in Release \ {r} :
              plan[p] \cap loaded.plan = {} /\ builds[p] \cap loaded.builds = {}
        /\ status[r] \in {loaded.status, "IN_PROGRESS"}
    BY <2>0, JobIsApart
  <2>2. /\ status \in [Release -> Status \cup {"none"}] /\ plan \in [Release -> SUBSET Build]
        /\ builds \in [Release -> SUBSET Build]
        /\ hidden \in BOOLEAN /\ released \subseteq Build
    BY DEF ReleaseInv, TypeOK
  <2> HIDE DEF r
  <2>3. CASE Commit \/ CommitRaises
    <3>1. /\ \A p \in prod' : p \in prod \cup loaded.plan
          /\ SetStatus(r, "COMPLETED") \/ SetStatus(r, "FAILED")
          /\ SetPlan(r) /\ hidden' = hidden
          /\ releaseOf' = [b \in Build |-> IF b \in loaded.builds THEN r ELSE releaseOf[b]]
          /\ released' \subseteq released \cup loaded.builds
          /\ product' \subseteq product \cup loaded.builds
          /\ errata' \subseteq errata \cup loaded.plan
      BY <2>3 DEF Commit, CommitRaises, JoinProduct, MarkErrata, r
    <3>2. q # r
      BY <2>1, <2>2, <3>1 DEF SetStatus
    <3>3. status[q] = "REVERTED" /\ plan'[q] = plan[q]
      BY <2>1, <2>2, <3>1, <3>2 DEF SetStatus, SetPlan
    <3>4. plan[q] \cap prod' \subseteq elsewhere
      BY <2>0, <2>1, <3>1, <3>2, <3>3 DEF RevertedIsGone
    <3>5. \A b \in builds[q] : releaseOf'[b] # q /\ b \notin released'
      BY <2>0, <2>1, <2>2, <3>1, <3>2, <3>3 DEF RevertedIsGone
    <3>6. (plan[q] \cap errata') \cup (builds[q] \cap product') = {}
      BY <2>0, <2>1, <3>1, <3>2, <3>3 DEF RevertedIsGone
    <3>7. QED
      BY <2>0, <3>3, <3>4, <3>5, <3>6
  <2>4. CASE Revert
    <3> DEFINE mine == {b \in loaded.builds : releaseOf[b] = r}
    <3>1. /\ Remove(loaded.plan) /\ errata' = errata \ loaded.plan
          /\ releaseOf' = [b \in Build |-> IF b \in mine THEN None ELSE releaseOf[b]]
          /\ released' = released \ mine
          /\ LeaveProduct(loaded.builds)
          /\ SetStatus(r, "REVERTED") /\ SetPlan(r) /\ hidden' = hidden
      BY <2>4 DEF Revert, r
    <3>2. CASE q # r
      <4>1. status[q] = "REVERTED" /\ plan'[q] = plan[q]
        BY <2>1, <2>2, <3>1, <3>2 DEF SetStatus, SetPlan
      <4>2. \A b \in builds[q] : releaseOf'[b] # q /\ b \notin released'
        BY <2>0, <2>1, <2>2, <3>1, <4>1, ReleaseAssumption DEF RevertedIsGone
      <4>3. QED
        BY <2>0, <3>1, <4>1, <4>2 DEF RevertedIsGone, Remove, LeaveProduct
    <3>3. CASE q = r
      <4>1. plan'[q] = loaded.plan /\ plan'[q] \cap prod' \subseteq elsewhere
        BY <2>1, <2>2, <3>1, <3>3 DEF SetPlan, Remove
      <4>2. \A b \in builds[q] : b \in released => releaseOf[b] = q
        <5> SUFFICES ASSUME NEW b \in builds[q], b \in released, releaseOf[b] # q
                     PROVE  FALSE
          OBVIOUS
        <5>1. b \in Build /\ releaseOf[b] # None /\ releaseOf[b] \in Release
          BY <2>0, <2>2 DEF ReleaseInv, ReleasedByCompleted, TypeOK
        <5>2. b \in builds[releaseOf[b]]
          BY <2>0, <5>1 DEF ReleaseInv, HomeInv
        <5>3. QED
          BY <2>0, <5>1, <5>2 DEF PlanInv
      <4>3. \A b \in builds[q] : releaseOf'[b] # q /\ b \notin released'
        BY <2>0, <2>1, <2>2, <3>1, <3>3, <4>2, ReleaseAssumption
      <4>4. (plan'[q] \cap errata') \cup (builds[q] \cap product') = {}
        BY <2>0, <2>1, <3>1, <3>3, <4>1 DEF LeaveProduct, PlanInv
      <4>5. QED
        BY <2>0, <4>1, <4>3, <4>4
    <3>4. QED
      BY <3>2, <3>3
  <2>5. CASE RevertRaises \/ Crash
    <3>1. /\ status' = status /\ plan' = plan /\ released' = released
          /\ product' = product /\ errata' = errata /\ releaseOf' = releaseOf
          /\ hidden' = (hidden \/ status[r] # "IN_PROGRESS")
          /\ \A p \in prod' : p \in prod \cup loaded.plan
      BY <2>5 DEF RevertRaises, Crash, Fails, Remove, r
    <3>2. q # r
      BY <2>2, <3>1
    <3>3. QED
      BY <2>0, <2>1, <2>2, <3>1, <3>2 DEF RevertedIsGone
  <2>6. QED
    BY <1>1, <2>3, <2>4, <2>5
<1>2. QED
  BY <1>0, <1>1

\* A completed release is whole in the repositories and in the database, however
\* often it was committed, failed, was reverted or interrupted before
\* (execute_release_plan and revert_release_plan of both planners).
THEOREM CompletedReleasesAreWhole == Spec => []CompletedIsWhole
<1>1. Init => PlanInv /\ CompletedIsWhole
  BY DEF Init, PlanInv, CompletedIsWhole
<1>2. ReleaseInv /\ PlanInv /\ CompletedIsWhole /\ [Next]_vars => PlanInv' /\ CompletedIsWhole'
  BY PlanStep, WholeStep
<1>3. QED
  BY ReleasesInvariant, <1>1, <1>2, PTL DEF Spec

\* Nothing is left of a reverted release: no package in production that was not
\* there before, no build that refers to it, is marked or stays in the product,
\* no errata package marked (revert_release_plan).
THEOREM RevertedReleasesAreGone == Spec => []RevertedIsGone
<1>1. Init => PlanInv /\ RevertedIsGone
  BY DEF Init, PlanInv, RevertedIsGone
<1>2. ReleaseInv /\ PlanInv /\ RevertedIsGone /\ [Next]_vars => PlanInv' /\ RevertedIsGone'
  BY PlanStep, GoneStep
<1>3. QED
  BY ReleasesInvariant, <1>1, <1>2, PTL DEF Spec

------------------------------------------------------------------------------
(* Requests are decided *)

\* Every open request has its message in the queue.  A release in progress has
\* a message the worker has not begun, or one whose job found it in progress and
\* will write what came of it.
TurnInv ==
    /\ \A m \in asked \cup queue : m.nr <= requests
    /\ ~stale => asked \subseteq queue /\ job \notin asked
    /\ faults = 0 /\ ~stale => \A r \in Release : status[r] = "IN_PROGRESS" =>
          \/ \E m \in queue : m.release = r /\ m # job
          \/ job # None /\ job.release = r /\ loaded.status = "IN_PROGRESS"

\* Users' requests: one that is open has its message where no job has it.
LEMMA TurnOfUsers ==
  ASSUME ReleaseInv, TurnInv,
         \/ \E r \in Release, bs \in SUBSET Build :
               Create(r, bs) \/ \E packages \in SUBSET bs : Update(r, bs, packages)
         \/ \E r \in Release : CheckScheduled(r) \/ Delete(r)
         \/ \E r \in Release, kind \in {"commit", "revert"} : Ask(r, kind)
         \/ \E m \in asked : Answer(m)
  PROVE  TurnInv'
<1>0. /\ status \in [Release -> Status \cup {"none"}] /\ requests \in Nat
      /\ stale \in BOOLEAN
      /\ \A m \in asked \cup queue : m.release \in Release /\ m.nr \in Nat
  BY ReleaseAssumption DEF ReleaseInv, TypeOK, Message
<1>1. CASE \/ \E r \in Release, bs \in SUBSET Build :
                 Create(r, bs) \/ \E packages \in SUBSET bs : Update(r, bs, packages)
           \/ \E r \in Release : CheckScheduled(r) \/ Delete(r)
  <2>1. UNCHANGED <<broker, faults>>
    BY <1>1 DEF Create, Update, CheckScheduled, Delete
  <2>2. \A r \in Release : status'[r] = "IN_PROGRESS" => status[r] = "IN_PROGRESS"
    BY <1>0, <1>1 DEF Create, Update, CheckScheduled, Delete
  <2>3. QED
    BY <2>1, <2>2 DEF TurnInv, broker
<1>2. ASSUME NEW r \in Release, NEW kind \in {"commit", "revert"}, Ask(r, kind)
      PROVE  TurnInv'
  <2> DEFINE m == [release |-> r, kind |-> kind, nr |-> requests + 1]
  <2>1. /\ requests' = requests + 1 /\ asked' = asked \cup {m} /\ queue' = queue \cup {m}
        /\ status' = status /\ job' = job /\ loaded' = loaded /\ stale' = stale
        /\ faults' = faults
    BY <1>2 DEF Ask
  <2>2. m.nr = requests + 1 /\ \A n \in asked \cup queue : n.nr <= requests
    BY DEF TurnInv
  <2>3. job # m
    <3>1. job \in queue => job.nr <= requests
      BY <2>2
    <3>2. job # None => job \in queue
      BY DEF ReleaseInv, JobInv
    <3>3. m \in Message
      BY <1>0, <2>1, StepType, <1>2 DEF ReleaseInv, TypeOK, Next
    <3>4. QED
      BY <1>0, <2>2, <3>1, <3>2, <3>3, MessageAssumption
  <2> HIDE DEF m
  <2>4. \A n \in asked' \cup queue' : n.nr <= requests'
    BY <1>0, <2>1, <2>2
  <2>5. QED
    BY <2>1, <2>3, <2>4 DEF TurnInv
<1>3. ASSUME NEW m \in asked, Answer(m)
      PROVE  TurnInv'
  <2>1. /\ asked' = asked \ {m} /\ status' = [status EXCEPT ![m.release] = "IN_PROGRESS"]
        /\ queue' = queue /\ job' = job /\ loaded' = loaded /\ stale' = stale
        /\ requests' = requests /\ faults' = faults
    BY <1>3 DEF Answer
  <2>2. QED
    BY <1>0, <2>1 DEF TurnInv
<1>4. QED
  BY <1>1, <1>2, <1>3

\* The worker: a message that leaves the queue has no open request, and what is
\* still in progress has another one.
LEMMA TurnOfWorker ==
  ASSUME ReleaseInv, TurnInv,
         \/ \E m \in queue : Load(m)
         \/ Commit \/ CommitRaises \/ Revert \/ RevertRaises \/ Crash \/ Gone
  PROVE  TurnInv'
<1> DEFINE r == job.release
<1>0. /\ status \in [Release -> Status \cup {"none"}] /\ faults \in Nat /\ stale \in BOOLEAN
      /\ \A m \in asked \cup queue : m.release \in Release
  BY ReleaseAssumption DEF ReleaseInv, TypeOK, Message
<1>1. ASSUME NEW m \in queue, Load(m)
      PROVE  TurnInv'
  <2>1. /\ job = None /\ asked' = asked /\ status' = status /\ requests' = requests
        /\ faults' = faults
    BY <1>1 DEF Load
  <2>2. CASE status[m.release] = "none"
    <3>1. queue' = queue \ {m} /\ job' = job /\ loaded' = loaded /\ stale' = stale
      BY <1>1, <2>2 DEF Load
    <3>2. m \notin asked
      BY <2>2 DEF ReleaseInv, QueueInv
    <3>3. QED
      BY <2>1, <2>2, <3>1, <3>2 DEF TurnInv
  <2>3. CASE status[m.release] # "none"
    <3>1. /\ job' = m /\ queue' = queue /\ loaded'.status = status[m.release]
          /\ stale' = (stale \/ ~FreeRow(m.release))
      BY <1>1, <2>3 DEF Load
    <3>2. ~stale' => ~stale /\ m \notin asked
      BY <3>1 DEF FreeRow
    <3>3. m # None
      BY MessageAssumption DEF ReleaseInv, TypeOK
    <3>4. ASSUME faults' = 0, ~stale', NEW q \in Release, status'[q] = "IN_PROGRESS"
          PROVE  \/ \E n \in queue' : n.release = q /\ n # job'
                 \/ job' # None /\ job'.release = q /\ loaded'.status = "IN_PROGRESS"
      <4>1. CASE q = m.release
        BY <2>1, <3>1, <3>3, <3>4, <4>1
      <4>2. CASE q # m.release
        BY <2>1, <3>1, <3>2, <3>4, <4>2 DEF TurnInv
      <4>3. QED
        BY <4>1, <4>2
    <3>5. QED
      BY <2>1, <3>1, <3>2, <3>4 DEF TurnInv
  <2>4. QED
    BY <2>2, <2>3
<1>2. CASE RevertRaises \/ Crash
  <2>1. /\ asked' = asked /\ queue \ {job} \subseteq queue' /\ queue' \subseteq queue
        /\ stale' = stale /\ requests' = requests /\ job' = None /\ faults' = faults + 1
    BY <1>2 DEF RevertRaises, Crash, Fails, Done
  <2>2. None \notin asked
    BY MessageAssumption DEF ReleaseInv, TypeOK
  <2>3. QED
    BY <1>0, <2>1, <2>2 DEF TurnInv
<1>3. CASE Commit \/ CommitRaises \/ Revert \/ Gone
  <2>1. /\ asked' = asked /\ queue' = queue \ {job} /\ job # None /\ job' = None
        /\ stale' = stale /\ requests' = requests /\ faults' = faults
    BY <1>3 DEF Commit, CommitRaises, Revert, Gone, Works, Done
  <2>2. r \in Release
    BY <2>1 DEF ReleaseInv, TypeOK, Message
  <2>3. /\ \A q \in Release \ {r} : status'[q] = status[q]
        /\ status'[r] = "IN_PROGRESS" =>
              status[r] = "IN_PROGRESS" /\ loaded.status # "IN_PROGRESS"
    BY <1>0, <1>3, <2>2 DEF Commit, CommitRaises, Revert, Gone, SetStatus
  <2>4. None \notin asked
    BY MessageAssumption DEF ReleaseInv, TypeOK
  <2>5. ASSUME faults' = 0, ~stale', NEW q \in Release, status'[q] = "IN_PROGRESS"
        PROVE  \E m \in queue' : m.release = q /\ m # job'
    <3>1. None \notin queue
      BY MessageAssumption DEF ReleaseInv, TypeOK
    <3>2. \E m \in queue : m.release = q /\ m # job
      BY <2>1, <2>3, <2>5 DEF TurnInv
    <3>3. QED
      BY <2>1, <3>1, <3>2
  <2>6. QED
    BY <2>1, <2>4, <2>5 DEF TurnInv
<1>4. QED
  BY <1>1, <1>2, <1>3

\* When the queue is served no release is left in progress, unless the worker was
\* interrupted, a revert failed, or the status was loaded before the endpoint
\* committed it (commit_release and revert_release of crud/release.py).
THEOREM RequestsAreDecided == Spec => []Decided
<1>1. Init => TurnInv
  BY DEF Init, TurnInv
<1>2. ReleaseInv /\ TurnInv /\ [Next]_vars => TurnInv'
  <2> SUFFICES ASSUME ReleaseInv, TurnInv, UNCHANGED vars PROVE TurnInv'
    BY TurnOfUsers, TurnOfWorker DEF Next
  <2>1. QED
    BY DEF TurnInv, vars
<1>3. ReleaseInv /\ TurnInv => Decided
  BY DEF TurnInv, Decided, ReleaseInv, JobInv
<1>4. QED
  BY ReleasesInvariant, <1>1, <1>2, <1>3, PTL DEF Spec
==============================================================================
