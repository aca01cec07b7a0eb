------------------------------- MODULE SignTasks -------------------------------
(***************************************************************************)
(* Signing one build of the product of SignKeys.  A user creates a sign    *)
(* task with an active key; a sign node polls for it, signs the packages   *)
(* it was given and posts them; the one worker of the "sign" queue stores  *)
(* the signed packages in Pulp and then in the database.                   *)
(*                                                                         *)
(* A signed package is named by who signed it: the task and the node.      *)
(* Pulp is external: adding a package replaces the one of the same name,   *)
(* and is not undone when the database transaction is rolled back.         *)
(***************************************************************************)
EXTENDS SignKeys

CONSTANTS
    SignTask,     \* ids of the build's sign tasks
    Package,      \* RPMs the build may come to have
    Retries,      \* max_retries of complete_sign_task
    MaxSignFaults \* bound: lost nodes, failing calls, dying workers

ASSUME SignAssumption == Retries \in Nat /\ MaxSignFaults \in Nat

VARIABLES
    rpms,       \* source_rpms and binary_rpms of the build
    signStatus, \* SignTask.status, "none" before it is created
    signKey,    \* SignTask.sign_key
    signed,     \* Build.signed
    href,       \* href[p]: the package the artifact's row names
    inRepo,     \* inRepo[p]: the package of that name in the Pulp repository
    signPoll,   \* signPoll[n]: the task n's poll has selected
    signing,    \* what nodes are signing
    signQueue,  \* complete_sign_task messages
    late,       \* the build got a package after it was handed out
    broken,     \* a result was dropped, or stopped half way
    signFaults

signVars == <<rpms, signStatus, signKey, signed, href, inRepo, signPoll, signing,
              signQueue, late, broken, signFaults>>
vars == <<keyVars, signVars>>

\* SignStatus
SignStatus == {"IDLE", "IN_PROGRESS", "COMPLETED", "FAILED"}
Ended == {"COMPLETED", "FAILED"}

Unsigned == <<>>
Version == (SignTask \X Node) \cup {Unsigned}
Signing == [task : SignTask, node : Node, packages : SUBSET Package]
Message == [task : SignTask, node : Node, packages : SUBSET Package,
            success : BOOLEAN, tries : 0..Retries]

TypeOK ==
    /\ KeysTypeOK
    /\ rpms \subseteq Package
    /\ signStatus \in [SignTask -> SignStatus \cup {"none"}]
    /\ signKey \in [SignTask -> Key \cup {None}]
    /\ signed \in BOOLEAN
    /\ href \in [Package -> Version] /\ inRepo \in [Package -> Version]
    /\ signPoll \in [Node -> SignTask \cup {None}]
    /\ signing \subseteq Signing
    /\ signQueue \subseteq Message
    /\ late \in BOOLEAN /\ broken \in BOOLEAN
    /\ signFaults \in 0..MaxSignFaults

Init ==
    /\ KeysInit
    /\ rpms = {}
    /\ signStatus = [t \in SignTask |-> "none"]
    /\ signKey = [t \in SignTask |-> None]
    /\ signed = FALSE
    /\ href = [p \in Package |-> Unsigned] /\ inRepo = [p \in Package |-> Unsigned]
    /\ signPoll = [n \in Node |-> None]
    /\ signing = {} /\ signQueue = {}
    /\ late = FALSE /\ broken = FALSE /\ signFaults = 0

SignCharge(isFault) ==
    /\ isFault => signFaults < MaxSignFaults
    /\ signFaults' = IF isFault THEN signFaults + 1 ELSE signFaults

------------------------------------------------------------------------------
(* The build, users and sign nodes                                         *)

\* A task of the build is completed and its packages are stored: the build
\* need not be finished to be signed.
AddPackage(p) ==
    /\ p \notin rpms
    /\ rpms' = rpms \cup {p}
    /\ late' = (late \/ \E t \in SignTask : signStatus[t] \notin {"none", "IDLE"})
    /\ UNCHANGED <<signStatus, signKey, signed, href, inRepo, signPoll, signing,
                   signQueue, broken, signFaults>>

\* create_sign_task: as many as users ask for, until the build is signed.
CreateSignTask(t, k) ==
    /\ signStatus[t] = "none"
    /\ ~signed
    /\ rpms # {}
    /\ k \in active
    /\ signStatus' = [signStatus EXCEPT ![t] = "IDLE"]
    /\ signKey' = [signKey EXCEPT ![t] = k]
    /\ UNCHANGED <<rpms, signed, href, inRepo, signPoll, signing, signQueue,
                   late, broken, signFaults>>

\* get_available_sign_task selects an idle task without a lock ...
SelectSignTask(n, t) ==
    /\ signPoll[n] = None
    /\ signStatus[t] = "IDLE"
    /\ signPoll' = [signPoll EXCEPT ![n] = t]
    /\ UNCHANGED <<rpms, signStatus, signKey, signed, href, inRepo, signing,
                   signQueue, late, broken, signFaults>>

\* Mutant: the last package is left out.
TakePart(n) ==
    LET t == signPoll[n] IN
    /\ t # None
    /\ signStatus' = [signStatus EXCEPT ![t] = "IN_PROGRESS"]
    /\ \E p \in rpms :
          signing' = signing \cup {[task |-> t, node |-> n, packages |-> rpms \ {p}]}
    /\ signPoll' = [signPoll EXCEPT ![n] = None]
    /\ UNCHANGED <<rpms, signKey, signed, href, inRepo, signQueue, late,
                   broken, signFaults>>

\* ... updates it by its id, and hands out the packages of the build.
TakeSignTask(n) ==
    LET t == signPoll[n] IN
    /\ t # None
    /\ signStatus' = [signStatus EXCEPT ![t] = "IN_PROGRESS"]
    /\ signing' = signing \cup {[task |-> t, node |-> n, packages |-> rpms]}
    /\ signPoll' = [signPoll EXCEPT ![n] = None]
    /\ UNCHANGED <<rpms, signKey, signed, href, inRepo, signQueue, late,
                   broken, signFaults>>

\* POST complete: SignTask.ts is set, which no query of a task in progress
\* looks at, and the result is queued whatever the task's status is.
PostSigned(s, success) ==
    /\ s \in signing
    /\ signing' = signing \ {s}
    /\ signQueue' = signQueue \cup {[task |-> s.task, node |-> s.node,
                                     packages |-> s.packages, success |-> success,
                                     tries |-> 0]}
    /\ UNCHANGED <<rpms, signStatus, signKey, signed, href, inRepo, signPoll,
                   late, broken, signFaults>>

\* The node dies: nothing hands its task out again.
LoseNode(s) ==
    /\ s \in signing
    /\ SignCharge(TRUE)
    /\ signing' = signing \ {s}
    /\ UNCHANGED <<rpms, signStatus, signKey, signed, href, inRepo, signPoll,
                   signQueue, late, broken>>

------------------------------------------------------------------------------
(* The worker: complete_sign_task                                          *)

By(m) == <<m.task, m.node>>
Replace(f, packages, m) == [p \in Package |-> IF p \in packages THEN By(m) ELSE f[p]]

\* Mutant: the failure is not stored.
ForgetFailure(m) ==
    /\ ~m.success
    /\ signQueue' = signQueue \ {m}
    /\ UNCHANGED <<rpms, signStatus, signKey, signed, href, inRepo, signPoll,
                   signing, late, broken, signFaults>>

\* The node failed, or signed with another key than the task's.
StoreFailure(m) ==
    /\ ~m.success
    /\ signStatus' = [signStatus EXCEPT ![m.task] = "FAILED"]
    /\ signQueue' = signQueue \ {m}
    /\ UNCHANGED <<rpms, signKey, signed, href, inRepo, signPoll, signing,
                   late, broken, signFaults>>

\* A package has no href or another checksum: the loop ends there, the task
\* fails, and the rows of the packages before it are committed with it.
StoreHalf(m) ==
    /\ m.success
    /\ SignCharge(TRUE)
    /\ \E done \in SUBSET m.packages :
          /\ done # m.packages
          /\ href' = Replace(href, done, m)
    /\ signStatus' = [signStatus EXCEPT ![m.task] = "FAILED"]
    /\ signQueue' = signQueue \ {m}
    /\ broken' = TRUE
    /\ UNCHANGED <<rpms, signKey, signed, inRepo, signPoll, signing, late>>

\* A call to Pulp raises, after some repositories were modified.  The
\* message is retried, or dropped after the last retry.
StoreRaises(m) ==
    /\ m.success
    /\ SignCharge(TRUE)
    /\ \E added \in SUBSET m.packages : inRepo' = Replace(inRepo, added, m)
    /\ IF m.tries < Retries
       THEN /\ signQueue' = (signQueue \ {m}) \cup {[m EXCEPT !.tries = @ + 1]}
            /\ UNCHANGED broken
       ELSE signQueue' = signQueue \ {m} /\ broken' = TRUE
    /\ UNCHANGED <<rpms, signStatus, signKey, signed, href, signPoll, signing,
                   late>>

\* Mutant: only packages that are not signed yet are stored.
StoreUnsigned(m) ==
    /\ m.success
    /\ href' = Replace(href, {p \in m.packages : href[p] = Unsigned}, m)
    /\ inRepo' = Replace(inRepo, m.packages, m)
    /\ signStatus' = [signStatus EXCEPT ![m.task] = "COMPLETED"]
    /\ signed' = TRUE
    /\ \/ signQueue' = signQueue \ {m} /\ SignCharge(FALSE)
       \/ UNCHANGED signQueue /\ SignCharge(TRUE)
    /\ UNCHANGED <<rpms, signKey, signPoll, signing, late, broken>>

\* The packages are added to Pulp, their rows updated, the build marked as
\* signed.  The worker acknowledges, or dies before and the message returns.
StoreSigned(m) ==
    /\ m.success
    /\ href' = Replace(href, m.packages, m)
    /\ inRepo' = Replace(inRepo, m.packages, m)
    /\ signStatus' = [signStatus EXCEPT ![m.task] = "COMPLETED"]
    /\ signed' = TRUE
    /\ \/ signQueue' = signQueue \ {m} /\ SignCharge(FALSE)
       \/ UNCHANGED signQueue /\ SignCharge(TRUE)
    /\ UNCHANGED <<rpms, signKey, signPoll, signing, late, broken>>

Process(m) == StoreFailure(m) \/ StoreHalf(m) \/ StoreSigned(m)

\* verify_signed_build, which execute_release_plan asks of a build.  Every key is
\* one of a compatible platform here.
VerifySignedBuild ==
    signed /\ rpms # {} /\ \A p \in rpms : href[p] # Unsigned

SignNext ==
    \/ \E p \in Package : AddPackage(p)
    \/ \E t \in SignTask, k \in Key : CreateSignTask(t, k)
    \/ \E n \in Node, t \in SignTask : SelectSignTask(n, t)
    \/ \E n \in Node : TakeSignTask(n)
    \/ \E s \in signing : LoseNode(s) \/ \E success \in BOOLEAN : PostSigned(s, success)
    \/ \E m \in signQueue : StoreFailure(m) \/ StoreHalf(m) \/ StoreRaises(m) \/ StoreSigned(m)

Next ==
    \/ KeysNext /\ UNCHANGED signVars
    \/ SignNext /\ UNCHANGED keyVars

\* Sign nodes poll and post what they sign, and the worker runs.
Fairness ==
    /\ \A n \in Node : WF_vars(\E t \in SignTask : SelectSignTask(n, t) /\ UNCHANGED keyVars)
    /\ \A n \in Node : WF_vars(TakeSignTask(n) /\ UNCHANGED keyVars)
    /\ \A s \in Signing :
          WF_vars(\E success \in BOOLEAN : PostSigned(s, success) /\ UNCHANGED keyVars)
    /\ \A m \in Message : WF_vars(m \in signQueue /\ Process(m) /\ UNCHANGED keyVars)

Spec == Init /\ [][Next]_vars
FairSpec == Spec /\ Fairness
------------------------------------------------------------------------------
(* Properties                                                              *)

\* When the queue is served, every artifact's row names the package that is
\* in the repository, although Pulp is modified outside the transaction:
\* retries repair what an exception left, unless a result was dropped after
\* the last retry or stopped half way.
RowsNameRepository ==
    signQueue = {} /\ ~broken => \A p \in Package : href[p] = inRepo[p]

\* A signed build passes the check of a release, which wants all its packages
\* signed, unless it got some after a node took them: then it never passes, for
\* it accepts no further sign task.
SignedIsWhole ==
    signed /\ ~late => VerifySignedBuild

\* Without faults every sign task ends; there is no lease behind it.
EverySignTaskEnds ==
    \/ <>(signFaults > 0)
    \/ \A t \in SignTask : signStatus[t] # "none" ~> signStatus[t] \in Ended
==============================================================================
