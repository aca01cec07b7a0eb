--------------------------- MODULE NodeTasksProofs ----------------------------
(***************************************************************************)
(* Tasks that other nodes poll for and report back: signing and tests.     *)
(*                                                                         *)
(* For every number of tasks, nodes, packages, failures and retries: a     *)
(* product has exactly one active key between completions, the rows of a   *)
(* build name what is in Pulp, and a signed build is signed as a whole.    *)
(* For any number of build tasks, creators, runs and faults: revisions of  *)
(* tests are not shared, and a cancelling holds.                           *)
(***************************************************************************)
EXTENDS SignTasks, TestTasks, FiniteSetTheorems, TLAPS

------------------------------------------------------------------------------
(* Keys                                                                    *)

\* One poll is under way, for an idle task; keys come from tasks that were
\* handed out; one completion is under way.
OnePoll ==
    /\ \A n, o \in Node : genPoll[n] # None /\ genPoll[o] # None => n = o
    /\ \A n \in Node : genPoll[n] # None => genStatus[genPoll[n]] = "IDLE"
Handed == \A k \in generated \cup storing \cup keys : genStatus[k[1]] \notin {"none", "IDLE"}
OneCompletion == \A j, k \in storing : j = k

\* Without faults a key is added once: a completion holds the place of the
\* active key, and its key is not among the product's yet.
OneStored ==
    /\ storing \subseteq generated
    /\ generated \cap keys = {}
    /\ storing # {} => active = {}
    /\ storing = {} /\ keys # {} => \E k \in keys : active = {k}

KeysInv ==
    /\ KeysTypeOK
    /\ ~keysRaced => OnePoll /\ Handed /\ OneCompletion
    /\ ~keysRaced /\ keyFaults = 0 => OneStored

LEMMA KeysInitInv == KeysInit => KeysInv
<1> SUFFICES ASSUME KeysInit PROVE KeysInv
  OBVIOUS
<1>1. KeysTypeOK
  <2>1. genStatus \in [GenTask -> GenStatus \cup {"none"}]
    BY DEF KeysInit
  <2>2. genPoll \in [Node -> GenTask \cup {None}]
    BY DEF KeysInit
  <2>3. generated \subseteq Key /\ keys \subseteq Key /\ active \subseteq keys /\ storing \subseteq Key
    BY DEF KeysInit
  <2>4. keyFaults \in 0..MaxKeyFaults
    BY KeyAssumption DEF KeysInit
  <2>5. keysRaced \in BOOLEAN
    BY DEF KeysInit
  <2> QED
    BY <2>1, <2>2, <2>3, <2>4, <2>5 DEF KeysTypeOK
<1>2. OnePoll /\ Handed /\ OneCompletion
  BY DEF KeysInit, OnePoll, Handed, OneCompletion
<1>3. OneStored
  BY DEF KeysInit, OneStored
<1> QED
  BY <1>1, <1>2, <1>3 DEF KeysInv

LEMMA KeysStepType == KeysTypeOK /\ [KeysNext]_keyVars => KeysTypeOK'
<1> SUFFICES ASSUME KeysTypeOK, [KeysNext]_keyVars PROVE KeysTypeOK'
  OBVIOUS
<1> USE KeyAssumption DEF KeysTypeOK, GenStatus
<1>1. ASSUME NEW g \in GenTask, CreateGenKeyTask(g) PROVE KeysTypeOK'
  BY <1>1 DEF CreateGenKeyTask
<1>2. ASSUME NEW n \in Node, NEW g \in GenTask, SelectGenKeyTask(n, g) PROVE KeysTypeOK'
  BY <1>2 DEF SelectGenKeyTask
<1>3. ASSUME NEW n \in Node, TakeGenKeyTask(n) PROVE KeysTypeOK'
  <2>1. genPoll[n] \in GenTask
    BY <1>3 DEF TakeGenKeyTask
  <2>2. <<genPoll[n], n>> \in Key
    BY <2>1 DEF Key
  <2> QED
    BY <1>3, <2>1, <2>2 DEF TakeGenKeyTask
<1>4. ASSUME NEW k \in generated, GenKeyFails(k) PROVE KeysTypeOK'
  BY <1>4 DEF GenKeyFails
<1>5. ASSUME NEW k \in generated, ArchiveKeys(k) PROVE KeysTypeOK'
  <2>1. k \in Key /\ k[1] \in GenTask
    BY DEF Key
  <2> QED
    BY <1>5, <2>1 DEF ArchiveKeys
<1>6. ASSUME NEW k \in storing, StoreKey(k) PROVE KeysTypeOK'
  BY <1>6 DEF StoreKey, KeyCharge
<1>7. ASSUME NEW k \in storing, LoseKey(k) PROVE KeysTypeOK'
  BY <1>7 DEF LoseKey, KeyCharge
<1>8. ASSUME UNCHANGED keyVars PROVE KeysTypeOK'
  BY <1>8 DEF keyVars
<1> QED
  BY <1>1, <1>2, <1>3, <1>4, <1>5, <1>6, <1>7, <1>8 DEF KeysNext

LEMMA KeysStepCalm ==
    KeysInv /\ [KeysNext]_keyVars /\ ~keysRaced' => (OnePoll /\ Handed /\ OneCompletion)'
<1> SUFFICES ASSUME KeysInv, [KeysNext]_keyVars, ~keysRaced'
             PROVE  (OnePoll /\ Handed /\ OneCompletion)'
  OBVIOUS
<1> DEFINE Calm == OnePoll /\ Handed /\ OneCompletion
<1> USE KeyAssumption DEF KeysInv, KeysTypeOK, GenStatus
<1>1. ASSUME NEW g \in GenTask, CreateGenKeyTask(g) PROVE Calm'
  BY <1>1 DEF CreateGenKeyTask, OnePoll, Handed, OneCompletion, Key
<1>2. ASSUME NEW n \in Node, NEW g \in GenTask, SelectGenKeyTask(n, g) PROVE Calm'
  BY <1>2 DEF SelectGenKeyTask, OnePoll, Handed, OneCompletion
<1>3. ASSUME NEW n \in Node, TakeGenKeyTask(n) PROVE Calm'
  <2>1. genPoll[n] \in GenTask /\ genStatus' = [genStatus EXCEPT ![genPoll[n]] = "IN_PROGRESS"]
    BY <1>3 DEF TakeGenKeyTask
  <2>2. OnePoll'
    BY <1>3, <2>1 DEF TakeGenKeyTask, OnePoll
  <2>3. Handed'
    BY <1>3, <2>1 DEF TakeGenKeyTask, Handed, Key
  <2>4. OneCompletion'
    BY <1>3 DEF TakeGenKeyTask, OneCompletion
  <2> QED
    BY <2>2, <2>3, <2>4
<1>4. ASSUME NEW k \in generated, GenKeyFails(k) PROVE Calm'
  BY <1>4 DEF GenKeyFails, OnePoll, Handed, OneCompletion
<1>5. ASSUME NEW k \in generated, ArchiveKeys(k) PROVE Calm'
  <2>1. /\ k \in Key /\ k[1] \in GenTask
        /\ ~keysRaced /\ storing = {}
        /\ genStatus' = [genStatus EXCEPT ![k[1]] = "COMPLETED"]
    BY <1>5 DEF ArchiveKeys, Key
  <2>2. genStatus[k[1]] # "IDLE"
    BY <2>1 DEF Handed
  <2>3. OnePoll'
    BY <1>5, <2>1, <2>2 DEF ArchiveKeys, OnePoll
  <2>4. Handed'
    BY <1>5, <2>1 DEF ArchiveKeys, Handed, Key
  <2>5. OneCompletion'
    BY <1>5, <2>1 DEF ArchiveKeys, OneCompletion
  <2> QED
    BY <2>3, <2>4, <2>5
<1>6. ASSUME NEW k \in storing, StoreKey(k) PROVE Calm'
  BY <1>6 DEF StoreKey, OnePoll, Handed, OneCompletion
<1>7. ASSUME NEW k \in storing, LoseKey(k) PROVE Calm'
  BY <1>7 DEF LoseKey, OnePoll, Handed, OneCompletion
<1>8. ASSUME UNCHANGED keyVars PROVE Calm'
  BY <1>8 DEF keyVars, OnePoll, Handed, OneCompletion
<1> QED
  BY <1>1, <1>2, <1>3, <1>4, <1>5, <1>6, <1>7, <1>8 DEF KeysNext

LEMMA KeysStepStored ==
    KeysInv /\ [KeysNext]_keyVars /\ ~keysRaced' /\ keyFaults' = 0 => OneStored'
<1> SUFFICES ASSUME KeysInv, [KeysNext]_keyVars, ~keysRaced', keyFaults' = 0
             PROVE  OneStored'
  OBVIOUS
<1> USE KeyAssumption DEF KeysInv, KeysTypeOK, GenStatus
<1>1. ASSUME NEW g \in GenTask, CreateGenKeyTask(g) PROVE OneStored'
  BY <1>1 DEF CreateGenKeyTask, OneStored
<1>2. ASSUME NEW n \in Node, NEW g \in GenTask, SelectGenKeyTask(n, g) PROVE OneStored'
  BY <1>2 DEF SelectGenKeyTask, OneStored
<1>3. ASSUME NEW n \in Node, TakeGenKeyTask(n) PROVE OneStored'
  <2>1. ~keysRaced /\ keyFaults = 0 /\ genPoll[n] # None
    BY <1>3 DEF TakeGenKeyTask
  <2>2. genStatus[genPoll[n]] = "IDLE"
    BY <2>1 DEF OnePoll
  <2>3. <<genPoll[n], n>> \notin keys
    BY <2>1, <2>2 DEF Handed
  <2> QED
    BY <1>3, <2>1, <2>3 DEF TakeGenKeyTask, OneStored
<1>4. ASSUME NEW k \in generated, GenKeyFails(k) PROVE OneStored'
  BY <1>4 DEF GenKeyFails, OneStored
<1>5. ASSUME NEW k \in generated, ArchiveKeys(k) PROVE OneStored'
  BY <1>5 DEF ArchiveKeys, OneStored
<1>6. ASSUME NEW k \in storing, StoreKey(k) PROVE OneStored'
  <2>1. ~keysRaced /\ keyFaults = 0 /\ generated' = generated \ {k}
    BY <1>6 DEF StoreKey, KeyCharge
  <2>2. storing' = {} /\ k \notin keys /\ active = {}
    BY <1>6, <2>1 DEF StoreKey, OneStored, OneCompletion
  <2>3. active' = {k} /\ keys' = keys \cup {k}
    BY <1>6, <2>2 DEF StoreKey
  <2> QED
    BY <2>1, <2>2, <2>3 DEF OneStored
<1>7. ASSUME NEW k \in storing, LoseKey(k) PROVE OneStored'
  BY <1>7 DEF LoseKey, KeyCharge
<1>8. ASSUME UNCHANGED keyVars PROVE OneStored'
  BY <1>8 DEF keyVars, OneStored
<1> QED
  BY <1>1, <1>2, <1>3, <1>4, <1>5, <1>6, <1>7, <1>8 DEF KeysNext

\* However many requests for a key there are and nodes that serve them:
\* polls, completions and failures keep the invariant above.
THEOREM KeysInvariant == KeysSpec => []KeysInv
<1>1. KeysInv /\ [KeysNext]_keyVars => KeysInv'
  BY KeysStepType, KeysStepCalm, KeysStepStored DEF KeysInv
<1> QED
  BY KeysInitInv, <1>1, PTL DEF KeysSpec

\* Between completions a product that ever got a key has exactly one active
\* key, unless polls or completions overlapped or a request was cut or
\* repeated (complete_gen_key_task archives and adds in two transactions).
THEOREM ActiveKeyIsUnique == KeysSpec => []OneActiveKey
<1>1. KeysInv => OneActiveKey
  <2> SUFFICES ASSUME KeysInv, storing = {}, keys # {}, ~keysRaced, keyFaults = 0
               PROVE  Cardinality(active) = 1
    BY DEF OneActiveKey
  <2>1. PICK k \in keys : active = {k}
    BY DEF KeysInv, OneStored
  <2> QED
    BY <2>1, FS_Singleton
<1> QED
  BY KeysInvariant, <1>1, PTL

\* Signing builds never disturbs the keys: the composition of SignTasks
\* keeps one active key as the keys alone do.
THEOREM SigningKeepsKeys == Spec => []OneActiveKey
<1>1. Init => KeysInit
  BY DEF Init
<1>2. [Next]_vars => [KeysNext]_keyVars
  BY DEF Next, vars
<1> QED
  BY ActiveKeyIsUnique, <1>1, <1>2, PTL DEF Spec, KeysSpec

------------------------------------------------------------------------------
(* Types                                                                   *)

LEMMA ReplaceType ==
    ASSUME NEW f \in [Package -> Version], NEW packages, NEW m \in Message
    PROVE  Replace(f, packages, m) \in [Package -> Version]
<1>1. By(m) \in Version
  BY DEF By, Version, Message
<1> QED
  BY <1>1 DEF Replace

LEMMA SignStepType == TypeOK /\ SignNext /\ UNCHANGED keyVars => TypeOK'
<1> SUFFICES ASSUME TypeOK, SignNext, UNCHANGED keyVars PROVE TypeOK'
  OBVIOUS
<1> USE SignAssumption DEF TypeOK, SignStatus
<1>0. KeysTypeOK'
  BY DEF keyVars, KeysTypeOK
<1> HIDE DEF KeysTypeOK
<1>1. ASSUME NEW p \in Package, AddPackage(p) PROVE TypeOK'
  BY <1>0, <1>1 DEF AddPackage
<1>2. ASSUME NEW t \in SignTask, NEW k \in Key, CreateSignTask(t, k) PROVE TypeOK'
  BY <1>0, <1>2 DEF CreateSignTask
<1>3. ASSUME NEW n \in Node, NEW t \in SignTask, SelectSignTask(n, t) PROVE TypeOK'
  BY <1>0, <1>3 DEF SelectSignTask
<1>4. ASSUME NEW n \in Node, TakeSignTask(n) PROVE TypeOK'
  <2>1. signPoll[n] \in SignTask
    BY <1>4 DEF TakeSignTask
  <2>2. [task |-> signPoll[n], node |-> n, packages |-> rpms] \in Signing
    BY <2>1 DEF Signing
  <2> QED
    BY <1>0, <1>4, <2>1, <2>2 DEF TakeSignTask
<1>5. ASSUME NEW s \in signing, LoseNode(s) PROVE TypeOK'
  BY <1>0, <1>5 DEF LoseNode, SignCharge
<1>6. ASSUME NEW s \in signing, NEW success \in BOOLEAN, PostSigned(s, success) PROVE TypeOK'
  <2>1. [task |-> s.task, node |-> s.node, packages |-> s.packages,
         success |-> success, tries |-> 0] \in Message
    BY DEF Signing, Message
  <2> QED
    BY <1>0, <1>6, <2>1 DEF PostSigned
<1>7. ASSUME NEW m \in signQueue, StoreFailure(m) PROVE TypeOK'
  BY <1>0, <1>7 DEF StoreFailure, Message
<1>8. ASSUME NEW m \in signQueue, StoreHalf(m) PROVE TypeOK'
  BY <1>0, <1>8, ReplaceType DEF StoreHalf, SignCharge, Message
<1>9. ASSUME NEW m \in signQueue, StoreRaises(m) PROVE TypeOK'
  <2>1. m.tries < Retries => [m EXCEPT !.tries = @ + 1] \in Message
    BY DEF Message
  <2>2. signQueue' \subseteq Message /\ broken' \in BOOLEAN
    BY <1>9, <2>1 DEF StoreRaises
  <2>3. inRepo' \in [Package -> Version]
    BY <1>9, ReplaceType DEF StoreRaises
  <2> QED
    BY <1>0, <1>9, <2>2, <2>3 DEF StoreRaises, SignCharge
<1>10. ASSUME NEW m \in signQueue, StoreSigned(m) PROVE TypeOK'
  <2>1. m.task \in SignTask
    BY DEF Message
  <2> QED
    BY <1>0, <1>10, <2>1, ReplaceType DEF StoreSigned, SignCharge
<1> QED
  BY <1>1, <1>2, <1>3, <1>4, <1>5, <1>6, <1>7, <1>8, <1>9, <1>10 DEF SignNext

\* Every variable of the keys and of the sign tasks keeps its type.
THEOREM SigningTypeCorrect == Spec => []TypeOK
<1>1. Init => TypeOK
  <2> SUFFICES ASSUME Init PROVE TypeOK
    OBVIOUS
  <2>1. KeysTypeOK
    BY KeysInitInv DEF Init, KeysInv
  <2>2. /\ signStatus \in [SignTask -> SignStatus \cup {"none"}]
        /\ signKey \in [SignTask -> Key \cup {None}]
        /\ signPoll \in [Node -> SignTask \cup {None}]
    BY DEF Init
  <2>3. href \in [Package -> Version] /\ inRepo \in [Package -> Version]
    BY DEF Init, Version
  <2>4. /\ rpms \subseteq Package /\ signing \subseteq Signing /\ signQueue \subseteq Message
        /\ signFaults \in 0..MaxSignFaults
    BY SignAssumption DEF Init
  <2>5. signed \in BOOLEAN /\ late \in BOOLEAN /\ broken \in BOOLEAN
    BY Zenon DEF Init
  <2> QED
    BY <2>1, <2>2, <2>3, <2>4, <2>5 DEF TypeOK
<1>2. TypeOK /\ [Next]_vars => TypeOK'
  <2> SUFFICES ASSUME TypeOK, [Next]_vars PROVE TypeOK'
    OBVIOUS
  <2>1. CASE KeysNext /\ UNCHANGED signVars
    <3>1. KeysTypeOK'
      BY <2>1, KeysStepType DEF TypeOK
    <3> QED
      BY <2>1, <3>1 DEF signVars, TypeOK
  <2>2. CASE SignNext /\ UNCHANGED keyVars
    BY <2>2, SignStepType
  <2>3. CASE UNCHANGED vars
    <3>1. KeysTypeOK'
      BY <2>3 DEF vars, keyVars, TypeOK, KeysTypeOK
    <3> QED
      BY <2>3, <3>1 DEF vars, signVars, TypeOK
  <2> QED
    BY <2>1, <2>2, <2>3 DEF Next
<1> QED
  BY <1>1, <1>2, PTL DEF Spec

------------------------------------------------------------------------------
(* Rows and repository                                                     *)

\* A row may differ from the repository only while a result that will store
\* the package again waits in the queue.
Repairs(p) == \E m \in signQueue : m.success /\ p \in m.packages
RepairInv == broken \/ \A p \in Package : href[p] = inRepo[p] \/ Repairs(p)

LEMMA RepairStep == TypeOK /\ RepairInv /\ SignNext => RepairInv'
<1> SUFFICES ASSUME TypeOK, RepairInv, SignNext, ~broken' PROVE RepairInv'
  BY DEF RepairInv
<1> USE DEF RepairInv, Repairs, TypeOK
<1>1. ASSUME NEW p \in Package, AddPackage(p) PROVE RepairInv'
  BY <1>1 DEF AddPackage
<1>2. ASSUME NEW t \in SignTask, NEW k \in Key, CreateSignTask(t, k) PROVE RepairInv'
  BY <1>2 DEF CreateSignTask
<1>3. ASSUME NEW n \in Node, NEW t \in SignTask, SelectSignTask(n, t) PROVE RepairInv'
  BY <1>3 DEF SelectSignTask
<1>4. ASSUME NEW n \in Node, TakeSignTask(n) PROVE RepairInv'
  BY <1>4 DEF TakeSignTask
<1>5. ASSUME NEW s \in signing, LoseNode(s) PROVE RepairInv'
  BY <1>5 DEF LoseNode
<1>6. ASSUME NEW s \in signing, NEW success \in BOOLEAN, PostSigned(s, success) PROVE RepairInv'
  BY <1>6 DEF PostSigned
<1>7. ASSUME NEW m \in signQueue, StoreFailure(m) PROVE RepairInv'
  BY <1>7 DEF StoreFailure
<1>8. ASSUME NEW m \in signQueue, StoreHalf(m) PROVE RepairInv'
  BY <1>8 DEF StoreHalf
<1>9. ASSUME NEW m \in signQueue, StoreRaises(m) PROVE RepairInv'
  <2> DEFINE again == [m EXCEPT !.tries = @ + 1]
  <2>1. m \in Message /\ m.success
    BY <1>9 DEF StoreRaises
  <2>2. again.success /\ again.packages = m.packages
    BY <2>1 DEF Message
  <2>3. ~broken /\ href' = href /\ signQueue' = (signQueue \ {m}) \cup {again}
    BY <1>9 DEF StoreRaises
  <2>4. PICK added \in SUBSET m.packages : inRepo' = Replace(inRepo, added, m)
    BY <1>9 DEF StoreRaises
  <2>5. ASSUME NEW p \in Package, p \in m.packages PROVE Repairs(p)'
    BY <2>2, <2>3, <2>5
  <2>6. ASSUME NEW p \in Package, p \notin m.packages
        PROVE  href'[p] = inRepo'[p] \/ Repairs(p)'
    <3>1. inRepo'[p] = inRepo[p]
      BY <2>4, <2>6 DEF Replace
    <3> QED
      BY <2>3, <2>6, <3>1
  <2> QED
    BY <2>5, <2>6
<1>10. ASSUME NEW m \in signQueue, StoreSigned(m) PROVE RepairInv'
  <2>1. /\ ~broken
        /\ href' = Replace(href, m.packages, m) /\ inRepo' = Replace(inRepo, m.packages, m)
        /\ signQueue' \in {signQueue, signQueue \ {m}}
    BY <1>10 DEF StoreSigned
  <2>2. ASSUME NEW p \in Package, p \in m.packages PROVE href'[p] = inRepo'[p]
    BY <2>1, <2>2 DEF Replace
  <2>3. ASSUME NEW p \in Package, p \notin m.packages
        PROVE  href'[p] = inRepo'[p] \/ Repairs(p)'
    BY <2>1, <2>3 DEF Replace
  <2> QED
    BY <2>2, <2>3
<1> QED
  BY <1>1, <1>2, <1>3, <1>4, <1>5, <1>6, <1>7, <1>8, <1>9, <1>10 DEF SignNext

\* When the queue is served every artifact's row names the package that is in
\* the repository, for any number of tasks, nodes, retries and faults.
THEOREM RowsFollowRepository == Spec => []RowsNameRepository
<1>1. Init => RepairInv
  BY DEF Init, RepairInv
<1>2. TypeOK /\ RepairInv /\ [Next]_vars => RepairInv'
  <2> SUFFICES ASSUME TypeOK, RepairInv, [Next]_vars PROVE RepairInv'
    OBVIOUS
  <2>1. CASE UNCHANGED signVars
    BY <2>1 DEF signVars, RepairInv, Repairs
  <2> QED
    BY <2>1, RepairStep DEF Next, vars
<1>3. RepairInv => RowsNameRepository
  BY DEF RepairInv, Repairs, RowsNameRepository
<1> QED
  BY SigningTypeCorrect, <1>1, <1>2, <1>3, PTL DEF Spec

------------------------------------------------------------------------------
(* Signed builds are signed as a whole                                     *)

\* Until the build gets a package too late: who has packages of the build has
\* all of them, and has a task that was handed out; a task exists only of a
\* build with packages; a signed build has had such a task.
HandedOut(t) == t \in SignTask /\ signStatus[t] \notin {"none", "IDLE"}
WholeInv ==
    late \/
    /\ \A s \in signing : s.packages = rpms /\ HandedOut(s.task)
    /\ \A m \in signQueue : m.packages = rpms /\ HandedOut(m.task)
    /\ \A n \in Node : signPoll[n] # None => signStatus[signPoll[n]] # "none"
    /\ \A t \in SignTask : signStatus[t] # "none" => rpms # {}
    /\ signed => /\ \E t \in SignTask : HandedOut(t)
                 /\ \A p \in rpms : href[p] # Unsigned

\* A package that is replaced is signed.
LEMMA ReplaceSigns ==
    ASSUME NEW f, NEW packages, NEW m \in Message, NEW p \in Package
    PROVE  /\ p \in packages => Replace(f, packages, m)[p] # Unsigned
           /\ f[p] # Unsigned => Replace(f, packages, m)[p] # Unsigned
<1>1. By(m) # Unsigned
  BY DEF By, Unsigned
<1> QED
  BY <1>1 DEF Replace

LEMMA WholeStep == TypeOK /\ WholeInv /\ SignNext => WholeInv'
<1> SUFFICES ASSUME TypeOK, WholeInv, SignNext, ~late' PROVE WholeInv'
  BY DEF WholeInv
<1> USE DEF WholeInv, HandedOut, TypeOK, SignStatus
<1>1. ASSUME NEW p \in Package, AddPackage(p) PROVE WholeInv'
  BY <1>1 DEF AddPackage
<1>2. ASSUME NEW t \in SignTask, NEW k \in Key, CreateSignTask(t, k) PROVE WholeInv'
  BY <1>2 DEF CreateSignTask
<1>3. ASSUME NEW n \in Node, NEW t \in SignTask, SelectSignTask(n, t) PROVE WholeInv'
  BY <1>3 DEF SelectSignTask
<1>4. ASSUME NEW n \in Node, TakeSignTask(n) PROVE WholeInv'
  <2>1. signPoll[n] \in SignTask /\ ~late
    BY <1>4 DEF TakeSignTask
  <2> QED
    BY <1>4, <2>1 DEF TakeSignTask
<1>5. ASSUME NEW s \in signing, LoseNode(s) PROVE WholeInv'
  BY <1>5 DEF LoseNode
<1>6. ASSUME NEW s \in signing, NEW success \in BOOLEAN, PostSigned(s, success) PROVE WholeInv'
  BY <1>6 DEF PostSigned
<1>7. ASSUME NEW m \in signQueue, StoreFailure(m) PROVE WholeInv'
  BY <1>7 DEF StoreFailure
<1>8. ASSUME NEW m \in signQueue, StoreHalf(m) PROVE WholeInv'
  <2>1. m \in Message /\ ~late /\ rpms' = rpms
    BY <1>8 DEF StoreHalf
  <2>2. PICK done : href' = Replace(href, done, m)
    BY <1>8 DEF StoreHalf
  <2>3. \A p \in rpms : href[p] # Unsigned => href'[p] # Unsigned
    BY <2>1, <2>2, ReplaceSigns
  <2> QED
    BY <1>8, <2>1, <2>3 DEF StoreHalf
<1>9. ASSUME NEW m \in signQueue, StoreRaises(m) PROVE WholeInv'
  <2> DEFINE again == [m EXCEPT !.tries = @ + 1]
  <2>1. again.task = m.task /\ again.packages = m.packages
    BY DEF Message
  <2>2. signQueue' \subseteq signQueue \cup {again}
    BY <1>9 DEF StoreRaises
  <2> QED
    BY <1>9, <2>1, <2>2 DEF StoreRaises
<1>10. ASSUME NEW m \in signQueue, StoreSigned(m) PROVE WholeInv'
  <2>1. m \in Message /\ ~late /\ rpms' = rpms /\ m.packages = rpms /\ m.task \in SignTask
    BY <1>10 DEF StoreSigned
  <2>2. \A p \in rpms : href'[p] # Unsigned
    BY <1>10, <2>1, ReplaceSigns DEF StoreSigned
  <2> QED
    BY <1>10, <2>1, <2>2 DEF StoreSigned
<1> QED
  BY <1>1, <1>2, <1>3, <1>4, <1>5, <1>6, <1>7, <1>8, <1>9, <1>10 DEF SignNext

\* A signed build passes the check a release makes of it, unless it got
\* packages after a node took them, for any number of tasks and nodes.
THEOREM SignedBuildIsWhole == Spec => []SignedIsWhole
<1>1. Init => WholeInv
  BY DEF Init, WholeInv
<1>2. TypeOK /\ WholeInv /\ [Next]_vars => WholeInv'
  <2> SUFFICES ASSUME TypeOK, WholeInv, [Next]_vars PROVE WholeInv'
    OBVIOUS
  <2>1. CASE UNCHANGED signVars
    BY <2>1 DEF signVars, WholeInv, HandedOut
  <2> QED
    BY <2>1, WholeStep DEF Next, vars
<1>3. WholeInv => SignedIsWhole
  BY DEF WholeInv, HandedOut, SignedIsWhole, VerifySignedBuild
<1> QED
  BY SigningTypeCorrect, <1>1, <1>2, <1>3, PTL DEF Spec

------------------------------------------------------------------------------
(* Tests                                                                   *)

\* What the proofs need of TypeOK; revisions are bounded by NumberInv below.
Types ==
    /\ runs \in [BuildTask -> 0..MaxRuns]
    /\ origin \in [BuildTask -> [Run -> Origin]]
    /\ status \in [Test -> Status \cup {"none"}]
    /\ running \subseteq Test
    /\ queue \subseteq TestMessage

\* Creators whose transaction is open came from one of three places.
Origins == \A c \in Creator : txn[c] # NoTxn => txn[c].origin \in Origin
TxnDomain == DOMAIN txn = Creator

LEMMA TypesStep == Types /\ Origins /\ TxnDomain /\ [TestNext]_testVars => Types' /\ Origins' /\ TxnDomain'
<1> SUFFICES ASSUME Types, Origins, TxnDomain, [TestNext]_testVars
             PROVE  Types' /\ Origins' /\ TxnDomain'
  OBVIOUS
<1> USE TestAssumption DEF Types, Origins, TxnDomain
<1>1. ASSUME NEW c \in Creator, NEW from \in Origin, NEW tasks, Open(c, from, tasks)
      PROVE  Types' /\ Origins' /\ TxnDomain'
  <2>1. Types'
    BY <1>1 DEF Open
  <2>2. /\ txn'[c].origin = from /\ DOMAIN txn' = Creator
        /\ \A d \in Creator \ {c} : txn'[d] = txn[d]
    BY <1>1 DEF Open
  <2> QED
    BY <2>1, <2>2
<1>2. ASSUME NEW c \in Creator, Create(c) PROVE Types' /\ Origins' /\ TxnDomain'
  <2> DEFINE tasks == {t \in BuildTask : txn[c].revision[t] > 0}
  <2>1. \A t \in tasks : runs[t] < MaxRuns
    BY <1>2 DEF Create
  <2>2. runs' = [t \in BuildTask |-> IF t \in tasks THEN runs[t] + 1 ELSE runs[t]]
    BY <1>2 DEF Create
  <2>3. runs' \in [BuildTask -> 0..MaxRuns]
    BY <2>1, <2>2
  <2>4. txn[c].origin \in Origin
    BY <1>2 DEF Create
  <2>5. origin' \in [BuildTask -> [Run -> Origin]]
    <3>1. origin' = [t \in BuildTask |-> IF t \in tasks
                        THEN [origin[t] EXCEPT ![runs[t] + 1] = txn[c].origin] ELSE origin[t]]
      BY <1>2 DEF Create
    <3> QED
      BY <2>4, <3>1
  <2>6. status' \in [Test -> Status \cup {"none"}]
    BY <1>2 DEF Create, Status
  <2>7. txn' = [txn EXCEPT ![c] = NoTxn] /\ running' = running /\ queue' = queue
    BY <1>2 DEF Create
  <2> QED
    BY <2>3, <2>5, <2>6, <2>7
<1>3. CASE GetTests
  BY <1>3 DEF GetTests, Created, Status
<1>4. ASSUME NEW i \in running, Report(i) PROVE Types' /\ Origins' /\ TxnDomain'
  BY <1>4 DEF Report, TestMessage
<1>5. ASSUME NEW m \in queue, Complete(m) PROVE Types' /\ Origins' /\ TxnDomain'
  <2>1. m.test \in Test /\ Outcome(m.verdict) \in Status /\ "FAILED" \in Status
    BY DEF TestMessage, Outcome, Status, Final
  <2> QED
    BY <1>5, <2>1 DEF Complete
<1>6. ASSUME NEW m \in queue, CompleteRaises(m) PROVE Types' /\ Origins' /\ TxnDomain'
  BY <1>6 DEF CompleteRaises
<1>7. CASE Cancel
  BY <1>7 DEF Cancel, Status, Final
<1>8. CASE CancelFails
  BY <1>8 DEF CancelFails
<1>9. CASE UNCHANGED testVars
  BY <1>9 DEF testVars
<1>10. "close" \in Origin /\ "build" \in Origin /\ "task" \in Origin
  BY DEF Origin
<1> QED
  BY <1>1, <1>2, <1>3, <1>4, <1>5, <1>6, <1>7, <1>8, <1>9, <1>10
     DEF TestNext, CloseBuild, RestartBuild, RestartTask

LEMMA TypesInvariant == TestSpec => [](Types /\ Origins /\ TxnDomain)
<1>1. TestInit => Types /\ Origins /\ TxnDomain
  BY TestAssumption DEF TestInit, Types, Origins, TxnDomain, Origin
<1> QED
  BY <1>1, TypesStep, PTL DEF TestSpec

------------------------------------------------------------------------------
(* Revisions                                                               *)

LEMMA MaxIs ==
    ASSUME NEW S \in SUBSET Int, NEW m \in S, \A x \in S : m >= x
    PROVE  Max(S) = m
<1>1. \A x \in S : (\A y \in S : x >= y) => x = m
  OBVIOUS
<1>2. Max(S) \in S /\ \A y \in S : Max(S) >= y
  BY DEF Max
<1> QED
  BY <1>1, <1>2

\* Without overlaps the n-th run of a task has revision n, one transaction
\* is open, and it is about to create the next run of its tasks.
NumberInv ==
    ~overlapped =>
        /\ revision \in [BuildTask -> [Run -> Nat]]
        /\ \A t \in BuildTask : \A n \in 1..runs[t] : revision[t][n] = n
        /\ \A c, d \in Creator : txn[c] # NoTxn /\ txn[d] # NoTxn => c = d
        /\ \A c \in Creator : txn[c] # NoTxn =>
               \A t \in BuildTask : txn[c].revision[t] \in {0, runs[t] + 1}

LEMMA LatestIsRuns ==
    ASSUME Types, NumberInv, ~overlapped, NEW t \in BuildTask
    PROVE  LatestRevision(t) = runs[t]
<1> DEFINE S == {0} \cup {revision[t][n] : n \in 1..runs[t]}
<1>1. runs[t] \in Nat /\ \A n \in 1..runs[t] : revision[t][n] = n
  BY TestAssumption DEF Types, NumberInv
<1>2. S = 0..runs[t]
  BY <1>1
<1>3. S \in SUBSET Int /\ runs[t] \in S /\ \A x \in S : runs[t] >= x
  BY <1>1, <1>2
<1>4. Max(S) = runs[t]
  BY <1>3, MaxIs
<1> QED
  BY <1>4 DEF LatestRevision

LEMMA NumberStep == Types /\ TxnDomain /\ NumberInv /\ [TestNext]_testVars => NumberInv'
<1> SUFFICES ASSUME Types, TxnDomain, NumberInv, [TestNext]_testVars, ~overlapped' PROVE NumberInv'
  BY DEF NumberInv
<1> USE TestAssumption DEF Types, TxnDomain, NumberInv
<1>1. ASSUME NEW c \in Creator, NEW from, NEW tasks, Open(c, from, tasks) PROVE NumberInv'
  <2>1. ~overlapped /\ \A d \in Creator : txn[d] = NoTxn
    BY <1>1 DEF Open
  <2>2. runs' = runs /\ revision' = revision
    BY <1>1 DEF Open
  <2>3. \A d \in Creator \ {c} : txn'[d] = NoTxn
    BY <1>1, <2>1 DEF Open
  <2>4. ASSUME NEW t \in BuildTask PROVE txn'[c].revision[t] \in {0, runs[t] + 1}
    BY <1>1, <2>1, LatestIsRuns DEF Open
  <2> QED
    BY <2>1, <2>2, <2>3, <2>4
<1>2. ASSUME NEW c \in Creator, Create(c) PROVE NumberInv'
  <2> DEFINE tasks == {t \in BuildTask : txn[c].revision[t] > 0}
  <2>1. ~overlapped /\ txn[c] # NoTxn
    BY <1>2 DEF Create
  <2>2. /\ \A t \in tasks : runs[t] < MaxRuns
        /\ runs' = [t \in BuildTask |-> IF t \in tasks THEN runs[t] + 1 ELSE runs[t]]
        /\ revision' = [t \in BuildTask |-> IF t \in tasks
                           THEN [revision[t] EXCEPT ![runs[t] + 1] = txn[c].revision[t]]
                           ELSE revision[t]]
        /\ txn' = [txn EXCEPT ![c] = NoTxn]
    BY <1>2 DEF Create
  <2>3. \A t \in tasks : txn[c].revision[t] = runs[t] + 1 /\ runs[t] + 1 \in Run
    BY <2>1, <2>2 DEF Run
  <2>4. revision' \in [BuildTask -> [Run -> Nat]]
    BY <2>1, <2>2, <2>3
  <2>5. ASSUME NEW t \in BuildTask, NEW n \in 1..runs'[t] PROVE revision'[t][n] = n
    <3>1. CASE t \in tasks /\ n = runs[t] + 1
      BY <2>1, <2>2, <2>3, <3>1
    <3>2. CASE t \in tasks /\ n # runs[t] + 1
      BY <2>1, <2>2, <2>3, <3>2
    <3>3. CASE t \notin tasks
      BY <2>1, <2>2, <3>3
    <3> QED
      BY <3>1, <3>2, <3>3
  <2>6. \A d \in Creator : txn'[d] = NoTxn
    BY <2>1, <2>2
  <2> QED
    BY <2>4, <2>5, <2>6
<1>3. CASE UNCHANGED <<runs, revision, txn, overlapped>>
  BY <1>3
<1> QED
  BY <1>1, <1>2, <1>3
     DEF TestNext, CloseBuild, RestartBuild, RestartTask, GetTests, Report, Complete,
         CompleteRaises, Cancel, CancelFails, testVars

\* The latest revision of a build task is one run of its tests, for any
\* number of creators that do not overlap.
THEOREM RevisionsAreRuns == TestSpec => []RevisionIsOneRun
<1>1. TestInit => NumberInv
  BY TestAssumption DEF TestInit, NumberInv
<1>2. Types /\ NumberInv => RevisionIsOneRun
  BY TestAssumption DEF Types, NumberInv, RevisionIsOneRun
<1> QED
  BY TypesInvariant, NumberStep, <1>1, <1>2, PTL DEF TestSpec

------------------------------------------------------------------------------
(* Cancelling                                                              *)

\* While testing is cancelled the open transactions are those of users, and
\* one that restarts the tests of the build ends the cancelling.
CancelInv ==
    cancelled /\ ~raced =>
        /\ \A i \in Created : origin[i.task][i.run] = "task"
        /\ \A c \in Creator : txn[c] # NoTxn => txn[c].origin \in {"task", "build"}

LEMMA CancelStep == Types /\ TxnDomain /\ CancelInv /\ [TestNext]_testVars => CancelInv'
<1> SUFFICES ASSUME Types, TxnDomain, CancelInv, [TestNext]_testVars, cancelled', ~raced' PROVE CancelInv'
  BY DEF CancelInv
<1> USE TestAssumption DEF Types, TxnDomain, CancelInv
<1>1. ASSUME NEW c \in Creator, NEW from, NEW tasks, Open(c, from, tasks),
             from \in {"task", "build"} \/ ~cancelled
      PROVE  CancelInv'
  <2>1. cancelled /\ ~raced /\ from \in {"task", "build"}
    BY <1>1 DEF Open
  <2>2. txn'[c].origin = from /\ \A d \in Creator \ {c} : txn'[d] = txn[d]
    BY <1>1 DEF Open
  <2> QED
    BY <1>1, <2>1, <2>2 DEF Open, Created
<1>2. ASSUME NEW c \in Creator, Create(c) PROVE CancelInv'
  <2> DEFINE tasks == {t \in BuildTask : txn[c].revision[t] > 0}
  <2>1. cancelled /\ ~raced /\ txn[c].origin = "task"
    BY <1>2 DEF Create
  <2>2. /\ \A t \in tasks : runs[t] < MaxRuns
        /\ origin' = [t \in BuildTask |-> IF t \in tasks
                         THEN [origin[t] EXCEPT ![runs[t] + 1] = txn[c].origin]
                         ELSE origin[t]]
        /\ status' = [i \in Test |-> IF i.task \in tasks /\ i.run = runs[i.task] + 1
                                     THEN "CREATED" ELSE status[i]]
        /\ txn' = [txn EXCEPT ![c] = NoTxn]
    BY <1>2 DEF Create
  <2>3. ASSUME NEW i \in Test, status'[i] = "CREATED" PROVE origin'[i.task][i.run] = "task"
    <3>1. i.task \in BuildTask /\ i.run \in Run
      BY DEF Test
    <3>2. CASE i.task \in tasks /\ i.run = runs[i.task] + 1
      BY <2>1, <2>2, <3>1, <3>2
    <3>3. CASE ~(i.task \in tasks /\ i.run = runs[i.task] + 1)
      <4>1. status[i] = "CREATED"
        BY <2>2, <2>3, <3>3
      <4>2. origin[i.task][i.run] = "task"
        BY <2>1, <4>1 DEF Created
      <4>3. origin'[i.task][i.run] = origin[i.task][i.run]
        BY <2>2, <3>1, <3>3
      <4> QED
        BY <4>2, <4>3
    <3> QED
      BY <3>2, <3>3
  <2> QED
    BY <2>1, <2>2, <2>3 DEF Created
<1>3. CASE GetTests
  BY <1>3 DEF GetTests, Created
<1>4. ASSUME NEW i \in running, Report(i) PROVE CancelInv'
  BY <1>4 DEF Report, Created
<1>5. ASSUME NEW m \in queue, Complete(m) PROVE CancelInv'
  <2>1. m.test \in Test /\ Outcome(m.verdict) # "CREATED"
    BY DEF TestMessage, Outcome
  <2> QED
    BY <1>5, <2>1 DEF Complete, Created
<1>6. ASSUME NEW m \in queue, CompleteRaises(m) PROVE CancelInv'
  BY <1>6 DEF CompleteRaises, Created
<1>7. CASE Cancel
  BY <1>7 DEF Cancel, Created
<1>8. CASE CancelFails
  BY <1>8 DEF CancelFails, Created
<1>9. CASE UNCHANGED testVars
  BY <1>9 DEF testVars, Created
<1> QED
  BY <1>1, <1>2, <1>3, <1>4, <1>5, <1>6, <1>7, <1>8, <1>9
     DEF TestNext, CloseBuild, RestartBuild, RestartTask

\* Once the tests of a build are cancelled none but those a user asked for
\* again waits to be handed out, unless some were being created.
THEOREM CancellingHolds == TestSpec => []CancelHolds
<1>1. TestInit => CancelInv
  BY DEF TestInit, CancelInv
<1>2. CancelInv => CancelHolds
  BY DEF CancelInv, CancelHolds
<1> QED
  BY TypesInvariant, CancelStep, <1>1, <1>2, PTL DEF TestSpec
===============================================================================
