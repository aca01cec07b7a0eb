------------------------------- MODULE SignKeys -------------------------------
(***************************************************************************)
(* The sign keys of one community product.  A user asks for a key, a sign  *)
(* node polls for the request, generates the key and posts it; the server  *)
(* archives the product's active keys, commits, and adds the new one in a  *)
(* second transaction.  A key is the request and the node it came from.    *)
(***************************************************************************)
EXTENDS Integers, FiniteSets

CONSTANTS
    GenTask,      \* ids of the product's gen-key tasks
    Node,         \* sign nodes
    MaxKeyFaults, \* bound: requests that die half way, lost answers
    None          \* a poll that found nothing or is not under way

ASSUME KeyAssumption == MaxKeyFaults \in Nat /\ None \notin GenTask

VARIABLES
    genStatus,    \* GenKeyTask.status, "none" before it is created
    genPoll,      \* genPoll[n]: the task n's poll has selected
    generated,    \* keys a node generates or has to post
    keys,         \* rows of sign_keys
    active,       \* those with SignKey.active
    storing,      \* keys whose request has committed the archiving
    keysRaced,    \* two polls or two completions were under way together
    keyFaults

keyVars == <<genStatus, genPoll, generated, keys, active, storing, keysRaced,
             keyFaults>>

Key == GenTask \X Node

\* GenKeyStatus
GenStatus == {"IDLE", "IN_PROGRESS", "COMPLETED", "FAILED"}

KeysTypeOK ==
    /\ genStatus \in [GenTask -> GenStatus \cup {"none"}]
    /\ genPoll \in [Node -> GenTask \cup {None}]
    /\ generated \subseteq Key
    /\ keys \subseteq Key /\ active \subseteq keys
    /\ storing \subseteq Key
    /\ keysRaced \in BOOLEAN
    /\ keyFaults \in 0..MaxKeyFaults

KeysInit ==
    /\ genStatus = [g \in GenTask |-> "none"]
    /\ genPoll = [n \in Node |-> None]
    /\ generated = {} /\ keys = {} /\ active = {} /\ storing = {}
    /\ keysRaced = FALSE /\ keyFaults = 0

KeyCharge(isFault) ==
    /\ isFault => keyFaults < MaxKeyFaults
    /\ keyFaults' = IF isFault THEN keyFaults + 1 ELSE keyFaults

------------------------------------------------------------------------------

\* create_gen_key_task, with the product or on request.
CreateGenKeyTask(g) ==
    /\ genStatus[g] = "none"
    /\ genStatus' = [genStatus EXCEPT ![g] = "IDLE"]
    /\ UNCHANGED <<genPoll, generated, keys, active, storing, keysRaced, keyFaults>>

\* get_available_gen_key_task selects an idle task without a lock ...
SelectGenKeyTask(n, g) ==
    /\ genPoll[n] = None
    /\ genStatus[g] = "IDLE"
    /\ genPoll' = [genPoll EXCEPT ![n] = g]
    /\ keysRaced' = (keysRaced \/ \E o \in Node : genPoll[o] # None)
    /\ UNCHANGED <<genStatus, generated, keys, active, storing, keyFaults>>

\* ... and updates it by its id, whatever its status is by then.
TakeGenKeyTask(n) ==
    /\ genPoll[n] # None
    /\ genStatus' = [genStatus EXCEPT ![genPoll[n]] = "IN_PROGRESS"]
    /\ generated' = generated \cup {<<genPoll[n], n>>}
    /\ genPoll' = [genPoll EXCEPT ![n] = None]
    /\ UNCHANGED <<keys, active, storing, keysRaced, keyFaults>>

\* The node reports a failure: the handler sets FAILED and returns None,
\* which is no SignKey, so the response fails to validate and the session
\* is rolled back.
GenKeyFails(k) ==
    /\ k \in generated \ storing
    /\ generated' = generated \ {k}
    /\ UNCHANGED <<genStatus, genPoll, keys, active, storing, keysRaced, keyFaults>>

\* Mutant: the product's other keys stay active.
ArchiveNothing(k) ==
    /\ k \in generated \ storing
    /\ genStatus' = [genStatus EXCEPT ![k[1]] = "COMPLETED"]
    /\ storing' = storing \cup {k}
    /\ keysRaced' = (keysRaced \/ storing # {})
    /\ UNCHANGED <<genPoll, generated, keys, active, keyFaults>>

\* complete_gen_key_task up to its commit: the task is completed and all
\* the product's active keys are archived.
ArchiveKeys(k) ==
    /\ k \in generated \ storing
    /\ genStatus' = [genStatus EXCEPT ![k[1]] = "COMPLETED"]
    /\ active' = {}
    /\ storing' = storing \cup {k}
    /\ keysRaced' = (keysRaced \/ storing # {})
    /\ UNCHANGED <<genPoll, generated, keys, keyFaults>>

\* The new key is added.  A key that was added before violates the unique
\* keyid, and the request ends there.  The node does not post it again
\* unless the answer is lost.
StoreKey(k) ==
    /\ k \in storing
    /\ storing' = storing \ {k}
    /\ keys' = keys \cup {k}
    /\ active' = IF k \in keys THEN active ELSE active \cup {k}
    /\ \/ generated' = generated \ {k} /\ KeyCharge(FALSE)
       \/ UNCHANGED generated /\ KeyCharge(TRUE)
    /\ UNCHANGED <<genStatus, genPoll, keysRaced>>

\* The request ends between the two transactions.
LoseKey(k) ==
    /\ k \in storing
    /\ KeyCharge(TRUE)
    /\ storing' = storing \ {k}
    /\ generated' \in {generated, generated \ {k}}
    /\ UNCHANGED <<genStatus, genPoll, keys, active, keysRaced>>

KeysNext ==
    \/ \E g \in GenTask : CreateGenKeyTask(g) \/ \E n \in Node : SelectGenKeyTask(n, g)
    \/ \E n \in Node : TakeGenKeyTask(n)
    \/ \E k \in generated : GenKeyFails(k) \/ ArchiveKeys(k)
    \/ \E k \in storing : StoreKey(k) \/ LoseKey(k)

KeysSpec == KeysInit /\ [][KeysNext]_keyVars

------------------------------------------------------------------------------

\* Between completions a product that ever got a key has exactly one active
\* key, unless polls or completions overlapped or a request was cut or
\* repeated: archiving and adding are two transactions.
OneActiveKey ==
    storing = {} /\ keys # {} /\ ~keysRaced /\ keyFaults = 0 => Cardinality(active) = 1
==============================================================================
