---------------------------- MODULE BuildPlanProofs ---------------------------
(***************************************************************************)
(* The dependencies of a plan and those that restarts add, for any tasks   *)
(* and platforms: none of them makes a cycle.                              *)
(***************************************************************************)
EXTENDS BuildPlan, WellFoundedInduction, TLAPS

------------------------------------------------------------------------------
(* Orders of tasks                                                         *)

\* The least-number principle, from the library's theorems on well-founded
\* relations: the library's order on Nat, spelled out.
LEMMA LessThanRelation == OpToRel(<, Nat) = {ss \in Nat \X Nat : ss[1] < ss[2]}
BY SMT DEF OpToRel

\* "Less than" is well founded, as a relation the provers can use.
LEMMA Less == \E R : /\ IsWellFoundedOn(R, Nat)
                    /\ \A m, n \in Nat : <<n, m>> \in R <=> n < m
<1> DEFINE R == {ss \in Nat \X Nat : ss[1] < ss[2]}
<1>1. IsWellFoundedOn(R, Nat)
  BY NatLessThanWellFounded, LessThanRelation
<1>2. \A m, n \in Nat : <<n, m>> \in R <=> n < m
  OBVIOUS
<1>3. QED
  BY <1>1, <1>2

\* Every set of naturals that is not empty has a least element.
LEMMA Smallest ==
    ASSUME NEW S, S \subseteq Nat, S # {}
    PROVE  \E m \in S : \A n \in S : m <= n
<1>1. PICK R : /\ IsWellFoundedOn(R, Nat)
               /\ \A m, n \in Nat : <<n, m>> \in R <=> n < m
  BY Less
<1>2. PICK m \in S : \A n \in S : ~ (<<n, m>> \in R)
  BY <1>1, WFMin, Zenon
<1>3. ASSUME NEW n \in S PROVE m <= n
  <2>1. m \in Nat /\ n \in Nat
    OBVIOUS
  <2>2. ~ (n < m)
    BY <1>1, <1>2, <2>1
  <2>3. QED
    BY <2>1, <2>2
<1>4. QED
  BY <1>3

LEMMA Ids == Task \subseteq Nat /\ \A t \in Task : IndexOf[t] \in Nat
BY PlanAssumption

\* The tasks of S in its first row.
LEMMA FirstRow ==
    ASSUME NEW S, S \subseteq Task, S # {}
    PROVE  \E i \in Nat : /\ {t \in S : IndexOf[t] = i} # {}
                          /\ \A t \in S : IndexOf[t] >= i
<1> DEFINE I == {IndexOf[t] : t \in S}
<1>1. I \subseteq Nat /\ I # {}
  BY Ids
<1>2. PICK i \in I : \A j \in I : i <= j
  BY <1>1, Smallest
<1>3. QED
  BY <1>1, <1>2

\* Nothing requested earlier is in the first row of a set.
LEMMA NothingBefore ==
    ASSUME NEW S, S \subseteq Task, NEW t \in S, \A u \in S : IndexOf[u] >= IndexOf[t]
    PROVE  Before(t) \cap S = {}
<1> SUFFICES ASSUME NEW u \in S, IndexOf[u] < IndexOf[t] PROVE FALSE
  BY DEF Before
<1>1. IndexOf[u] \in Nat /\ IndexOf[t] \in Nat
  BY Ids
<1>2. IndexOf[u] >= IndexOf[t]
  OBVIOUS
<1>3. QED
  BY <1>1, <1>2

------------------------------------------------------------------------------
(* The planner makes no cycle: in the first row of a set of tasks a source *)
(* task, or any task if there is none, waits for none of the set.          *)
LEMMA PlanAcyclic ==
    ASSUME NEW S \in SUBSET Task, S # {}
    PROVE  \E t \in S : PlannedDeps(t) \cap S = {}
<1>1. PICK i \in Nat : /\ {t \in S : IndexOf[t] = i} # {}
                       /\ \A t \in S : IndexOf[t] >= i
  BY FirstRow
<1>2. \A t \in S : IndexOf[t] = i => Before(t) \cap S = {}
  BY <1>1, NothingBefore
<1>3. CASE \E t \in S : IndexOf[t] = i /\ ArchOf[t] = Src
  <2>1. PICK t \in S : IndexOf[t] = i /\ ArchOf[t] = Src
    BY <1>3
  <2>2. PlannedDeps(t) \subseteq Before(t)
    BY <2>1 DEF PlannedDeps
  <2>3. QED
    BY <2>1, <2>2, <1>2
<1>4. CASE ~ \E t \in S : IndexOf[t] = i /\ ArchOf[t] = Src
  <2>1. PICK t \in S : IndexOf[t] = i
    BY <1>1
  <2>2. SourceTask(t) \cap S = {}
    BY <1>4, <2>1 DEF SourceTask
  <2>3. ArchOf[t] # Src
    BY <1>4, <2>1
  <2>4. PlannedDeps(t) \subseteq SourceTask(t) \cup Before(t)
    BY <2>3 DEF PlannedDeps
  <2>5. QED
    BY <2>1, <2>2, <2>4, <1>2
<1>5. QED
  BY <1>3, <1>4

\* No failed task is in an earlier place of a chain than itself: both
\* restarts order the failed tasks of any set.
LEMMA ChainAcyclic ==
    ASSUME NEW st, NEW S, S \subseteq Failed(st), S # {}
    PROVE  \E t \in S : ChainDeps(st, t) \cap S = {}
<1>0. S \subseteq Task
  BY DEF Failed
<1>1. PICK i \in Nat : /\ {t \in S : IndexOf[t] = i} # {}
                       /\ \A t \in S : IndexOf[t] >= i
  BY <1>0, FirstRow
<1>2. PICK t \in {u \in S : IndexOf[u] = i} : \A u \in {v \in S : IndexOf[v] = i} : t <= u
  BY <1>0, <1>1, Ids, Smallest
<1>3. \A u \in S : ~ ChainBefore(u, t)
  BY <1>0, <1>1, <1>2, Ids DEF ChainBefore
<1>4. ChainDeps(st, t) \cap S = {}
  BY <1>3 DEF ChainDeps, LastTask
<1>5. QED
  BY <1>2, <1>4

LEMMA ParallelAcyclic ==
    ASSUME NEW st, NEW S, S \subseteq Failed(st), S # {}
    PROVE  \E t \in S : ParallelDeps(st, t) \cap S = {}
<1>0. S \subseteq Task
  BY DEF Failed
<1>1. PICK i \in Nat : /\ {t \in S : IndexOf[t] = i} # {}
                       /\ \A t \in S : IndexOf[t] >= i
  BY <1>0, FirstRow
<1> DEFINE Low == {u \in S : IndexOf[u] = i}
           Sources == {u \in Low : ArchOf[u] = Src}
<1>2. \E t \in Low : \A u \in Low : ~ RowBefore(u, t)
  <2>1. CASE Sources # {}
    <3>1. PICK t \in Sources : \A u \in Sources : t <= u
      BY <1>0, <2>1, Ids, Smallest
    <3>2. QED
      BY <1>0, <3>1, Ids DEF RowBefore
  <2>2. CASE Sources = {}
    <3>1. PICK t \in Low : \A u \in Low : t <= u
      BY <1>0, <1>1, Ids, Smallest
    <3>2. QED
      BY <1>0, <2>2, <3>1, Ids DEF RowBefore
  <2>3. QED
    BY <2>1, <2>2
<1>3. PICK t \in Low : \A u \in Low : ~ RowBefore(u, t)
  BY <1>2
<1>4. EarlierRows(st, t) \cap S = {}
  BY <1>0, <1>1, <1>3, NothingBefore DEF EarlierRows
<1>5. FirstIndexDep(st, t) \cap S = {}
  BY <1>3 DEF FirstIndexDep, Row
<1>6. QED
  BY <1>3, <1>4, <1>5 DEF ParallelDeps

------------------------------------------------------------------------------
(* What tasks wait for                                                     *)

LEMMA PlannedDepsType == \A t \in Task : PlannedDeps(t) \subseteq Task
BY DEF PlannedDeps, SourceTask, Before

LEMMA NewDepsType ==
    ASSUME NEW st, NEW t \in Task
    PROVE  ChainDeps(st, t) \subseteq Task /\ ParallelDeps(st, t) \subseteq Task
BY DEF ChainDeps, LastTask, ParallelDeps, FirstIndexDep, EarlierRows, Before, Failed

------------------------------------------------------------------------------
(* Restarting tasks                                                        *)

\* What both restarts guarantee of the rows they add, over the statuses st
\* they read: only failed tasks get rows, the rows name tasks that failed or
\* are idle, and they order every set of failed tasks.
NewRowsOrder(st, new) ==
    /\ \A t \in Task \ Failed(st) : new[t] = {}
    /\ \A t \in Task : \A d \in new[t] : d \in Task /\ st[d] \in {"IDLE", "FAILED"}
    /\ \A S \in SUBSET Failed(st) : S # {} => \E t \in S : new[t] \cap S = {}

LEMMA ChainOrders == ASSUME NEW st PROVE NewRowsOrder(st, [t \in Task |-> ChainDeps(st, t)])
<1> DEFINE new == [t \in Task |-> ChainDeps(st, t)]
<1>1. \A t \in Task \ Failed(st) : new[t] = {}
  BY DEF ChainDeps
<1>2. \A t \in Task : \A d \in new[t] : d \in Task /\ st[d] \in {"IDLE", "FAILED"}
  BY DEF ChainDeps, LastTask, Failed
<1>3. ASSUME NEW S \in SUBSET Failed(st), S # {}
      PROVE  \E t \in S : new[t] \cap S = {}
  <2>1. PICK t \in S : ChainDeps(st, t) \cap S = {}
    BY <1>3, ChainAcyclic
  <2>2. t \in Task
    BY DEF Failed
  <2>3. QED
    BY <2>1, <2>2
<1>4. QED
  BY <1>1, <1>2, <1>3 DEF NewRowsOrder

LEMMA ParallelOrders == ASSUME NEW st PROVE NewRowsOrder(st, [t \in Task |-> ParallelDeps(st, t)])
<1> DEFINE new == [t \in Task |-> ParallelDeps(st, t)]
<1>1. \A t \in Task \ Failed(st) : new[t] = {}
  BY DEF ParallelDeps
<1>2. \A t \in Task : \A d \in new[t] : d \in Task /\ st[d] \in {"IDLE", "FAILED"}
  BY DEF ParallelDeps, FirstIndexDep, EarlierRows, Before, Failed
<1>3. ASSUME NEW S \in SUBSET Failed(st), S # {}
      PROVE  \E t \in S : new[t] \cap S = {}
  <2>1. PICK t \in S : ParallelDeps(st, t) \cap S = {}
    BY <1>3, ParallelAcyclic
  <2>2. t \in Task
    BY DEF Failed
  <2>3. QED
    BY <2>1, <2>2
<1>4. QED
  BY <1>1, <1>2, <1>3 DEF NewRowsOrder
==============================================================================
