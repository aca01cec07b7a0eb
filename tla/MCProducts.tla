------------------------------ MODULE MCProducts ------------------------------
(***************************************************************************)
(* A product, removed and created again, two builds for it, and a user who *)
(* is not its owner.                                                       *)
(***************************************************************************)
EXTENDS Products, TLC

CONSTANTS goods, tp, ann

Teams == [x \in Product |-> tp]
Owners == [x \in Product |-> ann]
Names == [x \in Product |-> Product]
Homes == [b \in Build |-> Repo]
NamedRoles == {{"manager"}, {"manager", "signer"}}
\* Builds, workers and the repositories of a product are interchangeable
Alike == Permutations(Build) \cup Permutations(Worker) \cup Permutations(Repo)
===============================================================================
