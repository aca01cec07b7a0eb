------------------------------ MODULE MCBuildStart ------------------------------
(***************************************************************************)
(* A module of four components for two architectures; a package and the    *)
(* module with the user's dist; a package on two platforms, and the module *)
(* twice, once with everything left to be built.                           *)
(***************************************************************************)
EXTENDS BuildStart

CONSTANTS UserDist, TagDist, P1, P2

Components == {"app", "doc", "lib", "lib++"}
Packages == [c \in Components |->
    CASE c = "doc" -> {[name |-> "doc", kind |-> "noarch"]}
      [] c = "lib" -> {[name |-> "lib", kind |-> "multilib"], [name |-> "lib-static", kind |-> "multilib"],
                       [name |-> "lib-tools", kind |-> "native"]}
      [] OTHER -> {[name |-> c, kind |-> "native"]}]
Versions(lib, other) == [c \in Components |-> IF c = "lib" THEN lib ELSE other]
Known == {[stable |-> Versions(1, 1), beta |-> Versions(2, 0)],
          [stable |-> Versions(2, 1), beta |-> Versions(2, 2)]}
\* The newer version of app is built
Wants == [c \in Components |-> IF c = "app" THEN 2 ELSE 1]

Git(tag, dist) ==
    [kind |-> "git", tag |-> tag, dist |-> dist, wants |-> Wants, left |-> {}, devel |-> TRUE]
Module(left) ==
    [kind |-> "module", tag |-> NoDist, dist |-> NoDist, wants |-> Wants, left |-> left, devel |-> TRUE]
On(name, arches) == [name |-> name, arches |-> arches]
Wanted(platforms, tasks, definitions, dist, beta) ==
    [platforms |-> platforms, tasks |-> tasks, definitions |-> definitions, dist |-> dist, beta |-> beta]
Requests == [b \in {1, 2, 3, 4} |->
    CASE b = 1 -> Wanted(<<On(P1, <<I686, X86>>)>>, <<Module({})>>, FALSE, NoDist, FALSE)
      [] b = 2 -> Wanted(<<On(P1, <<X86>>)>>, <<Git(TagDist, NoDist), Module({"doc"})>>, TRUE, UserDist, FALSE)
      [] b = 3 -> Wanted(<<On(P1, <<"aarch64">>), On(P2, <<X86>>)>>, <<Git(TagDist, UserDist), Module({})>>, TRUE, NoDist, TRUE)
      [] b = 4 -> Wanted(<<On(P1, <<X86>>)>>, <<Module({}), Git(NoDist, NoDist)>>, FALSE, NoDist, FALSE)]
WorkerSymmetry == Permutations(Worker)
Failing == {{<<"stable", "plain">>}, {"stable"} \X Kind}

\* Of a change, a crash and a failure, no more than two in one behaviour.
TwoDisturbances == changes + crashes + failures <= 2
===============================================================================
