---------------------------- MODULE MCBuildFinish ----------------------------
(* Instances of BuildFinish for TLC.                                        *)
EXTENDS BuildFinish, TLC

\* One project on one platform for two arches: 1 is the source task.
One == 1..3
OneIndex == [t \in One |-> 0]
OnePlatform == [t \in One |-> "el9"]
OneArch == <<"src", "x86_64", "aarch64">>
OneRef == [t \in One |-> "a"]

\* Two projects: the first for two platforms, with a binary task on one of them,
\* the second on that platform, where the projects do not wait for each other.
Two == 1..4
TwoIndex == <<0, 1, 0, 0>>
TwoPlatform == <<"el8", "el8", "el8", "el9">>
TwoArch == <<"src", "src", "x86_64", "src">>
TwoRef == <<"a", "b", "a", "a">>

\* A build that fails may have made the source RPM before
Built == {[report |-> "COMPLETED", srpm |-> TRUE], [report |-> "FAILED", srpm |-> FALSE],
          [report |-> "FAILED", srpm |-> TRUE]}

Alike == Permutations(Worker) \cup Permutations(User)

\* Two disturbances per behaviour, none before a build that fails with a source
\* RPM is reported, and no state after which the properties promise nothing any
\* more: their exceptions never end.
StillPromised ==
    /\ restarts + crashes + repeats <= 2
    /\ (\E w \in Worker : result[w].report = "FAILED" /\ result[w].srpm) =>
          restarts + crashes + repeats = 0
    /\ ~together \/ ~(overlapped \/ repeats > 0 \/ overtaken)
=============================================================================
