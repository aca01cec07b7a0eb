---------------------------- MODULE MCBuildTasks ----------------------------
(* Instances of BuildTasks for TLC.  Ids follow the planner: platform by   *)
(* platform, arch by arch with "src" first, then the projects.             *)
EXTENDS BuildTasks

\* Two projects on one platform for two arches: 1 and 2 are the sources.
Two == 1..4
TwoIndex == <<0, 1, 0, 1>>
TwoPlatform == [t \in Two |-> "el9"]
TwoArch == <<"src", "src", "x86_64", "x86_64">>
TwoRef == <<"a", "b", "a", "b">>
TwoRequests == {{1, 2}, {3, 4}}

\* Results that always carry the source RPM or fail, and those that leave
\* it out too.
Plain == {[report |-> "COMPLETED", srpm |-> TRUE], [report |-> "FAILED", srpm |-> FALSE]}
Mixed == Plain \cup {[report |-> "EXCLUDED", srpm |-> TRUE]}

\* One disturbance per behaviour: a cancel request or a fault.
OneDisturbance == cancels + faults <= 1
=============================================================================
