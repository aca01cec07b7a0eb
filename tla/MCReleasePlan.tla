---------------------------- MODULE MCReleasePlan -----------------------------
(***************************************************************************)
(* Two releases of two builds of the same packages, one for i686 that is   *)
(* also for x86_64 and one without architecture.                           *)
(***************************************************************************)
EXTENDS ReleasePlan

lib == [version |-> 1, arch |-> I686, task |-> I686]
doc == [version |-> 1, arch |-> "noarch", task |-> "aarch64"]
Packages == {lib, doc}
Releases == [r \in {1, 2} |-> r]
PlatformRepos == {<<"baseos", a>> : a \in {"x86_64", "aarch64", I686}} \cup {<<"devel", I686>>}
ProductRepos == {repo \in PlatformRepos : repo[1] = "baseos"}
WeakArches == [a \in {I686, "aarch64", "x86_64", "noarch"} |-> IF a = "aarch64" THEN {I686} ELSE {}]

Line(platform, priority, version, arch, beta, repos) ==
    [platform |-> platform, priority |-> priority, version |-> version, arch |-> arch,
     beta |-> beta, devel |-> FALSE, repos |-> {<<r[1], r[2]>> : r \in repos}]
Lines ==
    {Line(f[1], f[2], 1, I686, FALSE, {<<"baseos", "x86_64">>, <<"baseos", I686>>}) :
        f \in {<<1, 1>>, <<2, 2>>, <<2, 1>>}}
    \cup {Line(f[1], f[2], 1, "aarch64", FALSE, {<<"baseos", "aarch64">>}) :
        f \in {<<1, 1>>, <<2, 2>>}}
    \cup {Line(2, 1, 1, I686, TRUE, {<<"extras", I686>>}),
          Line(2, 1, 1, I686, FALSE, {}), Line(2, 2, 2, I686, FALSE, {<<"baseos", I686>>}),
          Line(2, 1, 1, "noarch", FALSE, {<<"baseos", "x86_64">>, <<"baseos", "aarch64">>})}
Answered == {s \in UNION {[1..n -> Lines] : n \in 0..2} : InOrder(s)}
\* Production has an older copy of one of them, or nothing
Older == {[repo \in PlatformRepos |-> IF repo \in old[1] THEN {old[2]} ELSE {}] : old \in
    {<<{}, Copy(0, lib)>>, <<{<<"baseos", I686>>}, Copy(0, lib)>>,
     <<{<<"baseos", "x86_64">>}, Copy(0, doc)>>}}
===============================================================================
