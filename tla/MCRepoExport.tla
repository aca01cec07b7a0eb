----------------------------- MODULE MCRepoExport ------------------------------
(***************************************************************************)
(* A repository with one module, another that a release brings or that is  *)
(* uploaded, a third that is new to Pulp, and the updateinfo of two        *)
(* repositories that may share a record.                                   *)
(***************************************************************************)
EXTENDS RepoExport

Contents == [m1 |-> {"a", "b"}, m2 |-> {"c"}, m3 |-> {}]
First == [pkgs |-> {"a", "b", "d"}, mods |-> {"m1"}]
Second == {[pkgs |-> {"c"}, mods |-> {"m2"}], [pkgs |-> {"d"}, mods |-> {}]}
Excludes == [x \in {1, 2} |-> IF x = 2 THEN {"d"} ELSE {}]

Record(id, issued, updated, collections) ==
    [id |-> id, issued |-> issued, updated |-> updated, collections |-> collections, refs |-> {issued}]
Infos == [baseos : {<<Record("alsa", 2, 3, <<{"a"}, {"b"}>>)>>},
          appstream : {<<Record("alsa", 2, 2, <<{"b"}>>), Record("alsa", 1, 4, <<{"c"}>>)>>,
                       <<Record("alba", 3, 3, <<{"c"}>>)>>}]

\* What disturbs an export: at most three of it in a behaviour with one
\* export, two when a second follows or overlaps
FewDisturbances ==
    count.exports + count.releases + count.uploads + count.web + count.faults <= 4
===============================================================================
