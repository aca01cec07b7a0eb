------------------------------- MODULE MCErrata -------------------------------
(***************************************************************************)
(* A record with a package for two arches and two candidate builds, whose  *)
(* artifact is noarch in one of them, and with a package of a third arch   *)
(* that lives in the repository of the first and has one candidate build;  *)
(* and a record issued by AlmaLinux that shares a build with the first     *)
(* and, in another point release, fixes the same flaw of the same package. *)
(***************************************************************************)
EXTENDS ErrataOval

CONSTANTS r1, r2, p1, p2, q, b1, b2, x86, arm

Records == {r1, r2}
Packages == {p1, p2, q}
Owner == [p \in Packages |-> IF p = q THEN r2 ELSE r1]
Built == [p \in Packages |-> IF p = p1 THEN {b1, b2} ELSE {b1}]
Adopted == [p \in Packages |-> IF p = p1 THEN {b2} ELSE {b1}]
Homes == [p \in Packages |-> IF p = p1 THEN {x86, arm} ELSE {x86}]
Strange == [p \in Packages |-> IF p = p2 THEN {x86} ELSE {}]

Evr(v, rel) == [version |-> v, release |-> rel, modular |-> FALSE]
Names == [p \in Packages |-> [pkg |-> IF p = p2 THEN "tools" ELSE "lib", evr |-> Evr(1, IF p = q THEN 2 ELSE 1)]]

Tree(op, criterion, criteria) == [op |-> op, criterion |-> criterion, criteria |-> criteria]
\* The ids of tests, and those of the other kinds
Rh(n) == <<"redhat", "tst", n>>
Al(n) == <<"almalinux", "tst", n>>
Obj(id) == [id EXCEPT ![2] = "obj"]
Ste(id) == [id EXCEPT ![2] = "ste"]
Var(id) == [id EXCEPT ![2] = "var"]
Other(ref, kind) == [ref |-> ref, kind |-> kind, pkg |-> "os", evr |-> Evr(0, 0)]
Earlier(ref, p) == [ref |-> ref, kind |-> "earlier", pkg |-> Names[p].pkg, evr |-> Names[p].evr]
Signed(ref, p) == [Earlier(ref, p) EXCEPT !.kind = "signed"]
Test(id, kind, object, state) == [id |-> id, kind |-> kind, object |-> Obj(object), state |-> Ste(state)]

\* Tests: 1 the release, 2 CoreOS, 3 and 5 the versions, 4 and 6 the signatures
First ==
    [id |-> r1, freezed |-> FALSE, cves |-> {"cve"},
     criteria |-> Tree("AND", {}, {
         Tree("OR", {Other(Rh(1), "other"), Other(Rh(2), "coreos")}, {}),
         Tree("OR", {}, {Tree("AND", {Earlier(Rh(3), p1), Signed(Rh(4), p1)}, {}),
                         Tree("AND", {Earlier(Rh(5), p2), Signed(Rh(6), p2)}, {})})}),
     tests |-> {Test(Rh(1), "other", Rh(1), Rh(1)), Test(Rh(2), "coreos", Rh(1), Rh(2)),
                Test(Rh(3), "earlier", Rh(3), Rh(3)), Test(Rh(4), "signed", Rh(3), Rh(4)),
                Test(Rh(5), "earlier", Rh(5), Rh(3)), Test(Rh(6), "signed", Rh(5), Rh(4))},
     objects |-> {[id |-> Obj(Rh(n)), variable |-> IF n = 5 THEN {Var(Rh(1))} ELSE {}] : n \in {1, 3, 5}},
     states |-> {[id |-> Ste(Rh(n)), key |-> IF n = 4 THEN "vendor" ELSE "none"] : n \in 1..4},
     variables |-> {[id |-> Var(Rh(1)), object |-> Obj(Rh(3))]}]

\* A frozen record that shares the release, the object and the signature
Second ==
    [id |-> r2, freezed |-> TRUE, cves |-> {"cve"},
     criteria |-> Tree("AND", {Other(Al(1), "other")}, {
         Tree("OR", {}, {Tree("AND", {Earlier(Al(7), q), Signed(Al(4), q)}, {})})}),
     tests |-> {Test(Al(1), "other", Al(1), Al(1)), Test(Al(4), "signed", Al(3), Al(4)),
                Test(Al(7), "earlier", Al(3), Al(7))},
     objects |-> {[id |-> Obj(Al(n)), variable |-> IF n = 3 THEN {Var(Al(2))} ELSE {}] : n \in {1, 3}},
     states |-> {[id |-> Ste(Al(n)), key |-> IF n = 4 THEN "vendor" ELSE "none"] : n \in {1, 4, 7}},
     variables |-> {[id |-> Var(Al(2)), object |-> Obj(Al(1))]}]

\* Generated for both arches of the first record, without other criteria
FirstGenerated ==
    [id |-> r1, freezed |-> FALSE, cves |-> {"cve"},
     criteria |-> Tree("AND", {Other(Al(1), "other")}, {
         Tree("OR", {}, {Tree("AND", {Earlier(Al(3), p1), Signed(Al(4), p1)}, {}),
                         Tree("AND", {Earlier(Al(5), p2), Signed(Al(6), p2)}, {})})}),
     tests |-> {Test(Al(1), "other", Al(1), Al(1)), Test(Al(3), "earlier", Al(3), Al(3)),
                Test(Al(4), "signed", Al(3), Al(4)), Test(Al(5), "earlier", Al(5), Al(3)),
                Test(Al(6), "signed", Al(5), Al(4))},
     objects |-> {[id |-> Obj(Al(n)), variable |-> {}] : n \in {1, 3, 5}},
     states |-> {[id |-> Ste(Al(n)), key |-> IF n = 4 THEN "new" ELSE "none"] : n \in {1, 3, 4}},
     variables |-> {}]

Originals == [r \in Records |-> IF r = r1 THEN First ELSE Second]
Generations == [r \in Records |-> IF r = r1 THEN FirstGenerated ELSE Second]
===============================================================================
