----------------------------- MODULE OvalDocument ------------------------------
(***************************************************************************)
(* The OVAL document of a platform's errata in its two forms: from the     *)
(* data of the original advisories, reduced to the packages that were      *)
(* released (errata_records_to_oval), and from the data generated at their *)
(* release, with the fixes of sibling advisories (new_errata_records_...). *)
(*                                                                         *)
(* A tree of criteria is [op, criterion, criteria].  A criterion           *)
(* [ref, kind, pkg, evr] names a test, where kind is "earlier", "signed",  *)
(* "coreos" or "other"; an evr is [version, release, modular], version     *)
(* standing for epoch and version.  An id is <<brand, kind, number>>, kind *)
(* that of the part: "tst", "obj", "ste" or "var".  Titles, comments,      *)
(* references and the versions written in them are left out.               *)
(***************************************************************************)
EXTENDS Integers, FiniteSets, FiniteSetsExt, SequencesExt

Refs(criteria) == {c.ref : c \in criteria}
Ids(parts) == {x.id : x \in parts}

RECURSIVE AllCriteria(_)
AllCriteria(t) == t.criterion \cup UNION {AllCriteria(s) : s \in t.criteria}

EmptyDocument ==
    [definitions |-> {}, tests |-> {}, objects |-> {}, states |-> {}, variables |-> {}, links |-> {}]

-----------------------------------------------------------------------------
(* errata_records_to_oval *)

DebrandId(id) == [id EXCEPT ![1] = "almalinux"]

\* "released" holds [pkg, evr] of what was released of the record
Keeps(c, r, released) ==
    /\ c.kind # "coreos"
    /\ c.kind = "earlier" /\ ~r.freezed => [pkg |-> c.pkg, evr |-> c.evr] \in released
Kept(t, r, released) ==
    {[c EXCEPT !.ref = DebrandId(@)] : c \in {d \in t.criterion : Keeps(d, r, released)}}
SignatureAlone(cs) == Cardinality(cs) = 1 /\ \A c \in cs : c.kind = "signed"

\* Mutant: a signature that is left alone stays.
RECURSIVE FilteredAll(_, _, _)
FilteredAll(t, r, released) ==
    [op |-> t.op, criterion |-> Kept(t, r, released),
     criteria |-> {FilteredAll(s, r, released) : s \in t.criteria}]

\* Packages that were not released go, and a signature that is left alone
RECURSIVE Filtered(_, _, _)
Filtered(t, r, released) ==
    LET kept == Kept(t, r, released)
    IN [op |-> t.op, criterion |-> IF SignatureAlone(kept) THEN {} ELSE kept,
        criteria |-> {Filtered(s, r, released) : s \in t.criteria}]

\* CriteriaNode.simplify: a single criterion moves up to the parent, what is
\* empty then is removed
RECURSIVE Simplified(_)
Simplified(t) ==
    LET subs == {Simplified(s) : s \in t.criteria}
        single == {s \in subs : Cardinality(s.criterion) = 1 /\ s.criteria = {}}
    IN [op |-> t.op,
        criterion |-> t.criterion \cup UNION {s.criterion : s \in single},
        criteria |-> {s \in subs \ single : s.criterion # {} \/ s.criteria # {}}]

AddDefinition(doc, r, released) ==
    LET filtered == Filtered(r.criteria, r, released)
    IN [doc EXCEPT !.definitions = @ \cup {[id |-> r.id, criteria |-> Simplified(filtered)]},
                   !.links = @ \cup Refs(AllCriteria(filtered))]

\* Parts of the record that something links to and the document does not have
New(parts, present, links) ==
    {x \in {[y EXCEPT !.id = DebrandId(@)] : y \in parts} : x.id \in links \ Ids(present)}

AddTests(doc, r) ==
    LET new == {[t EXCEPT !.object = DebrandId(@), !.state = DebrandId(@)] :
                   t \in New(r.tests, doc.tests, doc.links)}
    IN [doc EXCEPT !.tests = @ \cup new,
                   !.links = @ \cup {t.object : t \in new} \cup {t.state : t \in new}]

AddObjects(doc, r) ==
    LET new == {[o EXCEPT !.variable = {DebrandId(v) : v \in @}] :
                   o \in New(r.objects, doc.objects, doc.links)}
    IN [doc EXCEPT !.objects = @ \cup new, !.links = @ \cup UNION {o.variable : o \in new}]

\* Signatures are those of the platform's key
AddStates(doc, r) ==
    LET new == New(r.states, doc.states, doc.links)
    IN [doc EXCEPT !.states = @ \cup {[s EXCEPT !.key = IF @ = "none" THEN @ ELSE "new"] : s \in new}]

\* The object a variable names keeps its brand, so that only one that never had
\* another is found
AddVariables(doc, r) ==
    LET new == New(r.variables, doc.variables, doc.links)
        found == {o \in {[x EXCEPT !.id = DebrandId(@)] : x \in r.objects} :
                     o.id \in {v.object : v \in new} \ Ids(doc.objects)}
    IN [doc EXCEPT !.variables = @ \cup new, !.objects = @ \cup found]

\* released[id]: what was released of the record
ErrataRecordsToOval(records, released) ==
    LET Add(r, doc) ==
          IF released[r.id] = {} /\ ~r.freezed THEN doc
          ELSE AddVariables(AddStates(AddObjects(AddTests(
                   AddDefinition(doc, r, released[r.id]), r), r), r), r)
    IN FoldSet(Add, EmptyDocument, records)

-----------------------------------------------------------------------------
(* add_multiple_gpg_keys_to_oval, for AlmaLinux 8 *)

GpgKeys == <<"old", "new">>
MaxId(parts) == Max({x.id[3] : x \in parts})

GpgKeysStates(doc) ==
    LET original == CHOOSE s \in doc.states : s.key # "none"
    IN [k \in DOMAIN GpgKeys |->
           [id |-> [original.id EXCEPT ![3] = MaxId(doc.states) + k], key |-> GpgKeys[k]]]

\* The new tests of every test of a signature, with numbers above all others
NewTests(doc) ==
    LET signed == SetToSeq({t \in doc.tests : t.kind = "signed"})
        states == GpgKeysStates(doc)
    IN [id \in Ids(ToSet(signed)) |->
           LET n == CHOOSE i \in DOMAIN signed : signed[i].id = id
           IN {[signed[n] EXCEPT !.id = [@ EXCEPT ![3] = MaxId(doc.tests) + (n - 1) * Len(GpgKeys) + k],
                                 !.state = states[k].id] : k \in DOMAIN GpgKeys}]

RECURSIVE ConvertSignCriterion(_, _)
ConvertSignCriterion(t, tests) ==
    LET signed == {c \in t.criterion : c.kind = "signed"}
        Either(c) == [op |-> "OR", criterion |-> {[c EXCEPT !.ref = x.id] : x \in tests[c.ref]},
                      criteria |-> {}]
    IN [op |-> t.op, criterion |-> t.criterion \ signed,
        criteria |-> {ConvertSignCriterion(s, tests) : s \in t.criteria} \cup {Either(c) : c \in signed}]

\* The assertion that there is a signature, and the largest of no numbers
FailsToAddKeys(doc) == \A s \in doc.states : s.key = "none"

AddMultipleGpgKeys(doc) ==
    LET tests == NewTests(doc)
    IN [doc EXCEPT
          !.definitions = {[d EXCEPT !.criteria = ConvertSignCriterion(@, tests)] : d \in @},
          !.tests = {t \in @ : t.kind # "signed"} \cup UNION {tests[id] : id \in DOMAIN tests},
          !.states = @ \cup Range(GpgKeysStates(doc))]

-----------------------------------------------------------------------------
(* new_errata_records_to_oval *)

CollectEvrCriteria(t) == {c \in AllCriteria(t) : c.kind = "earlier"}

\* Mutant: siblings are looked for beyond the records of the document.
SiblingsOfAll(r, records, all) == {s \in all : s.id # r.id /\ s.cves \cap r.cves # {}}

\* The other records of the document that fix one of the record's CVEs
Siblings(r, records, all) == {s \in records : s.id # r.id /\ s.cves \cap r.cves # {}}
SiblingEvr(r, records, all) == UNION {CollectEvrCriteria(s.criteria) : s \in Siblings(r, records, all)}

ShouldSkipCrossRef(pkg) == pkg \in {"perf", "bpftool", "kernel", "kernel-core"}

\* s is the fix of c's package rebuilt from the same version
IsPointRelease(c, s) ==
    /\ c.kind = "earlier" /\ s.pkg = c.pkg /\ ~ShouldSkipCrossRef(c.pkg)
    /\ s.evr.version = c.evr.version /\ s.evr.release # c.evr.release
    /\ ~c.evr.modular /\ ~s.evr.modular

RECURSIVE InjectSiblingEvr(_, _)
InjectSiblingEvr(t, siblings) ==
    LET added == {s \in siblings : /\ t.op = "AND" /\ s.ref \notin Refs(t.criterion)
                                   /\ \E c \in t.criterion : IsPointRelease(c, s)}
    IN [op |-> t.op, criterion |-> t.criterion \cup added,
        criteria |-> {InjectSiblingEvr(s, siblings) : s \in t.criteria}]

AddOvalObjects(present, parts) == present \cup {x \in parts : x.id \notin Ids(present)}

NewErrataRecordsToOval(records, all) ==
    LET Add(r, doc) ==
          [doc EXCEPT
             !.definitions = @ \cup {[id |-> r.id,
                 criteria |-> InjectSiblingEvr(r.criteria, SiblingEvr(r, records, all))]},
             !.tests = AddOvalObjects(@, r.tests), !.objects = AddOvalObjects(@, r.objects),
             !.states = AddOvalObjects(@, r.states), !.variables = AddOvalObjects(@, r.variables)]
    IN FoldSet(Add, EmptyDocument, records)
===============================================================================
