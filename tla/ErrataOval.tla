------------------------------ MODULE ErrataOval ------------------------------
(***************************************************************************)
(* What the OVAL endpoints answer while the records of Errata are reviewed *)
(* and released: the document is computed from the rows at that moment.    *)
(* It depends on which records and which packages are released only, so    *)
(* each is judged once, in the two sets of verdicts.                       *)
(***************************************************************************)
EXTENDS Errata, OvalDocument

CONSTANTS
    Original,  \* record -> OVAL data of the advisory it was made from
    Generated, \* record -> OVAL data generated at its release
    Named      \* package -> [pkg, evr] under which the original data has it

ReleasedRecords == {r \in Record : status[r] = "RELEASED"}
CreatedRecords == {r \in Record : status[r] # "none"}
ReleasedPackages == {p \in Package : \E b \in Build : match[p][b] = "released"}

ReleasedOf(ps) == [r \in Record |-> {Named[p] : p \in ps \cap PackagesOf(r)}]

\* get_oval_xml and get_new_oval_xml
OvalXml(rs, ps) == ErrataRecordsToOval({Original[r] : r \in rs}, ReleasedOf(ps))
NewOvalXml(rs) == NewErrataRecordsToOval({Generated[r] : r \in rs}, {Generated[r] : r \in Record})

-----------------------------------------------------------------------------
(* Properties *)

Unique(parts) == Cardinality(Ids(parts)) = Cardinality(parts)
Closed(doc) ==
    /\ \A d \in doc.definitions : Refs(AllCriteria(d.criteria)) \subseteq Ids(doc.tests)
    /\ \A t \in doc.tests : t.object \in Ids(doc.objects) /\ t.state \in Ids(doc.states)
    /\ \A o \in doc.objects : o.variable \subseteq Ids(doc.variables)
    /\ \A v \in doc.variables : v.object[1] = "almalinux" => v.object \in Ids(doc.objects)
    /\ \A parts \in {doc.definitions, doc.tests, doc.objects, doc.states, doc.variables} : Unique(parts)

\* Whether the tree holds where the criteria in "passed" do
RECURSIVE Meaning(_, _)
Meaning(t, passed) ==
    IF t.op = "AND"
    THEN t.criterion \subseteq passed /\ \A s \in t.criteria : Meaning(s, passed)
    ELSE t.criterion \cap passed # {} \/ \E s \in t.criteria : Meaning(s, passed)

CriteriaOf(doc, id) == (CHOOSE d \in doc.definitions : d.id = id).criteria
Passed(t, system) == {c \in AllCriteria(t) : c.ref \in system}
Holds(doc, id, system) == Meaning(CriteriaOf(doc, id), Passed(CriteriaOf(doc, id), system))

\* A system is the set of tests it passes
Systems(doc) == SUBSET Ids(doc.tests)

\* Unreleased packages count as not affected
KeepsOriginal(doc, ps) ==
    \A id \in Ids(doc.definitions) :
        LET r == Original[id]
            kept == {c \in AllCriteria(r.criteria) : Keeps(c, r, ReleasedOf(ps)[id])}
        IN (\E c \in kept : c.kind = "earlier") =>
           \A system \in Systems(doc) :
              Holds(doc, id, system) <=> Meaning(r.criteria, {c \in kept : DebrandId(c.ref) \in system})

\* A signature may be made with either key
KeepsSignatures(doc) ==
    LET tests == NewTests(doc)
        keyed == AddMultipleGpgKeys(doc)
    IN \A id \in Ids(doc.definitions), system \in Systems(keyed) :
           Holds(keyed, id, system) <=>
               Meaning(CriteriaOf(doc, id),
                   {c \in AllCriteria(CriteriaOf(doc, id)) :
                       IF c.kind = "signed" THEN Ids(tests[c.ref]) \cap system # {} ELSE c.ref \in system})

\* A package is affected while it is earlier than every rebuild of its fix
NeedsEveryFix(doc, rs) ==
    \A id \in Ids(doc.definitions) :
        LET t == Generated[id].criteria
            siblings == {s \in rs \ {id} : Generated[s].cves \cap Generated[id].cves # {}}
            fixes == UNION {CollectEvrCriteria(Generated[s].criteria) : s \in siblings}
        IN \A system \in Systems(doc) :
              Holds(doc, id, system) <=>
                  Meaning(t, {c \in Passed(t, system) :
                                 \A f \in fixes : IsPointRelease(c, f) => f.ref \in system})

ClosedVerdicts ==
    {<<rs, ps,
       LET doc == OvalXml(rs, ps)
       IN /\ Closed(doc) /\ Closed(NewOvalXml(rs))
          /\ FailsToAddKeys(doc) \/ Closed(AddMultipleGpgKeys(doc))>> :
     rs \in SUBSET Record, ps \in SUBSET Package}

MeaningVerdicts ==
    {<<rs, ps,
       LET doc == OvalXml(rs, ps)
       IN /\ KeepsOriginal(doc, ps) /\ NeedsEveryFix(NewOvalXml(rs), rs)
          /\ FailsToAddKeys(doc) \/ KeepsSignatures(doc)>> :
     rs \in SUBSET Record, ps \in SUBSET Package}

\* Everything a published document refers to is in it, once, whatever was
\* released of its records: tests named by definitions, objects and states by
\* tests, also those of sibling records and of both keys.  Excepted is the object
\* of a variable, which errata_records_to_oval looks for under its old id.
OvalIsClosed ==
    \A rs \in {CreatedRecords, ReleasedRecords} : <<rs, ReleasedPackages, TRUE>> \in ClosedVerdicts

\* Dropping unreleased packages, lifting and removing criteria, doubling the
\* signatures and adding the fixes of siblings leave a definition true on the
\* systems it is meant for, unless nothing it names was released.
OvalKeepsMeaning ==
    \A rs \in {CreatedRecords, ReleasedRecords} : <<rs, ReleasedPackages, TRUE>> \in MeaningVerdicts
===============================================================================
