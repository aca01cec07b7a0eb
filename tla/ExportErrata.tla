----------------------------- MODULE ExportErrata ------------------------------
(***************************************************************************)
(* The errata that an export collects from the updateinfo of the exported  *)
(* repositories, one thread for each of them, merged in the order in which *)
(* these end.  A record is [id, issued, updated, collections, refs].       *)
(***************************************************************************)
EXTENDS Integers, Sequences, FiniteSets, SequencesExt

(***************************************************************************)
(* errata.json: of several collections only the last is kept.              *)
(***************************************************************************)
ExtractErrata(u) ==
    [issued |-> u.issued, updated |-> u.updated, pkgs |-> Last(u.collections), refs |-> u.refs]
\* errata.full.json
ExtractErrataModern(u) == [ExtractErrata(u) EXCEPT !.pkgs = UNION Range(u.collections)]

Merged(r, s) == [r EXCEPT !.pkgs = @ \cup s.pkgs, !.refs = @ \cup s.refs]
\* The dates span those of all records
MergedDates(r, s) ==
    [Merged(r, s) EXCEPT !.issued = IF s.issued < @ THEN s.issued ELSE @,
                         !.updated = IF s.updated > @ THEN s.updated ELSE @]
\* The dates are those of the first record
MergedFirst(r, s) == Merged(r, s)

Insert(cache, id, r) == [i \in DOMAIN cache \cup {id} |-> IF i = id THEN r ELSE cache[i]]
NoRecords == [i \in {} |-> {}]
\* Mutant: dates as in errata.full.json.
MergeFirstDates(cache, records) ==
    FoldLeft(LAMBDA c, u : Insert(c, u.id, IF u.id \in DOMAIN c THEN MergedFirst(c[u.id], ExtractErrata(u))
                                        ELSE ExtractErrata(u)), cache, records)
MergeErrataRecords(cache, records) ==
    FoldLeft(LAMBDA c, u : Insert(c, u.id, IF u.id \in DOMAIN c THEN MergedDates(c[u.id], ExtractErrata(u))
                                        ELSE ExtractErrata(u)), cache, records)
MergeErrataRecordsModern(cache, records) ==
    FoldLeft(LAMBDA c, u : Insert(c, u.id, IF u.id \in DOMAIN c THEN MergedFirst(c[u.id], ExtractErrataModern(u))
                                        ELSE ExtractErrataModern(u)), cache, records)

\* extract_errata_from_exported_paths: paths in the order their threads end
ExtractFromPaths(infos, order) ==
    [cache |-> FoldLeft(LAMBDA c, path : MergeErrataRecords(c, infos[path]), NoRecords, order),
     modern |-> FoldLeft(LAMBDA c, path : MergeErrataRecordsModern(c, infos[path]), NoRecords, order)]

\* What the cache should be, whatever the order
AllRecords(infos, id) == UNION {{u \in Range(infos[path]) : u.id = id} : path \in DOMAIN infos}
Expected(infos, id) ==
    LET all == {ExtractErrata(u) : u \in AllRecords(infos, id)}
    IN [issued |-> CHOOSE d \in {r.issued : r \in all} : \A r \in all : d <= r.issued,
        updated |-> CHOOSE d \in {r.updated : r \in all} : \A r \in all : d >= r.updated,
        pkgs |-> UNION {r.pkgs : r \in all}, refs |-> UNION {r.refs : r \in all}]
===============================================================================
