------------------------------ MODULE RepoExport -------------------------------
(***************************************************************************)
(* One repository on its way from Pulp to the file system.  Releases and   *)
(* reverts modify it and publish; MetadataUploader replaces its modules;   *)
(* the exporter scripts copy its packages to a directory, download the     *)
(* published repodata, let createrepo_c write them anew and sign           *)
(* repomd.xml; POST /repositories/exports/ copies and downloads only.      *)
(* None of them knows of the others, and they share the directory and the  *)
(* file system exporter that Pulp keeps under the repository's name.       *)
(*                                                                         *)
(* Pulp is external: a modification that changes nothing makes no version, *)
(* a module that is removed takes its packages along, one that is added    *)
(* brings them, and an export never deletes a file.                        *)
(***************************************************************************)
EXTENDS ExportErrata

CONSTANTS
    Exporter,    \* the exporter scripts
    ProductExporter, \* those for products, which may remove packages and have no errata
    Excluded,    \* exporter -> packages it removes from the directory
    Rpm, Module, ModularPackages,
    Initial,     \* the repository at first, published
    Releases,    \* what releases add
    Uploads,     \* the sets of modules that are uploaded
    KnownModules,    \* modules that exist in Pulp at first
    UpdateInfos,     \* path -> its records, as an export may find them
    Nothing,
    MaxExports, MaxReleases, MaxUploads, MaxWebExports, MaxExportFaults

ASSUME ExportAssumption ==
    /\ ModularPackages \in [Module -> SUBSET Rpm] /\ Excluded \in [Exporter -> SUBSET Rpm]
    /\ Releases \cup {Initial} \subseteq [pkgs : SUBSET Rpm, mods : SUBSET Module]
    /\ Uploads \subseteq SUBSET Module
    /\ \A infos \in UpdateInfos :
          /\ IsFiniteSet(DOMAIN infos)
          /\ \A path \in DOMAIN infos :
                /\ Len(infos[path]) \in Nat /\ DOMAIN infos[path] = 1..Len(infos[path])
                /\ \A u \in Range(infos[path]) : u.issued \in Int /\ u.updated \in Int
    /\ Nothing \notin [pkgs : SUBSET Rpm, mods : SUBSET Module, by : {"pulp", "createrepo"}]

VARIABLES
    latest,      \* content of the repository's latest version: [pkgs, mods]
    removed,     \* packages that this version has removed
    published,   \* content of the latest publication
    pulpModules,     \* modules that exist in Pulp
    fse,         \* number of the file system exporter, 0 when there is none
    releases,    \* releases that are in the repository
    releaser,    \* the release or revert that has yet to publish
    upload,      \* the running upload: [step, mods, before, drop, back, alone, made]
    disk,        \* the directory: [pkgs, md, asc, alone, web, source, torn]
    exporter,    \* exporter -> [step, gen, version, bytes, alone, errata]
    web,         \* step of the running web export
    count        \* how often each bounded thing has happened

exportVars == <<latest, removed, published, pulpModules, fse, releases, releaser, upload, disk, exporter, web, count>>

NoUpload == [step |-> "idle", mods |-> {}, before |-> {}, drop |-> {}, back |-> {}, alone |-> TRUE, made |-> FALSE]
NoExport == [step |-> "idle", gen |-> 0, version |-> Initial, bytes |-> Nothing, alone |-> TRUE, errata |-> Nothing]

ExportInit ==
    /\ latest = Initial /\ published = Initial /\ removed = {}
    /\ pulpModules = KnownModules
    /\ fse = 0
    /\ releases = {} /\ releaser = "idle"
    /\ upload = NoUpload
    /\ disk = [pkgs |-> {}, md |-> Nothing, asc |-> Nothing, alone |-> TRUE, web |-> FALSE,
             source |-> Initial, torn |-> FALSE]
    /\ exporter = [x \in Exporter |-> NoExport]
    /\ web = "idle"
    /\ count = [exports |-> 0, releases |-> 0, uploads |-> 0, web |-> 0, faults |-> 0, gens |-> 0]

Running == {x \in Exporter : exporter[x].step # "idle"}
Bump(field) == count' = [count EXCEPT ![field] = @ + 1]
Fault == count.faults < MaxExportFaults /\ Bump("faults")

(***************************************************************************)
(* Pulp.                                                                   *)
(***************************************************************************)
PackagesIn(mods) == UNION {ModularPackages[m] : m \in mods}
Modified(c, add, remove) ==
    LET mods == (c.mods \ remove.mods) \cup add.mods
        left == PackagesIn(c.mods \ mods) \ PackagesIn(mods)
    IN [mods |-> mods,
        pkgs |-> ((c.pkgs \ remove.pkgs) \ left) \cup add.pkgs \cup PackagesIn(mods \ c.mods)]

\* What is exported changes while an exporter runs
Moved == disk' = [disk EXCEPT !.torn = @ \/ Running # {}]

ModifyRepository(add, remove) ==
    LET next == Modified(latest, add, remove)
    IN /\ latest' = next
       /\ removed' = IF next = latest THEN removed ELSE latest.pkgs \ next.pkgs
       /\ Moved
CreateRpmPublication == published' = latest /\ Moved

NoContent == [pkgs |-> {}, mods |-> {}]
OnlyModules(mods) == [pkgs |-> {}, mods |-> mods]
OnlyPackages(pkgs) == [pkgs |-> pkgs, mods |-> {}]

(***************************************************************************)
(* Releases and reverts: modified, then published.  A revert leaves the    *)
(* modules of the release.                                                 *)
(***************************************************************************)
Disturb == upload' = [upload EXCEPT !.alone = @ /\ upload.step = "idle"]

Release(c) ==
    /\ releaser = "idle" /\ c \notin releases /\ count.releases < MaxReleases
    /\ ModifyRepository(c, NoContent)
    /\ releases' = releases \cup {c}
    /\ releaser' = "publish"
    /\ Disturb
    /\ Bump("releases")
    /\ UNCHANGED <<published, pulpModules, fse, exporter, web>>

Revert(c) ==
    /\ releaser = "idle" /\ c \in releases /\ count.releases < MaxReleases
    /\ ModifyRepository(NoContent, OnlyPackages(c.pkgs))
    /\ releases' = releases \ {c}
    /\ releaser' = "publish"
    /\ Disturb
    /\ Bump("releases")
    /\ UNCHANGED <<published, pulpModules, fse, exporter, web>>

PublishRelease ==
    /\ releaser = "publish"
    /\ CreateRpmPublication
    /\ releaser' = "idle"
    /\ UNCHANGED <<latest, removed, pulpModules, fse, releases, upload, exporter, web, count>>

(***************************************************************************)
(* The upload of a modules.yaml, and of a comps.xml.                       *)
(***************************************************************************)
UploadAt(step) == upload.step = step
UploadTo(step) == upload' = [upload EXCEPT !.step = step]
PulpStays == UNCHANGED <<latest, removed, published, disk>>
OthersStay == UNCHANGED <<fse, releases, releaser, exporter, web>>

\* upload_rpm_modules: modules are created or updated in place.  When one is
\* created, the upload ends here, for a repository that is not a build's
UploadRpmModules(mods) ==
    /\ UploadAt("idle") /\ count.uploads < MaxUploads
    /\ pulpModules' = pulpModules \cup mods
    /\ upload' = IF mods \subseteq pulpModules
                 THEN [NoUpload EXCEPT !.step = "read", !.mods = mods, !.before = latest.pkgs]
                 ELSE NoUpload
    /\ Bump("uploads")
    /\ PulpStays /\ OthersStay

GetRepoModules ==
    /\ UploadAt("read")
    /\ upload' = [upload EXCEPT !.step = "modify", !.drop = latest.mods]
    /\ PulpStays /\ OthersStay /\ UNCHANGED <<pulpModules, count>>

ReplaceModules ==
    /\ UploadAt("modify")
    /\ ModifyRepository(OnlyModules(upload.mods), OnlyModules(upload.drop))
    /\ upload' = [upload EXCEPT !.step = "removed", !.made = latest' # latest]
    /\ OthersStay /\ UNCHANGED <<published, pulpModules, count>>

\* What the latest version has removed, which need not be this upload's
GetRemovedRpmPackages ==
    /\ UploadAt("removed")
    /\ upload' = [upload EXCEPT !.step = IF removed = {} THEN "publish" ELSE "readd", !.back = removed]
    /\ PulpStays /\ OthersStay /\ UNCHANGED <<pulpModules, count>>

\* Mutant: packages that went with their module stay away.
SkipRemoved ==
    /\ UploadAt("readd")
    /\ UploadTo("publish")
    /\ PulpStays /\ OthersStay /\ UNCHANGED <<pulpModules, count>>

AddRemoved ==
    /\ UploadAt("readd")
    /\ ModifyRepository(OnlyPackages(upload.back), NoContent)
    /\ UploadTo("publish")
    /\ OthersStay /\ UNCHANGED <<published, pulpModules, count>>

PublishUpload ==
    /\ UploadAt("publish")
    /\ CreateRpmPublication
    /\ UploadTo("done")
    /\ OthersStay /\ UNCHANGED <<latest, removed, pulpModules, count>>

\* The new comps.xml replaces the old one, in a version of its own unless
\* they are equal, and whatever the repository holds is published
UploadComps ==
    /\ UploadAt("idle") /\ count.uploads < MaxUploads
    /\ removed' \in {removed, {}}
    /\ CreateRpmPublication
    /\ Bump("uploads")
    /\ OthersStay /\ UNCHANGED <<latest, pulpModules, upload>>

\* POST /uploads/upload_repometada/ answers
EndUpload ==
    /\ UploadAt("done")
    /\ upload' = NoUpload
    /\ PulpStays /\ OthersStay /\ UNCHANGED <<pulpModules, count>>

\* A request to Pulp fails: UploadError, and nothing is taken back
UploadFails ==
    /\ upload.step \notin {"idle", "done"} /\ Fault
    /\ upload' = NoUpload
    /\ PulpStays /\ OthersStay /\ UNCHANGED pulpModules

(***************************************************************************)
(* The exporter scripts.                                                   *)
(***************************************************************************)
At(x, step) == exporter[x].step = step
Move(x, to) == exporter' = [exporter EXCEPT ![x] = to]
To(x, step) == Move(x, [exporter[x] EXCEPT !.step = step])
\* The script ends, and may be run again
End(x) == Move(x, NoExport)
SourcesStay == UNCHANGED <<latest, removed, published, pulpModules, releases, releaser, upload>>
Alone == Running = {} /\ web = "idle"

\* create_filesystem_exporter finds the repository's exporter or creates it
FileSystemExporter == IF fse = 0 THEN count.gens + 1 ELSE fse
CreateFse(counted) ==
    /\ fse' = FileSystemExporter
    /\ count' = [counted EXCEPT !.gens = IF fse = 0 THEN @ + 1 ELSE @]
NoneIsAlone == [x \in Exporter |-> [exporter[x] EXCEPT !.alone = @ /\ At(x, "idle")]]

\* create_filesystem_exporters, and the repository's latest version
CreateFilesystemExporter(x) ==
    /\ At(x, "idle") /\ count.exports < MaxExports
    /\ CreateFse([count EXCEPT !.exports = @ + 1])
    /\ exporter' = [NoneIsAlone EXCEPT ![x] = [NoExport EXCEPT !.step = "export", !.gen = fse',
                                                              !.version = latest, !.alone = Alone]]
    /\ disk' = IF Running = {} THEN [disk EXCEPT !.source = published, !.torn = latest # published] ELSE disk
    /\ SourcesStay /\ UNCHANGED web

\* A failed export leaves the repository out, with no more than a log line
ExportToFilesystem(x) ==
    /\ At(x, "export")
    /\ IF exporter[x].gen = fse
       THEN /\ disk' = [disk EXCEPT !.pkgs = @ \cup exporter[x].version.pkgs]
            /\ To(x, "clean")
       ELSE /\ disk' = [disk EXCEPT !.torn = TRUE]
            /\ End(x)
    /\ SourcesStay /\ UNCHANGED <<fse, web, count>>

\* Mutant: the old repodata stay until they are overwritten.
KeepRepodata(x) ==
    /\ At(x, "clean")
    /\ To(x, "download")
    /\ SourcesStay /\ UNCHANGED <<disk, fse, web, count>>

CleanRepodata(x) ==
    /\ At(x, "clean")
    /\ disk' = [disk EXCEPT !.md = Nothing, !.asc = Nothing, !.web = FALSE]
    /\ To(x, "download")
    /\ SourcesStay /\ UNCHANGED <<fse, web, count>>

Repodata(c, by) == [pkgs |-> c.pkgs, mods |-> c.mods, by |-> by]
Downloaded(x) == To(x, IF x \in ProductExporter THEN "remove" ELSE "regenerate")
DownloadRepodata(x) ==
    /\ At(x, "download")
    /\ disk' = [disk EXCEPT !.md = Repodata(published, "pulp")]
    /\ Downloaded(x)
    /\ SourcesStay /\ UNCHANGED <<fse, web, count>>
DownloadFails(x) ==
    /\ At(x, "download") /\ Fault
    /\ Downloaded(x)
    /\ SourcesStay /\ UNCHANGED <<disk, fse, web>>

RemovePackagesFromRepo(x) ==
    /\ At(x, "remove")
    /\ disk' = [disk EXCEPT !.pkgs = @ \ Excluded[x]]
    /\ To(x, "regenerate")
    /\ SourcesStay /\ UNCHANGED <<fse, web, count>>

PostProcessed(x) == To(x, IF x \in ProductExporter THEN "token" ELSE "errata")
\* Mutant: createrepo_c keeps nothing of the repodata that are there.
RegenerateAnew(x) ==
    /\ At(x, "regenerate")
    /\ disk' = [disk EXCEPT !.md = Repodata(OnlyPackages(disk.pkgs), "createrepo")]
    /\ PostProcessed(x)
    /\ SourcesStay /\ UNCHANGED <<fse, web, count>>

\* createrepo_c --update --keep-all-metadata: the packages of the directory,
\* and the modules of the repodata that are there
RegenerateRepoMetadata(x) ==
    /\ At(x, "regenerate")
    /\ disk' = [disk EXCEPT !.md = Repodata(
          [pkgs |-> disk.pkgs, mods |-> IF disk.md = Nothing THEN {} ELSE disk.md.mods], "createrepo")]
    /\ PostProcessed(x)
    /\ SourcesStay /\ UNCHANGED <<fse, web, count>>
PostProcessingFails(x) ==
    /\ At(x, "regenerate") /\ Fault
    /\ PostProcessed(x)
    /\ SourcesStay /\ UNCHANGED <<disk, fse, web>>

\* The errata of all exported paths, whose threads end in any order
ExtractErrataFromPaths(x, infos, order) ==
    /\ At(x, "errata") /\ disk.md # Nothing
    /\ Move(x, [exporter[x] EXCEPT !.step = "token",
          !.errata = [infos |-> infos, found |-> ExtractFromPaths(infos, order)]])
    /\ SourcesStay /\ UNCHANGED <<disk, fse, web, count>>
\* find_metadata reads repomd.xml, which is missing
ErrataFails(x) ==
    /\ At(x, "errata") /\ disk.md = Nothing
    /\ End(x)
    /\ SourcesStay /\ UNCHANGED <<disk, fse, web, count>>

\* repomd_signer: what is read is signed elsewhere, and written when that is done
ReadRepomd(x) ==
    /\ At(x, "token")
    /\ IF disk.md = Nothing THEN End(x)
       ELSE Move(x, [exporter[x] EXCEPT !.errata = Nothing, !.bytes = disk.md, !.step = "sign"])
    /\ SourcesStay /\ UNCHANGED <<disk, fse, web, count>>
WriteSignature(x) ==
    /\ At(x, "sign")
    /\ disk' = [disk EXCEPT !.asc = exporter[x].bytes, !.alone = exporter[x].alone]
    /\ End(x)
    /\ SourcesStay /\ UNCHANGED <<fse, web, count>>
\* Five attempts in vain leave repomd.xml unsigned
SigningFails(x) ==
    /\ At(x, "sign") /\ Fault
    /\ End(x)
    /\ SourcesStay /\ UNCHANGED <<disk, fse, web>>

(***************************************************************************)
(* POST /repositories/exports/.                                            *)
(***************************************************************************)
WebAt(step) == web = step

CreatePulpExporterToFs ==
    /\ WebAt("idle") /\ count.web < MaxWebExports
    /\ CreateFse([count EXCEPT !.web = @ + 1])
    /\ web' = "export"
    /\ exporter' = NoneIsAlone
    /\ SourcesStay /\ UNCHANGED disk

\* The exporter is deleted when it has exported, whoever else uses it.  With
\* one request at a time nobody else deletes it
ExecutePulpExporterToFs ==
    /\ WebAt("export")
    /\ disk' = [disk EXCEPT !.pkgs = @ \cup latest.pkgs]
    /\ web' = "delete"
    /\ SourcesStay /\ UNCHANGED <<exporter, fse, count>>
DeleteFilesystemExporter ==
    /\ WebAt("delete")
    /\ fse' = 0
    /\ web' = "download"
    /\ SourcesStay /\ UNCHANGED <<disk, exporter, count>>
\* Files are overwritten, a signature stays
FsExportDownload ==
    /\ WebAt("download")
    /\ disk' = [disk EXCEPT !.md = Repodata(published, "pulp"), !.web = TRUE]
    /\ web' = "idle"
    /\ SourcesStay /\ UNCHANGED <<exporter, fse, count>>

ExportNext ==
    \/ \E c \in Releases : Release(c) \/ Revert(c)
    \/ PublishRelease
    \/ \E mods \in Uploads : UploadRpmModules(mods)
    \/ GetRepoModules \/ ReplaceModules \/ GetRemovedRpmPackages \/ AddRemoved
    \/ PublishUpload \/ UploadComps \/ EndUpload \/ UploadFails
    \/ \E x \in Exporter :
          \/ CreateFilesystemExporter(x) \/ ExportToFilesystem(x) \/ CleanRepodata(x)
          \/ DownloadRepodata(x) \/ DownloadFails(x) \/ RemovePackagesFromRepo(x)
          \/ RegenerateRepoMetadata(x) \/ PostProcessingFails(x) \/ ErrataFails(x)
          \/ \E infos \in UpdateInfos : \E order \in SetToSeqs(DOMAIN infos) :
                ExtractErrataFromPaths(x, infos, order)
          \/ ReadRepomd(x) \/ WriteSignature(x) \/ SigningFails(x)
    \/ CreatePulpExporterToFs \/ ExecutePulpExporterToFs \/ DeleteFilesystemExporter
    \/ FsExportDownload

ExportSpec == ExportInit /\ [][ExportNext]_exportVars

(***************************************************************************)
(* Properties.                                                             *)
(***************************************************************************)
\* An upload that changed the repository leaves it with the uploaded modules
\* and with all the packages it had, those of replaced modules included,
\* unless a release or revert came in between.  (When nothing was to change,
\* what an earlier version has removed comes back: the code asks the latest
\* version, not its own.)
UploadKeepsPackages ==
    UploadAt("done") /\ upload.alone /\ upload.made =>
        upload.before \subseteq latest.pkgs /\ latest.mods = upload.mods

\* When no export runs, the directory has the repodata of its packages, the
\* modules that were published and all published packages that are not to be
\* removed, however the exporters have overlapped.  Excepted are failures, a
\* repository that changed meanwhile or was not published, an exporter that
\* the web export has deleted, and repodata that it has written.
ExportIsPublished ==
    Alone /\ count.faults = 0 /\ disk.md # Nothing /\ ~disk.torn /\ ~disk.web =>
        /\ disk.md.pkgs = disk.pkgs
        /\ disk.md.mods = disk.source.mods
        /\ disk.source.pkgs \ UNION Range(Excluded) \subseteq disk.pkgs

\* A signature belongs to the repomd.xml beside it, even after failures:
\* unless exports overlapped, or the web export has replaced the file.
SignatureMatches == disk.alone /\ ~disk.web => disk.asc \in {Nothing, disk.md}

\* The errata that are exported do not depend on the order in which the
\* threads end: packages and references of all repositories, the earliest
\* and the latest date.
ErrataOrderIndependent ==
    \A x \in Exporter : exporter[x].errata # Nothing =>
        LET infos == exporter[x].errata.infos
            found == exporter[x].errata.found
            ids == {u.id : u \in UNION {Range(infos[path]) : path \in DOMAIN infos}}
        IN /\ DOMAIN found.cache = ids /\ DOMAIN found.modern = ids
           /\ \A id \in ids : found.cache[id] = Expected(infos, id)
===============================================================================
