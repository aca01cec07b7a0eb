------------------------------ MODULE ModuleIndex ------------------------------
(***************************************************************************)
(* Which packages of a module are built again and which are taken over.    *)
(* The preview (get_module_refs) looks, for every component, whether the   *)
(* package beholder knows a build of the commit that would be built.  The  *)
(* planner then lists what is taken over in a module index for each        *)
(* architecture (prepare_module_index), asking the beholder again.         *)
(*                                                                         *)
(* The beholder is external.  What it knows is a function from             *)
(* distributions and components to versions, 0 for none; a set of          *)
(* distributions and modules it cannot be asked about fails.  The module   *)
(* and its -devel module are taken to filter the same packages.            *)
(***************************************************************************)
EXTENDS Integers, FiniteSets

CONSTANTS
    Component,
    Renamed,     \* components with a + in their name, which Gitea cannot have
    WithArches,  \* components whose template says which packages are multilib
    PackagesOf,  \* component -> its packages: [name, kind]
    Filtered,    \* names of packages that the template filters
    I686, X86    \* architectures that share packages

ASSUME IndexAssumption ==
    /\ IsFiniteSet(Component) /\ Renamed \subseteq Component /\ WithArches \subseteq Component
    /\ I686 # X86 /\ {I686, X86} \cap {"src", "noarch"} = {}
    /\ \A c \in Component :
          PackagesOf[c] \subseteq [name : STRING, kind : {"native", "noarch", "multilib"}]

Dist == {"stable", "beta"}
\* The two modules of a stream: what is filtered from one is in its -devel
Kind == {"plain", "devel"}
Artifact(c, v, name, arch) == [comp |-> c, version |-> v, name |-> name, arch |-> arch]
SourceOf(c, v) == Artifact(c, v, c, "src")
IsFiltered(a) == a.name \in Filtered

\* What version v of a component has for an architecture
Built(c, v, arch) ==
    {Artifact(c, v, p.name, IF p.kind = "noarch" THEN "noarch" ELSE arch) : p \in PackagesOf[c]}
Multilib(c, v) ==
    {Artifact(c, v, p.name, I686) : p \in {p \in PackagesOf[c] : p.kind = "multilib"}}

\* The beholder's answer for a module and architecture: i686 is asked as x86_64
RequestArch(arch) == IF arch = I686 THEN X86 ELSE arch
Answer(known, failing, d, kind, c, arch) ==
    IF known[d][c] = 0 \/ <<d, kind>> \in failing \/ arch = "src" THEN {}
    ELSE {a \in Built(c, known[d][c], arch)
                  \cup (IF arch = X86 THEN Multilib(c, known[d][c]) ELSE {}) :
             IsFiltered(a) <=> kind = "devel"}

(***************************************************************************)
(* The preview.                                                            *)
(***************************************************************************)
CompareModuleData(known, failing, c, tag, arches, beta) ==
    UNION {Answer(known, failing, d, k, c, RequestArch(a)) :
             d \in {d \in Dist : known[d][c] = tag /\ (d = "beta" => beta)},
             k \in Kind, a \in arches}

\* _get_module_ref: a component without a branch or a tag is built again
GetModuleRef(known, failing, c, tag, arches, beta) ==
    LET added == IF tag = 0 THEN {} ELSE CompareModuleData(known, failing, c, tag, arches, beta)
    IN [enabled |-> added = {}, added |-> added]

\* The rendered template lists what the preview has added
Template(refs) == UNION {refs[c].added : c \in Component}

(***************************************************************************)
(* The index for an architecture.                                          *)
(***************************************************************************)
\* merge_beta_module_artifacts: beta replaces packages that stable has
MergeBeta(stable, beta) ==
    LET newer(a) == {b \in beta : a.name = b.name /\ a.arch = b.arch}
    IN UNION {IF newer(a) = {} THEN {a} ELSE newer(a) : a \in stable}

\* get_prebuilt_module_artifacts: the packages of a project and its source
Prebuilt(known, failing, kind, c, arch, beta) ==
    LET answer(d) == Answer(known, failing, d, kind, c, RequestArch(arch))
        packages(d) == IF answer(d) = {} THEN {} ELSE answer(d) \cup {SourceOf(c, known[d][c])}
        found == IF c \in Renamed THEN {}
                 ELSE IF ~beta THEN packages("stable")
                 ELSE IF {"stable"} \X Kind \subseteq failing THEN packages("beta")
                 ELSE MergeBeta(packages("stable"), packages("beta"))
    IN {IF a.arch = X86 /\ arch = I686 THEN [a EXCEPT !.arch = I686] ELSE a : a \in found}

\* get_platform_multilib_artifacts: i686 packages the preview has added and the
\* beholder still has for x86_64
MultilibOf(known, failing, ref) ==
    LET names == {a.name : a \in UNION {Answer(known, failing, "stable", k, c, X86) :
                                          k \in Kind, c \in {a.comp : a \in ref.added}}}
    IN {a \in ref.added : a.arch = I686 /\ a.name \in names}
\* update_module_index: the module these are listed in
MultilibKind(c) == IF c \in WithArches \cup Renamed THEN "plain" ELSE "devel"

\* add_rpm_artifact: which of the two modules lists an artifact
AddRpmArtifact(kind, a) ==
    IF IsFiltered(a) THEN kind = "devel" \/ a.arch = "src" ELSE kind = "plain"

\* Mutant: the index keeps what its template lists.
PrepareFromTemplate(known, failing, refs, arch, beta) ==
    [k \in Kind |-> {a \in Template(refs) : AddRpmArtifact(k, a)}]

PrepareModuleIndex(known, failing, refs, arch, beta) ==
    LET allowed == {arch, "src", "noarch"}
        listed(k, c) ==
            {a \in refs[c].added \cup Prebuilt(known, failing, k, c, arch, beta) :
                a.arch \in allowed /\ AddRpmArtifact(k, a)}
            \cup (IF arch = X86 /\ k = MultilibKind(c) THEN MultilibOf(known, failing, refs[c]) ELSE {})
    IN [k \in Kind |-> UNION {listed(k, c) : c \in {c \in Component : ~refs[c].enabled}}]
===============================================================================
