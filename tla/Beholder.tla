------------------------------- MODULE Beholder -------------------------------
(***************************************************************************)
(* What a release planner makes of the answers of the package beholder:    *)
(* in which repositories the reference platforms have a package.  The      *)
(* answers are lines in the order in which the planner reads them, the     *)
(* least important platform first, and of a platform the vaguest match     *)
(* first.  One name of a package; debug packages go the same way.          *)
(***************************************************************************)
EXTENDS Integers, Sequences, SequencesExt, TLC

CONSTANTS
    I686,
    WeakOf   \* the architectures that take over what is known of another

\* Priorities grow with distance: the best is 1.  A line is [platform, version,
\* arch, beta, devel, priority, repos], its repositories pairs of name and
\* architecture.
Key(l, arch) == [version |-> l.version, arch |-> arch, beta |-> l.beta, devel |-> l.devel]
NoCache == [k \in {} |-> {}]
Repos(cache, k) == IF k \in DOMAIN cache THEN cache[k].repos ELSE {}

\* Mutant: what was found for i686 is taken over all the same.
KeepsNothing(cache, l, weak) == FALSE

\* What was found for i686 may have been found for multilib packages
KeepsMultilib(cache, l, weak) ==
    /\ weak = I686 /\ Repos(cache, Key(l, weak)) # {}
    /\ l.priority >= cache[Key(l, weak)].priority

\* update_beholder_cache: a line adds to what is known of its package, and
\* replaces what is known of the architectures that depend on it
UpdateCache(cache, l) ==
    LET known == IF l.repos = {} THEN {} ELSE l.repos \cup Repos(cache, Key(l, l.arch))
        found(repos) == [repos |-> repos, priority |-> l.priority]
        weak == {w \in WeakOf[l.arch] : ~KeepsMultilib(cache, l, w)}
        moved(w) == {<<r[1], IF r[2] = l.arch THEN w ELSE r[2]>> : r \in known}
    IN [k \in DOMAIN cache \cup {Key(l, a) : a \in weak \cup {l.arch}} |->
           IF k \in {Key(l, w) : w \in weak} THEN found(moved(k.arch))
           ELSE IF k = Key(l, l.arch) THEN found(known) ELSE cache[k]]

Cache(lines) == FoldLeft(UpdateCache, NoCache, lines)

\* find_release_repos: the version and stability, the other stability, or some
\* other version, whichever was read first
FindReleaseRepos(cache, version, arch, beta, devel) ==
    LET at(b) == [version |-> version, arch |-> arch, beta |-> b, devel |-> devel]
        other == {k \in DOMAIN cache : k.arch = arch /\ k.devel = devel}
    IN IF at(beta) \in DOMAIN cache THEN {Repos(cache, at(beta))}
       ELSE IF at(~beta) \in DOMAIN cache THEN {Repos(cache, at(~beta))}
       ELSE IF other # {} THEN {Repos(cache, k) : k \in other} ELSE {{}}
===============================================================================
