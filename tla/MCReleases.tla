------------------------------ MODULE MCReleases ------------------------------
EXTENDS Releases, TLC

\* No action and no property names a release or a build.
Symmetry == Permutations(Release) \cup Permutations(Build)
==============================================================================
