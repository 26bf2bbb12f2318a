-------------------------- MODULE MC_LabLifecycle --------------------------
(* Small instances of LabLifecycle for TLC.                                *)
EXTENDS LabLifecycle, TLC

CONSTANTS l1, l2, b1, b2, k1, k2, body1, h1, h2

\* Handlers, labs, builds and keys may be renamed among themselves.
MC_Symmetry ==
    Permutations({h1, h2}) \cup Permutations({l1, l2})
        \cup Permutations({b1, b2}) \cup Permutations({k1, k2})
=============================================================================
