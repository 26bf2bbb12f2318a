-------------------------- MODULE MC_DockerRuntime --------------------------
(* Small instances of DockerRuntime for TLC.                               *)
EXTENDS DockerRuntime, TLC

CONSTANTS r1, h1, h2

\* Requests are told apart by nothing but their name.
MC_Symmetry == Permutations({h1, h2})
=============================================================================
