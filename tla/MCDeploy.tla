------------------------------ MODULE MCDeploy ------------------------------
(***************************************************************************)
(* Small instances of Deploy.                                              *)
(***************************************************************************)
EXTENDS Deploy, TLC

\* Ids of releases, workers and callers are interchangeable.
Symmetry == Permutations(Releases) \cup Permutations(Workers) \cup Permutations(Callers)

=============================================================================
