----------------------------- MODULE MCDeployment -----------------------------
(***************************************************************************)
(* The instance of Deployment for TLC: two releases, which nothing tells   *)
(* apart, so that states that only swap them are one.                      *)
(***************************************************************************)
EXTENDS Deployment, TLC

CONSTANTS a, b

TwoReleases == {a, b}
Symmetry == Permutations(TwoReleases)
=============================================================================
