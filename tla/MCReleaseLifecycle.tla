-------------------------- MODULE MCReleaseLifecycle --------------------------
(***************************************************************************)
(* Values for the constants of ReleaseLifecycle that a configuration file  *)
(* cannot write, and the symmetry of the requests.                         *)
(***************************************************************************)
EXTENDS ReleaseLifecycle, TLC

CONSTANTS p1, p2, a1, a2, e0, e1

RequestSymmetry == Permutations(Procs)
=============================================================================
