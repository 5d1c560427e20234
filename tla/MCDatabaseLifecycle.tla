------------------------- MODULE MCDatabaseLifecycle -------------------------
(***************************************************************************)
(* Values for the constants of DatabaseLifecycle, and the symmetry of the  *)
(* requests.                                                               *)
(***************************************************************************)
EXTENDS DatabaseLifecycle, TLC

CONSTANTS p1, p2, a1, a2, d1, d2

RequestSymmetry == Permutations(Procs)
=============================================================================
