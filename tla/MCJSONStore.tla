------------------------------ MODULE MCJSONStore ------------------------------
(***************************************************************************)
(* The values of JSONStore's sets for model checking.                      *)
(***************************************************************************)
EXTENDS JSONStore, TLC

CONSTANTS a1, a2, c1, c2, l1, l2
=============================================================================
