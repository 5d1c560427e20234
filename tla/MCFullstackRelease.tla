-------------------------- MODULE MCFullstackRelease --------------------------
(***************************************************************************)
(* Values for the constants of FullstackRelease.                           *)
(***************************************************************************)
EXTENDS FullstackRelease

CONSTANT p1
=============================================================================
