-------------------------- MODULE MCUpdatePolicy --------------------------
(***************************************************************************)
(* A small instance of UpdatePolicy for TLC: only beta has a new release.      *)
(***************************************************************************)
EXTENDS UpdatePolicy

MCLastRelease == [stable |-> 1, beta |-> 2]
============================================================================
