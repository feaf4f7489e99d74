---------------------------- MODULE MCRefinement ----------------------------
(***************************************************************************)
(* A small instance of MaintenanceRefinement for TLC.                      *)
(***************************************************************************)
EXTENDS MaintenanceRefinement, TLC

Symmetry == Permutations(Tokens) \cup Permutations(Workers)

=============================================================================
