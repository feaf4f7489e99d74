--------------------------- MODULE MCMaintenance ----------------------------
(***************************************************************************)
(* Small instances of Maintenance for TLC.                                 *)
(***************************************************************************)
EXTENDS Maintenance, TLC

\* Workers and tokens are interchangeable model values.
Symmetry == Permutations(Workers) \cup Permutations(Tokens)

=============================================================================
