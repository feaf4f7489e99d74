--------------------------- MODULE MCTaskRuntime ----------------------------
(***************************************************************************)
(* Small instances of TaskRuntime for TLC.                                 *)
(***************************************************************************)
EXTENDS TaskRuntime, TLC

\* Calls, values, memories and gaps are interchangeable model values.
Symmetry ==
    Permutations(Starts) \cup Permutations(Researches)
    \cup Permutations(Preparations) \cup Permutations(Attributes)
    \cup Permutations(Memories) \cup Permutations(Gaps)

=============================================================================
