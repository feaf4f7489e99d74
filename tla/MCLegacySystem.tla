--------------------------- MODULE MCLegacySystem ---------------------------
(***************************************************************************)
(* A small instance of LegacySystem for TLC: a user with two traces, one   *)
(* of them tagged.                                                         *)
(***************************************************************************)
EXTENDS LegacySystem

CONSTANTS t1, t2, alice, tag

OwnerOf(u) == alice
PostedUnder(u) == IF u = 2 THEN {alice, tag} ELSE {alice}

Interchangeable == Permutations(Threads)

=============================================================================
