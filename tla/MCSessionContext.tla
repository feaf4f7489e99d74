-------------------------- MODULE MCSessionContext --------------------------
(***************************************************************************)
(* A small instance of SessionContext for TLC.                             *)
(***************************************************************************)
EXTENDS SessionContext, TLC

CONSTANTS p1, p2, c1, c2

\* Each context has a memory of its own.
OneEach == (c1 :> {1}) @@ (c2 :> {2})

=============================================================================
