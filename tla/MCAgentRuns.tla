---------------------------- MODULE MCAgentRuns -----------------------------
(***************************************************************************)
(* Small instances of AgentRuns for TLC.                                   *)
(***************************************************************************)
EXTENDS AgentRuns, TLC

CONSTANTS a1, a2, t1, t2

\* Two adapters compete for a task; one of them also has a second task.
SharedTask == {<<a1, t1>>, <<a1, t2>>, <<a2, t1>>}

\* One adapter, whose runs take up the same task again.
SameTask == {<<a1, t1>>}

=============================================================================
