---------------------------- MODULE JobLifecycle ----------------------------
(***************************************************************************)
(* What durable maintenance promises about a job, without workers, leases, *)
(* attempts or clocks: a job is queued, may wait for a reviewer, fails or  *)
(* is rejected, can be put back, and is applied at most once.  Changes     *)
(* outside the Free ones need a reviewer's ticket, and a ticket is good    *)
(* for one change of one version of the store only.                        *)
(*                                                                         *)
(* One step may move several jobs (a commit also schedules a dream; a      *)
(* claim also gives up exhausted jobs), each along one of the edges below. *)
(***************************************************************************)
EXTENDS Naturals

CONSTANTS
    Jobs,
    Changes,   \* what a job may do to the store
    Free,      \* the changes that need no reviewer
    None

VARIABLES
    phase,     \* where each job stands
    ticket,    \* the approval it carries: [version, change], or None
    outcome,   \* the change it was applied with, or None
    applied,   \* how often it was applied
    version    \* the version of the store

vars == <<phase, ticket, outcome, applied, version>>

Phases == {"absent", "queued", "review", "rejected", "failed", "done"}

Init ==
    /\ phase = [j \in Jobs |-> "absent"]
    /\ ticket = [j \in Jobs |-> None]
    /\ outcome = [j \in Jobs |-> None]
    /\ applied = [j \in Jobs |-> 0]
    /\ version = 0

\* The job goes from one phase to another without touching the store.
Moves(j, from, to) ==
    /\ phase[j] \in from
    /\ phase'[j] = to
    /\ outcome'[j] = outcome[j]
    /\ applied'[j] = applied[j]

Stays(j) == Moves(j, {phase[j]}, phase[j]) /\ ticket'[j] = ticket[j]

Submitted(j) == Moves(j, {"absent"}, "queued") /\ ticket'[j] = None

\* A proposal carries no ticket yet.
Proposed(j) == Moves(j, {"queued"}, "review") /\ ticket'[j] = None

\* Only a proposal of the current version can be accepted.
Accepted(j) ==
    /\ Moves(j, {"review"}, "queued")
    /\ \E c \in Changes : ticket'[j] = [version |-> version, change |-> c]

Rejected(j) == Moves(j, {"review"}, "rejected") /\ ticket'[j] = None

\* A failed attempt costs the job its ticket, unless nobody was there to fail
\* it (a crashed worker).
Retried(j) == Moves(j, {"queued"}, "queued") /\ ticket'[j] = None

GivenUp(j) ==
    Moves(j, {"queued"}, "failed") /\ ticket'[j] \in {ticket[j], None}

Reopened(j) ==
    Moves(j, {"failed", "review", "rejected"}, "queued") /\ ticket'[j] = None

\* The job takes effect: one change, together with the acknowledgement.
Applied(j) ==
    /\ phase[j] = "queued"
    /\ phase'[j] = "done"
    /\ \E c \in Changes :
         /\ c \in Free \/ ticket[j] = [version |-> version, change |-> c]
         /\ outcome'[j] = c
    /\ applied'[j] = applied[j] + 1
    /\ ticket'[j] = None
    /\ version' > version
    /\ \A i \in Jobs \ {j} : applied'[i] = applied[i]

Edge(j) ==
    \/ Stays(j)
    \/ Submitted(j)
    \/ Proposed(j)
    \/ Accepted(j)
    \/ Rejected(j)
    \/ Retried(j)
    \/ GivenUp(j)
    \/ Reopened(j)
    \/ Applied(j)

\* The store also changes for reasons of its own; versions never go back.
Next ==
    /\ version' \in Nat /\ version' >= version
    /\ \A j \in Jobs : Edge(j)

Spec == Init /\ [][Next]_vars

=============================================================================
