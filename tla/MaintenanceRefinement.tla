----------------------- MODULE MaintenanceRefinement ------------------------
(***************************************************************************)
(* Maintenance implements JobLifecycle: pending and running rows are       *)
(* queued jobs, an approving result column is a ticket, the generation is  *)
(* the version of the store.                                               *)
(***************************************************************************)
EXTENDS Maintenance

CONSTANT None   \* no ticket, no outcome

PhaseOf(status) ==
    CASE status \in Unsettled -> "queued"
      [] status = "proposed" -> "review"
      [] OTHER -> status

TicketOf(row) ==
    IF Approved(row.result)
      THEN [version |-> row.result.plan.gen, change |-> row.result.plan.change]
      ELSE None

OutcomeOf(row) ==
    IF row.status = "done" THEN row.result.plan.change ELSE None

Lifecycle == INSTANCE JobLifecycle WITH
    Jobs <- JobIds,
    Changes <- Change,
    Free <- {c \in Change : PolicyPermits(c.op)},
    phase <- [j \in JobIds |-> PhaseOf(jobs[j].status)],
    ticket <- [j \in JobIds |-> TicketOf(jobs[j])],
    outcome <- [j \in JobIds |-> OutcomeOf(jobs[j])],
    applied <- commits,
    version <- generation

\* Seen through the mapping, every behaviour of workers, threads, leases,
\* reviews, retries and retention is a behaviour of JobLifecycle: one effect
\* per job, only with a valid ticket where one is needed, no way out of done.
LifecycleSpec == Lifecycle!Spec

=============================================================================
