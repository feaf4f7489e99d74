---------------------------- MODULE Maintenance -----------------------------
(***************************************************************************)
(* Leased background maintenance of one owner: the worker                  *)
(* (runtime/worker.py), finite dream scans (runtime/dreams.py), the plan   *)
(* and apply phases they call (memory/dream.py, remember_reconciled of     *)
(* memory/service.py), the review and retry operations of runtime/core.py  *)
(* and the retention pass, all against one SQLite database.                *)
(*                                                                         *)
(* Every transaction of the code is one action (owner lock and BEGIN       *)
(* IMMEDIATE make it atomic); everything between two transactions is a     *)
(* place where other actors run.  A worker that times out abandons the     *)
(* thread its last transaction runs in: `threads` are the transactions     *)
(* handed to asyncio.to_thread and not yet executed, whether or not a      *)
(* worker still waits for them.                                            *)
(*                                                                         *)
(* Statements are filtered by owner everywhere, so one owner is modelled.  *)
(* A dream plan holds at most one change (the code allows several with     *)
(* disjoint ids, applied in the same transaction).                         *)
(***************************************************************************)
EXTENDS JobQueue, Records

CONSTANTS
    Workers,        \* worker loops, one per process
    CaptureIds,     \* ids of capture jobs, and of the memories they store
    NoteIds,        \* ids of records written by callers or by a dream planner
    DreamIds,       \* ids of dream jobs (bound on the passes of a behaviour)
    NoJob,
    CaptureOps,     \* decisions a reconciler may return for a capture
    NoteOps,        \* decisions of foreground writes
    DreamOps,       \* changes a dream planner may propose
    DreamAfter,     \* RuntimePolicy.dream_after_writes
    ApplyExact,     \* RuntimePolicy.apply_exact_duplicates
    ApplySemantic,  \* RuntimePolicy.apply_semantic_changes
    ForegroundUntil \* bound: callers use service.dream()/apply_dream() only
                    \* below this generation (0: never)

JobIds == CaptureIds \cup DreamIds

ASSUME IdsAssumption ==
    /\ CaptureIds \subseteq RecordIds
    /\ NoteIds \subseteq RecordIds
    /\ CaptureIds \cap NoteIds = {}
    /\ CaptureIds \cap DreamIds = {}
    /\ NoJob \notin JobIds
ASSUME OpsAssumption ==
    /\ CaptureOps \subseteq Ops \ {"none", "merge"}
    /\ NoteOps \subseteq Ops \ {"none", "merge"}
    /\ DreamOps \subseteq Ops \ {"create", "attach_exact"}
ASSUME DreamAfterAssumption == DreamAfter \in Nat \ {0}
ASSUME PolicyAssumption ==
    /\ ApplyExact \in BOOLEAN
    /\ ApplySemantic \in BOOLEAN
ASSUME ForegroundAssumption == ForegroundUntil \in Nat

VARIABLES
    jobs,         \* memory_jobs
    generation,   \* memory_owners.generation
    writes,       \* memory_owners.writes
    dreamWrites,  \* memory_owners.dream_writes
    cursor,       \* memory_owners.(dream_cursor, dream_cursor_id)
    recs,         \* memories_v1 and memory_archives
    wk,           \* the local state of each worker's run_once
    threads,      \* transactions in executor threads, not yet executed
    fg,           \* a caller's own dream: snapshot taken, plan saved
    commits,      \* history: how often the effect of a job was committed
    passedOn,     \* history: how often a dream job enqueued a continuation
    seen          \* history: rows handed to a planner and acknowledged

vars == <<jobs, generation, writes, dreamWrites, cursor, recs, wk, threads,
          fg, commits, passedOn, seen>>

-----------------------------------------------------------------------------
(***************************************************************************)
(* Data                                                                    *)
(***************************************************************************)

\* What one attempt proposes: the change, the generation it was computed in
\* and, for a dream, the batch it read and where the scan stands after it.
Plan == [gen : Nat, change : Change, cursor : Position, writes : Nat,
         batch : SUBSET Position]

Start == <<0, NoId>>

NoPlan == [gen |-> 0, change |-> NoChange, cursor |-> Start, writes |-> 0,
           batch |-> {}]

\* The result column: a proposal with a reviewer's verdict, or what was done.
Result == [plan : Plan, verdict : {"open", "approved", "rejected", "applied"}]

Scan == [cursor : Position, end : Nat, writes : Nat]

\* SQL NULL is no result, and a payload without a scan has none.
ASSUME AbsenceAssumption == NoResult \notin Result /\ NoScan \notin Scan

WorkerStates == {"idle", "claimed", "scanned", "dreaming", "waiting",
                 "proposing", "failing"}

Worker == [pc : WorkerStates, job : JobIds \cup {NoJob},
           token : Tokens \cup {NoToken}, attempts : 0 .. MaxAttempts,
           result : Result \cup {NoResult}, scan : Scan \cup {NoScan},
           plan : Plan]

Idle == [pc |-> "idle", job |-> NoJob, token |-> NoToken, attempts |-> 0,
         result |-> NoResult, scan |-> NoScan, plan |-> NoPlan]

\* persist() of remember_reconciled or commit() of dream.apply, with the
\* variables it closes over.
Thread == [worker : Workers, job : JobIds, token : Tokens,
           approved : BOOLEAN, plan : Plan]

ForegroundDream == [pc : {"none", "snapshot", "saved"}, plan : Plan]

NoDream == [pc |-> "none", plan |-> NoPlan]

\* claim.result.get("approved")
Approved(result) == result # NoResult /\ result.verdict = "approved"

\* Changes applied without a reviewer.
PolicyPermits(op) ==
    \/ op \in {"none", "create"}
    \/ op \in {"attach_exact", "merge"} /\ ApplyExact
    \/ ApplySemantic

Max2(a, b) == IF a >= b THEN a ELSE b

\* Changes a reconciler may return for the new record id.
Reconciliations(ops, id) ==
    {[op |-> op, id |-> id, target |-> t] :
        op \in ops \cap {"create"}, t \in {NoId}}
    \cup {[op |-> op, id |-> id, target |-> t] :
            op \in ops \ {"create", "none", "merge"}, t \in RecordIds \ {id}}

\* Changes a planner may propose for a batch: nothing, the retirement of a
\* duplicate that is in the batch, or a new record against an existing one.
DreamChanges(batch) ==
    {NoChange}
    \cup {[op |-> op, id |-> p[2], target |-> t] :
            op \in DreamOps \cap {"merge"}, p \in batch, t \in RecordIds}
    \cup UNION {Reconciliations(DreamOps, n) : n \in NoteIds}

-----------------------------------------------------------------------------
(***************************************************************************)
(* Scheduling of dreams                                                    *)
(***************************************************************************)

FreshDream(table) == CHOOSE d \in DreamIds : table[d].status = "absent"

\* Bound: a transaction that may enqueue a dream needs an unused dream id.
Room == \E d \in DreamIds : jobs[d].status = "absent"

Due(w, dw) == w - dw >= DreamAfter

DreamUnsettled(table) == \E d \in DreamIds : table[d].status \in Unsettled

\* Queue.schedule_dream
ScheduleDream(table, w, dw) ==
    IF Due(w, dw) /\ ~DreamUnsettled(table)
      THEN [table EXCEPT ![FreshDream(table)] = NewRow(NoScan)]
      ELSE table

Continuation(scan, plan) == [scan EXCEPT !.cursor = plan.cursor]

\* The state dreams.advance leaves, given the tables its transaction has
\* written so far.
AdvanceState(table, dw, cur, sn, passed) ==
    [jobs |-> table, dreamWrites |-> dw, cursor |-> cur, seen |-> sn,
     passedOn |-> passed]

\* Mutant: the mark an earlier call left is not looked at.
AlreadyAdvancedUnmarked(row) == row.scan = NoScan

\* The early return of advance: this job has handed its scan on before, or
\* never had one.
AlreadyAdvanced(row) == row.continued \/ row.scan = NoScan

\* Mutant: a pass is one batch long.
MoreRowsNever(newRecs, plan, scan) == FALSE

\* Rows of the pass the plan did not reach.
MoreRows(newRecs, plan, scan) == Ahead(newRecs, plan.cursor, scan.end) # {}

\* The persistent cursor only moves forward here.
MovedCursor(plan, scan) ==
    IF Before(cursor, plan.cursor) THEN plan.cursor ELSE cursor

\* dreams.advance: continue the pass or account for it, move the cursor
\* forward, and mark the job so that a retry cannot fork the scan.
Advance(table, j, plan, newRecs, w) ==
    LET scan == table[j].scan
        more == MoreRows(newRecs, plan, scan)
        dw == IF more THEN dreamWrites ELSE Max2(dreamWrites, scan.writes)
        marked == [table EXCEPT ![j].continued = TRUE]
    IN  IF AlreadyAdvanced(table[j])
          THEN AdvanceState(table, dreamWrites, cursor, seen, passedOn)
          ELSE AdvanceState(
                 IF more
                   THEN [marked EXCEPT ![FreshDream(table)] =
                           NewRow(Continuation(scan, plan))]
                   ELSE ScheduleDream(marked, w, dw),
                 dw,
                 MovedCursor(plan, scan),
                 seen \cup plan.batch,
                 IF more THEN [passedOn EXCEPT ![j] = @ + 1] ELSE passedOn)

-----------------------------------------------------------------------------
Init ==
    /\ jobs = [j \in JobIds |-> AbsentRow]
    /\ generation = 0
    /\ writes = 0
    /\ dreamWrites = 0
    /\ cursor = Start
    /\ recs = [r \in RecordIds |-> Put("absent", 0)]
    /\ wk = [w \in Workers |-> Idle]
    /\ threads = {}
    /\ fg = NoDream
    /\ commits = [j \in JobIds |-> 0]
    /\ passedOn = [d \in DreamIds |-> 0]
    /\ seen = {}

\* Queue.capture of a new event: enqueue a capture job.
Submit(j) ==
    /\ jobs[j].status = "absent"
    /\ jobs' = [jobs EXCEPT ![j] = NewRow(NoScan)]
    /\ UNCHANGED <<generation, writes, dreamWrites, cursor, recs, wk, threads,
                   fg, commits, passedOn, seen>>

\* A foreground remember.  Its reads and its write are optimistic: persist()
\* compares the generation, so a successful call is atomic and one that fails
\* leaves nothing behind.  The commit observer runs in the same transaction.
Remember(c) ==
    /\ Room
    /\ Applicable(recs, c)
    /\ recs' = ApplyChange(recs, c, generation + 1)
    /\ generation' = generation + 1
    /\ writes' = writes + 1
    /\ jobs' = ScheduleDream(jobs, writes + 1, dreamWrites)
    /\ UNCHANGED <<dreamWrites, cursor, wk, threads, fg, commits, passedOn,
                   seen>>

-----------------------------------------------------------------------------
(***************************************************************************)
(* Worker.run_once                                                         *)
(***************************************************************************)

\* uuid4() as a token no attempt holds any more.  Leases compare a row's token
\* with that of an attempt at the same job, and a claim overwrites the row's
\* token, so a token that only an expired row still carries is as good as new.
FreshTokens ==
    Tokens \ ({wk[w].token : w \in Workers} \cup {t.token : t \in threads})

Swept == [j \in JobIds |-> SweepRow(jobs[j])]

\* Queue.claim takes one row.  ORDER BY available,id only says which.
Claim(w, j, token) ==
    /\ wk[w].pc = "idle"
    /\ Claimable(Swept[j])
    /\ jobs' = [Swept EXCEPT ![j] = ClaimRow(Swept[j], token)]
    /\ wk' = [wk EXCEPT ![w] =
                [Idle EXCEPT !.pc = "claimed", !.job = j, !.token = token,
                             !.attempts = jobs[j].attempts + 1,
                             !.result = jobs[j].result]]
    /\ UNCHANGED <<generation, writes, dreamWrites, cursor, recs, threads, fg,
                   commits, passedOn, seen>>

\* Queue.claim finds nothing to do, but its sweep commits.
ClaimNothing(w) ==
    /\ wk[w].pc = "idle"
    /\ \A j \in JobIds : ~Claimable(Swept[j])
    /\ \E j \in JobIds : Exhausted(jobs[j])
    /\ jobs' = Swept
    /\ UNCHANGED <<generation, writes, dreamWrites, cursor, recs, wk, threads,
                   fg, commits, passedOn, seen>>

\* The worker stops waiting for its transaction and goes on at pc.
Await(w, thread) ==
    /\ wk' = [wk EXCEPT ![w].pc = "waiting", ![w].plan = thread.plan]
    /\ threads' = threads \cup {thread}

ThreadOf(w, plan) ==
    [worker |-> w, job |-> wk[w].job, token |-> wk[w].token,
     approved |-> Approved(wk[w].result), plan |-> plan]

GoTo(w, pc) == wk' = [wk EXCEPT ![w].pc = pc]

\* Mutant: an approved decision is not tied to the generation it was made in.
InspectAnyGeneration(w) ==
    LET j == wk[w].job
        approved == Approved(wk[w].result)
    IN
    /\ wk[w].pc = "claimed"
    /\ j \in CaptureIds
    /\ \/ /\ recs[j].status # "absent"
          /\ GoTo(w, "failing")
          /\ UNCHANGED threads
       \/ /\ recs[j].status = "absent"
          /\ \E c \in IF approved THEN {wk[w].result.plan.change}
                      ELSE {d \in Reconciliations(CaptureOps, j) :
                              Applicable(recs, d)} :
               Await(w, ThreadOf(w, [NoPlan EXCEPT !.gen = generation,
                                                   !.change = c]))
    /\ UNCHANGED <<jobs, generation, writes, dreamWrites, cursor, recs, fg,
                   commits, passedOn, seen>>

\* _capture up to its persist(): inspect() reads the generation and the
\* neighbours, then the decision is the approved one or the reconciler's.  An
\* approved decision needs the generation it was approved in.
Inspect(w) ==
    LET j == wk[w].job
        approved == Approved(wk[w].result)
        valid == /\ recs[j].status = "absent"
                 /\ approved => wk[w].result.plan.gen = generation
    IN
    /\ wk[w].pc = "claimed"
    /\ j \in CaptureIds
    /\ \/ /\ ~valid
          /\ GoTo(w, "failing")
          /\ UNCHANGED threads
       \/ /\ valid
          /\ \E c \in IF approved THEN {wk[w].result.plan.change}
                      ELSE {d \in Reconciliations(CaptureOps, j) :
                              Applicable(recs, d)} :
               Await(w, ThreadOf(w, [NoPlan EXCEPT !.gen = generation,
                                                   !.change = c]))
    /\ UNCHANGED <<jobs, generation, writes, dreamWrites, cursor, recs, fg,
                   commits, passedOn, seen>>

\* scan_for: the scan in the payload, or one pinned now.
PinnedScan(row) ==
    IF row.scan # NoScan THEN row.scan
    ELSE [cursor |-> cursor, end |-> generation, writes |-> writes]

\* scan_for, then the choice between an approved plan (applied as it is) and
\* a new one.
ScanFor(w) ==
    LET j == wk[w].job
        scan == PinnedScan(jobs[j])
    IN
    /\ wk[w].pc = "claimed"
    /\ j \in DreamIds
    /\ \/ /\ ~LeaseHeld(jobs[j], wk[w].token)
          /\ GoTo(w, "failing")
          /\ UNCHANGED <<jobs, threads>>
       \/ /\ LeaseHeld(jobs[j], wk[w].token)
          /\ jobs' = [jobs EXCEPT ![j].scan = scan]
          /\ IF Approved(wk[w].result)
               THEN Await(w, ThreadOf(w, wk[w].result.plan))
               ELSE /\ wk' = [wk EXCEPT ![w].pc = "scanned", ![w].scan = scan]
                    /\ UNCHANGED threads
    /\ UNCHANGED <<generation, writes, dreamWrites, cursor, recs, fg, commits,
                   passedOn, seen>>

\* dream.plan: the batch after the scan's cursor and the current generation.
PlanSnapshot(w) ==
    LET scan == wk[w].scan
        batch == FirstRows(Ahead(recs, scan.cursor, scan.end))
    IN
    /\ wk[w].pc = "scanned"
    /\ wk' = [wk EXCEPT
                ![w].pc = "dreaming",
                ![w].plan = [gen |-> generation, change |-> NoChange,
                             cursor |-> LastRow(batch, scan.cursor),
                             writes |-> scan.writes, batch |-> batch]]
    /\ UNCHANGED <<jobs, generation, writes, dreamWrites, cursor, recs,
                   threads, fg, commits, passedOn, seen>>

\* The planner's answer and save(): refused when the generation has moved,
\* handed to review when the policy asks for it, otherwise applied.  The
\* generation test of load() is subsumed by the one of the commit.
PlanSave(w) ==
    /\ wk[w].pc = "dreaming"
    /\ \/ /\ generation # wk[w].plan.gen
          /\ GoTo(w, "failing")
          /\ UNCHANGED threads
       \/ /\ generation = wk[w].plan.gen
          /\ \E c \in DreamChanges(wk[w].plan.batch) :
               /\ Applicable(recs, c)
               /\ LET plan == [wk[w].plan EXCEPT !.change = c]
                  IN  IF PolicyPermits(c.op)
                        THEN Await(w, ThreadOf(w, plan))
                        ELSE /\ wk' = [wk EXCEPT ![w].pc = "proposing",
                                                 ![w].plan = plan]
                             /\ UNCHANGED threads
    /\ UNCHANGED <<jobs, generation, writes, dreamWrites, cursor, recs, fg,
                   commits, passedOn, seen>>

-----------------------------------------------------------------------------
(***************************************************************************)
(* The transactions run in threads                                         *)
(***************************************************************************)

\* The worker that started the thread still awaits it.
Awaited(t) == wk[t.worker].pc = "waiting" /\ wk[t.worker].token = t.token

\* The thread ends; a worker that awaits it continues at pc.
Return(t, pc) ==
    /\ threads' = threads \ {t}
    /\ wk' = IF ~Awaited(t) THEN wk
             ELSE IF pc = "idle" THEN [wk EXCEPT ![t.worker] = Idle]
             ELSE [wk EXCEPT ![t.worker].pc = pc]

\* Mutant: persist() does not compare the generation it was computed in.
CurrentAlways(t) == Applicable(recs, t.plan.change)

\* The generation and target checks of persist() and of dream.apply's commit().
Current(t) == generation = t.plan.gen /\ Applicable(recs, t.plan.change)

\* A check of the transaction fails: it rolls back.
ThreadConflict(t) ==
    /\ ~Current(t) \/ ~LeaseHeld(jobs[t.job], t.token)
    /\ Return(t, "failing")
    /\ UNCHANGED <<jobs, generation, writes, dreamWrites, cursor, recs, fg,
                   commits, passedOn, seen>>

\* Mutant: the proposal is raised after the transaction has committed.
CaptureReviewCommitted(t) ==
    /\ t.job \in CaptureIds
    /\ Current(t)
    /\ LeaseHeld(jobs[t.job], t.token)
    /\ ~PolicyPermits(t.plan.change.op) /\ ~t.approved
    /\ recs' = ApplyChange(recs, t.plan.change, generation + 1)
    /\ generation' = generation + 1
    /\ Return(t, "proposing")
    /\ UNCHANGED <<jobs, writes, dreamWrites, cursor, fg, commits, passedOn,
                   seen>>

\* _capture's commit callback finds the decision needs a reviewer: rollback,
\* and run_once goes on to _finish(proposed).
CaptureReview(t) ==
    /\ t.job \in CaptureIds
    /\ Current(t)
    /\ LeaseHeld(jobs[t.job], t.token)
    /\ ~PolicyPermits(t.plan.change.op) /\ ~t.approved
    /\ Return(t, "proposing")
    /\ UNCHANGED <<jobs, generation, writes, dreamWrites, cursor, recs, fg,
                   commits, passedOn, seen>>

Applied(plan) == [plan |-> plan, verdict |-> "applied"]

\* persist(): the memory, the commit observer and the acknowledgement of the
\* job in one transaction.
CaptureCommit(t) ==
    /\ t.job \in CaptureIds
    /\ Room
    /\ Current(t)
    /\ LeaseHeld(jobs[t.job], t.token)
    /\ PolicyPermits(t.plan.change.op) \/ t.approved
    /\ recs' = ApplyChange(recs, t.plan.change, generation + 1)
    /\ generation' = generation + 1
    /\ writes' = writes + 1
    /\ jobs' = [ScheduleDream(jobs, writes + 1, dreamWrites) EXCEPT
                  ![t.job] = FinishRow(@, "done", Applied(t.plan))]
    /\ commits' = [commits EXCEPT ![t.job] = @ + 1]
    /\ Return(t, "idle")
    /\ UNCHANGED <<dreamWrites, cursor, fg, passedOn, seen>>

\* Generation after dream.apply: one bump per change and one for the plan.
DreamGeneration(plan) ==
    generation + (IF plan.change.op = "none" THEN 1 ELSE 2)

\* commit() of dream.apply with the worker's on_commit: changes, plan marked
\* applied, job acknowledged, scan advanced.
DreamCommit(t) ==
    LET newRecs == ApplyChange(recs, t.plan.change, generation + 1)
        table == [jobs EXCEPT
                    ![t.job] = FinishRow(@, "done", Applied(t.plan))]
        adv == Advance(table, t.job, t.plan, newRecs, writes)
    IN
    /\ t.job \in DreamIds
    /\ Room
    /\ Current(t)
    /\ LeaseHeld(jobs[t.job], t.token)
    /\ recs' = newRecs
    /\ generation' = DreamGeneration(t.plan)
    /\ jobs' = adv.jobs
    /\ dreamWrites' = adv.dreamWrites
    /\ cursor' = adv.cursor
    /\ seen' = adv.seen
    /\ passedOn' = adv.passedOn
    /\ commits' = [commits EXCEPT ![t.job] = @ + 1]
    /\ Return(t, "idle")
    /\ UNCHANGED <<writes, fg>>

-----------------------------------------------------------------------------
(***************************************************************************)
(* The end of an attempt                                                   *)
(***************************************************************************)

\* asyncio.timeout fires, run_once is cancelled, or a provider raises: the
\* attempt ends, its thread (if any) runs on.
Interrupt(w) ==
    /\ wk[w].pc \in {"claimed", "scanned", "dreaming", "waiting"}
    /\ GoTo(w, "failing")
    /\ UNCHANGED <<jobs, generation, writes, dreamWrites, cursor, recs,
                   threads, fg, commits, passedOn, seen>>

\* _finish(claim, "proposed", proposal); without the lease it raises and the
\* worker loop only notes the error.
Propose(w) ==
    LET j == wk[w].job
        plan == wk[w].plan
        open == [plan |-> plan, verdict |-> "open"]
        table == [jobs EXCEPT ![j] = FinishRow(@, "proposed", open)]
        adv == IF j \in DreamIds
                 THEN Advance(table, j, plan, recs, writes)
                 ELSE AdvanceState(table, dreamWrites, cursor, seen, passedOn)
    IN
    /\ wk[w].pc = "proposing"
    /\ Room
    /\ IF LeaseHeld(jobs[j], wk[w].token)
         THEN /\ jobs' = adv.jobs
              /\ dreamWrites' = adv.dreamWrites
              /\ cursor' = adv.cursor
              /\ seen' = adv.seen
              /\ passedOn' = adv.passedOn
         ELSE UNCHANGED <<jobs, dreamWrites, cursor, passedOn, seen>>
    /\ wk' = [wk EXCEPT ![w] = Idle]
    /\ UNCHANGED <<generation, writes, recs, threads, fg, commits>>

\* Queue.fail: nothing is written once another worker owns the job.
Fail(w) ==
    LET j == wk[w].job IN
    /\ wk[w].pc = "failing"
    /\ jobs' = IF LeaseHeld(jobs[j], wk[w].token)
                 THEN [jobs EXCEPT ![j] = FailRow(@, wk[w].attempts)]
                 ELSE jobs
    /\ wk' = [wk EXCEPT ![w] = Idle]
    /\ UNCHANGED <<generation, writes, dreamWrites, cursor, recs, threads, fg,
                   commits, passedOn, seen>>

\* The process dies with its threads; the database keeps what was committed.
Crash(w) ==
    /\ wk[w].pc # "idle"
    /\ wk' = [wk EXCEPT ![w] = Idle]
    /\ threads' = {t \in threads : t.worker # w}
    /\ UNCHANGED <<jobs, generation, writes, dreamWrites, cursor, recs, fg,
                   commits, passedOn, seen>>

\* lease_until passes.
Expire(j) ==
    /\ jobs[j].status = "running" /\ jobs[j].live
    /\ jobs' = [jobs EXCEPT ![j] = RowExpires(@)]
    /\ UNCHANGED <<generation, writes, dreamWrites, cursor, recs, wk, threads,
                   fg, commits, passedOn, seen>>

\* available passes.
Elapse(j) ==
    /\ jobs[j].status = "pending" /\ ~jobs[j].ready
    /\ jobs' = [jobs EXCEPT ![j] = RowElapses(@)]
    /\ UNCHANGED <<generation, writes, dreamWrites, cursor, recs, wk, threads,
                   fg, commits, passedOn, seen>>

-----------------------------------------------------------------------------
(***************************************************************************)
(* Operators and retention                                                 *)
(***************************************************************************)

\* Mutant: a stale proposal can be accepted.
ReviewAnyGeneration(j, accept) ==
    /\ jobs[j].status = "proposed"
    /\ jobs' = [jobs EXCEPT ![j] = ReviewRow(@, accept)]
    /\ UNCHANGED <<generation, writes, dreamWrites, cursor, recs, wk, threads,
                   fg, commits, passedOn, seen>>

\* _review
Review(j, accept) ==
    /\ jobs[j].status = "proposed"
    /\ accept => jobs[j].result.plan.gen = generation
    /\ jobs' = [jobs EXCEPT ![j] = ReviewRow(@, accept)]
    /\ UNCHANGED <<generation, writes, dreamWrites, cursor, recs, wk, threads,
                   fg, commits, passedOn, seen>>

\* _retry
Retry(j) ==
    /\ Retryable(jobs[j])
    /\ jobs' = [jobs EXCEPT ![j] = RetryRow(@)]
    /\ UNCHANGED <<generation, writes, dreamWrites, cursor, recs, wk, threads,
                   fg, commits, passedOn, seen>>

\* The rows retention may select; how old they are is left open.
Superseded == {r \in RecordIds : recs[r].status = "superseded"}
Finished == {j \in JobIds : jobs[j].status = "done"}

\* retention.maintain: one transaction archives records superseded long enough
\* ago and drops the payload of jobs done long enough ago.
Maintain(old, finished) ==
    /\ old # {} \/ finished # {}
    /\ generation' = IF old = {} THEN generation ELSE generation + 1
    /\ recs' = [r \in RecordIds |->
                  IF r \in old THEN Put("archived", generation + 1)
                  ELSE recs[r]]
    /\ jobs' = [j \in JobIds |->
                  IF j \in finished
                    THEN [jobs[j] EXCEPT !.scan = NoScan, !.continued = FALSE]
                    ELSE jobs[j]]
    /\ UNCHANGED <<writes, dreamWrites, cursor, wk, threads, fg, commits,
                   passedOn, seen>>

\* Mutant: the plan's cursor pairs the id of the last row it read with the
\* generation of the snapshot.
DreamSnapshotToGeneration ==
    LET batch == FirstRows(Ahead(recs, cursor, generation))
    IN
    /\ generation < ForegroundUntil
    /\ fg.pc = "none"
    /\ fg' = [pc |-> "snapshot",
              plan |-> [gen |-> generation, change |-> NoChange,
                        cursor |-> <<generation, LastRow(batch, cursor)[2]>>,
                        writes |-> writes, batch |-> batch]]
    /\ UNCHANGED <<jobs, generation, writes, dreamWrites, cursor, recs, wk,
                   threads, commits, passedOn, seen>>

\* service.dream(): the snapshot of dream.plan without a scan; when nothing is
\* new it revisits the oldest records.
DreamSnapshot ==
    LET new == FirstRows(Ahead(recs, cursor, generation))
        batch == IF new # {} THEN new ELSE FirstRows(Positions(recs))
    IN
    /\ generation < ForegroundUntil
    /\ fg.pc = "none"
    /\ fg' = [pc |-> "snapshot",
              plan |-> [gen |-> generation, change |-> NoChange,
                        cursor |-> LastRow(batch, cursor), writes |-> writes,
                        batch |-> batch]]
    /\ UNCHANGED <<jobs, generation, writes, dreamWrites, cursor, recs, wk,
                   threads, commits, passedOn, seen>>

\* save() of dream.plan without a scan.
DreamSave ==
    /\ fg.pc = "snapshot"
    /\ \/ /\ fg.plan.gen # generation
          /\ fg' = NoDream
          /\ UNCHANGED dreamWrites
       \/ /\ fg.plan.gen = generation
          /\ \E c \in DreamChanges(fg.plan.batch) :
               /\ Applicable(recs, c)
               /\ fg' = [pc |-> "saved",
                         plan |-> [fg.plan EXCEPT !.change = c]]
          /\ dreamWrites' = fg.plan.writes
    /\ UNCHANGED <<jobs, generation, writes, cursor, recs, wk, threads,
                   commits, passedOn, seen>>

\* What dream.apply writes when it moves the cursor itself.
ApplyPlan(plan) ==
    /\ plan.gen = generation
    /\ Applicable(recs, plan.change)
    /\ recs' = ApplyChange(recs, plan.change, generation + 1)
    /\ generation' = DreamGeneration(plan)
    /\ cursor' = plan.cursor
    /\ dreamWrites' = Max2(dreamWrites, plan.writes)
    /\ seen' = seen \cup plan.batch
    /\ UNCHANGED <<jobs, writes, wk, threads, commits, passedOn>>

\* service.apply_dream(): of the caller's own plan ...
DreamApply ==
    /\ fg.pc = "saved"
    /\ \/ ApplyPlan(fg.plan)
       \/ fg.plan.gen # generation
          /\ UNCHANGED <<jobs, generation, writes, dreamWrites, cursor, recs,
                         wk, threads, commits, passedOn, seen>>
    /\ fg' = NoDream

\* ... or of a plan that a job has proposed and nobody has reviewed.
ApplyProposed(d) ==
    /\ generation < ForegroundUntil
    /\ jobs[d].status = "proposed"
    /\ ApplyPlan(jobs[d].result.plan)
    /\ UNCHANGED fg

-----------------------------------------------------------------------------
WorkerStep(w) ==
    \/ \E j \in JobIds, token \in FreshTokens : Claim(w, j, token)
    \/ ClaimNothing(w)
    \/ Inspect(w)
    \/ ScanFor(w)
    \/ PlanSnapshot(w)
    \/ PlanSave(w)
    \/ Propose(w)
    \/ Fail(w)

ThreadStep(t) ==
    \/ ThreadConflict(t)
    \/ CaptureReview(t)
    \/ CaptureCommit(t)
    \/ DreamCommit(t)

\* An operator puts a settled job back in the queue.
Reset == \E j \in JobIds : Retry(j) \/ Review(j, TRUE)

Next ==
    \/ \E j \in CaptureIds : Submit(j)
    \/ \E n \in NoteIds : \E c \in Reconciliations(NoteOps, n) : Remember(c)
    \/ \E w \in Workers : WorkerStep(w) \/ Interrupt(w) \/ Crash(w)
    \/ \E t \in threads : ThreadStep(t)
    \/ \E j \in JobIds : Expire(j) \/ Elapse(j)
    \/ \E j \in JobIds : Review(j, TRUE) \/ Review(j, FALSE) \/ Retry(j)
    \/ \E old \in SUBSET Superseded, finished \in SUBSET Finished :
         Maintain(old, finished)
    \/ DreamSnapshot \/ DreamSave \/ DreamApply
    \/ \E d \in DreamIds : ApplyProposed(d)

Spec == Init /\ [][Next]_vars

\* The event loop keeps running idle and resumed workers, the executor keeps
\* running threads, and time passes; nobody owes a timeout, a crash, a review
\* or a submission.
Fairness ==
    /\ \A w \in Workers : WF_vars(WorkerStep(w))
    /\ WF_vars(\E t \in threads : ThreadStep(t))
    /\ \A j \in JobIds : WF_vars(Expire(j)) /\ WF_vars(Elapse(j))

FairSpec == Spec /\ Fairness

-----------------------------------------------------------------------------
(***************************************************************************)
(* Properties                                                              *)
(***************************************************************************)

\* Every column and local variable holds a value of its kind.
TypeOK ==
    /\ jobs \in [JobIds -> Row(Result, Scan)]
    /\ generation \in Nat
    /\ writes \in Nat
    /\ dreamWrites \in Nat
    /\ cursor \in Position
    /\ recs \in [RecordIds -> Record]
    /\ wk \in [Workers -> Worker]
    /\ threads \subseteq Thread
    /\ fg \in ForegroundDream
    /\ commits \in [JobIds -> Nat]
    /\ passedOn \in [DreamIds -> Nat]
    /\ seen \subseteq Position

\* The effect of a job is committed exactly when the job is acknowledged, and
\* never twice, whatever timeouts, abandoned threads, expired leases, crashes,
\* reviews and retries happen in between (finish() runs inside the transaction
\* of the change, behind assert_lease).
EffectOnce ==
    \A j \in JobIds :
        commits[j] = IF jobs[j].status = "done" THEN 1 ELSE 0

\* The memory of a capture, whose id is the job's, exists exactly when the job
\* is acknowledged with a decision that stores it (an AttachEvidence only
\* touches its target).
AckMatchesStore ==
    \A j \in CaptureIds :
        recs[j].status # "absent" <=>
            /\ jobs[j].status = "done"
            /\ jobs[j].result.plan.change.op \notin {"attach", "attach_exact"}

\* A change the policy does not allow by itself is committed only for a row
\* whose stored result approves exactly this change in exactly the generation
\* the commit starts from: approvals are never applied stale, taken over by
\* another attempt, or transferred to another decision.
ApprovalHonoured ==
    [][\A j \in JobIds :
         jobs[j].status # "done" /\ jobs'[j].status = "done" =>
           LET plan == jobs'[j].result.plan IN
           \/ PolicyPermits(plan.change.op)
           \/ /\ Approved(jobs[j].result)
              /\ jobs[j].result.plan.change = plan.change
              /\ jobs[j].result.plan.gen = generation]_vars

\* An unexpired lease ends only with the attempt that holds it: a late worker,
\* an abandoned thread or another claim's sweep never ends or restarts work a
\* newer attempt owns ("A newer worker owns this job; never overwrite its
\* result", runtime/queue.py:255).
LeaseRespected ==
    [][\A j \in JobIds :
         LET row == jobs[j] IN
         /\ row.status = "running" /\ row.live
         /\ jobs'[j].status # "running" \/ jobs'[j].token # row.token
         => \/ \E w \in Workers : /\ wk[w].job = j /\ wk[w].token = row.token
                                 /\ wk'[w] = Idle
            \/ \E t \in threads \ threads' :
                 t.job = j /\ t.token = row.token]_vars

\* A dream job hands its scan on at most once, however often it is retried,
\* reviewed, replanned or taken over ("A retry cannot fork the scan",
\* runtime/dreams.py:37).
ScanNotForked == \A d \in DreamIds : passedOn[d] <= 1

\* Every stored record at or before the persistent dream cursor was handed to
\* a planner in its present version: interleaved passes, retries, rewinds by
\* foreground dreams and archival never make the cursor skip a record.
CursorCovers ==
    \A p \in Positions(recs) : ~Before(cursor, p) => p \in seen

\* When a dream job ends its pass and accounts for the writes before it, every
\* stored record up to the boundary of the pass has been handed to a planner,
\* although batches were planned at different generations, retried or
\* reviewed in between.
PassCovers ==
    [][\A d \in DreamIds :
         /\ ~jobs[d].continued /\ jobs'[d].continued
         /\ dreamWrites' # dreamWrites
         => \A p \in Positions(recs') :
              p[1] <= jobs[d].scan.end => p \in seen']_vars

\* When enough writes have accumulated, a dream job that will account for them
\* is queued, running, or failed and waiting for an operator
\* (runtime/dreams.py:59, docs/local-memory-growth.md:12).
TriggerRetained ==
    Due(writes, dreamWrites) =>
        \E d \in DreamIds : jobs[d].status \in Unsettled \cup {"failed"}

Settled == {"done", "proposed", "rejected", "failed"}

\* Once operators stop resetting jobs, every queued job reaches an end:
\* applied, handed to review, or failed after MaxAttempts claims.
JobsSettle ==
    <>[][~Reset]_vars =>
        \A j \in JobIds :
            jobs[j].status = "pending" ~> jobs[j].status \in Settled

=============================================================================
