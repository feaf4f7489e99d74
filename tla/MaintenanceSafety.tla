------------------------- MODULE MaintenanceSafety --------------------------
(***************************************************************************)
(* Safety of leased maintenance, for every set of workers, jobs, records   *)
(* and tokens and every policy: effects are committed once, live leases    *)
(* are respected, approvals are honoured, memories match acknowledgements, *)
(* and Maintenance implements JobLifecycle.                                *)
(*                                                                         *)
(* All rest on one fact, RowSteps: whatever step is taken, each row of     *)
(* memory_jobs is kept, or changed in one of seven ways.  What a row then  *)
(* holds is known from PlanSteps: where the plan in it was made.           *)
(***************************************************************************)
EXTENDS MaintenanceProofs, MaintenanceRefinement

(***************************************************************************)
(* What a step may do to a row.                                            *)
(***************************************************************************)

SameRow(old, new) ==
    /\ new.status = old.status
    /\ new.token = old.token
    /\ new.result = old.result

\* A row of enqueue() where there was none.
FirstOf(old, new) ==
    old.status = "absent" /\ new.status = "pending" /\ new.result = NoResult

Inserted(j) == FirstOf(jobs[j], jobs'[j])

SweptAway(j) ==
    /\ jobs[j].status = "running" /\ ~jobs[j].live
    /\ jobs'[j].status = "failed"
    /\ jobs'[j].result = jobs[j].result

Claimed(j) ==
    /\ Claimable(jobs[j])
    /\ jobs'[j].status = "running"
    /\ jobs'[j].token \in FreshTokens
    /\ jobs'[j].result = jobs[j].result

\* Ended by the worker that holds the lease, without an effect.
GivenUp(j) ==
    \E w \in Workers :
        /\ wk[w].job = j
        /\ LeaseHeld(jobs[j], wk[w].token)
        /\ wk'[w] = Idle
        /\ \/ /\ jobs'[j].status \in {"failed", "pending"}
              /\ jobs'[j].result = NoResult
           \/ /\ wk[w].pc = "proposing"
              /\ jobs'[j].status = "proposed"
              /\ jobs'[j].result = [plan |-> wk[w].plan, verdict |-> "open"]

\* Acknowledged by the thread that holds the lease, with its effect.
Committed(j) ==
    /\ jobs'[j].status = "done"
    /\ \E t \in threads \ threads' :
         /\ t.job = j
         /\ LeaseHeld(jobs[j], t.token)
         /\ Current(t)
         /\ \/ PolicyPermits(t.plan.change.op)
            \/ t.approved
            \/ j \in DreamIds
         /\ jobs'[j].result = Applied(t.plan)

\* Put back by an operator, without a verdict.
Reopened(j) ==
    /\ jobs[j].status \in {"failed", "proposed", "rejected"}
    /\ jobs'[j].status = "pending"
    /\ jobs'[j].result = NoResult

\* Accepted in the generation of the proposal, or rejected.
Reviewed(j) ==
    /\ jobs[j].status = "proposed" /\ jobs[j].result # NoResult
    /\ jobs'[j].result.plan = jobs[j].result.plan
    /\ \/ jobs'[j].status = "pending" /\ jobs[j].result.plan.gen = generation
       \/ jobs'[j].status = "rejected" /\ ~Approved(jobs'[j].result)

NoEffect(j) ==
    \/ SameRow(jobs[j], jobs'[j])
    \/ Inserted(j)
    \/ SweptAway(j)
    \/ Claimed(j)
    \/ GivenUp(j)
    \/ Reopened(j)
    \/ Reviewed(j)

RowStep(j) ==
    \/ NoEffect(j) /\ commits'[j] = commits[j]
    \/ Committed(j) /\ commits'[j] = commits[j] + 1

\* A table into which rows were inserted.
LEMMA InsertSteps ==
    ASSUME TypeInv, NEW table \in [JobIds -> JobRow],
           OnlyInserts(table, jobs'), NEW j \in JobIds
    PROVE  \/ jobs'[j] = table[j]
           \/ FirstOf(table[j], jobs'[j])
BY DEF OnlyInserts, NewRow, AbsentRow, FirstOf

\* What advance leaves of a row its transaction had written before.
LEMMA AdvanceSteps ==
    ASSUME TypeInv, NEW table \in [JobIds -> JobRow], HasRoom(table),
           NEW d \in DreamIds, table[d].status # "absent",
           NEW plan \in Plan, NEW newRecs, NEW w,
           jobs' = Advance(table, d, plan, newRecs, w).jobs, NEW j \in JobIds
    PROVE  \/ SameRow(table[j], jobs'[j])
           \/ FirstOf(table[j], jobs'[j])
<1> DEFINE marked == [table EXCEPT ![d].continued = TRUE]
<1>1. /\ d \in JobIds
      /\ jobs' = table \/ OnlyInserts(marked, jobs')
  BY AdvanceEffect DEF TypeInv, JobIds
<1>2. SameRow(table[j], marked[j])
  BY <1>1 DEF SameRow, JobRow, Row
<1>3. CASE jobs' = table
  BY <1>3 DEF SameRow
<1>4. CASE OnlyInserts(marked, jobs')
  <2>1. marked \in [JobIds -> JobRow]
    BY <1>1, RowUpdates
  <2> HIDE DEF marked
  <2>2. \/ jobs'[j] = marked[j]
        \/ FirstOf(marked[j], jobs'[j])
    BY <1>4, <2>1, InsertSteps
  <2> QED  BY <1>2, <2>2 DEF SameRow, FirstOf
<1> QED  BY <1>1, <1>3, <1>4

\* A step that leaves memory_jobs and the effects alone.
LEMMA UntouchedRows ==
    ASSUME UNCHANGED <<jobs, commits>>, NEW j \in JobIds
    PROVE  RowStep(j)
BY DEF RowStep, NoEffect, SameRow

\* Callers insert rows.
LEMMA CallerRowSteps ==
    ASSUME TypeInv, NEW j \in JobIds,
           \/ \E i \in CaptureIds : Submit(i)
           \/ \E n \in NoteIds :
                \E c \in Reconciliations(NoteOps, n) : Remember(c)
    PROVE  RowStep(j)
<1>1. ASSUME NEW i \in CaptureIds, Submit(i)
      PROVE  RowStep(j)
  <2>1. \/ jobs'[j] = jobs[j]
        \/ FirstOf(jobs[j], jobs'[j])
    BY <1>1 DEF Submit, NewRow, AbsentRow, FirstOf, TypeInv, TypeOK
  <2> QED  BY <1>1, <2>1 DEF Submit, RowStep, NoEffect, SameRow, Inserted
<1>2. ASSUME NEW c, Remember(c)
      PROVE  RowStep(j)
  <2>1. OnlyInserts(jobs, jobs')
    BY <1>2, ScheduleInserts
       DEF Remember, Room, HasRoom, TypeInv, TypeOK, JobRow
  <2>2. \/ jobs'[j] = jobs[j]
        \/ FirstOf(jobs[j], jobs'[j])
    BY <2>1, InsertSteps DEF TypeInv, TypeOK, JobRow
  <2> QED  BY <1>2, <2>2 DEF Remember, RowStep, NoEffect, SameRow, Inserted
<1> QED  BY <1>1, <1>2

\* A claim sweeps exhausted rows and takes one.
LEMMA ClaimRowSteps ==
    ASSUME TypeInv, NEW j \in JobIds, NEW w \in Workers,
           \/ ClaimNothing(w)
           \/ \E i \in JobIds, token \in FreshTokens : Claim(w, i, token)
    PROVE  RowStep(j)
<1>1. jobs[j] \in JobRow
  BY DEF TypeInv, TypeOK, JobRow
<1>2. SameRow(jobs[j], Swept[j]) \/ 
      /\ jobs[j].status = "running" /\ ~jobs[j].live
      /\ Swept[j].status = "failed" /\ Swept[j].result = jobs[j].result
  BY <1>1 DEF Swept, SweepRow, Exhausted, SameRow, JobRow, Row
<1>3. CASE ClaimNothing(w)
  BY <1>2, <1>3 DEF ClaimNothing, RowStep, NoEffect, SweptAway
<1>4. ASSUME NEW i \in JobIds, NEW token \in FreshTokens, Claim(w, i, token)
      PROVE  RowStep(j)
  <2>1. jobs' = [Swept EXCEPT ![i] = ClaimRow(Swept[i], token)]
        /\ commits' = commits
    BY <1>4 DEF Claim
  <2>2. Swept \in [JobIds -> JobRow]
    BY SweptTyped
  <2>3. CASE i # j
    <3>1. jobs'[j] = Swept[j]
      BY <2>1, <2>2, <2>3
    <3> QED  BY <1>2, <2>1, <3>1 DEF RowStep, NoEffect, SweptAway
  <2>4. CASE i = j
    <3>1. Claimable(Swept[j])
      BY <1>4, <2>4 DEF Claim
    <3>2. Swept[j] = jobs[j]
      BY <3>1 DEF Swept, SweepRow, Exhausted, Claimable
    <3>3. jobs'[j] = ClaimRow(jobs[j], token)
      BY <2>1, <2>2, <2>4, <3>2
    <3>4. /\ jobs'[j].status = "running" /\ jobs'[j].token = token
          /\ jobs'[j].result = jobs[j].result
      BY <1>1, <3>3 DEF ClaimRow, JobRow, Row
    <3> QED
      BY <2>1, <3>1, <3>2, <3>4 DEF RowStep, NoEffect, Claimed
  <2> QED  BY <2>3, <2>4
<1> QED  BY <1>3, <1>4

\* scan_for writes only the payload of the row.
LEMMA ScanForRowSteps ==
    ASSUME TypeInv, NEW j \in JobIds, NEW w \in Workers, ScanFor(w)
    PROVE  RowStep(j)
<1> DEFINE scan == PinnedScan(jobs[wk[w].job])
<1>1. jobs[j] \in JobRow
  BY DEF TypeInv, TypeOK, JobRow
<1>2. /\ jobs' = jobs \/ jobs' = [jobs EXCEPT ![wk[w].job].scan = scan]
      /\ commits' = commits
  BY DEF ScanFor
<1> HIDE DEF scan
<1>3. jobs'[j] = jobs[j] \/ jobs'[j] = [jobs[j] EXCEPT !.scan = scan]
  BY <1>2 DEF TypeInv, TypeOK
<1>4. SameRow(jobs[j], jobs'[j])
  BY <1>1, <1>3 DEF SameRow, JobRow, Row
<1> QED  BY <1>2, <1>4 DEF RowStep, NoEffect

\* _finish(proposed) and fail write the row only under the attempt's lease.
LEMMA GiveUpRowSteps ==
    ASSUME TypeInv, NEW j \in JobIds, NEW w \in Workers, Propose(w) \/ Fail(w)
    PROVE  RowStep(j)
<1> DEFINE i == wk[w].job
<1>1. /\ i \in JobIds /\ wk[w].plan \in Plan
      /\ wk[w].attempts \in 0 .. MaxAttempts
      /\ jobs \in [JobIds -> JobRow]
  BY DEF Propose, Fail, TypeInv, TypeOK, WorkerShape, Worker, JobRow
<1>2. wk'[w] = Idle /\ commits' = commits
  BY DEF Propose, Fail, TypeInv, TypeOK
<1>3. CASE ~LeaseHeld(jobs[i], wk[w].token)
  <2>1. jobs' = jobs
    BY <1>3 DEF Propose, Fail
  <2> QED  BY <1>2, <2>1, UntouchedRows
<1>4. CASE LeaseHeld(jobs[i], wk[w].token) /\ Fail(w)
  <2>1. jobs' = [jobs EXCEPT ![i] = FailRow(jobs[i], wk[w].attempts)]
    BY <1>4 DEF Fail
  <2>2. /\ FailRow(jobs[i], wk[w].attempts).status \in {"failed", "pending"}
        /\ FailRow(jobs[i], wk[w].attempts).result = NoResult
    BY <1>1, SettledFields
  <2>3. CASE i = j
    BY <1>1, <1>2, <1>4, <2>1, <2>2, <2>3 DEF RowStep, NoEffect, GivenUp
  <2>4. CASE i # j
    BY <1>1, <1>2, <2>1, <2>4 DEF RowStep, NoEffect, SameRow
  <2> QED  BY <2>3, <2>4
<1>5. CASE LeaseHeld(jobs[i], wk[w].token) /\ Propose(w)
  <2> DEFINE result == [plan |-> wk[w].plan, verdict |-> "open"]
             table == [jobs EXCEPT ![i] =
                         FinishRow(jobs[i], "proposed", result)]
  <2>1. result \in Result /\ "proposed" \in Statuses
    BY <1>1 DEF Result, Statuses
  <2>2. /\ TableTyped(table)
        /\ table[i].status = "proposed" /\ table[i].result = result
        /\ \A k \in JobIds \ {i} : table[k] = jobs[k]
    <3>1. i \in JobIds
      BY <1>1
    <3> HIDE DEF i, result
    <3> QED  BY <2>1, <3>1, FinishedTable
  <2>3. \/ jobs' = table
        \/ /\ i \in DreamIds
           /\ jobs' = Advance(table, i, wk[w].plan, recs, writes).jobs
    BY <1>5 DEF Propose, AdvanceState
  <2>4. HasRoom(table)
    <3> HIDE DEF table
    <3> QED
      BY <1>1, <1>5, <2>2 DEF HasRoom, Propose, Room, LeaseHeld, JobIds
  <2> HIDE DEF table
  <2>5. \/ SameRow(table[j], jobs'[j])
        \/ FirstOf(table[j], jobs'[j])
    <3>1. CASE jobs' = table
      BY <3>1 DEF SameRow
    <3>2. CASE /\ i \in DreamIds
               /\ jobs' = Advance(table, i, wk[w].plan, recs, writes).jobs
      BY <1>1, <2>2, <2>4, <3>2, AdvanceSteps DEF TableTyped
    <3> QED  BY <2>3, <3>1, <3>2
  <2>6. CASE i = j
    <3>1. jobs'[j].status = "proposed" /\ jobs'[j].result = result
      BY <2>2, <2>5, <2>6 DEF SameRow, FirstOf
    <3>2. wk[w].pc = "proposing"
      BY <1>5 DEF Propose
    <3> QED  BY <1>2, <1>5, <2>6, <3>1, <3>2 DEF RowStep, NoEffect, GivenUp
  <2>7. CASE i # j
    BY <1>2, <2>2, <2>5, <2>7 DEF RowStep, NoEffect, SameRow, Inserted
  <2> QED  BY <2>6, <2>7
<1> QED  BY <1>3, <1>4, <1>5

\* A commit acknowledges its own job and inserts at most a dream.
LEMMA CommitRowSteps ==
    ASSUME TypeInv, NEW j \in JobIds, NEW t \in threads,
           CaptureCommit(t) \/ DreamCommit(t)
    PROVE  RowStep(j)
<1>1. /\ t.job \in JobIds /\ t.plan \in Plan /\ Applied(t.plan) \in Result
      /\ jobs \in [JobIds -> JobRow] /\ "done" \in Statuses
  BY ThreadTypes DEF TypeInv, TypeOK, JobRow, Statuses
<1>2. /\ t \in threads \ threads' /\ LeaseHeld(jobs[t.job], t.token)
      /\ Current(t)
      /\ \/ PolicyPermits(t.plan.change.op)
         \/ t.approved
         \/ t.job \in DreamIds
      /\ commits'[j] = IF j = t.job THEN commits[j] + 1 ELSE commits[j]
  BY <1>1 DEF CaptureCommit, DreamCommit, Return, TypeInv, TypeOK
<1>3. jobs[t.job].status = "running"
  BY <1>2 DEF LeaseHeld
<1>4. /\ t.job = j => /\ jobs'[j].status = "done"
                      /\ jobs'[j].result = Applied(t.plan)
      /\ t.job # j => \/ SameRow(jobs[j], jobs'[j])
                      \/ Inserted(j)
  <2>1. CASE CaptureCommit(t)
    <3> DEFINE scheduled == ScheduleDream(jobs, writes + 1, dreamWrites)
               row == FinishRow(scheduled[t.job], "done", Applied(t.plan))
    <3>1. OnlyInserts(jobs, scheduled)
      BY <1>1, <2>1, ScheduleInserts DEF CaptureCommit, Room, HasRoom
    <3>2. jobs' = [scheduled EXCEPT ![t.job] = row]
      BY <2>1 DEF CaptureCommit
    <3> HIDE DEF scheduled
    <3>3. /\ scheduled \in [JobIds -> JobRow]
          /\ \/ scheduled[j] = jobs[j]
             \/ FirstOf(jobs[j], scheduled[j])
      BY <3>1 DEF OnlyInserts, NewRow, AbsentRow, FirstOf
    <3>4. row.status = "done" /\ row.result = Applied(t.plan)
      BY <1>1, <3>3, FinishedRow
    <3> HIDE DEF row
    <3> QED  BY <1>1, <3>2, <3>3, <3>4 DEF SameRow, Inserted, FirstOf
  <2>2. CASE DreamCommit(t)
    <3> DEFINE table == [jobs EXCEPT ![t.job] =
                           FinishRow(jobs[t.job], "done", Applied(t.plan))]
               newRecs == ApplyChange(recs, t.plan.change, generation + 1)
    <3>1. /\ TableTyped(table)
          /\ table[t.job].status = "done"
          /\ table[t.job].result = Applied(t.plan)
          /\ \A i \in JobIds \ {t.job} : table[i] = jobs[i]
      <4> DEFINE result == Applied(t.plan)
                 i == t.job
      <4>1. i \in JobIds /\ result \in Result /\ "done" \in Statuses
        BY <1>1
      <4> HIDE DEF i, result
      <4>2. LET tab == [jobs EXCEPT ![i] = FinishRow(jobs[i], "done", result)]
            IN  /\ TableTyped(tab)
                /\ tab[i].status = "done" /\ tab[i].result = result
                /\ \A k \in JobIds \ {i} : tab[k] = jobs[k]
        BY <4>1, FinishedTable
      <4> QED  BY <4>2 DEF i, result
    <3>2. /\ t.job \in DreamIds
          /\ jobs' = Advance(table, t.job, t.plan, newRecs, writes).jobs
      BY <2>2 DEF DreamCommit
    <3> HIDE DEF table, newRecs
    <3>3. HasRoom(table)
      BY <1>1, <1>3, <2>2, <3>1 DEF HasRoom, DreamCommit, Room, JobIds
    <3>4. \/ SameRow(table[j], jobs'[j])
          \/ FirstOf(table[j], jobs'[j])
      BY <1>1, <3>1, <3>2, <3>3, AdvanceSteps DEF TableTyped
    <3> QED  BY <3>1, <3>4 DEF SameRow, Inserted, FirstOf
  <2> QED  BY <2>1, <2>2
<1>5. CASE t.job = j
  BY <1>2, <1>4, <1>5 DEF RowStep, Committed
<1>6. CASE t.job # j
  BY <1>2, <1>4, <1>6 DEF RowStep, NoEffect
<1> QED  BY <1>5, <1>6

\* A review keeps the proposal and writes the verdict.
LEMMA ReviewedRow ==
    ASSUME NEW row \in JobRow, row.result \in Result, NEW accept \in BOOLEAN
    PROVE  LET new == ReviewRow(row, accept)
           IN  /\ new.status = IF accept THEN "pending" ELSE "rejected"
               /\ new.result.plan = row.result.plan
               /\ ~accept => ~Approved(new.result)
<1> DEFINE verdict == IF accept THEN "approved" ELSE "rejected"
           status == IF accept THEN "pending" ELSE "rejected"
           result == [row.result EXCEPT !.verdict = verdict]
<1>1. result.plan = row.result.plan /\ result.verdict = verdict
  BY DEF Result
<1>2. ReviewRow(row, accept) =
        [row EXCEPT !.status = status, !.result = result, !.attempts = 0,
                    !.ready = TRUE]
  BY DEF ReviewRow, JobRow, Row
<1> HIDE DEF result, status
<1>3. /\ ReviewRow(row, accept).status = status
      /\ ReviewRow(row, accept).result = result
  BY <1>2 DEF JobRow, Row
<1> QED  BY <1>1, <1>3 DEF status, Approved

\* Time, operators and retention.
LEMMA OperatorRowSteps ==
    ASSUME TypeInv, NEW j \in JobIds,
           \/ \E i \in JobIds : Expire(i) \/ Elapse(i)
           \/ \E i \in JobIds :
                Review(i, TRUE) \/ Review(i, FALSE) \/ Retry(i)
           \/ \E old \in SUBSET Superseded, finished \in SUBSET Finished :
                Maintain(old, finished)
    PROVE  RowStep(j)
<1>1. jobs \in [JobIds -> JobRow] /\ jobs[j] \in JobRow
  BY DEF TypeInv, TypeOK, JobRow
<1>2. ASSUME NEW i \in JobIds, Expire(i) \/ Elapse(i)
      PROVE  RowStep(j)
  <2>1. \A k \in JobIds : /\ SameRow(jobs[k], RowExpires(jobs[k]))
                          /\ SameRow(jobs[k], RowElapses(jobs[k]))
    BY <1>1 DEF SameRow, RowExpires, RowElapses, JobRow, Row
  <2>2. /\ \/ jobs' = [jobs EXCEPT ![i] = RowExpires(jobs[i])]
           \/ jobs' = [jobs EXCEPT ![i] = RowElapses(jobs[i])]
        /\ commits' = commits
    BY <1>2 DEF Expire, Elapse
  <2>3. SameRow(jobs[j], jobs'[j])
    BY <1>1, <2>1, <2>2 DEF SameRow
  <2> QED  BY <2>2, <2>3 DEF RowStep, NoEffect
<1>3. ASSUME NEW i \in JobIds, NEW row,
             jobs' = [jobs EXCEPT ![i] = row], commits' = commits,
             i = j => Reopened(j) \/ Reviewed(j)
      PROVE  RowStep(j)
  BY <1>1, <1>3 DEF RowStep, NoEffect, SameRow
<1>4. ASSUME NEW i \in JobIds, Retry(i)
      PROVE  RowStep(j)
  <2>1. /\ RetryRow(jobs[i]).status = "pending"
        /\ RetryRow(jobs[i]).result = NoResult
    BY <1>1, SettledFields
  <2>2. jobs'[i] = RetryRow(jobs[i])
    BY <1>1, <1>4 DEF Retry
  <2>3. Reopened(i)
    BY <1>4, <2>1, <2>2 DEF Retry, Retryable, Reopened
  <2> QED  BY <1>3, <1>4, <2>3 DEF Retry
<1>5. ASSUME NEW i \in JobIds, NEW accept \in BOOLEAN, Review(i, accept)
      PROVE  RowStep(j)
  <2>1. jobs[i].status = "proposed" /\ jobs[i].result \in Result
    BY <1>5 DEF Review, TypeInv, ProposalShape
  <2>0. jobs[i].result # NoResult
    BY <2>1, AbsenceAssumption
  <2>2. LET row == ReviewRow(jobs[i], accept)
        IN  /\ row.status = IF accept THEN "pending" ELSE "rejected"
            /\ row.result.plan = jobs[i].result.plan
            /\ ~accept => ~Approved(row.result)
    BY <1>1, <2>1, ReviewedRow
  <2>3. jobs'[i] = ReviewRow(jobs[i], accept)
    BY <1>1, <1>5 DEF Review
  <2>4. Reviewed(i)
    BY <1>5, <2>0, <2>1, <2>2, <2>3 DEF Review, Reviewed
  <2> QED  BY <1>3, <1>5, <2>4 DEF Review
<1>6. ASSUME NEW old, NEW finished, Maintain(old, finished)
      PROVE  RowStep(j)
  <2>1. /\ jobs'[j] =
             IF j \in finished
               THEN [jobs[j] EXCEPT !.scan = NoScan, !.continued = FALSE]
               ELSE jobs[j]
        /\ commits' = commits
    BY <1>6 DEF Maintain
  <2>2. SameRow(jobs[j],
                [jobs[j] EXCEPT !.scan = NoScan, !.continued = FALSE])
    BY <1>1 DEF SameRow, JobRow, Row
  <2>3. SameRow(jobs[j], jobs'[j])
    BY <2>1, <2>2 DEF SameRow
  <2> QED  BY <2>1, <2>3 DEF RowStep, NoEffect
<1> QED  BY <1>2, <1>4, <1>5, <1>6

\* Whatever step is taken, each row is kept or changed in one of seven ways, and
\* its effect is counted exactly when the row is acknowledged.
LEMMA RowSteps ==
    ASSUME TypeInv, [Next]_vars, NEW j \in JobIds
    PROVE  RowStep(j)
<1>1. ASSUME NEW w \in Workers,
             WorkerStep(w) \/ Interrupt(w) \/ Crash(w)
      PROVE  RowStep(j)
  <2>1. CASE Inspect(w) \/ PlanSnapshot(w) \/ PlanSave(w)
             \/ Interrupt(w) \/ Crash(w)
    BY <2>1, UntouchedRows
       DEF Inspect, PlanSnapshot, PlanSave, Interrupt, Crash
  <2> QED
    BY <1>1, <2>1, ClaimRowSteps, ScanForRowSteps, GiveUpRowSteps
       DEF WorkerStep
<1>2. ASSUME NEW t \in threads, ThreadStep(t)
      PROVE  RowStep(j)
  <2>1. CASE ThreadConflict(t) \/ CaptureReview(t)
    BY <2>1, UntouchedRows DEF ThreadConflict, CaptureReview
  <2> QED  BY <1>2, <2>1, CommitRowSteps DEF ThreadStep
<1>3. ASSUME \/ DreamSnapshot \/ DreamSave \/ DreamApply
             \/ \E d \in DreamIds : ApplyProposed(d)
      PROVE  RowStep(j)
  BY <1>3, UntouchedRows
     DEF DreamSnapshot, DreamSave, DreamApply, ApplyProposed, ApplyPlan
<1>4. CASE UNCHANGED vars
  BY <1>4, UntouchedRows DEF vars
<1> QED
  BY <1>1, <1>2, <1>3, <1>4, CallerRowSteps, OperatorRowSteps DEF Next

(***************************************************************************)
(* Effects and leases.                                                     *)
(***************************************************************************)

\* However attempts time out, lose their lease, crash, are reviewed or
\* retried, the effect of a job is committed exactly when the job is done,
\* and once.
THEOREM EffectsOnce == Spec => []EffectOnce
<1>1. Init => TypeInv /\ EffectOnce
  BY TypeInvInit DEF Init, EffectOnce, AbsentRow
<1>2. TypeInv /\ EffectOnce /\ [Next]_vars => EffectOnce'
  <2> SUFFICES ASSUME TypeInv, EffectOnce, [Next]_vars, NEW j \in JobIds
               PROVE  commits'[j] =
                        IF jobs'[j].status = "done" THEN 1 ELSE 0
    BY DEF EffectOnce
  <2>1. RowStep(j)
    BY RowSteps
  <2>2. CASE NoEffect(j) /\ commits'[j] = commits[j]
    <3>1. jobs'[j].status = "done" <=> jobs[j].status = "done"
      BY <2>2 DEF NoEffect, SameRow, Inserted, FirstOf, SweptAway, Claimed, Claimable,
                  GivenUp, LeaseHeld, Reopened, Reviewed
    <3> QED  BY <2>2, <3>1 DEF EffectOnce
  <2>3. CASE Committed(j) /\ commits'[j] = commits[j] + 1
    <3>1. jobs'[j].status = "done" /\ jobs[j].status = "running"
      BY <2>3 DEF Committed, LeaseHeld
    <3> QED  BY <2>3, <3>1 DEF EffectOnce
  <2> QED  BY <2>1, <2>2, <2>3 DEF RowStep
<1> QED  BY <1>1, <1>2, TypeInvStep, PTL DEF Spec

\* A live lease ends only with the attempt that holds it, or with the thread
\* that attempt started.
THEOREM LeasesRespected == Spec => LeaseRespected
<1>1. TypeInv /\ [Next]_vars =>
        \A j \in JobIds :
          LET row == jobs[j] IN
          /\ row.status = "running" /\ row.live
          /\ jobs'[j].status # "running" \/ jobs'[j].token # row.token
          => \/ \E w \in Workers : /\ wk[w].job = j /\ wk[w].token = row.token
                                  /\ wk'[w] = Idle
             \/ \E t \in threads \ threads' :
                  t.job = j /\ t.token = row.token
  <2> SUFFICES ASSUME TypeInv, [Next]_vars, NEW j \in JobIds,
                      jobs[j].status = "running", jobs[j].live,
                      \/ jobs'[j].status # "running"
                      \/ jobs'[j].token # jobs[j].token
               PROVE  \/ \E w \in Workers : /\ wk[w].job = j
                                            /\ wk[w].token = jobs[j].token
                                            /\ wk'[w] = Idle
                      \/ \E t \in threads \ threads' :
                           t.job = j /\ t.token = jobs[j].token
    OBVIOUS
  <2>1. RowStep(j)
    BY RowSteps
  <2>2. GivenUp(j) \/ Committed(j)
    BY <2>1 DEF RowStep, NoEffect, SameRow, Inserted, FirstOf, SweptAway, Claimed,
                Claimable, Reopened, Reviewed
  <2> QED  BY <2>2 DEF GivenUp, Committed, LeaseHeld
<1> QED  BY <1>1, TypeInvInit, TypeInvStep, PTL DEF Spec, LeaseRespected

(***************************************************************************)
(* Approvals.                                                              *)
(***************************************************************************)

Owns(row, token) == row.status = "running" /\ row.token = token

\* While a row is leased to an attempt, it holds the result the attempt was
\* claimed with.
AttemptResult ==
    \A w \in Workers :
        wk[w].pc # "idle" /\ Owns(jobs[wk[w].job], wk[w].token) =>
            jobs[wk[w].job].result = wk[w].result

\* An attempt that plans for itself is one of a dream job without an approval.
PlannerUnapproved ==
    \A w \in Workers :
        wk[w].pc \in {"scanned", "dreaming"} =>
            ~Approved(wk[w].result) /\ wk[w].job \in DreamIds

Approves(result, plan) ==
    /\ Approved(result)
    /\ result.plan.change = plan.change
    /\ result.plan.gen = plan.gen

\* While a row is leased to a thread's attempt, an approval the thread relies
\* on is in the row, and is one of the thread's plan; a dream thread without
\* an approval has a change the policy permits.
ThreadApproval ==
    \A t \in threads :
        /\ t.approved /\ Owns(jobs[t.job], t.token) =>
             Approves(jobs[t.job].result, t.plan)
        /\ t.job \in DreamIds => t.approved \/ PolicyPermits(t.plan.change.op)

ApprovalInv == AttemptResult /\ PlannerUnapproved /\ ThreadApproval

\* A row that is leased after a step to a token some attempt held before it,
\* was leased to it before the step, and its result has not changed.
LEMMA LeaseKept ==
    ASSUME TypeInv, [Next]_vars, NEW j \in JobIds,
           NEW token, token \notin FreshTokens, Owns(jobs'[j], token)
    PROVE  Owns(jobs[j], token) /\ jobs'[j].result = jobs[j].result
<1>1. RowStep(j)
  BY RowSteps
<1> QED
  BY <1>1 DEF RowStep, NoEffect, Committed, SameRow, Inserted, FirstOf, SweptAway,
              Claimed, GivenUp, Reopened, Reviewed,
              Owns

\* How an attempt goes on: it ends, or keeps its claim, or it is a new one.
AttemptStep(w) ==
    \/ wk'[w] = Idle
    \/ /\ wk'[w].job = wk[w].job
       /\ wk'[w].token = wk[w].token
       /\ wk'[w].result = wk[w].result
       /\ wk[w].pc = "idle" <=> wk'[w].pc = "idle"
       /\ wk'[w].pc \in {"scanned", "dreaming"} =>
            \/ wk[w].pc \in {"scanned", "dreaming"}
            \/ ~Approved(wk[w].result) /\ wk[w].job \in DreamIds
    \/ /\ wk'[w].pc = "claimed"
       /\ wk'[w].result = jobs[wk'[w].job].result
       /\ jobs'[wk'[w].job].result = jobs[wk'[w].job].result

\* Moving on within an attempt.
LEMMA GoToSteps ==
    ASSUME TypeInv, NEW v \in Workers, wk[v].pc # "idle",
           NEW pc \in {"failing", "proposing"}, GoTo(v, pc), NEW w \in Workers
    PROVE  AttemptStep(w)
BY DEF GoTo, AttemptStep, TypeInv, TypeOK, Worker

\* Handing a transaction to a thread.
LEMMA AwaitSteps ==
    ASSUME TypeInv, NEW v \in Workers, wk[v].pc # "idle",
           NEW thread, Await(v, thread), NEW w \in Workers
    PROVE  AttemptStep(w)
<1>1. wk' = [wk EXCEPT ![v] =
               [wk[v] EXCEPT !.pc = "waiting", !.plan = thread.plan]]
  BY DEF Await, TypeInv, TypeOK
<1>2. wk \in [Workers -> Worker] /\ wk[v] \in Worker
  BY DEF TypeInv, TypeOK
<1>3. LET new == [wk[v] EXCEPT !.pc = "waiting", !.plan = thread.plan]
      IN  /\ new.pc = "waiting" /\ new.job = wk[v].job
          /\ new.token = wk[v].token /\ new.result = wk[v].result
  BY <1>2 DEF Worker
<1> QED  BY <1>1, <1>2, <1>3 DEF AttemptStep

\* Ending an attempt.
LEMMA IdleSteps ==
    ASSUME TypeInv, NEW v \in Workers, wk' = [wk EXCEPT ![v] = Idle],
           NEW w \in Workers
    PROVE  AttemptStep(w)
BY DEF AttemptStep, TypeInv, TypeOK

\* Claiming a job starts an attempt with the row's result.
LEMMA ClaimSteps ==
    ASSUME TypeInv, NEW v \in Workers, NEW j \in JobIds,
           NEW token \in FreshTokens, Claim(v, j, token), NEW w \in Workers
    PROVE  AttemptStep(w)
<1> DEFINE claim == [Idle EXCEPT !.pc = "claimed", !.job = j, !.token = token,
                                 !.attempts = jobs[j].attempts + 1,
                                 !.result = jobs[j].result]
<1>1. claim.pc = "claimed" /\ claim.job = j /\ claim.result = jobs[j].result
  BY DEF Idle
<1>2. wk' = [wk EXCEPT ![v] = claim]
  BY DEF Claim
<1> HIDE DEF claim
<1>3. jobs'[j].result = jobs[j].result
  <2>1. jobs'[j] = ClaimRow(Swept[j], token)
    BY SweptTyped DEF Claim
  <2>2. Swept[j] \in JobRow /\ Swept[j].result = jobs[j].result
    BY SweptTyped
  <2>3. ClaimRow(Swept[j], token).result = Swept[j].result
    BY <2>2 DEF ClaimRow, JobRow, Row
  <2> QED  BY <2>1, <2>2, <2>3
<1> QED  BY <1>1, <1>2, <1>3 DEF AttemptStep, TypeInv, TypeOK

\* Planning moves an attempt on without changing its claim.
LEMMA PlanningSteps ==
    ASSUME TypeInv, NEW v \in Workers, NEW w \in Workers,
           Inspect(v) \/ ScanFor(v) \/ PlanSnapshot(v) \/ PlanSave(v)
    PROVE  AttemptStep(w)
<1>1. wk \in [Workers -> Worker] /\ wk[v] \in Worker
  BY DEF TypeInv, TypeOK
<1>2. CASE Inspect(v)
  BY <1>2, GoToSteps, AwaitSteps DEF Inspect
<1>3. CASE ScanFor(v)
  <2> DEFINE scan == PinnedScan(jobs[wk[v].job])
  <2>1. CASE wk' = [wk EXCEPT ![v].pc = "scanned", ![v].scan = scan]
             /\ ~Approved(wk[v].result)
    <3> HIDE DEF scan
    <3>1. wk' = [wk EXCEPT ![v] =
                   [wk[v] EXCEPT !.pc = "scanned", !.scan = scan]]
      BY <1>1, <2>1
    <3>2. LET new == [wk[v] EXCEPT !.pc = "scanned", !.scan = scan]
          IN  /\ new.pc = "scanned" /\ new.job = wk[v].job
              /\ new.token = wk[v].token /\ new.result = wk[v].result
      BY <1>1 DEF Worker
    <3>3. wk[v].pc = "claimed" /\ wk[v].job \in DreamIds
      BY <1>3 DEF ScanFor
    <3> QED  BY <1>1, <2>1, <3>1, <3>2, <3>3 DEF AttemptStep
  <2> QED
    BY <1>3, <2>1, GoToSteps, AwaitSteps DEF ScanFor
<1>4. CASE PlanSnapshot(v)
  <2>1. PICK plan : wk' = [wk EXCEPT ![v].pc = "dreaming", ![v].plan = plan]
    BY <1>4 DEF PlanSnapshot
  <2>2. wk' = [wk EXCEPT ![v] =
                 [wk[v] EXCEPT !.pc = "dreaming", !.plan = plan]]
    BY <1>1, <2>1
  <2>3. LET new == [wk[v] EXCEPT !.pc = "dreaming", !.plan = plan]
        IN  /\ new.pc = "dreaming" /\ new.job = wk[v].job
            /\ new.token = wk[v].token /\ new.result = wk[v].result
    BY <1>1 DEF Worker
  <2>4. wk[v].pc = "scanned"
    BY <1>4 DEF PlanSnapshot
  <2> QED  BY <1>1, <2>2, <2>3, <2>4 DEF AttemptStep
<1>5. CASE PlanSave(v)
  <2>1. wk[v].pc = "dreaming"
    BY <1>5 DEF PlanSave
  <2>2. ASSUME NEW plan,
               wk' = [wk EXCEPT ![v].pc = "proposing", ![v].plan = plan]
        PROVE  AttemptStep(w)
    <3>1. wk' = [wk EXCEPT ![v] =
                   [wk[v] EXCEPT !.pc = "proposing", !.plan = plan]]
      BY <1>1, <2>2
    <3>2. LET new == [wk[v] EXCEPT !.pc = "proposing", !.plan = plan]
          IN  /\ new.pc = "proposing" /\ new.job = wk[v].job
              /\ new.token = wk[v].token /\ new.result = wk[v].result
      BY <1>1 DEF Worker
    <3> QED  BY <1>1, <2>1, <3>1, <3>2 DEF AttemptStep
  <2> QED  BY <1>5, <2>1, <2>2, GoToSteps, AwaitSteps DEF PlanSave
<1> QED  BY <1>2, <1>3, <1>4, <1>5

\* Every step takes an attempt on in one of the three ways.
LEMMA AttemptSteps ==
    ASSUME TypeInv, [Next]_vars, NEW w \in Workers
    PROVE  AttemptStep(w)
<1>1. ASSUME wk' = wk
      PROVE  AttemptStep(w)
  BY <1>1 DEF AttemptStep
<1>2. ASSUME NEW v \in Workers, WorkerStep(v) \/ Interrupt(v) \/ Crash(v)
      PROVE  AttemptStep(w)
  <2>1. CASE ClaimNothing(v)
    BY <1>1, <2>1 DEF ClaimNothing
  <2>2. CASE Propose(v) \/ Fail(v) \/ Crash(v)
    BY <2>2, IdleSteps DEF Propose, Fail, Crash
  <2>3. CASE Interrupt(v)
    BY <2>3, GoToSteps DEF Interrupt
  <2> QED
    BY <1>2, <2>1, <2>2, <2>3, ClaimSteps, PlanningSteps DEF WorkerStep
<1>3. ASSUME NEW t \in threads, ThreadStep(t)
      PROVE  AttemptStep(w)
  <2>1. t.worker \in Workers
    BY DEF TypeInv, TypeOK, Thread
  <2>2. ASSUME NEW pc \in {"idle", "failing", "proposing"}, Return(t, pc)
        PROVE  AttemptStep(w)
    <3>1. CASE wk' = [wk EXCEPT ![t.worker] = Idle]
      BY <2>1, <3>1, IdleSteps
    <3>2. CASE Awaited(t) /\ pc # "idle" /\ GoTo(t.worker, pc)
      BY <2>1, <3>2, GoToSteps DEF Awaited
    <3> QED  BY <1>1, <2>2, <3>1, <3>2 DEF Return, GoTo
  <2> QED
    BY <1>3, <2>2
       DEF ThreadStep, ThreadConflict, CaptureReview, CaptureCommit,
           DreamCommit
<1>4. CASE UNCHANGED vars
  BY <1>1, <1>4 DEF vars
<1> QED
  BY <1>1, <1>2, <1>3, <1>4
     DEF Next, Submit, Remember, Expire, Elapse, Review, Retry, Maintain,
         DreamSnapshot, DreamSave, DreamApply, ApplyProposed, ApplyPlan

Planning == {"dreaming", "waiting", "proposing"}

\* Every plan that may still be proposed or applied for a job, or has been: in
\* a thread, in an attempt, in the result an attempt was claimed with, in the
\* row.
PlansOf(j) ==
    {t.plan : t \in {s \in threads : s.job = j}}
    \cup {wk[w].plan : w \in {v \in Workers : /\ wk[v].job = j
                                            /\ wk[v].pc \in Planning}}
    \cup {wk[w].result.plan : w \in {v \in Workers :
                                      /\ wk[v].pc # "idle" /\ wk[v].job = j
                                      /\ wk[v].result # NoResult}}
    \cup {r.plan : r \in {jobs[j].result} \ {NoResult}}

\* What a planner is given: the next batch of a scan.
SnapshotPlan(scan) ==
    LET batch == FirstRows(Ahead(recs, scan.cursor, scan.end))
    IN  [gen |-> generation, change |-> NoChange,
         cursor |-> LastRow(batch, scan.cursor), writes |-> scan.writes,
         batch |-> batch]

\* The plans an attempt makes: a decision on its capture, or the one that was
\* approved; the next batch of its scan; a change for the batch it has read.
FreshPlan(j, plan) ==
    \/ /\ j \in CaptureIds
       /\ \/ plan.change \in Reconciliations(CaptureOps, j)
          \/ \E old \in PlansOf(j) : plan.change = old.change
    \/ /\ j \in DreamIds
       /\ \E w \in Workers :
            wk[w].pc = "scanned" /\ plan = SnapshotPlan(wk[w].scan)
    \/ /\ j \in DreamIds
       /\ \E old \in PlansOf(j) : \E c \in DreamChanges(old.batch) :
            plan = [old EXCEPT !.change = c]

Known(j, plan) == plan \in PlansOf(j) \/ FreshPlan(j, plan)

\* A thread is started by an attempt: with the approval and the plan of its
\* claim, or without an approval.
Started(t) ==
    \E w \in Workers :
        /\ wk[w].pc # "idle"
        /\ t.job = wk[w].job
        /\ t.token = wk[w].token
        /\ t.approved => Approves(wk[w].result, t.plan)
        /\ t.job \in DreamIds => t.approved \/ PolicyPermits(t.plan.change.op)
        /\ Known(t.job, t.plan)

\* A planner's change for the batch its attempt has read.
LEMMA PlannedKnown ==
    ASSUME TypeInv, ApprovalInv, NEW w \in Workers, PlanSave(w),
           NEW c \in DreamChanges(wk[w].plan.batch)
    PROVE  Known(wk[w].job, [wk[w].plan EXCEPT !.change = c])
<1>1. wk[w].pc = "dreaming" /\ wk[w].job \in DreamIds
  BY DEF PlanSave, ApprovalInv, PlannerUnapproved
<1>2. wk[w].plan \in PlansOf(wk[w].job)
  BY <1>1 DEF PlansOf, Planning
<1> QED  BY <1>1, <1>2 DEF Known, FreshPlan

\* Every thread was there before, or is started in the step.
LEMMA ThreadSteps ==
    ASSUME TypeInv, ApprovalInv, [Next]_vars, NEW t \in threads'
    PROVE  t \in threads \/ Started(t)
<1>1. ASSUME NEW w \in Workers, Inspect(w)
      PROVE  t \in threads \/ Started(t)
  <2>1. CASE UNCHANGED threads
    BY <2>1
  <2>2. ASSUME NEW c,
               Approved(wk[w].result) =>
                 /\ c = wk[w].result.plan.change
                 /\ wk[w].result.plan.gen = generation,
               ~Approved(wk[w].result) =>
                 c \in Reconciliations(CaptureOps, wk[w].job),
               Await(w, ThreadOf(w, [NoPlan EXCEPT !.gen = generation,
                                                   !.change = c]))
        PROVE  t \in threads \/ Started(t)
    <3> DEFINE plan == [NoPlan EXCEPT !.gen = generation, !.change = c]
    <3>1. plan.gen = generation /\ plan.change = c
      BY DEF NoPlan
    <3>2. /\ wk[w].pc # "idle" /\ wk[w].job \notin DreamIds
          /\ wk[w].job \in CaptureIds
      BY <1>1, IdsAssumption DEF Inspect
    <3> HIDE DEF plan
    <3>3. threads' = threads \cup {ThreadOf(w, plan)}
      BY <2>2 DEF Await, plan
    <3>4. Known(wk[w].job, plan)
      <4>1. CASE Approved(wk[w].result)
        <5>1. wk[w].result.plan \in PlansOf(wk[w].job)
          BY <3>2, <4>1 DEF Approved, PlansOf
        <5> QED  BY <2>2, <3>1, <3>2, <4>1, <5>1 DEF Known, FreshPlan
      <4>2. CASE ~Approved(wk[w].result)
        BY <2>2, <3>1, <3>2, <4>2 DEF Known, FreshPlan
      <4> QED  BY <4>1, <4>2
    <3> QED  BY <2>2, <3>1, <3>2, <3>3, <3>4 DEF Started, ThreadOf, Approves
  <2> QED  BY <1>1, <2>1, <2>2 DEF Inspect
<1>2. ASSUME NEW w \in Workers, ScanFor(w)
      PROVE  t \in threads \/ Started(t)
  <2>1. CASE UNCHANGED threads
    BY <2>1
  <2>2. CASE Approved(wk[w].result) /\ Await(w, ThreadOf(w, wk[w].result.plan))
    <3>1. Known(wk[w].job, wk[w].result.plan)
      BY <1>2, <2>2 DEF ScanFor, Approved, Known, PlansOf
    <3> QED
      BY <1>2, <2>2, <3>1 DEF ScanFor, Await, Started, ThreadOf, Approves
  <2> QED  BY <1>2, <2>1, <2>2 DEF ScanFor
<1>3. ASSUME NEW w \in Workers, PlanSave(w)
      PROVE  t \in threads \/ Started(t)
  <2>1. CASE UNCHANGED threads
    BY <2>1
  <2>2. ASSUME NEW c \in DreamChanges(wk[w].plan.batch), PolicyPermits(c.op),
               Await(w, ThreadOf(w, [wk[w].plan EXCEPT !.change = c]))
        PROVE  t \in threads \/ Started(t)
    <3> DEFINE plan == [wk[w].plan EXCEPT !.change = c]
    <3>1. plan.change = c
      BY DEF TypeInv, TypeOK, Worker, Plan
    <3>2. /\ wk[w].pc # "idle" /\ ~Approved(wk[w].result)
          /\ wk[w].job \in DreamIds
      BY <1>3 DEF PlanSave, ApprovalInv, PlannerUnapproved
    <3>3. Known(wk[w].job, plan)
      BY <1>3, <2>2, PlannedKnown
    <3> HIDE DEF plan
    <3>4. threads' = threads \cup {ThreadOf(w, plan)}
      BY <2>2 DEF Await, plan
    <3> QED  BY <2>2, <3>1, <3>2, <3>3, <3>4 DEF Started, ThreadOf
  <2> QED  BY <1>3, <2>1, <2>2 DEF PlanSave
<1>4. ASSUME threads' \subseteq threads
      PROVE  t \in threads \/ Started(t)
  BY <1>4
<1>5. ASSUME NEW w \in Workers, WorkerStep(w) \/ Interrupt(w) \/ Crash(w)
      PROVE  t \in threads \/ Started(t)
  BY <1>1, <1>2, <1>3, <1>5
     DEF WorkerStep, Claim, ClaimNothing, PlanSnapshot, Propose, Fail,
         Interrupt, Crash
<1>6. ASSUME NEW s \in threads, ThreadStep(s)
      PROVE  t \in threads \/ Started(t)
  BY <1>6
     DEF ThreadStep, ThreadConflict, CaptureReview, CaptureCommit,
         DreamCommit, Return
<1>7. CASE UNCHANGED vars
  BY <1>7 DEF vars
<1> QED
  BY <1>5, <1>6, <1>7
     DEF Next, Submit, Remember, Expire, Elapse, Review, Retry, Maintain,
         DreamSnapshot, DreamSave, DreamApply, ApplyProposed, ApplyPlan

\* Every step keeps the approvals in place.
LEMMA ApprovalInvStep ==
    TypeInv /\ ApprovalInv /\ [Next]_vars => ApprovalInv'
<1> SUFFICES ASSUME TypeInv, ApprovalInv, [Next]_vars
             PROVE  ApprovalInv'
  OBVIOUS
<1>1. TypeInv'
  BY TypeInvStep
<1>2. AttemptResult'
  <2> SUFFICES ASSUME NEW w \in Workers, wk'[w].pc # "idle",
                      Owns(jobs'[wk'[w].job], wk'[w].token)
               PROVE  jobs'[wk'[w].job].result = wk'[w].result
    BY DEF AttemptResult
  <2>1. AttemptStep(w) /\ wk'[w] # Idle
    BY AttemptSteps DEF Idle
  <2>2. CASE /\ wk'[w].job = wk[w].job
             /\ wk'[w].token = wk[w].token
             /\ wk'[w].result = wk[w].result
             /\ wk[w].pc = "idle" <=> wk'[w].pc = "idle"
    <3>1. wk[w].job \in JobIds
      BY <2>2 DEF TypeInv, WorkerShape
    <3>2. wk[w].token \notin FreshTokens
      BY DEF FreshTokens
    <3>3. /\ Owns(jobs[wk[w].job], wk[w].token)
          /\ jobs'[wk[w].job].result = jobs[wk[w].job].result
      BY <2>2, <3>1, <3>2, LeaseKept
    <3> QED  BY <2>2, <3>3 DEF ApprovalInv, AttemptResult
  <2> QED  BY <2>1, <2>2 DEF AttemptStep
<1>3. PlannerUnapproved'
  <2> SUFFICES ASSUME NEW w \in Workers, wk'[w].pc \in {"scanned", "dreaming"}
               PROVE  ~Approved(wk'[w].result) /\ wk'[w].job \in DreamIds
    BY DEF PlannerUnapproved
  <2>1. AttemptStep(w) /\ wk'[w] # Idle
    BY AttemptSteps DEF Idle
  <2> QED  BY <2>1 DEF AttemptStep, ApprovalInv, PlannerUnapproved
<1>4. ThreadApproval'
  <2> SUFFICES ASSUME NEW t \in threads'
               PROVE  /\ t.approved /\ Owns(jobs'[t.job], t.token) =>
                           Approves(jobs'[t.job].result, t.plan)
                      /\ t.job \in DreamIds =>
                           t.approved \/ PolicyPermits(t.plan.change.op)
    BY DEF ThreadApproval
  <2>1. t.job \in JobIds
    BY <1>1 DEF TypeInv, TypeOK, Thread
  <2>2. CASE t \in threads
    <3>1. t.token \notin FreshTokens
      BY <2>2 DEF FreshTokens
    <3>2. Owns(jobs'[t.job], t.token) =>
            /\ Owns(jobs[t.job], t.token)
            /\ jobs'[t.job].result = jobs[t.job].result
      BY <2>1, <3>1, LeaseKept
    <3> QED  BY <2>2, <3>2 DEF ApprovalInv, ThreadApproval
  <2>3. CASE Started(t)
    <3>1. PICK w \in Workers :
            /\ wk[w].pc # "idle"
            /\ t.job = wk[w].job
            /\ t.token = wk[w].token
            /\ t.approved => Approves(wk[w].result, t.plan)
            /\ t.job \in DreamIds =>
                 t.approved \/ PolicyPermits(t.plan.change.op)
      BY <2>3 DEF Started
    <3>2. t.token \notin FreshTokens
      BY <3>1 DEF FreshTokens
    <3>3. Owns(jobs'[t.job], t.token) =>
            /\ Owns(jobs[t.job], t.token)
            /\ jobs'[t.job].result = jobs[t.job].result
      BY <2>1, <3>2, LeaseKept
    <3> QED  BY <3>1, <3>3 DEF ApprovalInv, AttemptResult
  <2> QED  BY <2>2, <2>3, ThreadSteps
<1> QED  BY <1>2, <1>3, <1>4 DEF ApprovalInv

\* Nothing is claimed, planned or under way at first.
LEMMA ApprovalInit == Init => ApprovalInv
BY DEF Init, ApprovalInv, AttemptResult, PlannerUnapproved, ThreadApproval,
       Idle

\* A change that needs a reviewer is committed only for a row whose result
\* approves this change in the generation the commit starts from.
THEOREM ApprovalsHonoured == Spec => ApprovalHonoured
<1>1. Init => ApprovalInv
  BY ApprovalInit
<1>2. TypeInv /\ ApprovalInv /\ [Next]_vars =>
        \A j \in JobIds :
          jobs[j].status # "done" /\ jobs'[j].status = "done" =>
            LET plan == jobs'[j].result.plan IN
            \/ PolicyPermits(plan.change.op)
            \/ /\ Approved(jobs[j].result)
               /\ jobs[j].result.plan.change = plan.change
               /\ jobs[j].result.plan.gen = generation
  <2> SUFFICES ASSUME TypeInv, ApprovalInv, [Next]_vars, NEW j \in JobIds,
                      jobs[j].status # "done", jobs'[j].status = "done",
                      ~PolicyPermits(jobs'[j].result.plan.change.op)
               PROVE  /\ Approved(jobs[j].result)
                      /\ jobs[j].result.plan.change =
                           jobs'[j].result.plan.change
                      /\ jobs[j].result.plan.gen = generation
    OBVIOUS
  <2>1. Committed(j)
    <3>1. RowStep(j)
      BY RowSteps
    <3> QED
      BY <3>1 DEF RowStep, NoEffect, SameRow, Inserted, FirstOf, SweptAway, Claimed,
                  GivenUp, Reopened, Reviewed
  <2>2. PICK t \in threads :
          /\ t.job = j
          /\ LeaseHeld(jobs[j], t.token)
          /\ Current(t)
          /\ \/ PolicyPermits(t.plan.change.op)
             \/ t.approved
             \/ j \in DreamIds
          /\ jobs'[j].result = Applied(t.plan)
    BY <2>1 DEF Committed
  <2>3. jobs'[j].result.plan = t.plan
    BY <2>2 DEF Applied
  <2>4. t.approved
    BY <2>2, <2>3 DEF ApprovalInv, ThreadApproval
  <2>5. Approves(jobs[j].result, t.plan)
    BY <2>2, <2>4 DEF ApprovalInv, ThreadApproval, Owns, LeaseHeld
  <2>6. t.plan.gen = generation
    BY <2>2 DEF Current
  <2> QED  BY <2>3, <2>5, <2>6 DEF Approves
<1> QED
  BY <1>1, <1>2, TypeInvInit, TypeInvStep, ApprovalInvStep, PTL
     DEF Spec, ApprovalHonoured

(***************************************************************************)
(* Where plans come from.                                                  *)
(***************************************************************************)

\* The plan an attempt works on is one of its job, or is made in the step.
LEMMA AttemptPlans ==
    ASSUME TypeInv, ApprovalInv, [Next]_vars, NEW w \in Workers,
           wk'[w].pc \in Planning
    PROVE  Known(wk'[w].job, wk'[w].plan)
<1>1. wk \in [Workers -> Worker] /\ wk[w] \in Worker
  BY DEF TypeInv, TypeOK
<1>2. ASSUME wk'[w] = wk[w]
      PROVE  Known(wk'[w].job, wk'[w].plan)
  BY <1>2 DEF Known, PlansOf
<1>3. ASSUME NEW v \in Workers, wk' = [wk EXCEPT ![v] = Idle]
      PROVE  Known(wk'[w].job, wk'[w].plan)
  <2>1. v # w
    BY <1>1, <1>3 DEF Idle, Planning
  <2> QED  BY <1>1, <1>2, <1>3, <2>1
<1>4. ASSUME NEW v \in Workers, NEW pc, GoTo(v, pc),
             pc \in Planning => wk[v].pc \in Planning
      PROVE  Known(wk'[w].job, wk'[w].plan)
  <2>1. CASE v # w
    BY <1>1, <1>2, <1>4, <2>1 DEF GoTo
  <2>2. CASE v = w
    <3>1. wk'[w].pc = pc /\ wk'[w].job = wk[w].job /\ wk'[w].plan = wk[w].plan
      BY <1>1, <1>4, <2>2 DEF GoTo, Worker
    <3> QED  BY <1>4, <2>2, <3>1 DEF Known, PlansOf
  <2> QED  BY <2>1, <2>2
<1>5. ASSUME NEW v \in Workers, NEW plan, Await(v, ThreadOf(v, plan))
      PROVE  Known(wk'[w].job, wk'[w].plan)
  <2> DEFINE t == ThreadOf(v, plan)
  <2>1. CASE v # w
    BY <1>1, <1>2, <1>5, <2>1 DEF Await
  <2>2. CASE v = w
    <3>1. t \in threads' /\ t.job = wk[w].job /\ t.plan = plan
      BY <1>5, <2>2 DEF Await, ThreadOf
    <3>2. wk' = [wk EXCEPT ![v] = [wk[v] EXCEPT !.pc = "waiting",
                                                !.plan = plan]]
      BY <1>1, <1>5, <3>1 DEF Await
    <3>3. wk'[w].job = wk[w].job /\ wk'[w].plan = plan
      BY <1>1, <2>2, <3>2 DEF Worker
    <3>4. t \in threads \/ Started(t)
      BY <3>1, ThreadSteps
    <3> HIDE DEF t
    <3> QED  BY <3>1, <3>3, <3>4 DEF Started, Known, PlansOf
  <2> QED  BY <2>1, <2>2
<1>6. ASSUME NEW v \in Workers, NEW pc, NEW plan, pc \in Planning,
             wk' = [wk EXCEPT ![v].pc = pc, ![v].plan = plan],
             Known(wk[v].job, plan)
      PROVE  Known(wk'[w].job, wk'[w].plan)
  <2>1. CASE v # w
    BY <1>1, <1>2, <1>6, <2>1
  <2>2. CASE v = w
    <3>1. wk' = [wk EXCEPT ![v] = [wk[v] EXCEPT !.pc = pc, !.plan = plan]]
      BY <1>1, <1>6
    <3>2. wk'[w].job = wk[w].job /\ wk'[w].plan = plan
      BY <1>1, <2>2, <3>1 DEF Worker
    <3> QED  BY <1>6, <2>2, <3>2
  <2> QED  BY <2>1, <2>2
<1>7. ASSUME NEW v \in Workers, WorkerStep(v) \/ Interrupt(v) \/ Crash(v)
      PROVE  Known(wk'[w].job, wk'[w].plan)
  <2>1. CASE ClaimNothing(v)
    BY <1>2, <2>1 DEF ClaimNothing
  <2>2. CASE Propose(v) \/ Fail(v) \/ Crash(v)
    BY <1>3, <2>2 DEF Propose, Fail, Crash
  <2>3. CASE Interrupt(v)
    BY <1>4, <2>3 DEF Interrupt, Planning
  <2>4. ASSUME NEW j \in JobIds, NEW token \in FreshTokens, Claim(v, j, token)
        PROVE  Known(wk'[w].job, wk'[w].plan)
    <3> DEFINE claim == [Idle EXCEPT !.pc = "claimed", !.job = j,
                                     !.token = token,
                                     !.attempts = jobs[j].attempts + 1,
                                     !.result = jobs[j].result]
    <3>1. wk' = [wk EXCEPT ![v] = claim]
      BY <2>4 DEF Claim
    <3>2. claim.pc = "claimed"
      BY DEF Idle
    <3> HIDE DEF claim
    <3>3. v # w
      BY <1>1, <3>1, <3>2 DEF Planning
    <3> QED  BY <1>1, <1>2, <3>1, <3>3
  <2>5. CASE Inspect(v)
    BY <1>4, <1>5, <2>5 DEF Inspect, Planning
  <2>6. CASE ScanFor(v)
    <3>1. ASSUME NEW scan,
                 wk' = [wk EXCEPT ![v].pc = "scanned", ![v].scan = scan]
          PROVE  Known(wk'[w].job, wk'[w].plan)
      <4>1. v # w
        BY <1>1, <3>1 DEF Planning, Worker
      <4> QED  BY <1>1, <1>2, <3>1, <4>1
    <3> QED  BY <1>4, <1>5, <2>6, <3>1 DEF ScanFor, Planning
  <2>7. CASE PlanSnapshot(v)
    <3>1. wk' = [wk EXCEPT ![v].pc = "dreaming",
                           ![v].plan = SnapshotPlan(wk[v].scan)]
      BY <2>7 DEF PlanSnapshot, SnapshotPlan
    <3>2. wk[v].pc = "scanned" /\ wk[v].job \in DreamIds
      BY <2>7 DEF PlanSnapshot, ApprovalInv, PlannerUnapproved
    <3>3. Known(wk[v].job, SnapshotPlan(wk[v].scan))
      BY <3>2 DEF Known, FreshPlan
    <3>4. "dreaming" \in Planning
      BY DEF Planning
    <3> QED  BY <1>6, <3>1, <3>3, <3>4
  <2>8. CASE PlanSave(v)
    <3>1. ASSUME NEW c \in DreamChanges(wk[v].plan.batch),
                 wk' = [wk EXCEPT ![v].pc = "proposing",
                                  ![v].plan = [wk[v].plan EXCEPT !.change = c]]
          PROVE  Known(wk'[w].job, wk'[w].plan)
      <4>1. "proposing" \in Planning /\ wk[v].pc = "dreaming"
        BY <2>8 DEF PlanSave, Planning
      <4>2. Known(wk[v].job, [wk[v].plan EXCEPT !.change = c])
        BY <2>8, <3>1, PlannedKnown
      <4> QED  BY <1>6, <3>1, <4>1, <4>2
    <3> QED  BY <1>4, <1>5, <2>8, <3>1 DEF PlanSave, Planning
  <2> QED
    BY <1>7, <2>1, <2>2, <2>3, <2>4, <2>5, <2>6, <2>7, <2>8 DEF WorkerStep
<1>8. ASSUME NEW t \in threads, ThreadStep(t)
      PROVE  Known(wk'[w].job, wk'[w].plan)
  <2>1. t.worker \in Workers
    BY DEF TypeInv, TypeOK, Thread
  <2>2. ASSUME NEW pc \in {"idle", "failing", "proposing"}, Return(t, pc)
        PROVE  Known(wk'[w].job, wk'[w].plan)
    <3>1. CASE wk' = wk
      BY <1>2, <3>1
    <3>2. CASE wk' = [wk EXCEPT ![t.worker] = Idle]
      BY <1>3, <2>1, <3>2
    <3>3. CASE Awaited(t) /\ GoTo(t.worker, pc)
      BY <1>4, <2>1, <3>3 DEF Awaited, Planning
    <3> QED  BY <2>2, <3>1, <3>2, <3>3 DEF Return, GoTo
  <2> QED
    BY <1>8, <2>2
       DEF ThreadStep, ThreadConflict, CaptureReview, CaptureCommit,
           DreamCommit
<1>9. CASE UNCHANGED wk
  BY <1>2, <1>9
<1> QED
  BY <1>7, <1>8, <1>9
     DEF Next, vars, Submit, Remember, Expire, Elapse, Review, Retry, Maintain,
         DreamSnapshot, DreamSave, DreamApply, ApplyProposed, ApplyPlan

\* Every plan of a job was one of its plans before, or is made in the step.
LEMMA PlanSteps ==
    ASSUME TypeInv, ApprovalInv, [Next]_vars, NEW j \in JobIds,
           NEW plan \in PlansOf(j)'
    PROVE  Known(j, plan)
<1>1. CASE \E t \in threads' : t.job = j /\ t.plan = plan
  <2>1. PICK t \in threads' : t.job = j /\ t.plan = plan
    BY <1>1
  <2>2. t \in threads \/ Started(t)
    BY <2>1, ThreadSteps
  <2> QED  BY <2>1, <2>2 DEF Started, Known, PlansOf
<1>2. CASE \E w \in Workers : /\ wk'[w].job = j /\ wk'[w].pc \in Planning
                             /\ wk'[w].plan = plan
  BY <1>2, AttemptPlans
<1>3. CASE \E w \in Workers : /\ wk'[w].pc # "idle" /\ wk'[w].job = j
                             /\ wk'[w].result # NoResult
                             /\ wk'[w].result.plan = plan
  <2>1. PICK w \in Workers : /\ wk'[w].pc # "idle" /\ wk'[w].job = j
                             /\ wk'[w].result # NoResult
                             /\ wk'[w].result.plan = plan
    BY <1>3
  <2>2. AttemptStep(w) /\ wk'[w] # Idle
    BY <2>1, AttemptSteps DEF Idle
  <2> QED  BY <2>1, <2>2 DEF AttemptStep, Known, PlansOf
<1>4. CASE jobs'[j].result # NoResult /\ jobs'[j].result.plan = plan
  <2>1. RowStep(j)
    BY RowSteps
  <2>2. CASE jobs'[j].result = jobs[j].result
    BY <1>4, <2>2 DEF Known, PlansOf
  <2>3. CASE GivenUp(j)
    BY <1>4, <2>3 DEF GivenUp, Known, PlansOf, Planning
  <2>4. CASE Committed(j)
    BY <1>4, <2>4 DEF Committed, Applied, Known, PlansOf
  <2>5. CASE Reviewed(j)
    BY <1>4, <2>5 DEF Reviewed, Known, PlansOf
  <2> QED
    BY <1>4, <2>1, <2>2, <2>3, <2>4, <2>5
       DEF RowStep, NoEffect, SameRow, Inserted, FirstOf, SweptAway, Claimed,
           Reopened
<1> QED  BY <1>1, <1>2, <1>3, <1>4 DEF PlansOf

\* The plans of a job are plans.
LEMMA PlansTyped ==
    ASSUME TypeInv, NEW j \in JobIds, NEW plan \in PlansOf(j)
    PROVE  plan \in Plan
<1>1. \A t \in threads : t.plan \in Plan
  BY DEF TypeInv, TypeOK, Thread
<1>2. \A w \in Workers : /\ wk[w].plan \in Plan
                         /\ wk[w].result \in Result \cup {NoResult}
  BY DEF TypeInv, TypeOK, Worker
<1>3. jobs[j].result \in Result \cup {NoResult}
  BY DEF TypeInv, TypeOK, Row

<1> QED  BY <1>1, <1>2, <1>3 DEF PlansOf, Result

(***************************************************************************)
(* What is acknowledged is what is stored.                                 *)
(***************************************************************************)

\* A change of a capture stores the memory of that job; a change of a dream
\* stores nothing or a record of its own.
OwnChange(j, c) ==
    IF j \in CaptureIds THEN c.id = j /\ c.op \notin {"none", "merge"}
    ELSE c.op \in {"none", "merge"} \/ c.id \in NoteIds

PlansOwned == \A j \in JobIds : \A plan \in PlansOf(j) : OwnChange(j, plan.change)

ForegroundOwned ==
    fg.plan.change.op \in {"none", "merge"} \/ fg.plan.change.id \in NoteIds

AckInv == AckMatchesStore /\ PlansOwned /\ ForegroundOwned

\* A record exists after a change if it did before or the change creates it.
LEMMA ChangeStores ==
    ASSUME NEW rs \in [RecordIds -> Record], NEW c \in Change,
           Applicable(rs, c), NEW g \in Nat, NEW r \in RecordIds
    PROVE  ApplyChange(rs, c, g)[r].status # "absent" <=>
             \/ rs[r].status # "absent"
             \/ r = c.id /\ c.op \notin {"none", "merge", "attach",
                                          "attach_exact"}
<1>1. c.op \in Ops /\ \A st : Put(st, g).status = st
  BY DEF Change, Put
<1>2. HasTarget(c.op) <=> c.op \notin {"none", "create"}
  BY DEF HasTarget
<1>3. CASE c.op = "none"
  BY <1>3 DEF ApplyChange
<1>4. CASE c.op \in {"create", "exception"}
  BY <1>1, <1>4 DEF ApplyChange
<1>5. CASE c.op \in {"attach", "attach_exact"}
  BY <1>1, <1>2, <1>5 DEF ApplyChange, Applicable
<1>6. CASE c.op = "supersede"
  BY <1>1, <1>2, <1>6 DEF ApplyChange, Applicable
<1>7. CASE c.op = "conflict"
  BY <1>1, <1>2, <1>7 DEF ApplyChange, Applicable
<1>8. CASE c.op = "merge"
  BY <1>1, <1>2, <1>8 DEF ApplyChange, Applicable
<1> QED  BY <1>1, <1>3, <1>4, <1>5, <1>6, <1>7, <1>8 DEF Ops

\* The decisions a reconciler may return for a record are about that record.
LEMMA ReconciliationOwned ==
    ASSUME NEW ops, NEW id, NEW c \in Reconciliations(ops, id)
    PROVE  c.id = id /\ c.op \notin {"none", "merge"}
BY DEF Reconciliations

\* What a planner may propose for a batch is a change of a dream.
LEMMA DreamChangesOwned ==
    ASSUME NEW batch, NEW c \in DreamChanges(batch)
    PROVE  c.op \in {"none", "merge"} \/ c.id \in NoteIds
<1>1. \A n \in NoteIds : \A d \in Reconciliations(DreamOps, n) : d.id = n
  BY ReconciliationOwned
<1> QED  BY <1>1 DEF DreamChanges, NoChange

\* Plans stay within what their job may change.
LEMMA PlansOwnedStep ==
    ASSUME TypeInv, ApprovalInv, PlansOwned, [Next]_vars
    PROVE  PlansOwned'
<1> SUFFICES ASSUME NEW j \in JobIds, NEW plan \in PlansOf(j)'
             PROVE  OwnChange(j, plan.change)
  BY DEF PlansOwned, OwnChange
<1>1. Known(j, plan)
  BY PlanSteps
<1>2. CASE plan \in PlansOf(j)
  BY <1>2 DEF PlansOwned
<1>3. CASE j \in CaptureIds /\ plan.change \in Reconciliations(CaptureOps, j)
  BY <1>3, ReconciliationOwned DEF OwnChange
<1>4. CASE \E old \in PlansOf(j) : plan.change = old.change
  BY <1>4 DEF PlansOwned
<1>5. CASE /\ j \in DreamIds
           /\ \E w \in Workers : plan = SnapshotPlan(wk[w].scan)
  <2>1. plan.change = NoChange
    BY <1>5 DEF SnapshotPlan
  <2> QED  BY <1>5, <2>1, IdsAssumption DEF OwnChange, NoChange
<1>6. CASE /\ j \in DreamIds
           /\ \E old \in PlansOf(j) : \E c \in DreamChanges(old.batch) :
                plan = [old EXCEPT !.change = c]
  <2>0. PICK old \in PlansOf(j) : \E c \in DreamChanges(old.batch) :
          plan = [old EXCEPT !.change = c]
    BY <1>6
  <2>1. PICK c \in DreamChanges(old.batch) : plan = [old EXCEPT !.change = c]
    BY <2>0
  <2>2. plan.change = c
    <3>1. old \in Plan
      BY PlansTyped
    <3> QED  BY <2>1, <3>1 DEF Plan
  <2> QED
    BY <1>6, <2>1, <2>2, DreamChangesOwned, IdsAssumption DEF OwnChange
<1> QED  BY <1>1, <1>2, <1>3, <1>4, <1>5, <1>6 DEF Known, FreshPlan

\* So does the plan of a caller.
LEMMA ForegroundOwnedStep ==
    ASSUME TypeInv, ForegroundOwned, [Next]_vars
    PROVE  ForegroundOwned'
<1>1. CASE UNCHANGED fg
  BY <1>1 DEF ForegroundOwned
<1>2. CASE fg' = NoDream
  BY <1>2 DEF ForegroundOwned, NoDream, NoPlan, NoChange
<1>3. CASE DreamSnapshot
  <2>1. fg'.plan.change = NoChange
    BY <1>3 DEF DreamSnapshot
  <2> QED  BY <2>1 DEF ForegroundOwned, NoChange
<1>4. CASE DreamSave
  <2>1. CASE fg.plan.gen # generation
    BY <1>2, <1>4, <2>1 DEF DreamSave
  <2>2. CASE fg.plan.gen = generation
    <3>1. PICK c \in DreamChanges(fg.plan.batch) :
            fg' = [pc |-> "saved", plan |-> [fg.plan EXCEPT !.change = c]]
      BY <1>4, <2>2 DEF DreamSave
    <3>2. fg'.plan.change = c
      BY <3>1 DEF TypeInv, TypeOK, ForegroundDream, Plan
    <3> QED  BY <3>2, DreamChangesOwned DEF ForegroundOwned
  <2> QED  BY <2>1, <2>2
<1> QED
  BY <1>1, <1>2, <1>3, <1>4
     DEF Next, vars, Submit, Remember, WorkerStep, Claim, ClaimNothing,
         Inspect, ScanFor, PlanSnapshot, PlanSave, Propose, Fail, Interrupt,
         Crash, ThreadStep, ThreadConflict, CaptureReview, CaptureCommit,
         DreamCommit, Expire, Elapse, Review, Retry, Maintain, DreamApply,
         ApplyProposed

\* Without an effect a row neither becomes done nor changes when it is.
LEMMA DoneKept ==
    ASSUME TypeInv, [Next]_vars, NEW j \in JobIds, commits'[j] = commits[j]
    PROVE  /\ jobs'[j].status = "done" <=> jobs[j].status = "done"
           /\ jobs[j].status = "done" => jobs'[j].result = jobs[j].result
<1>1. commits[j] \in Nat
  BY DEF TypeInv, TypeOK
<1>2. NoEffect(j)
  BY <1>1, RowSteps DEF RowStep
<1> QED
  BY <1>2 DEF NoEffect, SameRow, Inserted, FirstOf, SweptAway, Claimed,
              Claimable, GivenUp, LeaseHeld, Reopened, Reviewed

\* The commit of a capture stores its memory and acknowledges it.
LEMMA CommittedStored ==
    ASSUME TypeInv, AckInv, [Next]_vars, NEW t \in threads, CaptureCommit(t),
           NEW j \in CaptureIds
    PROVE  recs'[j].status # "absent" <=>
             /\ jobs'[j].status = "done"
             /\ jobs'[j].result.plan.change.op \notin {"attach", "attach_exact"}
<1> DEFINE c == t.plan.change
<1>1. /\ t.job \in CaptureIds /\ j \in JobIds /\ j \in RecordIds
      /\ generation + 1 \in Nat /\ recs \in [RecordIds -> Record]
  BY IdsAssumption DEF CaptureCommit, JobIds, TypeInv, TypeOK
<1>2. c \in Change
  BY ThreadTypes DEF Plan
<1>3. c.id = t.job /\ c.op \notin {"none", "merge"}
  BY <1>1 DEF AckInv, PlansOwned, PlansOf, OwnChange, JobIds
<1>4. /\ Applicable(recs, c)
      /\ recs' = ApplyChange(recs, c, generation + 1)
      /\ commits' = [commits EXCEPT ![t.job] = @ + 1]
  BY DEF CaptureCommit, Current
<1>5. recs'[j].status # "absent" <=>
        \/ recs[j].status # "absent"
        \/ j = c.id /\ c.op \notin {"none", "merge", "attach", "attach_exact"}
  <2> HIDE DEF c
  <2> QED  BY <1>1, <1>2, <1>4, ChangeStores
<1>6. CASE j = t.job
  <2>1. recs[j].status = "absent"
    BY <1>3, <1>4, <1>6 DEF Applicable
  <2>2. commits'[j] # commits[j]
    BY <1>1, <1>4, <1>6 DEF TypeInv, TypeOK
  <2>3. Committed(j)
    BY <1>1, <2>2, RowSteps DEF RowStep
  <2>4. jobs'[j].status = "done" /\ jobs'[j].result = Applied(t.plan)
    BY <1>6, <2>3 DEF Committed, CaptureCommit, Return
  <2> QED  BY <1>3, <1>5, <1>6, <2>1, <2>4 DEF Applied
<1>7. CASE j # t.job
  <2>1. commits'[j] = commits[j]
    BY <1>1, <1>4, <1>7 DEF TypeInv, TypeOK
  <2> QED  BY <1>1, <1>3, <1>5, <1>7, <2>1, DoneKept DEF AckInv, AckMatchesStore
<1> QED  BY <1>6, <1>7

\* Every other step leaves the effect of a capture and its memory as they are.
LEMMA OthersKeep ==
    ASSUME TypeInv, AckInv, [Next]_vars, NEW j \in CaptureIds,
           ~ \E t \in threads : CaptureCommit(t)
    PROVE  /\ commits'[j] = commits[j]
           /\ recs'[j].status # "absent" <=> recs[j].status # "absent"
<1>1. /\ j \in JobIds /\ j \in RecordIds /\ j \notin NoteIds /\ j \notin DreamIds
      /\ generation + 1 \in Nat /\ recs \in [RecordIds -> Record]
  BY IdsAssumption DEF JobIds, TypeInv, TypeOK
<1>2. ASSUME NEW c \in Change, Applicable(recs, c),
             c.op \in {"none", "merge"} \/ c.id \in NoteIds,
             recs' = ApplyChange(recs, c, generation + 1)
      PROVE  recs'[j].status # "absent" <=> recs[j].status # "absent"
  BY <1>1, <1>2, ChangeStores
<1>3. ASSUME NEW n \in NoteIds, NEW c \in Reconciliations(NoteOps, n),
             Remember(c)
      PROVE  /\ commits'[j] = commits[j]
             /\ recs'[j].status # "absent" <=> recs[j].status # "absent"
  <2>1. c \in Change
    BY ReconciliationTypes, IdsAssumption, OpsAssumption
  <2>2. c.id \in NoteIds
    BY ReconciliationOwned
  <2>3. /\ Applicable(recs, c) /\ UNCHANGED commits
        /\ recs' = ApplyChange(recs, c, generation + 1)
    BY <1>3 DEF Remember
  <2> QED  BY <1>2, <2>1, <2>2, <2>3
<1>4. ASSUME NEW t \in threads, DreamCommit(t)
      PROVE  /\ commits'[j] = commits[j]
             /\ recs'[j].status # "absent" <=> recs[j].status # "absent"
  <2>1. /\ t.plan.change \in Change /\ t.job \in JobIds
    BY ThreadTypes DEF Plan
  <2>2. /\ t.job \in DreamIds /\ Applicable(recs, t.plan.change)
        /\ commits' = [commits EXCEPT ![t.job] = @ + 1]
        /\ recs' = ApplyChange(recs, t.plan.change, generation + 1)
    BY <1>4 DEF DreamCommit, Current
  <2>3. t.plan \in PlansOf(t.job)
    BY DEF PlansOf
  <2>4. t.plan.change.op \in {"none", "merge"} \/ t.plan.change.id \in NoteIds
    BY <2>1, <2>2, <2>3, IdsAssumption DEF AckInv, PlansOwned, OwnChange
  <2>5. commits'[j] = commits[j]
    BY <1>1, <2>2 DEF TypeInv, TypeOK
  <2> QED  BY <1>2, <2>1, <2>2, <2>4, <2>5
<1>5. ASSUME NEW plan \in Plan, ApplyPlan(plan),
             plan.change.op \in {"none", "merge"} \/ plan.change.id \in NoteIds
      PROVE  /\ commits'[j] = commits[j]
             /\ recs'[j].status # "absent" <=> recs[j].status # "absent"
  <2>1. plan.change \in Change
    BY DEF Plan
  <2>2. /\ Applicable(recs, plan.change) /\ UNCHANGED commits
        /\ recs' = ApplyChange(recs, plan.change, generation + 1)
    BY <1>5 DEF ApplyPlan
  <2> QED  BY <1>2, <1>5, <2>1, <2>2
<1>6. CASE DreamApply /\ ~UNCHANGED recs
  BY <1>5, <1>6
     DEF DreamApply, AckInv, ForegroundOwned, TypeInv, TypeOK, ForegroundDream
<1>7. ASSUME NEW d \in DreamIds, ApplyProposed(d)
      PROVE  /\ commits'[j] = commits[j]
             /\ recs'[j].status # "absent" <=> recs[j].status # "absent"
  <2>1. /\ d \in JobIds /\ d \notin CaptureIds
        /\ jobs[d].result \in Result /\ jobs[d].result # NoResult
    BY <1>7, AbsenceAssumption, IdsAssumption
       DEF ApplyProposed, TypeInv, ProposalShape, JobIds
  <2>2. jobs[d].result.plan \in PlansOf(d) /\ jobs[d].result.plan \in Plan
    BY <2>1 DEF PlansOf, Result
  <2> QED
    BY <1>5, <1>7, <2>1, <2>2
       DEF ApplyProposed, AckInv, PlansOwned, OwnChange
<1>8. ASSUME NEW old \in SUBSET Superseded, NEW finished, Maintain(old, finished)
      PROVE  /\ commits'[j] = commits[j]
             /\ recs'[j].status # "absent" <=> recs[j].status # "absent"
  <2>1. recs'[j] = IF j \in old THEN Put("archived", generation + 1)
                   ELSE recs[j]
    BY <1>1, <1>8 DEF Maintain
  <2> QED  BY <1>8, <2>1 DEF Maintain, Superseded, Put
<1>9. CASE UNCHANGED <<recs, commits>>
  BY <1>9
<1>10. CASE DreamApply
  BY <1>6, <1>9, <1>10 DEF DreamApply, ApplyPlan
<1> QED
  BY <1>3, <1>4, <1>7, <1>8, <1>9, <1>10
     DEF Next, vars, Submit, WorkerStep, Claim, ClaimNothing,
         Inspect, ScanFor, PlanSnapshot, PlanSave, Propose, Fail, Interrupt,
         Crash, ThreadStep, ThreadConflict, CaptureReview, Expire, Elapse,
         Review, Retry, DreamSnapshot, DreamSave

\* A memory whose id is the job's exists exactly when the job is acknowledged
\* with a decision that stores it.
THEOREM AcksMatchStore == Spec => []AckMatchesStore
<1>1. Init => AckInv
  BY IdsAssumption
     DEF Init, AckInv, AckMatchesStore, PlansOwned, PlansOf, ForegroundOwned,
         AbsentRow, Idle, NoDream, NoPlan, NoChange, Put, Planning, JobIds
<1>2. TypeInv /\ ApprovalInv /\ AckInv /\ [Next]_vars => AckInv'
  <2> SUFFICES ASSUME TypeInv, ApprovalInv, AckInv, [Next]_vars
               PROVE  AckInv'
    OBVIOUS
  <2>1. PlansOwned' /\ ForegroundOwned'
    BY PlansOwnedStep, ForegroundOwnedStep DEF AckInv
  <2>2. ASSUME NEW j \in CaptureIds
        PROVE  recs'[j].status # "absent" <=>
                 /\ jobs'[j].status = "done"
                 /\ jobs'[j].result.plan.change.op \notin
                      {"attach", "attach_exact"}
    <3>1. CASE \E t \in threads : CaptureCommit(t)
      BY <3>1, CommittedStored
    <3>2. CASE ~ \E t \in threads : CaptureCommit(t)
      BY <3>2, OthersKeep, DoneKept DEF AckInv, AckMatchesStore, JobIds
    <3> QED  BY <3>1, <3>2
  <2> QED  BY <2>1, <2>2 DEF AckInv, AckMatchesStore
<1>3. AckInv => AckMatchesStore
  BY DEF AckInv
<1> QED
  BY <1>1, <1>2, <1>3, TypeInvInit, TypeInvStep, ApprovalInit,
     ApprovalInvStep, PTL DEF Spec

(***************************************************************************)
(* Maintenance implements JobLifecycle.                                    *)
(***************************************************************************)

\* The version of the store never goes back.
LEMMA GenerationGrows ==
    ASSUME TypeInv, [Next]_vars
    PROVE  generation' \in Nat /\ generation' >= generation
<1>1. generation \in Nat
  BY DEF TypeInv, TypeOK
<1>2. CASE UNCHANGED generation
  BY <1>1, <1>2
<1>3. ASSUME NEW plan, generation' = DreamGeneration(plan)
      PROVE  generation' \in Nat /\ generation' >= generation
  BY <1>1, <1>3 DEF DreamGeneration
<1>4. ASSUME NEW old, NEW finished, Maintain(old, finished)
      PROVE  generation' \in Nat /\ generation' >= generation
  <2>1. generation' = IF old = {} THEN generation ELSE generation + 1
    BY <1>4 DEF Maintain
  <2> QED  BY <1>1, <2>1
<1>5. CASE generation' = generation + 1
  BY <1>1, <1>5
<1>6. ASSUME NEW w \in Workers, WorkerStep(w) \/ Interrupt(w) \/ Crash(w)
      PROVE  UNCHANGED generation
  BY <1>6 DEF WorkerStep, Claim, ClaimNothing, Inspect, ScanFor, PlanSnapshot,
              PlanSave, Propose, Fail, Interrupt, Crash
<1>7. ASSUME NEW t \in threads, ThreadStep(t)
      PROVE  \/ UNCHANGED generation
             \/ generation' = generation + 1
             \/ generation' = DreamGeneration(t.plan)
  BY <1>7 DEF ThreadStep, ThreadConflict, CaptureReview, CaptureCommit,
              DreamCommit
<1>8. ASSUME NEW c, Remember(c)
      PROVE  generation' = generation + 1
  BY <1>8 DEF Remember
<1>9. ASSUME \/ DreamSnapshot \/ DreamSave \/ DreamApply
             \/ \E d \in DreamIds : ApplyProposed(d)
      PROVE  UNCHANGED generation \/ \E p : generation' = DreamGeneration(p)
  BY <1>9 DEF DreamSnapshot, DreamSave, DreamApply, ApplyProposed, ApplyPlan
<1>10. ASSUME \/ UNCHANGED vars
              \/ \E j \in CaptureIds : Submit(j)
              \/ \E j \in JobIds : Expire(j) \/ Elapse(j)
              \/ \E j \in JobIds :
                   Review(j, TRUE) \/ Review(j, FALSE) \/ Retry(j)
       PROVE  UNCHANGED generation
  BY <1>10 DEF vars, Submit, Expire, Elapse, Review, Retry
<1> QED
  BY <1>2, <1>3, <1>4, <1>5, <1>6, <1>7, <1>8, <1>9, <1>10 DEF Next

\* A step has the effect of one job at most, and then it moves the store on.
LEMMA SingleEffect ==
    ASSUME TypeInv, [Next]_vars, NEW j \in JobIds,
           commits'[j] = commits[j] + 1
    PROVE  /\ generation' > generation
           /\ \A i \in JobIds \ {j} : commits'[i] = commits[i]
<1>1. /\ generation \in Nat /\ commits[j] \in Nat
      /\ commits \in [JobIds -> Nat]
  BY DEF TypeInv, TypeOK
<1>2. PICK t \in threads : CaptureCommit(t) \/ DreamCommit(t)
  <2>1. commits' # commits
    BY <1>1
  <2> QED
    BY <2>1
       DEF Next, vars, Submit, Remember, WorkerStep, Claim, ClaimNothing,
           Inspect, ScanFor, PlanSnapshot, PlanSave, Propose, Fail, Interrupt,
           Crash, ThreadStep, ThreadConflict, CaptureReview, Expire, Elapse,
           Review, Retry, Maintain, DreamSnapshot, DreamSave, DreamApply,
           ApplyProposed, ApplyPlan
<1>3. commits' = [commits EXCEPT ![t.job] = @ + 1]
  BY <1>2 DEF CaptureCommit, DreamCommit
<1>4. t.job = j
  BY <1>1, <1>3
<1>5. generation' > generation
  BY <1>1, <1>2 DEF CaptureCommit, DreamCommit, DreamGeneration
<1> QED  BY <1>1, <1>3, <1>4, <1>5

\* Every row moves along an edge of the abstract specification, or stays.
LEMMA EdgeSteps ==
    ASSUME TypeInv, ApprovalInv, [Next]_vars, NEW j \in JobIds
    PROVE  Lifecycle!Edge(j)
<1>1. TypeInv' /\ RowStep(j)
  BY TypeInvStep, RowSteps
<1>2. /\ jobs[j] \in JobRow /\ jobs'[j] \in JobRow
      /\ generation \in Nat
  BY <1>1 DEF TypeInv, TypeOK, JobRow
<1> DEFINE Moved(from, to) ==
             /\ PhaseOf(jobs[j].status) \in from
             /\ PhaseOf(jobs'[j].status) = to
             /\ OutcomeOf(jobs'[j]) = OutcomeOf(jobs[j])
             /\ commits'[j] = commits[j]
<1>3. \A from, to : Moved(from, to) => Lifecycle!Moves(j, from, to)
  BY DEF Lifecycle!Moves
<1>4. CASE NoEffect(j) /\ commits'[j] = commits[j]
  <2>1. CASE SameRow(jobs[j], jobs'[j])
    <3>1. Moved({PhaseOf(jobs[j].status)}, PhaseOf(jobs[j].status))
      BY <1>4, <2>1 DEF SameRow, OutcomeOf
    <3>2. TicketOf(jobs'[j]) = TicketOf(jobs[j])
      BY <2>1 DEF SameRow, TicketOf
    <3> QED  BY <1>3, <3>1, <3>2 DEF Lifecycle!Edge, Lifecycle!Stays
  <2>2. CASE ~SameRow(jobs[j], jobs'[j])
    <3>1. jobs[j].status # "done" /\ jobs'[j].status # "done"
      BY <1>4, <2>2 DEF NoEffect, Inserted, FirstOf, SweptAway, Claimed,
                        Claimable, GivenUp, LeaseHeld, Reopened, Reviewed
    <3>2. OutcomeOf(jobs'[j]) = OutcomeOf(jobs[j])
      BY <3>1 DEF OutcomeOf
    <3> DEFINE from == PhaseOf(jobs[j].status)
               to == PhaseOf(jobs'[j].status)
    <3>3. \A phases : from \in phases => Lifecycle!Moves(j, phases, to)
      BY <1>3, <1>4, <3>2
    <3>4. CASE Inserted(j)
      <4>1. from = "absent" /\ to = "queued" /\ TicketOf(jobs'[j]) = None
        BY <3>4 DEF Inserted, FirstOf, PhaseOf, Unsettled, TicketOf, Approved
      <4> QED
        BY <3>3, <4>1 DEF Lifecycle!Edge, Lifecycle!Submitted
    <3>5. CASE SweptAway(j)
      <4>1. /\ from = "queued" /\ to = "failed"
            /\ TicketOf(jobs'[j]) = TicketOf(jobs[j])
        BY <3>5 DEF SweptAway, PhaseOf, Unsettled, TicketOf
      <4> QED
        BY <3>3, <4>1 DEF Lifecycle!Edge, Lifecycle!GivenUp
    <3>6. CASE Claimed(j)
      <4>1. /\ from = "queued" /\ to = "queued"
            /\ TicketOf(jobs'[j]) = TicketOf(jobs[j])
        BY <3>6 DEF Claimed, Claimable, PhaseOf, Unsettled, TicketOf
      <4> QED
        BY <3>3, <4>1 DEF Lifecycle!Edge, Lifecycle!Stays
    <3>7. CASE GivenUp(j)
      <4>1. /\ from = "queued" /\ to \in {"review", "failed", "queued"}
            /\ TicketOf(jobs'[j]) = None
        BY <3>7
           DEF GivenUp, LeaseHeld, PhaseOf, Unsettled, TicketOf, Approved
      <4> QED
        BY <3>3, <4>1
           DEF Lifecycle!Edge, Lifecycle!Proposed, Lifecycle!GivenUp,
               Lifecycle!Retried
    <3>8. CASE Reopened(j)
      <4>1. /\ from \in {"failed", "review", "rejected"} /\ to = "queued"
            /\ TicketOf(jobs'[j]) = None
        BY <3>8 DEF Reopened, PhaseOf, Unsettled, TicketOf, Approved
      <4> QED
        BY <3>3, <4>1 DEF Lifecycle!Edge, Lifecycle!Reopened
    <3>9. CASE Reviewed(j)
      <4>1. from = "review"
        BY <3>9 DEF Reviewed, PhaseOf, Unsettled
      <4>2. CASE Approved(jobs'[j].result)
        <5>1. to = "queued" /\ jobs'[j].result.plan.gen = generation
          BY <3>9, <4>2 DEF Reviewed, PhaseOf, Unsettled
        <5>2. TicketOf(jobs'[j]) =
                [version |-> generation, change |-> jobs'[j].result.plan.change]
          BY <4>2, <5>1 DEF TicketOf
        <5>3. jobs'[j].result.plan.change \in Change
          BY <1>2, <4>2 DEF Approved, JobRow, Row, Result, Plan
        <5> QED
          BY <3>3, <4>1, <5>1, <5>2, <5>3
             DEF Lifecycle!Edge, Lifecycle!Accepted
      <4>3. CASE ~Approved(jobs'[j].result)
        <5>1. to \in {"queued", "rejected"} /\ TicketOf(jobs'[j]) = None
          BY <3>9, <4>3 DEF Reviewed, PhaseOf, Unsettled, TicketOf
        <5> QED
          BY <3>3, <4>1, <5>1
             DEF Lifecycle!Edge, Lifecycle!Reopened, Lifecycle!Rejected
      <4> QED  BY <4>2, <4>3
    <3> QED  BY <1>4, <2>2, <3>4, <3>5, <3>6, <3>7, <3>8, <3>9 DEF NoEffect
  <2> QED  BY <2>1, <2>2
<1>5. CASE Committed(j) /\ commits'[j] = commits[j] + 1
  <2>1. PICK t \in threads :
          /\ t.job = j
          /\ LeaseHeld(jobs[j], t.token)
          /\ Current(t)
          /\ \/ PolicyPermits(t.plan.change.op)
             \/ t.approved
             \/ j \in DreamIds
          /\ jobs'[j].result = Applied(t.plan)
    BY <1>5 DEF Committed
  <2> DEFINE c == t.plan.change
  <2>2. c \in Change
    BY ThreadTypes DEF Plan
  <2>3. \/ c \in {d \in Change : PolicyPermits(d.op)}
        \/ TicketOf(jobs[j]) = [version |-> generation, change |-> c]
    <3>1. CASE PolicyPermits(c.op)
      BY <2>2, <3>1
    <3>2. CASE ~PolicyPermits(c.op)
      <4>1. Approves(jobs[j].result, t.plan)
        BY <2>1, <3>2 DEF ApprovalInv, ThreadApproval, Owns, LeaseHeld
      <4> QED  BY <2>1, <4>1 DEF Approves, TicketOf, Current
    <3> QED  BY <3>1, <3>2
  <2>4. /\ PhaseOf(jobs[j].status) = "queued"
        /\ PhaseOf(jobs'[j].status) = "done"
    BY <1>5, <2>1 DEF Committed, LeaseHeld, PhaseOf, Unsettled
  <2>5. OutcomeOf(jobs'[j]) = c /\ TicketOf(jobs'[j]) = None
    BY <1>5, <2>1 DEF Committed, OutcomeOf, TicketOf, Approved, Applied
  <2>6. /\ generation' > generation
        /\ \A i \in JobIds \ {j} : commits'[i] = commits[i]
    BY <1>5, SingleEffect
  <2>7. Lifecycle!Applied(j)
    BY <1>5, <2>2, <2>3, <2>4, <2>5, <2>6 DEF Lifecycle!Applied
  <2> QED  BY <2>7 DEF Lifecycle!Edge
<1> QED  BY <1>1, <1>4, <1>5 DEF RowStep

\* Maintenance implements JobLifecycle: seen through the mapping, every step
\* of workers, threads, operators and retention moves each job along an edge
\* of the abstract specification, with a valid ticket where one is needed.
THEOREM ImplementsLifecycle == Spec => LifecycleSpec
<1>1. Init => TypeInv /\ ApprovalInv /\ Lifecycle!Init
  <2> SUFFICES ASSUME Init
               PROVE  ApprovalInv /\ Lifecycle!Init
    BY TypeInvInit
  <2>1. ApprovalInv
    BY ApprovalInit
  <2>2. Lifecycle!Init
    BY DEF Init, Lifecycle!Init, AbsentRow, PhaseOf, Unsettled, TicketOf,
           Approved, OutcomeOf
  <2> QED  BY <2>1, <2>2
<1>2. TypeInv /\ ApprovalInv /\ [Next]_vars => [Lifecycle!Next]_(Lifecycle!vars)
  BY EdgeSteps, GenerationGrows DEF Lifecycle!Next
<1> QED
  BY <1>1, <1>2, TypeInvStep, ApprovalInvStep, PTL
     DEF Spec, LifecycleSpec, Lifecycle!Spec

=============================================================================
