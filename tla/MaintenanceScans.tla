-------------------------- MODULE MaintenanceScans ---------------------------
(***************************************************************************)
(* Dream scans, for every set of workers, jobs, records and tokens and     *)
(* every policy: a scan is not forked, the cursor skips no record, and a   *)
(* pass that is accounted for has shown every record it promised.          *)
(***************************************************************************)
EXTENDS MaintenanceSafety, FiniteSetTheorems

(***************************************************************************)
(* How a step moves scans on.                                              *)
(***************************************************************************)

SameScan(e) ==
    jobs'[e].scan = jobs[e].scan /\ jobs'[e].continued = jobs[e].continued

\* advance() took the scan of job d on by a plan: it is handed on, or the pass
\* is accounted for.
Advanced(d, plan) ==
    /\ jobs[d].status = "running"
    /\ ~jobs[d].continued /\ jobs[d].scan # NoScan
    /\ jobs'[d].continued /\ jobs'[d].scan = jobs[d].scan
    /\ passedOn' \in {passedOn, [passedOn EXCEPT ![d] = @ + 1]}
    /\ cursor' \in {cursor, plan.cursor}
    /\ seen' = seen \cup plan.batch
    /\ \/ dreamWrites' = dreamWrites
       \/ Ahead(recs', plan.cursor, jobs[d].scan.end) = {}
    /\ \A e \in DreamIds \ {d} :
         \/ SameScan(e)
         \/ /\ jobs[e].status = "absent" /\ ~jobs'[e].continued
            /\ jobs'[e].scan \in {NoScan, Continuation(jobs[d].scan, plan)}

\* A caller's apply_dream takes the cursor to where its plan ends.
Revisited ==
    \E plan \in {fg.plan : x \in {fg.pc} \ {"none"}}
                \cup UNION {PlansOf(d) : d \in DreamIds} :
        cursor' = plan.cursor /\ seen' = seen \cup plan.batch

\* No scan is taken on: a scan is pinned, a pass is enqueued without one, or
\* retention drops the one of a finished job.
Unadvanced ==
    /\ passedOn' = passedOn
    /\ \A e \in DreamIds :
         \/ SameScan(e)
         \/ /\ jobs[e].status = "absent"
            /\ jobs'[e].scan = NoScan /\ ~jobs'[e].continued
         \/ /\ jobs[e].status = "running"
            /\ jobs'[e].scan = PinnedScan(jobs[e])
            /\ jobs'[e].continued = jobs[e].continued
         \/ /\ jobs[e].status = "done"
            /\ jobs'[e].scan = NoScan /\ ~jobs'[e].continued
    /\ UNCHANGED <<cursor, seen>> \/ Revisited

\* What advance leaves of the scans in a table, when it takes the one of d on.
TakenOn(table, d, plan, rs, adv) ==
    /\ ~table[d].continued /\ table[d].scan # NoScan
    /\ adv.jobs[d].continued /\ adv.jobs[d].scan = table[d].scan
    /\ adv.passedOn \in {passedOn, [passedOn EXCEPT ![d] = @ + 1]}
    /\ adv.cursor \in {cursor, plan.cursor}
    /\ adv.seen = seen \cup plan.batch
    /\ \/ adv.dreamWrites = dreamWrites
       \/ Ahead(rs, plan.cursor, table[d].scan.end) = {}
    /\ \A e \in DreamIds \ {d} :
         \/ /\ adv.jobs[e].scan = table[e].scan
            /\ adv.jobs[e].continued = table[e].continued
         \/ /\ table[e].status = "absent"
            /\ ~adv.jobs[e].continued
            /\ adv.jobs[e].scan \in
                 {NoScan, Continuation(table[d].scan, plan)}

\* advance takes the scan on, or finds it was done before.
LEMMA AdvanceScans ==
    ASSUME TypeInv, NEW table \in [JobIds -> JobRow], HasRoom(table),
           NEW d \in DreamIds, table[d].status # "absent",
           NEW plan \in Plan, NEW newRecs, NEW w
    PROVE  LET adv == Advance(table, d, plan, newRecs, w) IN
           \/ adv = AdvanceState(table, dreamWrites, cursor, seen, passedOn)
           \/ TakenOn(table, d, plan, newRecs, adv)
<1> DEFINE adv == Advance(table, d, plan, newRecs, w)
           scan == table[d].scan
           more == MoreRows(newRecs, plan, scan)
           dw == IF more THEN dreamWrites ELSE Max2(dreamWrites, scan.writes)
           marked == [table EXCEPT ![d].continued = TRUE]
           next == Continuation(scan, plan)
           new == FreshDream(table)
<1>1. CASE AlreadyAdvanced(table[d])
  BY <1>1 DEF Advance
<1>2. CASE ~AlreadyAdvanced(table[d])
  <2>0. SUFFICES TakenOn(table, d, plan, newRecs, adv)
    OBVIOUS
  <2>1. ~table[d].continued /\ scan # NoScan
    BY <1>2 DEF AlreadyAdvanced
  <2>2. /\ adv.jobs = IF more THEN [marked EXCEPT ![new] = NewRow(next)]
                      ELSE ScheduleDream(marked, w, dw)
        /\ adv.dreamWrites = dw
        /\ adv.cursor = MovedCursor(plan, scan)
        /\ adv.seen = seen \cup plan.batch
        /\ adv.passedOn =
             IF more THEN [passedOn EXCEPT ![d] = @ + 1] ELSE passedOn
    BY <1>2 DEF Advance, AdvanceState
  <2>3. adv.dreamWrites = dreamWrites \/ Ahead(newRecs, plan.cursor, scan.end) = {}
    BY <2>2 DEF MoreRows
  <2>4. adv.cursor \in {cursor, plan.cursor}
    BY <2>2 DEF MovedCursor
  <2>5. /\ d \in JobIds /\ DreamIds \subseteq JobIds
        /\ marked[d].continued /\ marked[d].scan = scan
        /\ \A e \in JobIds : marked[e].status = table[e].status
        /\ \A e \in JobIds \ {d} : marked[e] = table[e]
        /\ DOMAIN marked = JobIds
    BY DEF JobIds, JobRow, Row
  <2>6. \A s : NewRow(s).scan = s /\ ~NewRow(s).continued
    BY DEF NewRow, AbsentRow
  <2> HIDE DEF marked, next
  <2>7. ASSUME NEW x \in DreamIds, table[x].status = "absent", NEW s,
               adv.jobs = [marked EXCEPT ![x] = NewRow(s)], s \in {NoScan, next}
        PROVE  /\ adv.jobs[d].continued /\ adv.jobs[d].scan = scan
               /\ \A e \in DreamIds \ {d} :
                    \/ /\ adv.jobs[e].scan = table[e].scan
                       /\ adv.jobs[e].continued = table[e].continued
                    \/ /\ table[e].status = "absent"
                       /\ ~adv.jobs[e].continued
                       /\ adv.jobs[e].scan \in {NoScan, next}
    <3>1. adv.jobs[d] = marked[d]
      BY <2>5, <2>7
    <3>2. ASSUME NEW e \in DreamIds \ {d}
          PROVE  adv.jobs[e] = IF e = x THEN NewRow(s) ELSE table[e]
      BY <2>5, <2>7
    <3> HIDE DEF adv
    <3> QED  BY <2>5, <2>6, <2>7, <3>1, <3>2
  <2>8. CASE more
    <3>1. new \in DreamIds /\ table[new].status = "absent"
      BY FreshDreamIsAbsent
    <3> HIDE DEF new
    <3> QED  BY <2>1, <2>2, <2>3, <2>4, <2>7, <2>8, <3>1 DEF next, TakenOn
  <2>9. CASE ~more /\ adv.jobs = marked
    <3> HIDE DEF adv
    <3> QED  BY <2>1, <2>2, <2>3, <2>4, <2>5, <2>9 DEF adv, TakenOn
  <2>10. CASE ~more /\ adv.jobs # marked
    <3>1. adv.jobs = [marked EXCEPT ![FreshDream(marked)] = NewRow(NoScan)]
      BY <2>2, <2>10 DEF ScheduleDream
    <3>2. HasRoom(marked)
      BY <2>5 DEF HasRoom
    <3>3. /\ FreshDream(marked) \in DreamIds
          /\ table[FreshDream(marked)].status = "absent"
      BY <2>5, <3>2, FreshDreamIsAbsent
    <3> QED  BY <2>1, <2>2, <2>3, <2>4, <2>7, <2>10, <3>1, <3>3 DEF next, TakenOn
  <2> QED  BY <2>8, <2>9, <2>10
<1> QED  BY <1>1, <1>2

\* A settled job keeps its payload until its scan is taken on.
LEMMA SettledScans ==
    ASSUME TypeInv, NEW d \in DreamIds, jobs[d].status = "running",
           NEW plan \in PlansOf(d), NEW st \in Statuses \ {"absent"},
           NEW result \in Result, Room,
           LET table == [jobs EXCEPT ![d] = FinishRow(jobs[d], st, result)]
               adv == Advance(table, d, plan, recs', writes)
           IN  /\ jobs' = adv.jobs /\ dreamWrites' = adv.dreamWrites
               /\ cursor' = adv.cursor /\ seen' = adv.seen
               /\ passedOn' = adv.passedOn
    PROVE  Unadvanced \/ Advanced(d, plan)
<1> DEFINE table == [jobs EXCEPT ![d] = FinishRow(jobs[d], st, result)]
           adv == Advance(table, d, plan, recs', writes)
<1>1. /\ d \in JobIds /\ DreamIds \subseteq JobIds
      /\ jobs \in [JobIds -> JobRow] /\ plan \in Plan
  BY PlansTyped DEF JobIds, TypeInv, TypeOK, JobRow
<1>2. /\ TableTyped(table) /\ table[d].status = st
      /\ \A i \in JobIds \ {d} : table[i] = jobs[i]
  BY <1>1, FinishedTable
<1>3. table[d].scan = jobs[d].scan /\ table[d].continued = jobs[d].continued
  BY <1>1 DEF FinishRow, JobRow, Row
<1>4. HasRoom(table)
  <2> HIDE DEF table
  <2> QED  BY <1>1, <1>2 DEF HasRoom, Room
<1>5. /\ jobs' = adv.jobs /\ dreamWrites' = adv.dreamWrites
      /\ cursor' = adv.cursor /\ seen' = adv.seen /\ passedOn' = adv.passedOn
  OBVIOUS
<1> HIDE DEF table
<1>6. CASE adv = AdvanceState(table, dreamWrites, cursor, seen, passedOn)
  <2>1. jobs' = table /\ UNCHANGED <<cursor, seen, passedOn>>
    BY <1>5, <1>6 DEF AdvanceState
  <2>2. \A e \in DreamIds : SameScan(e)
    BY <1>1, <1>2, <1>3, <2>1 DEF SameScan
  <2> QED  BY <2>1, <2>2 DEF Unadvanced
<1>7. CASE TakenOn(table, d, plan, recs', adv)
  <2> DEFINE scan == jobs[d].scan
  <2> HIDE DEF adv
  <2>1. /\ ~jobs[d].continued /\ scan # NoScan
        /\ adv.jobs[d].continued /\ adv.jobs[d].scan = scan
        /\ adv.passedOn \in {passedOn, [passedOn EXCEPT ![d] = @ + 1]}
        /\ adv.cursor \in {cursor, plan.cursor}
        /\ adv.seen = seen \cup plan.batch
        /\ \/ adv.dreamWrites = dreamWrites
           \/ Ahead(recs', plan.cursor, scan.end) = {}
    BY <1>3, <1>7 DEF TakenOn
  <2>2. ASSUME NEW e \in DreamIds \ {d}
        PROVE  \/ SameScan(e)
               \/ /\ jobs[e].status = "absent" /\ ~jobs'[e].continued
                  /\ jobs'[e].scan \in {NoScan, Continuation(scan, plan)}
    BY <1>1, <1>2, <1>3, <1>5, <1>7 DEF TakenOn, SameScan
  <2> QED  BY <1>5, <2>1, <2>2 DEF Advanced
<1>8. \/ adv = AdvanceState(table, dreamWrites, cursor, seen, passedOn)
      \/ TakenOn(table, d, plan, recs', adv)
  <2>1. table \in [JobIds -> JobRow] /\ table[d].status # "absent"
    BY <1>2 DEF TableTyped
  <2> QED  BY <1>1, <1>4, <2>1, AdvanceScans
<1> QED  BY <1>6, <1>7, <1>8

\* The statements of the queue leave the payload of a row alone.
LEMMA PayloadKept ==
    ASSUME NEW row \in JobRow
    PROVE  LET Same(new) == /\ new.scan = row.scan
                            /\ new.continued = row.continued
           IN  /\ Same(RowExpires(row))
               /\ Same(RowElapses(row))
               /\ Same(SweepRow(row))
               /\ Same(RetryRow(row))
               /\ \A token : Same(ClaimRow(row, token))
               /\ \A st, result : Same(FinishRow(row, st, result))
               /\ \A a : Same(FailRow(row, a))
               /\ \A accept : Same(ReviewRow(row, accept))
BY DEF RowExpires, RowElapses, SweepRow, RetryRow, ClaimRow, FinishRow,
       FailRow, ReviewRow, JobRow, Row

\* One row is written, and its payload is left alone.
LEMMA RowRewritten ==
    ASSUME TypeInv, NEW i \in JobIds, NEW row,
           jobs' = [jobs EXCEPT ![i] = row],
           row.scan = jobs[i].scan, row.continued = jobs[i].continued,
           NEW e \in DreamIds
    PROVE  SameScan(e)
BY DEF SameScan, JobIds, TypeInv, TypeOK

\* schedule_dream enqueues a pass without a scan.
LEMMA ScheduleScans ==
    ASSUME TypeInv, Room, NEW w, NEW dw, NEW e \in DreamIds
    PROVE  LET new == ScheduleDream(jobs, w, dw)[e]
           IN  \/ new = jobs[e]
               \/ /\ jobs[e].status = "absent"
                  /\ new.scan = NoScan /\ ~new.continued
<1>1. /\ FreshDream(jobs) \in DreamIds
      /\ jobs[FreshDream(jobs)].status = "absent"
  BY FreshDreamIsAbsent DEF Room, HasRoom
<1>2. NewRow(NoScan).scan = NoScan /\ ~NewRow(NoScan).continued
  BY DEF NewRow, AbsentRow
<1>3. e \in JobIds /\ DOMAIN jobs = JobIds
  BY DEF JobIds, TypeInv, TypeOK
<1> QED  BY <1>1, <1>2, <1>3 DEF ScheduleDream

\* A step that leaves cursor and histories alone and the payloads of all rows.
LEMMA ScansKept ==
    ASSUME UNCHANGED <<passedOn, cursor, seen>>,
           \A e \in DreamIds : SameScan(e)
    PROVE  Unadvanced
BY DEF Unadvanced

\* Callers and time, the claim and the end of an attempt, reviews, retries.
LEMMA QueuePassSteps ==
    ASSUME TypeInv, NEW i \in JobIds,
           \/ jobs' = [jobs EXCEPT ![i] = RowExpires(jobs[i])]
           \/ jobs' = [jobs EXCEPT ![i] = RowElapses(jobs[i])]
           \/ jobs' = [jobs EXCEPT ![i] = RetryRow(jobs[i])]
           \/ \E st, result :
                jobs' = [jobs EXCEPT ![i] = FinishRow(jobs[i], st, result)]
           \/ \E a : jobs' = [jobs EXCEPT ![i] = FailRow(jobs[i], a)]
           \/ \E accept : jobs' = [jobs EXCEPT ![i] = ReviewRow(jobs[i], accept)],
           NEW e \in DreamIds
    PROVE  SameScan(e)
<1>1. jobs[i] \in JobRow
  BY DEF TypeInv, TypeOK, JobRow
<1> QED  BY <1>1, PayloadKept, RowRewritten

\* Claims and sweeps.
LEMMA ClaimPassSteps ==
    ASSUME TypeInv, NEW w \in Workers, NEW e \in DreamIds,
           \/ ClaimNothing(w)
           \/ \E j \in JobIds, token \in FreshTokens : Claim(w, j, token)
    PROVE  SameScan(e)
<1>1. e \in JobIds /\ jobs[e] \in JobRow
  BY DEF JobIds, TypeInv, TypeOK, JobRow
<1>2. /\ Swept \in [JobIds -> JobRow]
      /\ Swept[e].scan = jobs[e].scan
      /\ Swept[e].continued = jobs[e].continued
  BY <1>1, SweptTyped, PayloadKept DEF Swept
<1>3. CASE ClaimNothing(w)
  BY <1>2, <1>3 DEF ClaimNothing, SameScan
<1>4. ASSUME NEW j \in JobIds, NEW token, Claim(w, j, token)
      PROVE  SameScan(e)
  <2>1. jobs' = [Swept EXCEPT ![j] = ClaimRow(Swept[j], token)]
    BY <1>4 DEF Claim
  <2>2. jobs'[e] = Swept[e] \/ jobs'[e] = ClaimRow(Swept[e], token)
    BY <1>1, <1>2, <2>1
  <2>3. /\ ClaimRow(Swept[e], token).scan = Swept[e].scan
        /\ ClaimRow(Swept[e], token).continued = Swept[e].continued
    BY <1>1, <1>2, PayloadKept
  <2> QED  BY <1>2, <2>2, <2>3 DEF SameScan
<1> QED  BY <1>3, <1>4

\* The attempts of workers.
LEMMA WorkerPassSteps ==
    ASSUME TypeInv, NEW w \in Workers, WorkerStep(w)
    PROVE  Unadvanced \/ \E d \in DreamIds : \E plan \in PlansOf(d) :
                             Advanced(d, plan)
<1> DEFINE j == wk[w].job
<1>1. CASE Inspect(w) \/ PlanSnapshot(w) \/ PlanSave(w)
  BY <1>1 DEF Inspect, PlanSnapshot, PlanSave, Unadvanced, SameScan
<1>2. CASE \/ ClaimNothing(w)
           \/ \E i \in JobIds, token \in FreshTokens : Claim(w, i, token)
  BY <1>2, ClaimPassSteps, ScansKept DEF ClaimNothing, Claim
<1>3. CASE ScanFor(w)
  <2>1. /\ UNCHANGED <<passedOn, cursor, seen>>
        /\ \/ UNCHANGED jobs
           \/ /\ jobs[j].status = "running"
              /\ jobs' = [jobs EXCEPT ![j].scan = PinnedScan(jobs[j])]
    BY <1>3 DEF ScanFor, LeaseHeld
  <2>2. ASSUME NEW e \in DreamIds
        PROVE  \/ SameScan(e)
               \/ /\ jobs[e].status = "running"
                  /\ jobs'[e].scan = PinnedScan(jobs[e])
                  /\ jobs'[e].continued = jobs[e].continued
    <3>1. jobs[e] \in JobRow /\ e \in JobIds
      BY DEF JobIds, TypeInv, TypeOK, JobRow
    <3>2. \/ jobs'[e] = jobs[e]
          \/ /\ jobs[e].status = "running"
             /\ jobs'[e] = [jobs[e] EXCEPT !.scan = PinnedScan(jobs[e])]
      BY <2>1, <3>1 DEF TypeInv, TypeOK
    <3> QED  BY <3>1, <3>2 DEF SameScan, JobRow, Row
  <2> QED  BY <2>1, <2>2 DEF Unadvanced
<1>4. CASE Fail(w)
  <2>1. j \in JobIds
    BY <1>4 DEF Fail, TypeInv, WorkerShape
  <2>2. \/ UNCHANGED jobs
        \/ jobs' = [jobs EXCEPT ![j] = FailRow(jobs[j], wk[w].attempts)]
    BY <1>4 DEF Fail
  <2>3. \A e \in DreamIds : SameScan(e)
    BY <2>1, <2>2, QueuePassSteps DEF SameScan
  <2> QED  BY <1>4, <2>3, ScansKept DEF Fail
<1>5. CASE Propose(w)
  <2> DEFINE result == [plan |-> wk[w].plan, verdict |-> "open"]
  <2>1. /\ j \in JobIds /\ wk[w].plan \in PlansOf(j) /\ wk[w].plan \in Plan
    BY <1>5
       DEF Propose, TypeInv, TypeOK, WorkerShape, Worker, PlansOf, Planning
  <2>2. result \in Result /\ "proposed" \in Statuses \ {"absent"}
    BY <2>1 DEF Result, Statuses
  <2>3. CASE ~LeaseHeld(jobs[j], wk[w].token)
    BY <1>5, <2>3 DEF Propose, Unadvanced, SameScan
  <2>4. CASE LeaseHeld(jobs[j], wk[w].token) /\ j \notin DreamIds
    <3>1. /\ UNCHANGED <<passedOn, cursor, seen>>
          /\ jobs' = [jobs EXCEPT ![j] =
                        FinishRow(jobs[j], "proposed", result)]
      BY <1>5, <2>4 DEF Propose, AdvanceState
    <3> HIDE DEF result
    <3>2. \A e \in DreamIds : SameScan(e)
      BY <2>1, <3>1, QueuePassSteps
    <3> QED  BY <3>1, <3>2, ScansKept
  <2>5. CASE LeaseHeld(jobs[j], wk[w].token) /\ j \in DreamIds
    <3> DEFINE table == [jobs EXCEPT ![j] =
                           FinishRow(jobs[j], "proposed", result)]
               adv == Advance(table, j, wk[w].plan, recs', writes)
    <3>1. /\ jobs' = adv.jobs /\ dreamWrites' = adv.dreamWrites
          /\ cursor' = adv.cursor /\ seen' = adv.seen
          /\ passedOn' = adv.passedOn
          /\ Room /\ jobs[j].status = "running"
      BY <1>5, <2>5 DEF Propose, LeaseHeld
    <3> HIDE DEF result, j
    <3>2. Unadvanced \/ Advanced(j, wk[w].plan)
      BY <2>1, <2>2, <2>5, <3>1, SettledScans
    <3> QED  BY <2>1, <2>5, <3>2
  <2> QED  BY <2>3, <2>4, <2>5
<1> QED  BY <1>1, <1>2, <1>3, <1>4, <1>5 DEF WorkerStep

\* The transactions run in threads.
LEMMA ThreadPassSteps ==
    ASSUME TypeInv, NEW t \in threads, ThreadStep(t)
    PROVE  Unadvanced \/ \E d \in DreamIds : \E plan \in PlansOf(d) :
                             Advanced(d, plan)
<1>1. /\ t.job \in JobIds /\ t.plan \in Plan /\ Applied(t.plan) \in Result
      /\ "done" \in Statuses \ {"absent"} /\ t.plan \in PlansOf(t.job)
  BY ThreadTypes DEF PlansOf, Statuses
<1>2. CASE ThreadConflict(t) \/ CaptureReview(t)
  BY <1>2 DEF ThreadConflict, CaptureReview, Unadvanced, SameScan
<1>3. CASE CaptureCommit(t)
  <2> DEFINE scheduled == ScheduleDream(jobs, writes + 1, dreamWrites)
  <2>1. /\ jobs' = [scheduled EXCEPT
                      ![t.job] = FinishRow(@, "done", Applied(t.plan))]
        /\ UNCHANGED <<passedOn, cursor, seen>>
        /\ t.job \in CaptureIds /\ Room
    BY <1>3 DEF CaptureCommit
  <2>2. ASSUME NEW e \in DreamIds
        PROVE  \/ SameScan(e)
               \/ /\ jobs[e].status = "absent"
                  /\ jobs'[e].scan = NoScan /\ ~jobs'[e].continued
    <3>1. \/ scheduled[e] = jobs[e]
          \/ /\ jobs[e].status = "absent"
             /\ scheduled[e].scan = NoScan /\ ~scheduled[e].continued
      BY <2>1, ScheduleScans
    <3> HIDE DEF scheduled
    <3>2. jobs'[e] = scheduled[e]
      BY <2>1, IdsAssumption
    <3> QED  BY <3>1, <3>2 DEF SameScan
  <2> QED  BY <2>1, <2>2 DEF Unadvanced
<1>4. CASE DreamCommit(t)
  <2> DEFINE table == [jobs EXCEPT ![t.job] =
                         FinishRow(jobs[t.job], "done", Applied(t.plan))]
             adv == Advance(table, t.job, t.plan, recs', writes)
  <2>1. /\ jobs' = adv.jobs /\ dreamWrites' = adv.dreamWrites
        /\ cursor' = adv.cursor /\ seen' = adv.seen
        /\ passedOn' = adv.passedOn
        /\ t.job \in DreamIds /\ Room /\ jobs[t.job].status = "running"
    BY <1>4 DEF DreamCommit, LeaseHeld
  <2>2. Unadvanced \/ Advanced(t.job, t.plan)
    BY <1>1, <2>1, SettledScans
  <2> QED  BY <1>1, <2>1, <2>2
<1> QED  BY <1>2, <1>3, <1>4 DEF ThreadStep

\* Whatever step is taken, one scan at most is taken on.
LEMMA PassSteps ==
    ASSUME TypeInv, [Next]_vars
    PROVE  Unadvanced \/ \E d \in DreamIds : \E plan \in PlansOf(d) :
                             Advanced(d, plan)
<1>1. ASSUME NEW j \in CaptureIds, Submit(j)
      PROVE  Unadvanced
  <2>1. \A e \in DreamIds : jobs'[e] = jobs[e]
    BY <1>1, IdsAssumption DEF Submit, TypeInv, TypeOK, JobIds
  <2> QED  BY <1>1, <2>1 DEF Submit, Unadvanced, SameScan
<1>2. ASSUME NEW c, Remember(c)
      PROVE  Unadvanced
  BY <1>2, ScheduleScans DEF Remember, Unadvanced, SameScan
<1>3. ASSUME NEW w \in Workers, Interrupt(w) \/ Crash(w)
      PROVE  Unadvanced
  BY <1>3 DEF Interrupt, Crash, Unadvanced, SameScan
<1>4. ASSUME NEW j \in JobIds, NEW accept \in BOOLEAN,
             Expire(j) \/ Elapse(j) \/ Review(j, accept) \/ Retry(j)
      PROVE  Unadvanced
  BY <1>4, QueuePassSteps, ScansKept DEF Expire, Elapse, Review, Retry
<1>5. ASSUME NEW old, NEW finished \in SUBSET Finished, Maintain(old, finished)
      PROVE  Unadvanced
  <2>1. ASSUME NEW e \in DreamIds
        PROVE  \/ SameScan(e)
               \/ /\ jobs[e].status = "done"
                  /\ jobs'[e].scan = NoScan /\ ~jobs'[e].continued
    <3>1. e \in JobIds /\ jobs[e] \in JobRow
      BY DEF JobIds, TypeInv, TypeOK, JobRow
    <3>2. jobs'[e] =
            IF e \in finished
              THEN [jobs[e] EXCEPT !.scan = NoScan, !.continued = FALSE]
              ELSE jobs[e]
      BY <1>5, <3>1 DEF Maintain
    <3>3. e \in finished => jobs[e].status = "done"
      BY DEF Finished
    <3> QED  BY <3>1, <3>2, <3>3 DEF SameScan, JobRow, Row
  <2> QED  BY <1>5, <2>1 DEF Maintain, Unadvanced
<1>6. CASE DreamSnapshot \/ DreamSave \/ UNCHANGED vars
  BY <1>6 DEF DreamSnapshot, DreamSave, vars, Unadvanced, SameScan
<1>7. CASE DreamApply
  BY <1>7 DEF DreamApply, ApplyPlan, Unadvanced, SameScan, Revisited
<1>8. ASSUME NEW d \in DreamIds, ApplyProposed(d)
      PROVE  Unadvanced
  <2>1. d \in JobIds /\ jobs[d].result # NoResult
    BY <1>8, AbsenceAssumption
       DEF ApplyProposed, TypeInv, ProposalShape, JobIds
  <2>2. jobs[d].result.plan \in PlansOf(d)
    BY <2>1 DEF PlansOf
  <2> QED
    BY <1>8, <2>2 DEF ApplyProposed, ApplyPlan, Unadvanced, SameScan, Revisited
<1> QED
  BY <1>1, <1>2, <1>3, <1>4, <1>5, <1>6, <1>7, <1>8, WorkerPassSteps,
     ThreadPassSteps DEF Next

(***************************************************************************)
(* A scan is not forked.                                                   *)
(***************************************************************************)

\* A job that handed its scan on is marked, until retention drops the payload
\* of the finished job, which can then not run again.
Fork ==
    \A d \in DreamIds :
        /\ passedOn[d] <= 1
        /\ passedOn[d] > 0 =>
             /\ jobs[d].status # "absent"
             /\ \/ jobs[d].continued
                \/ jobs[d].status = "done" /\ jobs[d].scan = NoScan

\* A row never disappears, and a finished one stays finished.
LEMMA StatusesLast ==
    ASSUME TypeInv, [Next]_vars, NEW j \in JobIds
    PROVE  /\ jobs[j].status # "absent" => jobs'[j].status # "absent"
           /\ jobs[j].status = "done" => jobs'[j].status = "done"
BY RowSteps
   DEF RowStep, NoEffect, SameRow, Inserted, FirstOf, SweptAway, Claimed,
       Claimable, GivenUp, Committed, LeaseHeld, Reopened, Reviewed

\* A dream job hands its scan on at most once, however often it is retried,
\* reviewed, replanned or taken over.
THEOREM ScansNotForked == Spec => []ScanNotForked
<1>1. Init => Fork
  BY DEF Init, Fork
<1>2. TypeInv /\ Fork /\ [Next]_vars => Fork'
  <2> SUFFICES ASSUME TypeInv, Fork, [Next]_vars, NEW d \in DreamIds
               PROVE  /\ passedOn'[d] <= 1
                      /\ passedOn'[d] > 0 =>
                           /\ jobs'[d].status # "absent"
                           /\ \/ jobs'[d].continued
                              \/ /\ jobs'[d].status = "done"
                                 /\ jobs'[d].scan = NoScan
    BY DEF Fork
  <2>1. /\ d \in JobIds /\ passedOn \in [DreamIds -> Nat]
        /\ jobs[d].continued \in BOOLEAN
    BY DEF JobIds, TypeInv, TypeOK, Row
  <2>2. /\ jobs[d].status # "absent" => jobs'[d].status # "absent"
        /\ jobs[d].status = "done" => jobs'[d].status = "done"
    BY <2>1, StatusesLast
  <2>3. CASE Unadvanced
    BY <2>1, <2>2, <2>3 DEF Fork, Unadvanced, SameScan
  <2>4. ASSUME NEW e \in DreamIds, NEW plan, Advanced(e, plan)
        PROVE  /\ passedOn'[d] <= 1
               /\ passedOn'[d] > 0 =>
                    /\ jobs'[d].status # "absent"
                    /\ \/ jobs'[d].continued
                       \/ /\ jobs'[d].status = "done"
                          /\ jobs'[d].scan = NoScan
    <3>1. CASE d = e
      BY <2>1, <2>2, <2>4, <3>1 DEF Fork, Advanced
    <3>2. CASE d # e
      <4>1. passedOn'[d] = passedOn[d]
        BY <2>1, <2>4, <3>2 DEF Advanced
      <4>2. SameScan(d) \/ jobs[d].status = "absent"
        BY <2>4, <3>2 DEF Advanced
      <4> QED  BY <2>1, <2>2, <4>1, <4>2 DEF Fork, SameScan
    <3> QED  BY <3>1, <3>2
  <2> QED  BY <2>3, <2>4, PassSteps
<1>3. Fork => ScanNotForked
  BY DEF Fork, ScanNotForked
<1> QED  BY <1>1, <1>2, <1>3, TypeInvInit, TypeInvStep, PTL DEF Spec

(***************************************************************************)
(* What a cursor covers.                                                   *)
(***************************************************************************)

\* Every stored record up to a cursor is among some rows, in its present
\* version; newer versions will lie beyond the cursor.
Covered(c, rs, rows, g) ==
    c[1] <= g /\ \A p \in Positions(rs) : ~Before(c, p) => p \in rows

ScanCovered(s, rs, sn, g) == s.end <= g /\ Covered(s.cursor, rs, sn, g)

PlanCovered(plan, rs, sn, g) ==
    Covered(plan.cursor, rs, sn \cup plan.batch, g)

\* The store moves on: new versions are beyond the old generation.
Grows(rs, g, newRs, newG) ==
    /\ newG >= g
    /\ \A p \in Positions(newRs) : p[1] <= g => p \in Positions(rs)

\* Positions are ordered by generation, then by id.
LEMMA PositionOrder ==
    /\ \A p, q \in Position : p = q \/ Before(p, q) \/ Before(q, p)
    /\ \A p, q, r \in Position : Before(p, q) /\ Before(q, r) => Before(p, r)
    /\ \A p, q \in Position : ~Before(p, q) => q[1] <= p[1]
<1>1. RecordIds \cup {NoId} \subseteq Nat
  BY RecordIdsAssumption DEF NoId
<1>2. \A p \in Position : p = <<p[1], p[2]>> /\ p[1] \in Nat /\ p[2] \in Nat
  BY <1>1 DEF Position
<1>3. \A p, q \in Position : p = q \/ Before(p, q) \/ Before(q, p)
  <2> SUFFICES ASSUME NEW p \in Position, NEW q \in Position,
                      ~Before(p, q), ~Before(q, p)
               PROVE  p = q
    OBVIOUS
  <2>1. p[1] = q[1] /\ p[2] = q[2]
    BY <1>2 DEF Before
  <2> QED  BY <1>2, <2>1
<1>4. \A p, q, r \in Position : Before(p, q) /\ Before(q, r) => Before(p, r)
  BY <1>2 DEF Before
<1>5. \A p, q \in Position : ~Before(p, q) => q[1] <= p[1]
  BY <1>2 DEF Before
<1> QED  BY <1>3, <1>4, <1>5

\* What a cursor covered stays covered while the store moves on.
LEMMA CoveredLasts ==
    ASSUME NEW rs, NEW sn, NEW g \in Nat, NEW newRs \in [RecordIds -> Record],
           NEW newSn, NEW newG \in Nat, Grows(rs, g, newRs, newG),
           sn \subseteq newSn, NEW c \in Position, Covered(c, rs, sn, g)
    PROVE  Covered(c, newRs, newSn, newG)
<1>1. c[1] \in Nat
  BY DEF Position
<1>2. ASSUME NEW p \in Positions(newRs), ~Before(c, p)
      PROVE  p \in newSn
  <2>1. p \in Position /\ p[1] \in Nat
    BY DEF Positions, Position, Stored, Record
  <2>2. p[1] <= c[1]
    BY <1>2, <2>1, PositionOrder
  <2>3. p[1] <= g
    BY <1>1, <2>1, <2>2 DEF Covered
  <2> QED  BY <1>2, <2>3 DEF Covered, Grows
<1> QED  BY <1>1, <1>2 DEF Covered, Grows

\* A batch leaves out no row before one it holds.
LEMMA BatchWithoutGaps ==
    ASSUME NEW rows \in SUBSET Position, IsFiniteSet(rows),
           NEW q \in FirstRows(rows), NEW p \in rows, Before(p, q)
    PROVE  p \in FirstRows(rows)
<1> DEFINE below(x) == {r \in rows : Before(r, x)}
<1>1. q \in rows /\ Cardinality(below(q)) < BatchSize
  BY DEF FirstRows
<1>2. below(p) \subseteq below(q)
  BY <1>1, PositionOrder
<1>3. IsFiniteSet(below(q))
  BY FS_Subset
<1>4. /\ IsFiniteSet(below(p))
      /\ Cardinality(below(p)) <= Cardinality(below(q))
  BY <1>2, <1>3, FS_Subset
<1>5. /\ Cardinality(below(p)) \in Nat /\ Cardinality(below(q)) \in Nat
  BY <1>3, <1>4, FS_CardinalityType
<1> QED  BY <1>1, <1>4, <1>5, BatchSizeAssumption DEF FirstRows

\* A batch of all rows that lie ahead of a cursor, or of all rows, covers them
\* up to its last row.
LEMMA BatchCovers ==
    ASSUME NEW rs \in [RecordIds -> Record], IsFiniteSet(Positions(rs)),
           NEW c \in Position, NEW sn, NEW g \in Nat, Covered(c, rs, sn, g),
           NEW rows \in SUBSET Positions(rs),
           \A l \in rows :
             /\ l[1] <= g
             /\ \A p \in Positions(rs) : Before(p, l) => p \in rows \/ p \in sn
    PROVE  Covered(LastRow(FirstRows(rows), c), rs, sn \cup FirstRows(rows), g)
<1> DEFINE batch == FirstRows(rows)
           last == LastRow(batch, c)
<1>1. Positions(rs) \subseteq Position /\ IsFiniteSet(rows)
  BY BatchTypes, FS_Subset
<1>2. batch \subseteq rows
  BY DEF FirstRows
<1>3. CASE ~ \E p \in batch : IsLast(p, batch)
  <2>1. last = c
    BY <1>3 DEF LastRow
  <2> HIDE DEF batch, last
  <2> QED  BY <2>1 DEF Covered, batch, last
<1>4. CASE \E p \in batch : IsLast(p, batch)
  <2>1. last \in batch
    BY <1>4 DEF LastRow
  <2>2. last \in rows /\ last[1] <= g
    BY <1>2, <2>1
  <2>3. ASSUME NEW p \in Positions(rs), ~Before(last, p)
        PROVE  p \in sn \cup batch
    <3>1. p = last \/ Before(p, last)
      BY <1>1, <2>2, <2>3, PositionOrder
    <3>2. CASE p = last
      BY <2>1, <3>2
    <3>3. CASE Before(p, last) /\ p \in rows
      BY <1>1, <2>1, <3>3, BatchWithoutGaps
    <3>4. CASE Before(p, last) /\ p \in sn
      BY <3>4
    <3> HIDE DEF batch, last
    <3> QED  BY <2>2, <3>1, <3>2, <3>3, <3>4
  <2> QED  BY <2>2, <2>3 DEF Covered
<1> QED  BY <1>3, <1>4

\* The next batch of a scan covers what it reads.
LEMMA AheadCovers ==
    ASSUME NEW rs \in [RecordIds -> Record], IsFiniteSet(Positions(rs)),
           NEW c \in Position, NEW sn, NEW g \in Nat, Covered(c, rs, sn, g),
           NEW end \in Nat, end <= g
    PROVE  LET batch == FirstRows(Ahead(rs, c, end))
           IN  Covered(LastRow(batch, c), rs, sn \cup batch, g)
<1> DEFINE rows == Ahead(rs, c, end)
<1>1. Positions(rs) \subseteq Position
  BY BatchTypes
<1>2. rows \subseteq Positions(rs)
  BY DEF Ahead
<1>3. ASSUME NEW l \in rows
      PROVE  /\ l[1] <= g
             /\ \A p \in Positions(rs) : Before(p, l) => p \in rows \/ p \in sn
  <2>1. l \in Position /\ l[1] \in Nat /\ l[1] <= end
    BY <1>1 DEF Ahead, Position
  <2>2. ASSUME NEW p \in Positions(rs), Before(p, l), p \notin sn
        PROVE  p \in rows
    <3>1. p \in Position /\ p[1] \in Nat
      BY <1>1 DEF Position
    <3>2. p[1] <= end
      BY <2>1, <2>2, <3>1 DEF Before
    <3>3. Before(c, p)
      BY <2>2 DEF Covered
    <3> QED  BY <3>2, <3>3 DEF Ahead
  <2> QED  BY <2>1, <2>2
<1> HIDE DEF rows
<1>4. Covered(LastRow(FirstRows(rows), c), rs, sn \cup FirstRows(rows), g)
  BY <1>2, <1>3, BatchCovers
<1> QED  BY <1>4 DEF rows

(***************************************************************************)
(* How the store moves on.                                                 *)
(***************************************************************************)

\* Each record is a version of a generation the store has reached, and only
\* finitely many are stored.
StoreBounded ==
    /\ \A r \in RecordIds : recs[r].gen <= generation
    /\ IsFiniteSet(Positions(recs))

\* The transactions that write records.
Rewritten ==
    \/ UNCHANGED recs
    \/ \E c \in Change : /\ recs' = ApplyChange(recs, c, generation + 1)
                         /\ generation' > generation
    \/ \E old : /\ generation' = IF old = {} THEN generation ELSE generation + 1
                /\ recs' = [r \in RecordIds |->
                              IF r \in old THEN Put("archived", generation + 1)
                              ELSE recs[r]]

\* A change writes the records it names, in one generation.
LEMMA ChangedRecords ==
    ASSUME NEW rs \in [RecordIds -> Record], NEW c \in Change, NEW g \in Nat,
           NEW r \in RecordIds
    PROVE  \/ ApplyChange(rs, c, g)[r] = rs[r]
           \/ /\ r \in {c.id, c.target}
              /\ ApplyChange(rs, c, g)[r].gen = g
<1>1. c.op \in Ops /\ \A st : Put(st, g).gen = g
  BY DEF Change, Put
<1> QED  BY <1>1 DEF ApplyChange, Ops

\* Nothing else writes records.
LEMMA StoreSteps ==
    ASSUME TypeInv, [Next]_vars
    PROVE  Rewritten
<1>1. generation \in Nat
  BY DEF TypeInv, TypeOK
<1>2. CASE UNCHANGED recs
  BY <1>2 DEF Rewritten
<1>3. ASSUME NEW n \in NoteIds, NEW c \in Reconciliations(NoteOps, n),
             Remember(c)
      PROVE  Rewritten
  <2>1. c \in Change
    BY ReconciliationTypes, IdsAssumption, OpsAssumption
  <2> QED  BY <1>1, <1>3, <2>1 DEF Remember, Rewritten
<1>4. ASSUME NEW plan \in Plan,
             recs' = ApplyChange(recs, plan.change, generation + 1),
             generation' \in {generation + 1, DreamGeneration(plan)}
      PROVE  Rewritten
  <2>1. plan.change \in Change
    BY DEF Plan
  <2>2. generation' > generation
    BY <1>1, <1>4 DEF DreamGeneration
  <2> QED  BY <1>4, <2>1, <2>2 DEF Rewritten
<1>5. ASSUME NEW t \in threads, CaptureCommit(t) \/ DreamCommit(t)
      PROVE  Rewritten
  <2>1. t.plan \in Plan
    BY ThreadTypes
  <2> QED  BY <1>4, <1>5, <2>1 DEF CaptureCommit, DreamCommit
<1>6. ASSUME NEW old, NEW finished, Maintain(old, finished)
      PROVE  Rewritten
  BY <1>6 DEF Maintain, Rewritten
<1>7. CASE DreamApply
  <2>1. fg.plan \in Plan
    BY DEF TypeInv, TypeOK, ForegroundDream
  <2> QED  BY <1>2, <1>4, <1>7, <2>1 DEF DreamApply, ApplyPlan
<1>8. ASSUME NEW d \in DreamIds, ApplyProposed(d)
      PROVE  Rewritten
  <2>1. jobs[d].result.plan \in Plan
    BY <1>8 DEF ApplyProposed, TypeInv, ProposalShape, JobIds, Result
  <2> QED  BY <1>4, <1>8, <2>1 DEF ApplyProposed, ApplyPlan
<1> QED
  BY <1>2, <1>3, <1>5, <1>6, <1>7, <1>8
     DEF Next, vars, Submit, WorkerStep, Claim, ClaimNothing,
         Inspect, ScanFor, PlanSnapshot, PlanSave, Propose, Fail, Interrupt,
         Crash, ThreadStep, ThreadConflict, CaptureReview, Expire, Elapse,
         Review, Retry, DreamSnapshot, DreamSave

\* A step leaves versions of a later generation only.
LEMMA StoreGrows ==
    ASSUME TypeInv, StoreBounded, [Next]_vars
    PROVE  /\ StoreBounded'
           /\ Grows(recs, generation, recs', generation')
<1>1. /\ generation \in Nat /\ recs \in [RecordIds -> Record]
      /\ generation' \in Nat /\ generation' >= generation
  BY GenerationGrows DEF TypeInv, TypeOK
<1>2. CASE UNCHANGED recs
  <2>1. Positions(recs') = Positions(recs)
    BY <1>2
  <2>2. \A r \in RecordIds : recs'[r].gen <= generation'
    BY <1>1, <1>2 DEF StoreBounded, Record
  <2> QED  BY <1>1, <2>1, <2>2 DEF StoreBounded, Grows
<1>3. ASSUME NEW c \in Change,
             recs' = ApplyChange(recs, c, generation + 1),
             generation' > generation
      PROVE  /\ StoreBounded'
             /\ Grows(recs, generation, recs', generation')
  <2> DEFINE g == generation + 1
             new == {<<g, c.id>>, <<g, c.target>>}
  <2>1. g \in Nat /\ g <= generation' /\ g > generation
    BY <1>1, <1>3
  <2>2. ASSUME NEW r \in RecordIds
        PROVE  \/ recs'[r] = recs[r]
               \/ r \in {c.id, c.target} /\ recs'[r].gen = g
    <3> HIDE DEF g
    <3> QED  BY <1>1, <1>3, <2>1, ChangedRecords DEF g
  <2>3. \A r \in RecordIds : recs'[r].gen <= generation'
    BY <1>1, <2>1, <2>2 DEF StoreBounded, Record
  <2>4. Positions(recs') \subseteq Positions(recs) \cup new
    <3> SUFFICES ASSUME NEW r \in Stored(recs')
                 PROVE  <<recs'[r].gen, r>> \in Positions(recs) \cup new
      BY DEF Positions
    <3>1. r \in RecordIds
      BY DEF Stored
    <3>2. CASE recs'[r] = recs[r]
      BY <3>1, <3>2 DEF Stored, Positions
    <3>3. CASE r \in {c.id, c.target} /\ recs'[r].gen = g
      BY <3>3
    <3> QED  BY <2>2, <3>1, <3>2, <3>3
  <2>5. IsFiniteSet(Positions(recs'))
    <3>1. IsFiniteSet(Positions(recs) \cup {<<g, c.id>>})
      BY FS_AddElement DEF StoreBounded
    <3>2. IsFiniteSet((Positions(recs) \cup {<<g, c.id>>}) \cup {<<g, c.target>>})
      BY <3>1, FS_AddElement
    <3>3. Positions(recs') \subseteq
            (Positions(recs) \cup {<<g, c.id>>}) \cup {<<g, c.target>>}
      BY <2>4
    <3> QED  BY <3>2, <3>3, FS_Subset
  <2>6. \A p \in Positions(recs') : p[1] <= generation => p \in Positions(recs)
    BY <1>1, <2>1, <2>4
  <2> QED  BY <1>1, <2>3, <2>5, <2>6 DEF StoreBounded, Grows
<1>4. ASSUME NEW old,
             generation' = IF old = {} THEN generation ELSE generation + 1,
             recs' = [r \in RecordIds |->
                        IF r \in old THEN Put("archived", generation + 1)
                        ELSE recs[r]]
      PROVE  /\ StoreBounded'
             /\ Grows(recs, generation, recs', generation')
  <2>1. ASSUME NEW r \in RecordIds
        PROVE  \/ r \notin old /\ recs'[r] = recs[r]
               \/ /\ r \in old /\ recs'[r].status = "archived"
                  /\ recs'[r].gen = generation + 1
    BY <1>4 DEF Put
  <2>2. \A r \in RecordIds : recs'[r].gen <= generation'
    <3> TAKE r \in RecordIds
    <3>1. CASE r \in old
      <4>1. generation' = generation + 1
        BY <1>4, <3>1
      <4> QED  BY <1>1, <2>1, <3>1, <4>1
    <3>2. CASE r \notin old
      BY <1>1, <2>1, <3>2 DEF StoreBounded, Record
    <3> QED  BY <3>1, <3>2
  <2>3. Positions(recs') \subseteq Positions(recs)
    BY <2>1 DEF Positions, Stored
  <2>4. IsFiniteSet(Positions(recs'))
    BY <2>3, FS_Subset DEF StoreBounded
  <2> QED  BY <1>1, <2>2, <2>3, <2>4 DEF StoreBounded, Grows
<1> QED  BY <1>2, <1>3, <1>4, StoreSteps DEF Rewritten

(***************************************************************************)
(* The cursor skips no record.                                             *)
(***************************************************************************)

\* The invariant: the persistent cursor and every scan cover what lies behind
\* them with rows that were seen, every plan with the rows of its batch too.
CursorCovered == Covered(cursor, recs, seen, generation)

ScansCovered ==
    /\ \A d \in DreamIds :
         jobs[d].scan # NoScan =>
           ScanCovered(jobs[d].scan, recs, seen, generation)
    /\ \A w \in Workers :
         wk[w].pc = "scanned" =>
           ScanCovered(wk[w].scan, recs, seen, generation)

PlansCovered ==
    \A d \in DreamIds : \A plan \in PlansOf(d) :
        PlanCovered(plan, recs, seen, generation)

ForegroundCovered ==
    fg.pc # "none" => PlanCovered(fg.plan, recs, seen, generation)

CoverInv ==
    /\ StoreBounded
    /\ CursorCovered
    /\ ScansCovered
    /\ PlansCovered
    /\ ForegroundCovered

\* What holds of a scan or a plan lasts.
LEMMA CoversLast ==
    ASSUME TypeInv, StoreBounded, [Next]_vars, TypeInv', seen \subseteq seen'
    PROVE  /\ \A c \in Position : \A more :
                Covered(c, recs, seen \cup more, generation) =>
                  Covered(c, recs', seen' \cup more, generation')
           /\ \A c \in Position :
                Covered(c, recs, seen, generation) =>
                  Covered(c, recs', seen', generation')
           /\ \A s \in Scan :
                ScanCovered(s, recs, seen, generation) =>
                  ScanCovered(s, recs', seen', generation')
           /\ \A plan \in Plan :
                PlanCovered(plan, recs, seen, generation) =>
                  PlanCovered(plan, recs', seen', generation')
<1>1. /\ generation \in Nat /\ generation' \in Nat
      /\ recs' \in [RecordIds -> Record]
  BY DEF TypeInv, TypeOK
<1>2. Grows(recs, generation, recs', generation')
  BY StoreGrows
<1>3. \A c \in Position : \A more :
        Covered(c, recs, seen \cup more, generation) =>
          Covered(c, recs', seen' \cup more, generation')
  <2> TAKE c \in Position
  <2> TAKE more
  <2>1. seen \cup more \subseteq seen' \cup more
    OBVIOUS
  <2> QED  BY <1>1, <1>2, <2>1, CoveredLasts
<1>4. \A c \in Position :
        Covered(c, recs, seen, generation) =>
          Covered(c, recs', seen', generation')
  BY <1>1, <1>2, CoveredLasts
<1>5. \A s \in Scan :
        ScanCovered(s, recs, seen, generation) =>
          ScanCovered(s, recs', seen', generation')
  BY <1>1, <1>2, <1>4 DEF ScanCovered, Scan, Grows
<1>6. \A plan \in Plan :
        PlanCovered(plan, recs, seen, generation) =>
          PlanCovered(plan, recs', seen', generation')
  BY <1>3 DEF PlanCovered, Plan
<1> QED  BY <1>3, <1>4, <1>5, <1>6

\* The scan an attempt plans with is the one it had, or the one of its row.
LEMMA ScannedSteps ==
    ASSUME TypeInv, [Next]_vars, NEW w \in Workers, wk'[w].pc = "scanned"
    PROVE  \/ wk[w].pc = "scanned" /\ wk'[w].scan = wk[w].scan
           \/ \E d \in DreamIds : wk'[w].scan = PinnedScan(jobs[d])
<1> DEFINE Goal == \/ wk[w].pc = "scanned" /\ wk'[w].scan = wk[w].scan
                   \/ \E d \in DreamIds : wk'[w].scan = PinnedScan(jobs[d])
<1>1. wk \in [Workers -> Worker] /\ wk[w] \in Worker
  BY DEF TypeInv, TypeOK
<1>2. ASSUME wk'[w] = wk[w]
      PROVE  Goal
  BY <1>2
<1>3. ASSUME NEW v \in Workers, NEW new, wk' = [wk EXCEPT ![v] = new],
             new.pc # "scanned"
      PROVE  Goal
  BY <1>1, <1>2, <1>3
<1>4. ASSUME NEW v \in Workers, NEW pc, GoTo(v, pc), pc # "scanned"
      PROVE  Goal
  <2>1. wk' = [wk EXCEPT ![v] = [wk[v] EXCEPT !.pc = pc]]
    BY <1>1, <1>4 DEF GoTo
  <2>2. [wk[v] EXCEPT !.pc = pc].pc = pc
    BY <1>1 DEF Worker
  <2> QED  BY <1>3, <1>4, <2>1, <2>2
<1>5. ASSUME NEW v \in Workers, NEW pc, NEW plan, pc # "scanned",
             wk' = [wk EXCEPT ![v].pc = pc, ![v].plan = plan]
      PROVE  Goal
  <2>1. wk' = [wk EXCEPT ![v] = [wk[v] EXCEPT !.pc = pc, !.plan = plan]]
    BY <1>1, <1>5
  <2>2. [wk[v] EXCEPT !.pc = pc, !.plan = plan].pc = pc
    BY <1>1 DEF Worker
  <2> QED  BY <1>3, <1>5, <2>1, <2>2
<1> HIDE DEF Goal
<1>6. ASSUME NEW v \in Workers, NEW thread, Await(v, thread)
       PROVE  Goal
  BY <1>5, <1>6 DEF Await
<1>7. Idle.pc # "scanned"
  BY DEF Idle
<1>8. ASSUME NEW v \in Workers, ScanFor(v)
      PROVE  Goal
  <2> DEFINE j == wk[v].job
             scan == PinnedScan(jobs[j])
  <2>1. CASE GoTo(v, "failing")
    BY <1>4, <2>1
  <2>2. ASSUME NEW plan, Await(v, ThreadOf(v, plan))
        PROVE  Goal
    BY <1>6, <2>2
  <2>3. CASE wk' = [wk EXCEPT ![v].pc = "scanned", ![v].scan = scan]
    <3>1. CASE v # w
      BY <1>1, <1>2, <2>3, <3>1
    <3>2. CASE v = w
      <4> HIDE DEF scan
      <4>1. wk'[w] = [wk[w] EXCEPT !.pc = "scanned", !.scan = scan]
        BY <1>1, <2>3, <3>2
      <4>2. wk'[w].scan = scan
        BY <1>1, <4>1 DEF Worker
      <4>3. j \in DreamIds
        BY <1>8 DEF ScanFor
      <4> QED  BY <4>2, <4>3 DEF scan, Goal
    <3> QED  BY <3>1, <3>2
  <2> QED  BY <1>8, <2>1, <2>2, <2>3 DEF ScanFor
<1>9. ASSUME NEW v \in Workers, WorkerStep(v) \/ Interrupt(v) \/ Crash(v)
      PROVE  Goal
  <2>1. CASE ClaimNothing(v)
    BY <1>2, <2>1 DEF ClaimNothing
  <2>2. CASE Propose(v) \/ Fail(v) \/ Crash(v)
    BY <1>3, <1>7, <2>2 DEF Propose, Fail, Crash
  <2>3. CASE Interrupt(v)
    BY <1>4, <2>3 DEF Interrupt
  <2>4. ASSUME NEW j \in JobIds, NEW token, Claim(v, j, token)
        PROVE  Goal
    <3> DEFINE claim == [Idle EXCEPT !.pc = "claimed", !.job = j,
                                     !.token = token,
                                     !.attempts = jobs[j].attempts + 1,
                                     !.result = jobs[j].result]
    <3>1. wk' = [wk EXCEPT ![v] = claim]
      BY <2>4 DEF Claim
    <3>2. claim.pc = "claimed"
      BY DEF Idle
    <3> HIDE DEF claim
    <3> QED  BY <1>3, <3>1, <3>2
  <2>5. CASE Inspect(v)
    BY <1>4, <1>6, <2>5 DEF Inspect
  <2>6. CASE PlanSnapshot(v)
    BY <1>5, <2>6 DEF PlanSnapshot
  <2>7. CASE PlanSave(v)
    BY <1>4, <1>5, <1>6, <2>7 DEF PlanSave
  <2> QED
    BY <1>8, <1>9, <2>1, <2>2, <2>3, <2>4, <2>5, <2>6, <2>7 DEF WorkerStep
<1>10. ASSUME NEW t \in threads, ThreadStep(t)
      PROVE  Goal
  <2>1. t.worker \in Workers
    BY DEF TypeInv, TypeOK, Thread
  <2>2. ASSUME NEW pc \in {"idle", "failing", "proposing"}, Return(t, pc)
        PROVE  Goal
    <3>1. \/ wk' = wk
          \/ wk' = [wk EXCEPT ![t.worker] = Idle]
          \/ GoTo(t.worker, pc)
      BY <2>2 DEF Return, GoTo
    <3> QED  BY <1>2, <1>3, <1>4, <1>7, <2>1, <3>1
  <2> QED
    BY <1>10, <2>2
       DEF ThreadStep, ThreadConflict, CaptureReview, CaptureCommit,
           DreamCommit
<1>11. CASE UNCHANGED wk
  BY <1>2, <1>11
<1> QED
  BY <1>9, <1>10, <1>11
     DEF Goal, Next, vars, Submit, Remember, Expire, Elapse, Review, Retry,
         Maintain, DreamSnapshot, DreamSave, DreamApply, ApplyProposed,
         ApplyPlan

\* What was seen stays seen.
LEMMA SeenGrows ==
    ASSUME TypeInv, [Next]_vars
    PROVE  seen \subseteq seen'
BY PassSteps DEF Unadvanced, Revisited, Advanced

\* A scan that is pinned starts at the cursor and ends at the present.
LEMMA PinnedCovered ==
    ASSUME TypeInv, CoverInv, NEW d \in DreamIds
    PROVE  /\ PinnedScan(jobs[d]) \in Scan
           /\ ScanCovered(PinnedScan(jobs[d]), recs, seen, generation)
<1>1. /\ jobs[d] \in JobRow /\ generation \in Nat /\ writes \in Nat
      /\ cursor \in Position
  BY DEF JobIds, TypeInv, TypeOK, JobRow
<1>2. CASE jobs[d].scan # NoScan
  BY <1>1, <1>2
     DEF PinnedScan, CoverInv, ScansCovered, JobRow, Row
<1>3. CASE jobs[d].scan = NoScan
  <2>1. PinnedScan(jobs[d]) =
          [cursor |-> cursor, end |-> generation, writes |-> writes]
    BY <1>3 DEF PinnedScan
  <2> QED
    BY <1>1, <2>1 DEF CoverInv, CursorCovered, ScanCovered, Scan
<1> QED  BY <1>2, <1>3

\* The next batch of a scan covers what it reads.
LEMMA SnapshotCovers ==
    ASSUME TypeInv, CoverInv, NEW scan \in Scan,
           ScanCovered(scan, recs, seen, generation)
    PROVE  /\ SnapshotPlan(scan).cursor \in Position
           /\ PlanCovered(SnapshotPlan(scan), recs, seen, generation)
<1> DEFINE batch == FirstRows(Ahead(recs, scan.cursor, scan.end))
<1>1. /\ scan.cursor \in Position /\ scan.end \in Nat
      /\ generation \in Nat /\ recs \in [RecordIds -> Record]
  BY DEF Scan, TypeInv, TypeOK
<1>2. Covered(LastRow(batch, scan.cursor), recs, seen \cup batch, generation)
  BY <1>1, AheadCovers DEF CoverInv, StoreBounded, ScanCovered
<1>3. /\ SnapshotPlan(scan).cursor = LastRow(batch, scan.cursor)
      /\ SnapshotPlan(scan).batch = batch
  BY DEF SnapshotPlan
<1>4. LastRow(batch, scan.cursor) \in Position
  <2>1. Ahead(recs, scan.cursor, scan.end) \subseteq Position
    BY <1>1, BatchTypes
  <2>2. batch \subseteq Position
    BY <1>1, <2>1, BatchTypes
  <2> HIDE DEF batch
  <2> QED  BY <1>1, <2>2, BatchTypes
<1> QED  BY <1>2, <1>3, <1>4 DEF PlanCovered

\* A caller's own snapshot covers what it reads, the oldest records included
\* when it revisits them.
LEMMA ForegroundCovers ==
    ASSUME TypeInv, CoverInv, DreamSnapshot
    PROVE  /\ fg'.plan.cursor \in Position
           /\ PlanCovered(fg'.plan, recs, seen, generation)
<1> DEFINE new == FirstRows(Ahead(recs, cursor, generation))
           batch == IF new # {} THEN new ELSE FirstRows(Positions(recs))
<1>1. /\ cursor \in Position /\ generation \in Nat
      /\ recs \in [RecordIds -> Record] /\ IsFiniteSet(Positions(recs))
      /\ Covered(cursor, recs, seen, generation)
  BY DEF TypeInv, TypeOK, CoverInv, StoreBounded, CursorCovered
<1>2. fg'.plan.cursor = LastRow(batch, cursor) /\ fg'.plan.batch = batch
  BY DEF DreamSnapshot
<1>3. Covered(LastRow(new, cursor), recs, seen \cup new, generation)
  BY <1>1, AheadCovers
<1>4. Covered(LastRow(FirstRows(Positions(recs)), cursor), recs,
              seen \cup FirstRows(Positions(recs)), generation)
  <2>1. \A l \in Positions(recs) : l[1] <= generation
    BY DEF CoverInv, StoreBounded, Positions, Stored
  <2> QED  BY <1>1, <2>1, BatchCovers
<1>5. Covered(LastRow(batch, cursor), recs, seen \cup batch, generation)
  BY <1>3, <1>4
<1>6. LastRow(batch, cursor) \in Position
  <2>1. /\ Positions(recs) \subseteq Position
        /\ Ahead(recs, cursor, generation) \subseteq Position
    BY <1>1, BatchTypes
  <2>2. /\ FirstRows(Ahead(recs, cursor, generation)) \subseteq Position
        /\ FirstRows(Positions(recs)) \subseteq Position
    BY <1>1, <2>1, BatchTypes
  <2>3. batch \subseteq Position
    BY <2>2
  <2> HIDE DEF batch
  <2> QED  BY <1>1, <2>3, BatchTypes
<1> HIDE DEF batch
<1> QED  BY <1>2, <1>5, <1>6 DEF PlanCovered

\* Every step keeps the invariant.
LEMMA CoverInvStep ==
    ASSUME TypeInv, ApprovalInv, CoverInv, [Next]_vars, TypeInv'
    PROVE  CoverInv'
<1>1. StoreBounded' /\ seen \subseteq seen'
  BY StoreGrows, SeenGrows DEF CoverInv
<1>2. /\ \A c \in Position : \A more :
           Covered(c, recs, seen \cup more, generation) =>
             Covered(c, recs', seen' \cup more, generation')
      /\ \A c \in Position :
           Covered(c, recs, seen, generation) =>
             Covered(c, recs', seen', generation')
      /\ \A s \in Scan :
           ScanCovered(s, recs, seen, generation) =>
             ScanCovered(s, recs', seen', generation')
      /\ \A plan \in Plan :
           PlanCovered(plan, recs, seen, generation) =>
             PlanCovered(plan, recs', seen', generation')
  BY <1>1, CoversLast DEF CoverInv
<1>3. ASSUME NEW plan, plan.cursor \in Position,
             PlanCovered(plan, recs, seen, generation)
      PROVE  /\ PlanCovered(plan, recs', seen', generation')
             /\ seen' = seen \cup plan.batch =>
                  Covered(plan.cursor, recs', seen', generation')
  <2>1. Covered(plan.cursor, recs', seen' \cup plan.batch, generation')
    BY <1>2, <1>3 DEF PlanCovered
  <2>2. seen' = seen \cup plan.batch => seen' \cup plan.batch = seen'
    OBVIOUS
  <2> QED  BY <2>1, <2>2 DEF PlanCovered
<1>4. ASSUME NEW d \in DreamIds, NEW plan \in PlansOf(d)
      PROVE  /\ plan \in Plan /\ plan.cursor \in Position
             /\ PlanCovered(plan, recs, seen, generation)
  <2>1. plan \in Plan
    BY PlansTyped DEF JobIds
  <2> QED  BY <2>1 DEF Plan, CoverInv, PlansCovered
<1>5. /\ cursor \in Position /\ fg.plan \in Plan
      /\ \A d \in DreamIds : jobs[d].scan \in Scan \cup {NoScan}
      /\ \A w \in Workers : wk[w].pc = "scanned" => wk[w].scan \in Scan
  BY DEF TypeInv, TypeOK, ForegroundDream, JobIds, Row, WorkerShape
<1>6. CursorCovered'
  <2>1. CASE UNCHANGED <<cursor, seen>>
    BY <1>2, <1>5, <2>1 DEF CoverInv, CursorCovered
  <2>2. CASE Revisited
    <3>1. ASSUME NEW plan, plan.cursor \in Position,
                 PlanCovered(plan, recs, seen, generation),
                 cursor' = plan.cursor, seen' = seen \cup plan.batch
          PROVE  CursorCovered'
      BY <1>3, <3>1 DEF CursorCovered
    <3>2. fg.plan.cursor \in Position
      BY <1>5 DEF Plan
    <3> QED
      BY <1>4, <2>2, <3>1, <3>2
         DEF Revisited, CoverInv, ForegroundCovered
  <2>3. ASSUME NEW d \in DreamIds, NEW plan \in PlansOf(d), Advanced(d, plan)
        PROVE  CursorCovered'
    <3>1. cursor' \in {cursor, plan.cursor} /\ seen' = seen \cup plan.batch
      BY <2>3 DEF Advanced
    <3>2. Covered(plan.cursor, recs', seen', generation')
      BY <1>3, <1>4, <3>1
    <3>3. Covered(cursor, recs', seen', generation')
      BY <1>2, <1>5 DEF CoverInv, CursorCovered
    <3> QED  BY <3>1, <3>2, <3>3 DEF CursorCovered
  <2> QED  BY <2>1, <2>2, <2>3, PassSteps DEF Unadvanced
<1>7. ASSUME NEW d \in DreamIds, jobs'[d].scan # NoScan
      PROVE  ScanCovered(jobs'[d].scan, recs', seen', generation')
  <2>1. CASE SameScan(d)
    BY <1>2, <1>5, <1>7, <2>1 DEF SameScan, CoverInv, ScansCovered
  <2>2. CASE jobs'[d].scan = PinnedScan(jobs[d])
    BY <1>2, <2>2, PinnedCovered
  <2>3. ASSUME NEW e \in DreamIds, NEW plan \in PlansOf(e), Advanced(e, plan)
        PROVE  ScanCovered(jobs'[d].scan, recs', seen', generation')
    <3>1. CASE d = e
      BY <1>2, <1>5, <1>7, <2>3, <3>1 DEF Advanced, CoverInv, ScansCovered
    <3>2. CASE d # e /\ jobs'[d].scan = Continuation(jobs[e].scan, plan)
      <4> DEFINE scan == jobs[e].scan
      <4>1. scan \in Scan /\ ScanCovered(scan, recs', seen', generation')
        BY <1>2, <1>5, <2>3 DEF Advanced, CoverInv, ScansCovered
      <4>2. /\ jobs'[d].scan.cursor = plan.cursor
            /\ jobs'[d].scan.end = scan.end
        BY <3>2, <4>1 DEF Continuation, Scan
      <4>3. Covered(plan.cursor, recs', seen', generation')
        BY <1>3, <1>4, <2>3 DEF Advanced
      <4> QED  BY <4>1, <4>2, <4>3 DEF ScanCovered
    <3>3. CASE d # e /\ jobs'[d].scan # Continuation(jobs[e].scan, plan)
      BY <1>7, <2>1, <2>3, <3>3 DEF Advanced
    <3> QED  BY <3>1, <3>2, <3>3
  <2> QED  BY <1>7, <2>1, <2>2, <2>3, PassSteps DEF Unadvanced
<1>8. ASSUME NEW w \in Workers, wk'[w].pc = "scanned"
      PROVE  ScanCovered(wk'[w].scan, recs', seen', generation')
  <2>1. CASE wk[w].pc = "scanned" /\ wk'[w].scan = wk[w].scan
    BY <1>2, <1>5, <2>1 DEF CoverInv, ScansCovered
  <2>2. ASSUME NEW d \in DreamIds, wk'[w].scan = PinnedScan(jobs[d])
        PROVE  ScanCovered(wk'[w].scan, recs', seen', generation')
    BY <1>2, <2>2, PinnedCovered
  <2> QED  BY <1>8, <2>1, <2>2, ScannedSteps
<1>9. ScansCovered'
  BY <1>7, <1>8 DEF ScansCovered
<1>10. ASSUME NEW d \in DreamIds, NEW plan \in PlansOf(d)'
       PROVE  PlanCovered(plan, recs', seen', generation')
  <2>1. Known(d, plan) /\ d \notin CaptureIds
    BY <1>10, PlanSteps, IdsAssumption DEF JobIds
  <2>2. CASE plan \in PlansOf(d)
    BY <1>3, <1>4, <2>2
  <2>3. ASSUME NEW w \in Workers, wk[w].pc = "scanned",
               plan = SnapshotPlan(wk[w].scan)
        PROVE  PlanCovered(plan, recs', seen', generation')
    <3>1. /\ plan.cursor \in Position
          /\ PlanCovered(plan, recs, seen, generation)
      BY <1>5, <2>3, SnapshotCovers DEF CoverInv, ScansCovered
    <3> QED  BY <1>3, <3>1
  <2>4. ASSUME NEW old \in PlansOf(d), NEW c, plan = [old EXCEPT !.change = c]
        PROVE  PlanCovered(plan, recs', seen', generation')
    <3>1. /\ old \in Plan /\ old.cursor \in Position
          /\ PlanCovered(old, recs, seen, generation)
      BY <1>4
    <3>2. plan.cursor = old.cursor /\ plan.batch = old.batch
      BY <2>4, <3>1 DEF Plan
    <3>3. PlanCovered(plan, recs, seen, generation)
      BY <3>1, <3>2 DEF PlanCovered
    <3> QED  BY <1>3, <3>1, <3>2, <3>3
  <2> QED  BY <2>1, <2>2, <2>3, <2>4 DEF Known, FreshPlan
<1>11. PlansCovered'
  BY <1>10 DEF PlansCovered
<1>12. ForegroundCovered'
  <2>1. ASSUME fg'.pc # "none", fg.pc # "none",
               fg'.plan.cursor = fg.plan.cursor,
               fg'.plan.batch = fg.plan.batch
        PROVE  ForegroundCovered'
    <3>1. /\ fg.plan.cursor \in Position
          /\ PlanCovered(fg.plan, recs, seen, generation)
      BY <1>5, <2>1 DEF Plan, CoverInv, ForegroundCovered
    <3>2. PlanCovered(fg.plan, recs', seen', generation')
      BY <1>3, <3>1
    <3> QED  BY <2>1, <3>2 DEF ForegroundCovered, PlanCovered
  <2>2. CASE fg'.pc = "none"
    BY <2>2 DEF ForegroundCovered
  <2>3. CASE UNCHANGED fg
    BY <2>1, <2>2, <2>3
  <2>4. CASE DreamSnapshot
    <3>1. /\ fg'.plan.cursor \in Position
          /\ PlanCovered(fg'.plan, recs, seen, generation)
      BY <2>4, ForegroundCovers
    <3>2. PlanCovered(fg'.plan, recs', seen', generation')
      BY <1>3, <3>1
    <3> QED  BY <3>2 DEF ForegroundCovered
  <2>5. CASE DreamSave /\ fg' # NoDream
    <3>1. PICK c : fg' = [pc |-> "saved", plan |-> [fg.plan EXCEPT !.change = c]]
      BY <2>5 DEF DreamSave
    <3>2. fg'.pc = "saved" /\ fg'.plan = [fg.plan EXCEPT !.change = c]
      BY <3>1
    <3>3. fg'.plan.cursor = fg.plan.cursor /\ fg'.plan.batch = fg.plan.batch
      BY <1>5, <3>2 DEF Plan
    <3>4. fg.pc # "none"
      BY <2>5 DEF DreamSave
    <3> QED  BY <2>1, <3>2, <3>3, <3>4
  <2>6. CASE fg' = NoDream
    BY <2>2, <2>6 DEF NoDream
  <2> QED
    BY <2>3, <2>4, <2>5, <2>6
       DEF Next, vars, Submit, Remember, WorkerStep, Claim, ClaimNothing,
           Inspect, ScanFor, PlanSnapshot, PlanSave, Propose, Fail, Interrupt,
           Crash, ThreadStep, ThreadConflict, CaptureReview, CaptureCommit,
           DreamCommit, Expire, Elapse, Review, Retry, Maintain, DreamApply,
           ApplyProposed
<1> QED  BY <1>1, <1>6, <1>9, <1>11, <1>12 DEF CoverInv

\* The empty store is covered.
LEMMA CoverInvInit == Init => CoverInv
<1> SUFFICES ASSUME Init PROVE CoverInv
  OBVIOUS
<1>1. Positions(recs) = {}
  BY DEF Init, Positions, Stored, Put
<1>2. StoreBounded
  <2>1. \A r \in RecordIds : recs[r].gen = 0 /\ generation = 0
    BY DEF Init, Put
  <2>2. IsFiniteSet(Positions(recs))
    BY <1>1, FS_EmptySet
  <2> QED  BY <2>1, <2>2 DEF StoreBounded
<1>3. CursorCovered
  BY <1>1 DEF Init, CursorCovered, Covered, Start
<1>4. ScansCovered /\ ForegroundCovered
  BY DEF Init, ScansCovered, ForegroundCovered, AbsentRow, Idle, NoDream, JobIds
<1>5. PlansCovered
  BY DEF Init, PlansCovered, PlansOf, AbsentRow, Idle, JobIds, Planning
<1> QED  BY <1>2, <1>3, <1>4, <1>5 DEF CoverInv

\* Every stored record at or before the persistent dream cursor was handed to
\* a planner in its present version.
THEOREM CursorsCover == Spec => []CursorCovers
<1>1. TypeInv /\ ApprovalInv /\ CoverInv /\ [Next]_vars /\ TypeInv' => CoverInv'
  BY CoverInvStep
<1>2. CoverInv => CursorCovers
  BY DEF CoverInv, CursorCovered, Covered, CursorCovers
<1> QED
  BY <1>1, <1>2, CoverInvInit, TypeInvInit, TypeInvStep, ApprovalInit,
     ApprovalInvStep, PTL DEF Spec

\* When a dream job ends its pass and accounts for the writes before it, every
\* stored record up to the boundary of the pass has been handed to a planner.
THEOREM PassesCover == Spec => PassCovers
<1>1. TypeInv /\ ApprovalInv /\ CoverInv /\ [Next]_vars /\ TypeInv' => CoverInv'
  BY CoverInvStep
<1>2. TypeInv /\ CoverInv /\ TypeInv' /\ [Next]_vars =>
        \A d \in DreamIds :
          /\ ~jobs[d].continued /\ jobs'[d].continued
          /\ dreamWrites' # dreamWrites
          => \A p \in Positions(recs') :
               p[1] <= jobs[d].scan.end => p \in seen'
  <2> SUFFICES ASSUME TypeInv, CoverInv, TypeInv', [Next]_vars,
                      NEW d \in DreamIds,
                      ~jobs[d].continued, jobs'[d].continued,
                      dreamWrites' # dreamWrites,
                      NEW p \in Positions(recs'), p[1] <= jobs[d].scan.end
               PROVE  p \in seen'
    OBVIOUS
  <2>1. ~Unadvanced
    BY DEF Unadvanced, SameScan
  <2>2. PICK e \in DreamIds : \E plan \in PlansOf(e) : Advanced(e, plan)
    BY <2>1, PassSteps
  <2>3. e = d
    BY <2>2 DEF Advanced, SameScan
  <2>4. PICK plan \in PlansOf(d) : Advanced(d, plan)
    BY <2>2, <2>3
  <2>5. /\ jobs[d].scan \in Scan /\ jobs[d].scan.end \in Nat
        /\ plan \in Plan /\ plan.cursor \in Position /\ generation \in Nat
        /\ p \in Position /\ p[1] \in Nat
    <3>1. recs' \in [RecordIds -> Record]
      BY DEF TypeInv, TypeOK
    <3>2. p \in Position /\ p[1] \in Nat
      BY <3>1 DEF Positions, Position, Stored, Record
    <3>3. plan \in Plan /\ plan.cursor \in Position
      BY PlansTyped DEF JobIds, Plan
    <3>4. jobs[d].scan \in Scan /\ generation \in Nat
      BY <2>4 DEF Advanced, TypeInv, TypeOK, JobIds, Row
    <3> QED  BY <3>2, <3>3, <3>4 DEF Scan
  <2>6. ScanCovered(jobs[d].scan, recs, seen, generation)
    BY <2>4 DEF Advanced, CoverInv, ScansCovered
  <2>7. p \in Positions(recs)
    <3>1. Grows(recs, generation, recs', generation')
      BY StoreGrows DEF CoverInv
    <3> QED  BY <2>5, <2>6, <3>1 DEF ScanCovered, Grows
  <2>8. ~Before(plan.cursor, p)
    BY <2>4 DEF Advanced, Ahead
  <2>9. PlanCovered(plan, recs, seen, generation)
    BY DEF CoverInv, PlansCovered
  <2> QED  BY <2>4, <2>7, <2>8, <2>9 DEF Advanced, PlanCovered, Covered
<1> QED
  BY <1>1, <1>2, CoverInvInit, TypeInvInit, TypeInvStep, ApprovalInit,
     ApprovalInvStep, PTL DEF Spec, PassCovers

=============================================================================
