------------------------- MODULE MaintenanceProofs --------------------------
(***************************************************************************)
(* Theorems about Maintenance, for every set of workers, jobs, records and *)
(* tokens and every policy.                                                *)
(***************************************************************************)
EXTENDS Maintenance, TLAPS

JobRow == Row(Result, Scan)

(***************************************************************************)
(* Rows.                                                                   *)
(***************************************************************************)

\* Inserting, expiring and settling a row give a row.
LEMMA RowUpdates ==
    ASSUME NEW row \in JobRow
    PROVE  /\ RowElapses(row) \in JobRow
           /\ RowExpires(row) \in JobRow
           /\ SweepRow(row) \in JobRow
           /\ RetryRow(row) \in JobRow
           /\ \A s \in Statuses, r \in Result \cup {NoResult} :
                FinishRow(row, s, r) \in JobRow
           /\ \A a \in 0 .. MaxAttempts : FailRow(row, a) \in JobRow
           /\ [row EXCEPT !.scan = NoScan, !.continued = FALSE] \in JobRow
           /\ [row EXCEPT !.continued = TRUE] \in JobRow
           /\ \A s \in Scan : [row EXCEPT !.scan = s] \in JobRow
<1> USE DEF JobRow, Row
<1>1. RowElapses(row) \in JobRow /\ RowExpires(row) \in JobRow
  BY DEF RowElapses, RowExpires
<1>2. SweepRow(row) \in JobRow
  BY DEF SweepRow, Statuses
<1>3. \A s \in Statuses, r \in Result \cup {NoResult} :
        FinishRow(row, s, r) \in JobRow
  BY DEF FinishRow
<1>4. RetryRow(row) \in JobRow
  <2>0. 0 \in 0 .. MaxAttempts
    BY MaxAttemptsAssumption
  <2>1. ASSUME NEW r \in JobRow
        PROVE  [r EXCEPT !.attempts = 0, !.ready = TRUE] \in JobRow
    BY <2>0
  <2>2. FinishRow(row, "pending", NoResult) \in JobRow
    BY <1>3 DEF Statuses
  <2> HIDE DEF JobRow
  <2> QED  BY <2>1, <2>2 DEF RetryRow
<1>5. \A a \in 0 .. MaxAttempts : FailRow(row, a) \in JobRow
  BY DEF FinishRow, FailRow, Statuses
<1>6. /\ [row EXCEPT !.scan = NoScan, !.continued = FALSE] \in JobRow
      /\ [row EXCEPT !.continued = TRUE] \in JobRow
      /\ \A s \in Scan : [row EXCEPT !.scan = s] \in JobRow
  OBVIOUS
<1> QED  BY <1>1, <1>2, <1>3, <1>4, <1>5, <1>6

\* A new row is a row.
LEMMA NewRowType ==
    ASSUME NEW scan \in Scan \cup {NoScan}
    PROVE  NewRow(scan) \in JobRow /\ AbsentRow \in JobRow
<1>1. 0 \in 0 .. MaxAttempts
  BY MaxAttemptsAssumption
<1>2. AbsentRow \in JobRow
  BY <1>1 DEF AbsentRow, JobRow, Row, Statuses
<1>3. ASSUME NEW row \in JobRow
      PROVE  [row EXCEPT !.status = "pending", !.ready = TRUE, !.scan = scan]
               \in JobRow
  BY DEF JobRow, Row, Statuses
<1> QED  BY <1>2, <1>3 DEF NewRow

\* Claiming a row with attempts left gives a row; this is what the bound of the
\* SELECT is for.
LEMMA ClaimRowType ==
    ASSUME NEW row \in JobRow, NEW token \in Tokens,
           row.attempts < MaxAttempts
    PROVE  ClaimRow(row, token) \in JobRow
<1>1. row.attempts + 1 \in 0 .. MaxAttempts
  BY MaxAttemptsAssumption DEF JobRow, Row
<1> QED  BY <1>1 DEF ClaimRow, JobRow, Row, Statuses

\* A review of a row with a proposal gives a row.
LEMMA ReviewRowType ==
    ASSUME NEW row \in JobRow, NEW accept \in BOOLEAN,
           row.result \in Result
    PROVE  ReviewRow(row, accept) \in JobRow
<1> DEFINE verdict == IF accept THEN "approved" ELSE "rejected"
           status == IF accept THEN "pending" ELSE "rejected"
           result == [row.result EXCEPT !.verdict = verdict]
<1>1. 0 \in 0 .. MaxAttempts
  BY MaxAttemptsAssumption
<1>2. result \in Result
  BY DEF JobRow, Row, Result
<1>3. ReviewRow(row, accept) =
        [row EXCEPT !.status = status, !.result = result, !.attempts = 0,
                    !.ready = TRUE]
  BY DEF ReviewRow, JobRow, Row
<1>4. status \in Statuses
  BY DEF Statuses
<1> HIDE DEF verdict, status, result
<1> QED  BY <1>1, <1>2, <1>3, <1>4 DEF JobRow, Row

(***************************************************************************)
(* Records and scans.                                                      *)
(***************************************************************************)

\* A change maps records to records.
LEMMA ApplyChangeType ==
    ASSUME NEW rs \in [RecordIds -> Record], NEW c \in Change, NEW g \in Nat
    PROVE  ApplyChange(rs, c, g) \in [RecordIds -> Record]
<1>1. \A st \in RecordStatuses : Put(st, g) \in Record
  BY DEF Put, Record
<1>2. c.op \in Ops
  BY DEF Change
<1> QED
  BY <1>1, <1>2 DEF ApplyChange, Ops, RecordStatuses

\* The decisions a reconciler or planner may return are changes.
LEMMA ReconciliationTypes ==
    ASSUME NEW id \in RecordIds, NEW ops \in SUBSET Ops
    PROVE  Reconciliations(ops, id) \subseteq Change
BY DEF Reconciliations, Change, Ops

\* What a planner may propose for a batch of positions is a change.
LEMMA DreamChangeTypes ==
    ASSUME NEW batch \in SUBSET Position
    PROVE  DreamChanges(batch) \subseteq Change
<1>1. NoChange \in Change
  BY DEF NoChange, Change, Ops
<1>2. \A n \in NoteIds : Reconciliations(DreamOps, n) \subseteq Change
  BY ReconciliationTypes, OpsAssumption, IdsAssumption
<1>3. \A op \in DreamOps \cap {"merge"}, p \in batch, t \in RecordIds :
        [op |-> op, id |-> p[2], target |-> t] \in Change
  BY DEF Change, Position, Ops
<1> QED  BY <1>1, <1>2, <1>3 DEF DreamChanges

\* Batches hold positions and end at one.
LEMMA BatchTypes ==
    ASSUME NEW rs \in [RecordIds -> Record], NEW cur \in Position, NEW end
    PROVE  /\ Positions(rs) \subseteq Position
           /\ Ahead(rs, cur, end) \subseteq Position
           /\ \A rows \in SUBSET Position :
                /\ FirstRows(rows) \subseteq Position
                /\ LastRow(rows, cur) \in Position
<1>1. Positions(rs) \subseteq Position
  BY DEF Positions, Position, Stored, Record
<1>2. Ahead(rs, cur, end) \subseteq Position
  BY <1>1 DEF Ahead
<1>3. ASSUME NEW rows \in SUBSET Position
      PROVE  FirstRows(rows) \subseteq Position /\ LastRow(rows, cur) \in Position
  BY DEF FirstRows, LastRow
<1> QED  BY <1>1, <1>2, <1>3

(***************************************************************************)
(* Scheduling.                                                             *)
(***************************************************************************)

HasRoom(table) == \E d \in DreamIds : table[d].status = "absent"

\* A new dream row takes the place of a row that was absent.
LEMMA FreshDreamIsAbsent ==
    ASSUME NEW table, HasRoom(table)
    PROVE  /\ FreshDream(table) \in DreamIds
           /\ FreshDream(table) \in JobIds
           /\ table[FreshDream(table)].status = "absent"
BY DEF HasRoom, FreshDream, JobIds

\* What a scheduling step may do to the table: insert absent rows.
OnlyInserts(old, new) ==
    /\ new \in [JobIds -> JobRow]
    /\ \A j \in JobIds :
         \/ new[j] = old[j]
         \/ /\ old[j].status = "absent"
            /\ \E scan \in Scan \cup {NoScan} : new[j] = NewRow(scan)

\* schedule_dream inserts at most one row, where none was.
LEMMA ScheduleInserts ==
    ASSUME NEW table \in [JobIds -> JobRow], HasRoom(table), NEW w, NEW dw
    PROVE  OnlyInserts(table, ScheduleDream(table, w, dw))
<1>1. NewRow(NoScan) \in JobRow
  BY NewRowType
<1>2. CASE ScheduleDream(table, w, dw) = table
  BY <1>2 DEF OnlyInserts
<1>3. CASE ScheduleDream(table, w, dw) =
             [table EXCEPT ![FreshDream(table)] = NewRow(NoScan)]
  BY <1>1, <1>3, FreshDreamIsAbsent DEF OnlyInserts
<1> QED  BY <1>2, <1>3 DEF ScheduleDream

\* advance marks its own row and inserts at most one, and leaves a cursor,
\* counters and histories of the right kind.
LEMMA AdvanceEffect ==
    ASSUME TypeOK,
           NEW table \in [JobIds -> JobRow], HasRoom(table),
           NEW j \in DreamIds, table[j].status # "absent",
           NEW plan \in Plan, NEW newRecs, NEW w
    PROVE  LET adv == Advance(table, j, plan, newRecs, w)
               marked == [table EXCEPT ![j].continued = TRUE]
           IN  /\ \/ adv.jobs = table
                  \/ OnlyInserts(marked, adv.jobs)
               /\ adv.jobs \in [JobIds -> JobRow]
               /\ adv.dreamWrites \in Nat
               /\ adv.cursor \in Position
               /\ adv.seen \subseteq Position
               /\ adv.passedOn \in [DreamIds -> Nat]
<1> DEFINE adv == Advance(table, j, plan, newRecs, w)
           scan == table[j].scan
           more == MoreRows(newRecs, plan, scan)
           dw == IF more THEN dreamWrites ELSE Max2(dreamWrites, scan.writes)
           marked == [table EXCEPT ![j].continued = TRUE]
           continued == [marked EXCEPT ![FreshDream(table)] =
                           NewRow(Continuation(scan, plan))]
<1>0. j \in JobIds
  BY DEF JobIds
<1>1. CASE AlreadyAdvanced(table[j])
  <2>1. adv = AdvanceState(table, dreamWrites, cursor, seen, passedOn)
    BY <1>1 DEF Advance
  <2> QED  BY <2>1 DEF AdvanceState, TypeOK
<1>2. CASE ~AlreadyAdvanced(table[j])
  <2>1. scan \in Scan
    BY <1>0, <1>2 DEF AlreadyAdvanced, JobRow, Row
  <2>2. marked \in [JobIds -> JobRow]
    BY <1>0, RowUpdates
  <2>3. \A i \in JobIds : marked[i].status = table[i].status
    BY <1>0 DEF JobRow, Row
  <2>4. HasRoom(marked)
    BY <2>3 DEF HasRoom, JobIds
  <2>5. Continuation(scan, plan) \in Scan
    BY <2>1 DEF Continuation, Scan, Plan
  <2>6. OnlyInserts(marked, continued)
    <3>1. /\ FreshDream(table) \in JobIds
          /\ table[FreshDream(table)].status = "absent"
      BY FreshDreamIsAbsent
    <3>2. NewRow(Continuation(scan, plan)) \in JobRow
      BY <2>5, NewRowType
    <3> HIDE DEF marked
    <3> QED  BY <2>2, <2>3, <2>5, <3>1, <3>2 DEF OnlyInserts
  <2>7. OnlyInserts(marked, ScheduleDream(marked, w, dw))
    BY <2>2, <2>4, ScheduleInserts
  <2>8. /\ adv.jobs = IF more THEN continued
                      ELSE ScheduleDream(marked, w, dw)
        /\ adv.dreamWrites = dw
        /\ adv.cursor = MovedCursor(plan, scan)
        /\ adv.seen = seen \cup plan.batch
        /\ adv.passedOn =
             IF more THEN [passedOn EXCEPT ![j] = @ + 1] ELSE passedOn
    BY <1>2 DEF Advance, AdvanceState
  <2>9. OnlyInserts(marked, adv.jobs)
    BY <2>6, <2>7, <2>8
  <2>10. dw \in Nat
    BY <2>1 DEF Max2, Scan, TypeOK
  <2>11. MovedCursor(plan, scan) \in Position
    BY DEF MovedCursor, Plan, TypeOK
  <2>12. seen \cup plan.batch \subseteq Position
    BY DEF Plan, TypeOK
  <2>13. adv.passedOn \in [DreamIds -> Nat]
    BY <2>8 DEF TypeOK
  <2> QED  BY <2>8, <2>9, <2>10, <2>11, <2>12, <2>13 DEF OnlyInserts
<1> QED  BY <1>1, <1>2

(***************************************************************************)
(* Type correctness.                                                       *)
(***************************************************************************)

\* A worker in the middle of an attempt holds a claim, and after scan_for a scan.
WorkerShape ==
    \A w \in Workers :
        /\ wk[w].pc # "idle" => wk[w].job \in JobIds /\ wk[w].token \in Tokens
        /\ wk[w].pc = "scanned" => wk[w].scan \in Scan

\* A row that awaits review holds the proposal.
ProposalShape ==
    \A j \in JobIds : jobs[j].status = "proposed" => jobs[j].result \in Result

\* TypeOK alone is not inductive: a review edits the stored proposal and a
\* plan uses the worker's scan.
TypeInv == TypeOK /\ WorkerShape /\ ProposalShape

\* The initial values are of their kinds.
LEMMA StartTypes ==
    /\ Start \in Position
    /\ NoChange \in Change
    /\ NoPlan \in Plan
    /\ Idle \in Worker
    /\ NoDream \in ForegroundDream
<1>1. Start \in Position
  BY DEF Start, Position
<1>2. NoChange \in Change
  BY DEF NoChange, Change, Ops
<1>3. NoPlan \in Plan
  BY <1>1, <1>2 DEF NoPlan, Plan
<1>4. 0 \in 0 .. MaxAttempts
  BY MaxAttemptsAssumption
<1>5. Idle \in Worker
  BY <1>3, <1>4 DEF Idle, Worker, WorkerStates
<1>6. NoDream \in ForegroundDream
  BY <1>3 DEF NoDream, ForegroundDream
<1> QED  BY <1>1, <1>2, <1>3, <1>5, <1>6

\* The empty database and idle workers satisfy TypeInv.
LEMMA TypeInvInit == Init => TypeInv
<1> SUFFICES ASSUME Init PROVE TypeInv
  OBVIOUS
<1>1. jobs \in [JobIds -> JobRow]
  BY NewRowType DEF Init
<1>2. recs \in [RecordIds -> Record]
  BY DEF Init, Put, Record, RecordStatuses
<1>3. wk \in [Workers -> Worker]
  BY StartTypes DEF Init
<1>4. TypeOK
  BY <1>1, <1>2, <1>3, StartTypes DEF Init, TypeOK, JobRow
<1>5. WorkerShape
  BY DEF Init, WorkerShape, Idle
<1>6. ProposalShape
  BY DEF Init, ProposalShape, AbsentRow
<1> QED  BY <1>4, <1>5, <1>6 DEF TypeInv

WorkersTyped == wk \in [Workers -> Worker] /\ WorkerShape

\* Moving to another step of the same attempt.
LEMMA GoToType ==
    ASSUME TypeInv, NEW w \in Workers, wk[w].pc # "idle",
           NEW pc \in WorkerStates \ {"idle", "scanned"}, GoTo(w, pc)
    PROVE  WorkersTyped'
<1>1. wk' \in [Workers -> Worker]
  BY DEF GoTo, TypeInv, TypeOK, Worker
<1>2. WorkerShape'
  BY DEF GoTo, TypeInv, TypeOK, WorkerShape, Worker
<1> QED  BY <1>1, <1>2 DEF WorkersTyped

\* Ending an attempt.
LEMMA IdleType ==
    ASSUME TypeInv, NEW w \in Workers, wk' = [wk EXCEPT ![w] = Idle]
    PROVE  WorkersTyped'
<1>1. wk' \in [Workers -> Worker]
  BY StartTypes DEF TypeInv, TypeOK
<1>2. WorkerShape'
  BY DEF TypeInv, TypeOK, WorkerShape, Idle
<1> QED  BY <1>1, <1>2 DEF WorkersTyped

\* Handing a transaction to a thread.
LEMMA AwaitType ==
    ASSUME TypeInv, NEW w \in Workers, wk[w].pc # "idle",
           NEW plan \in Plan, Await(w, ThreadOf(w, plan))
    PROVE  WorkersTyped' /\ threads' \subseteq Thread
<1>1. ThreadOf(w, plan) \in Thread
  BY DEF ThreadOf, Thread, TypeInv, WorkerShape, Approved
<1>2. threads' \subseteq Thread
  BY <1>1 DEF Await, TypeInv, TypeOK
<1>3. wk' = [wk EXCEPT ![w].pc = "waiting", ![w].plan = plan]
  BY DEF Await, ThreadOf
<1>4. wk' = [wk EXCEPT ![w] = [wk[w] EXCEPT !.pc = "waiting", !.plan = plan]]
  BY <1>3 DEF TypeInv, TypeOK
<1>5. [wk[w] EXCEPT !.pc = "waiting", !.plan = plan] \in Worker
  BY DEF TypeInv, TypeOK, Worker, WorkerStates
<1>6. wk' \in [Workers -> Worker]
  BY <1>4, <1>5 DEF TypeInv, TypeOK
<1>7. /\ wk'[w].pc = "waiting" /\ wk'[w].job = wk[w].job
      /\ wk'[w].token = wk[w].token
      /\ \A v \in Workers \ {w} : wk'[v] = wk[v]
  BY <1>4 DEF TypeInv, TypeOK, Worker
<1>8. WorkerShape'
  BY <1>7 DEF TypeInv, WorkerShape
<1> QED  BY <1>2, <1>6, <1>8 DEF WorkersTyped

\* A thread ends.
LEMMA ReturnType ==
    ASSUME TypeInv, NEW t \in threads,
           NEW pc \in {"idle", "failing", "proposing"}, Return(t, pc)
    PROVE  WorkersTyped' /\ threads' \subseteq Thread
<1>1. t.worker \in Workers /\ threads' \subseteq Thread
  BY DEF Return, TypeInv, TypeOK, Thread
<1>2. CASE wk' = wk
  BY <1>1, <1>2 DEF TypeInv, TypeOK, WorkerShape, WorkersTyped
<1>3. CASE wk' = [wk EXCEPT ![t.worker] = Idle]
  BY <1>1, <1>3, IdleType
<1>4. CASE Awaited(t) /\ GoTo(t.worker, pc) /\ pc # "idle"
  BY <1>1, <1>4, GoToType DEF Awaited, WorkerStates
<1> QED  BY <1>1, <1>2, <1>3, <1>4 DEF Return, GoTo

RowsTyped == jobs \in [JobIds -> JobRow] /\ ProposalShape

\* A single row is replaced by one that is not a proposal, or by a proposal
\* with its plan.
LEMMA RowsTypedUpdate ==
    ASSUME TypeInv, NEW j \in JobIds, NEW row \in JobRow,
           row.status = "proposed" => row.result \in Result,
           jobs' = [jobs EXCEPT ![j] = row]
    PROVE  RowsTyped'
BY DEF TypeInv, TypeOK, RowsTyped, ProposalShape, JobRow

\* Rows are inserted into a table that is typed.
LEMMA RowsTypedInsert ==
    ASSUME NEW table \in [JobIds -> JobRow],
           \A j \in JobIds :
             table[j].status = "proposed" => table[j].result \in Result,
           OnlyInserts(table, jobs')
    PROVE  RowsTyped'
BY DEF RowsTyped, OnlyInserts, ProposalShape, NewRow, AbsentRow

\* Submit keeps the types: it inserts a fresh row.
LEMMA SubmitTypes ==
    ASSUME TypeInv, NEW j \in CaptureIds, Submit(j)
    PROVE  TypeInv'
<1>1. RowsTyped'
  BY NewRowType, RowsTypedUpdate DEF Submit, JobIds, NewRow, AbsentRow
<1> QED
  BY <1>1 DEF TypeInv, TypeOK, RowsTyped, WorkerShape, Submit, JobRow

\* A foreground write keeps the types: it may only add a dream row.
LEMMA RememberTypes ==
    ASSUME TypeInv, NEW n \in NoteIds,
           NEW c \in Reconciliations(NoteOps, n), Remember(c)
    PROVE  TypeInv'
<1>1. c \in Change
  BY ReconciliationTypes, IdsAssumption, OpsAssumption
<1>2. recs' \in [RecordIds -> Record] /\ generation' \in Nat /\ writes' \in Nat
  BY <1>1, ApplyChangeType DEF Remember, TypeInv, TypeOK
<1>3. OnlyInserts(jobs, jobs')
  BY ScheduleInserts DEF Remember, Room, HasRoom, TypeInv, TypeOK, JobRow
<1>4. RowsTyped'
  BY <1>3, RowsTypedInsert DEF TypeInv, TypeOK, JobRow, ProposalShape
<1> QED
  BY <1>2, <1>4 DEF TypeInv, TypeOK, RowsTyped, WorkerShape, Remember, JobRow

\* The sweep of claim() keeps rows, their results and their attempts.
LEMMA SweptTyped ==
    ASSUME TypeInv
    PROVE  /\ Swept \in [JobIds -> JobRow]
           /\ \A j \in JobIds : /\ Swept[j].result = jobs[j].result
                                /\ Swept[j].attempts = jobs[j].attempts
                                /\ Swept[j].status = "proposed" =>
                                     jobs[j].status = "proposed"
<1>1. Swept \in [JobIds -> JobRow]
  BY RowUpdates DEF Swept, TypeInv, TypeOK, JobRow
<1>2. ASSUME NEW j \in JobIds
      PROVE  /\ SweepRow(jobs[j]).result = jobs[j].result
             /\ SweepRow(jobs[j]).attempts = jobs[j].attempts
             /\ SweepRow(jobs[j]).status = "proposed" =>
                  jobs[j].status = "proposed"
  BY DEF SweepRow, TypeInv, TypeOK, Row
<1> QED  BY <1>1, <1>2 DEF Swept

\* Claim keeps the types; the attempts it counts stay within the limit.
LEMMA ClaimTypes ==
    ASSUME TypeInv, NEW w \in Workers, NEW j \in JobIds,
           NEW token \in FreshTokens, Claim(w, j, token)
    PROVE  TypeInv'
<1>1. token \in Tokens
  BY DEF FreshTokens
<1>2. jobs[j] \in JobRow /\ Swept[j] \in JobRow
  BY SweptTyped DEF TypeInv, TypeOK, JobRow
<1>3. Swept[j].attempts < MaxAttempts
  BY DEF Claim, Claimable
<1>4. /\ ClaimRow(Swept[j], token) \in JobRow
      /\ ClaimRow(Swept[j], token).status = "running"
  BY <1>1, <1>2, <1>3, ClaimRowType DEF ClaimRow, JobRow, Row
<1>5. RowsTyped'
  BY <1>4, SweptTyped DEF RowsTyped, Claim, TypeInv, ProposalShape
<1>6. jobs[j].attempts + 1 \in 0 .. MaxAttempts
  BY <1>2, <1>3, SweptTyped, MaxAttemptsAssumption DEF JobRow, Row
<1> DEFINE claim == [Idle EXCEPT !.pc = "claimed", !.job = j, !.token = token,
                                 !.attempts = jobs[j].attempts + 1,
                                 !.result = jobs[j].result]
<1>7. /\ claim \in Worker
      /\ claim.pc = "claimed" /\ claim.job = j /\ claim.token = token
  BY <1>1, <1>2, <1>6, StartTypes
     DEF Idle, Worker, WorkerStates, JobRow, Row
<1>8. wk' = [wk EXCEPT ![w] = claim]
  BY DEF Claim
<1> HIDE DEF claim
<1>9. WorkersTyped'
  BY <1>1, <1>7, <1>8 DEF WorkersTyped, TypeInv, TypeOK, WorkerShape
<1> QED
  BY <1>5, <1>9 DEF TypeInv, TypeOK, RowsTyped, WorkersTyped, Claim, JobRow

\* A claim that finds nothing keeps the types.
LEMMA ClaimNothingTypes ==
    ASSUME TypeInv, NEW w \in Workers, ClaimNothing(w)
    PROVE  TypeInv'
<1>1. RowsTyped'
  BY SweptTyped DEF ClaimNothing, RowsTyped, ProposalShape, TypeInv
<1> QED
  BY <1>1 DEF TypeInv, TypeOK, RowsTyped, WorkerShape, ClaimNothing, JobRow

\* The inspection of a capture keeps the types.
LEMMA InspectTypes ==
    ASSUME TypeInv, NEW w \in Workers, Inspect(w)
    PROVE  TypeInv'
<1>1. wk[w].pc = "claimed" /\ wk[w].job \in CaptureIds
  BY DEF Inspect
<1>2. CASE GoTo(w, "failing") /\ UNCHANGED threads
  <2>1. WorkersTyped'
    BY <1>1, <1>2, GoToType DEF WorkerStates
  <2> QED
    BY <1>2, <2>1 DEF Inspect, TypeInv, TypeOK, WorkersTyped, ProposalShape
<1>3. ASSUME NEW c \in IF Approved(wk[w].result)
                         THEN {wk[w].result.plan.change}
                         ELSE {d \in Reconciliations(CaptureOps, wk[w].job) :
                                 Applicable(recs, d)},
             Await(w, ThreadOf(w, [NoPlan EXCEPT !.gen = generation,
                                                 !.change = c]))
      PROVE  TypeInv'
  <2>1. c \in Change
    <3>1. CASE Approved(wk[w].result)
      BY <1>3, <3>1 DEF Approved, TypeInv, TypeOK, Worker, Result, Plan
    <3>2. CASE ~Approved(wk[w].result)
      BY <1>1, <1>3, <3>2, ReconciliationTypes, IdsAssumption, OpsAssumption
    <3> QED  BY <3>1, <3>2
  <2>2. [NoPlan EXCEPT !.gen = generation, !.change = c] \in Plan
    BY <2>1, StartTypes DEF Plan, TypeInv, TypeOK
  <2>3. WorkersTyped' /\ threads' \subseteq Thread
    BY <1>1, <1>3, <2>2, AwaitType
  <2> QED
    BY <2>3 DEF Inspect, TypeInv, TypeOK, WorkersTyped, ProposalShape
<1> QED  BY <1>2, <1>3 DEF Inspect

\* scan_for keeps the types: what it pins is a scan.
LEMMA ScanForTypes ==
    ASSUME TypeInv, NEW w \in Workers, ScanFor(w)
    PROVE  TypeInv'
<1> DEFINE j == wk[w].job
           scan == PinnedScan(jobs[j])
<1>1. wk[w].pc = "claimed" /\ j \in DreamIds /\ j \in JobIds
  BY DEF ScanFor, JobIds
<1>2. scan \in Scan
  BY <1>1 DEF PinnedScan, TypeInv, TypeOK, Row, Scan
<1>3. CASE ~LeaseHeld(jobs[j], wk[w].token)
  <2>1. GoTo(w, "failing") /\ UNCHANGED <<jobs, threads>>
    BY <1>3 DEF ScanFor
  <2>2. WorkersTyped'
    BY <1>1, <2>1, GoToType DEF WorkerStates
  <2> QED
    BY <2>1, <2>2 DEF ScanFor, TypeInv, TypeOK, WorkersTyped, ProposalShape
<1>4. CASE LeaseHeld(jobs[j], wk[w].token)
  <2>1. jobs' = [jobs EXCEPT ![j] = [jobs[j] EXCEPT !.scan = scan]]
    BY <1>1, <1>4 DEF ScanFor, TypeInv, TypeOK
  <2>2. /\ [jobs[j] EXCEPT !.scan = scan] \in JobRow
        /\ [jobs[j] EXCEPT !.scan = scan].status = "running"
    <3>1. jobs[j] \in JobRow /\ jobs[j].status = "running"
      BY <1>1, <1>4 DEF LeaseHeld, TypeInv, TypeOK, JobRow
    <3> HIDE DEF scan, j
    <3>2. [jobs[j] EXCEPT !.scan = scan] \in JobRow
      BY <1>2, <3>1, RowUpdates
    <3>3. [jobs[j] EXCEPT !.scan = scan].status = "running"
      BY <3>1 DEF JobRow, Row
    <3> QED  BY <3>2, <3>3
  <2>3. RowsTyped'
    BY <1>1, <2>1, <2>2, RowsTypedUpdate
  <2>4. CASE Approved(wk[w].result)
    <3>1. wk[w].result.plan \in Plan
      BY <2>4 DEF Approved, TypeInv, TypeOK, Worker, Result
    <3>2. Await(w, ThreadOf(w, wk[w].result.plan))
      BY <1>4, <2>4 DEF ScanFor
    <3>3. WorkersTyped' /\ threads' \subseteq Thread
      BY <1>1, <3>1, <3>2, AwaitType
    <3> QED
      BY <2>3, <3>3
         DEF ScanFor, TypeInv, TypeOK, WorkersTyped, RowsTyped, JobRow
  <2>5. CASE ~Approved(wk[w].result)
    <3>1. /\ wk' = [wk EXCEPT ![w].pc = "scanned", ![w].scan = scan]
          /\ UNCHANGED threads
      BY <1>4, <2>5 DEF ScanFor
    <3> HIDE DEF scan
    <3>2. wk' = [wk EXCEPT ![w] =
                   [wk[w] EXCEPT !.pc = "scanned", !.scan = scan]]
      BY <3>1 DEF TypeInv, TypeOK
    <3>3. [wk[w] EXCEPT !.pc = "scanned", !.scan = scan] \in Worker
      BY <1>2 DEF TypeInv, TypeOK, Worker, WorkerStates
    <3>4. /\ wk'[w].pc = "scanned" /\ wk'[w].job = wk[w].job
          /\ wk'[w].token = wk[w].token /\ wk'[w].scan = scan
          /\ \A v \in Workers \ {w} : wk'[v] = wk[v]
      BY <3>2 DEF TypeInv, TypeOK, Worker
    <3>5. WorkerShape'
      BY <1>1, <1>2, <3>4 DEF TypeInv, WorkerShape
    <3>6. wk' \in [Workers -> Worker]
      BY <3>2, <3>3 DEF TypeInv, TypeOK
    <3> QED
      BY <2>3, <3>1, <3>5, <3>6
         DEF ScanFor, TypeInv, TypeOK, RowsTyped, JobRow
  <2> QED  BY <2>4, <2>5
<1> QED  BY <1>3, <1>4

\* The snapshot of a plan keeps the types: its cursor is a position.
LEMMA PlanSnapshotTypes ==
    ASSUME TypeInv, NEW w \in Workers, PlanSnapshot(w)
    PROVE  TypeInv'
<1> DEFINE scan == wk[w].scan
           batch == FirstRows(Ahead(recs, scan.cursor, scan.end))
           plan == [gen |-> generation, change |-> NoChange,
                    cursor |-> LastRow(batch, scan.cursor),
                    writes |-> scan.writes, batch |-> batch]
<1>1. wk[w].pc = "scanned" /\ scan \in Scan
  BY DEF PlanSnapshot, TypeInv, WorkerShape
<1>2. scan.cursor \in Position /\ scan.writes \in Nat
  BY <1>1 DEF Scan
<1>3. Ahead(recs, scan.cursor, scan.end) \in SUBSET Position
  BY <1>2, BatchTypes DEF TypeInv, TypeOK
<1>4. batch \in SUBSET Position
  BY <1>2, <1>3, BatchTypes DEF TypeInv, TypeOK
<1> HIDE DEF batch
<1>5. LastRow(batch, scan.cursor) \in Position
  BY <1>2, <1>4, BatchTypes DEF TypeInv, TypeOK
<1>6. plan \in Plan
  BY <1>2, <1>4, <1>5, StartTypes DEF Plan, TypeInv, TypeOK
<1>7. wk' = [wk EXCEPT ![w].pc = "dreaming", ![w].plan = plan]
  BY DEF PlanSnapshot, batch
<1> HIDE DEF plan
<1>8. wk' = [wk EXCEPT ![w] =
               [wk[w] EXCEPT !.pc = "dreaming", !.plan = plan]]
  BY <1>7 DEF TypeInv, TypeOK
<1>9. [wk[w] EXCEPT !.pc = "dreaming", !.plan = plan] \in Worker
  BY <1>6 DEF TypeInv, TypeOK, Worker, WorkerStates
<1>10. /\ wk'[w].pc = "dreaming" /\ wk'[w].job = wk[w].job
       /\ wk'[w].token = wk[w].token
       /\ \A v \in Workers \ {w} : wk'[v] = wk[v]
  BY <1>8 DEF TypeInv, TypeOK, Worker
<1>11. WorkerShape'
  BY <1>1, <1>10 DEF TypeInv, WorkerShape
<1>12. wk' \in [Workers -> Worker]
  BY <1>8, <1>9 DEF TypeInv, TypeOK
<1> QED
  BY <1>11, <1>12 DEF PlanSnapshot, TypeInv, TypeOK, ProposalShape

\* Saving a plan keeps the types, applied or handed to review.
LEMMA PlanSaveTypes ==
    ASSUME TypeInv, NEW w \in Workers, PlanSave(w)
    PROVE  TypeInv'
<1>1. wk[w].pc = "dreaming" /\ wk[w].plan \in Plan
  BY DEF PlanSave, TypeInv, TypeOK, Worker
<1>2. CASE GoTo(w, "failing") /\ UNCHANGED threads
  <2>1. WorkersTyped'
    BY <1>1, <1>2, GoToType DEF WorkerStates
  <2> QED
    BY <1>2, <2>1 DEF PlanSave, TypeInv, TypeOK, WorkersTyped, ProposalShape
<1>3. ASSUME NEW c \in DreamChanges(wk[w].plan.batch)
      PROVE  [wk[w].plan EXCEPT !.change = c] \in Plan
  <2>1. wk[w].plan.batch \in SUBSET Position
    BY <1>1 DEF Plan
  <2>2. c \in Change
    BY <2>1, DreamChangeTypes
  <2> QED  BY <1>1, <2>2 DEF Plan
<1>4. ASSUME NEW plan \in Plan, Await(w, ThreadOf(w, plan))
      PROVE  TypeInv'
  <2>1. WorkersTyped' /\ threads' \subseteq Thread
    BY <1>1, <1>4, AwaitType
  <2> QED
    BY <2>1 DEF PlanSave, TypeInv, TypeOK, WorkersTyped, ProposalShape
<1>5. ASSUME NEW plan \in Plan, UNCHANGED threads,
             wk' = [wk EXCEPT ![w].pc = "proposing", ![w].plan = plan]
      PROVE  TypeInv'
  <2>1. wk' = [wk EXCEPT ![w] =
                 [wk[w] EXCEPT !.pc = "proposing", !.plan = plan]]
    BY <1>5 DEF TypeInv, TypeOK
  <2>2. [wk[w] EXCEPT !.pc = "proposing", !.plan = plan] \in Worker
    BY DEF TypeInv, TypeOK, Worker, WorkerStates
  <2>3. /\ wk'[w].pc = "proposing" /\ wk'[w].job = wk[w].job
        /\ wk'[w].token = wk[w].token
        /\ \A v \in Workers \ {w} : wk'[v] = wk[v]
    BY <2>1 DEF TypeInv, TypeOK, Worker
  <2>4. WorkerShape'
    BY <1>1, <2>3 DEF TypeInv, WorkerShape
  <2>5. wk' \in [Workers -> Worker]
    BY <2>1, <2>2 DEF TypeInv, TypeOK
  <2> QED
    BY <1>5, <2>4, <2>5 DEF PlanSave, TypeInv, TypeOK, ProposalShape
<1>6. CASE generation = wk[w].plan.gen
  <2>1. PICK c \in DreamChanges(wk[w].plan.batch) :
          LET plan == [wk[w].plan EXCEPT !.change = c]
          IN  IF PolicyPermits(c.op)
                THEN Await(w, ThreadOf(w, plan))
                ELSE /\ wk' = [wk EXCEPT ![w].pc = "proposing",
                                         ![w].plan = plan]
                     /\ UNCHANGED threads
    BY <1>6 DEF PlanSave
  <2> QED  BY <1>3, <1>4, <1>5, <2>1
<1> QED  BY <1>2, <1>6 DEF PlanSave

\* What settling a row leaves in the columns other rules read.
LEMMA SettledFields ==
    ASSUME NEW row \in JobRow
    PROVE  /\ \A st \in Statuses, r \in Result \cup {NoResult} :
                /\ FinishRow(row, st, r).status = st
                /\ FinishRow(row, st, r).result = r
           /\ \A a \in 0 .. MaxAttempts :
                /\ FailRow(row, a).status \in {"failed", "pending"}
                /\ FailRow(row, a).result = NoResult
           /\ RetryRow(row).status = "pending"
           /\ RetryRow(row).result = NoResult
           /\ \A accept \in BOOLEAN :
                ReviewRow(row, accept).status \in {"pending", "rejected"}
<1>1. \A st \in Statuses, r \in Result \cup {NoResult} :
        /\ FinishRow(row, st, r) \in JobRow
        /\ FinishRow(row, st, r).status = st
        /\ FinishRow(row, st, r).result = r
  BY RowUpdates DEF FinishRow, JobRow, Row
<1>2. ASSUME NEW st \in {"failed", "pending"}
      PROVE  /\ FinishRow(row, st, NoResult) \in JobRow
             /\ FinishRow(row, st, NoResult).status = st
             /\ FinishRow(row, st, NoResult).result = NoResult
  BY <1>1 DEF Statuses
<1>3. ASSUME NEW r \in JobRow
      PROVE  /\ [r EXCEPT !.ready = FALSE].status = r.status
             /\ [r EXCEPT !.ready = FALSE].result = r.result
             /\ [r EXCEPT !.attempts = 0, !.ready = TRUE].status = r.status
             /\ [r EXCEPT !.attempts = 0, !.ready = TRUE].result = r.result
  BY DEF JobRow, Row
<1>4. \A a \in 0 .. MaxAttempts :
        /\ FailRow(row, a).status \in {"failed", "pending"}
        /\ FailRow(row, a).result = NoResult
  BY <1>2, <1>3 DEF FailRow
<1>5. RetryRow(row).status = "pending" /\ RetryRow(row).result = NoResult
  BY <1>2, <1>3 DEF RetryRow
<1>6. \A accept \in BOOLEAN :
        ReviewRow(row, accept).status \in {"pending", "rejected"}
  BY DEF ReviewRow, JobRow, Row
<1> QED  BY <1>1, <1>4, <1>5, <1>6

TableTyped(table) ==
    /\ table \in [JobIds -> JobRow]
    /\ \A j \in JobIds :
         table[j].status = "proposed" => table[j].result \in Result

\* finish() writes status and result of a row.
LEMMA FinishedRow ==
    ASSUME NEW row \in JobRow, NEW st \in Statuses, NEW r \in Result
    PROVE  /\ FinishRow(row, st, r) \in JobRow
           /\ FinishRow(row, st, r).status = st
           /\ FinishRow(row, st, r).result = r
<1>1. r \in Result \cup {NoResult}
  OBVIOUS
<1>2. FinishRow(row, st, r) \in JobRow
  BY <1>1, RowUpdates
<1>3. FinishRow(row, st, r).status = st /\ FinishRow(row, st, r).result = r
  BY <1>1, SettledFields
<1> QED  BY <1>2, <1>3

\* finish() writes one row of a typed table and leaves the others alone.
LEMMA FinishedTable ==
    ASSUME TypeInv, NEW j \in JobIds, NEW st \in Statuses, NEW r \in Result
    PROVE  LET table == [jobs EXCEPT ![j] = FinishRow(jobs[j], st, r)]
           IN  /\ TableTyped(table)
               /\ table[j].status = st /\ table[j].result = r
               /\ \A i \in JobIds \ {j} : table[i] = jobs[i]
<1> DEFINE row == FinishRow(jobs[j], st, r)
<1>1. jobs \in [JobIds -> JobRow] /\ jobs[j] \in JobRow
  BY DEF TypeInv, TypeOK, JobRow
<1>2. row \in JobRow /\ row.status = st /\ row.result = r
  BY <1>1, FinishedRow
<1> HIDE DEF row
<1>3. /\ [jobs EXCEPT ![j] = row] \in [JobIds -> JobRow]
      /\ [jobs EXCEPT ![j] = row][j] = row
      /\ \A i \in JobIds \ {j} : [jobs EXCEPT ![j] = row][i] = jobs[i]
  BY <1>1, <1>2
<1>4. TableTyped([jobs EXCEPT ![j] = row])
  BY <1>2, <1>3 DEF TableTyped, TypeInv, ProposalShape
<1> QED  BY <1>2, <1>3, <1>4 DEF row

\* advance keeps a table typed.
LEMMA AdvancedTable ==
    ASSUME TypeOK, NEW table, TableTyped(table), HasRoom(table),
           NEW j \in DreamIds, table[j].status # "absent",
           NEW plan \in Plan, NEW newRecs, NEW w
    PROVE  TableTyped(Advance(table, j, plan, newRecs, w).jobs)
<1> DEFINE adv == Advance(table, j, plan, newRecs, w)
           marked == [table EXCEPT ![j].continued = TRUE]
<1>1. table \in [JobIds -> JobRow] /\ j \in JobIds
  BY DEF TableTyped, JobIds
<1>2. /\ adv.jobs = table \/ OnlyInserts(marked, adv.jobs)
      /\ adv.jobs \in [JobIds -> JobRow]
  BY <1>1, AdvanceEffect
<1>3. \A i \in JobIds : /\ marked[i].status = table[i].status
                        /\ marked[i].result = table[i].result
  BY <1>1 DEF JobRow, Row
<1>4. CASE adv.jobs = table
  BY <1>4
<1>5. CASE OnlyInserts(marked, adv.jobs)
  <2> HIDE DEF marked, adv
  <2>1. \A i \in JobIds : \/ adv.jobs[i] = marked[i]
                          \/ adv.jobs[i].status = "pending"
    BY <1>5 DEF OnlyInserts, NewRow, AbsentRow
  <2>2. TableTyped(adv.jobs)
    BY <1>2, <1>3, <2>1 DEF TableTyped
  <2> QED  BY <2>2 DEF adv
<1> QED  BY <1>2, <1>4, <1>5

\* Propose keeps the types.
LEMMA ProposeTypes ==
    ASSUME TypeInv, NEW w \in Workers, Propose(w)
    PROVE  TypeInv'
<1> DEFINE j == wk[w].job
           plan == wk[w].plan
           result == [plan |-> plan, verdict |-> "open"]
           table == [jobs EXCEPT ![j] = FinishRow(jobs[j], "proposed", result)]
<1>1. j \in JobIds /\ plan \in Plan
  BY DEF Propose, TypeInv, TypeOK, WorkerShape, Worker
<1>2. WorkersTyped'
  BY IdleType DEF Propose
<1>3. CASE ~LeaseHeld(jobs[j], wk[w].token)
  BY <1>2, <1>3
     DEF Propose, TypeInv, TypeOK, WorkersTyped, ProposalShape
<1>4. CASE LeaseHeld(jobs[j], wk[w].token)
  <2>1. result \in Result /\ "proposed" \in Statuses
    BY <1>1 DEF Result, Statuses
  <2>2. /\ TableTyped(table)
        /\ table[j].status = "proposed"
        /\ \A i \in JobIds \ {j} : table[i] = jobs[i]
    BY <1>1, <2>1, FinishedTable
  <2>3. CASE j \notin DreamIds
    <3>1. /\ jobs' = table
          /\ UNCHANGED <<dreamWrites, cursor, seen, passedOn>>
      BY <1>4, <2>3 DEF Propose, AdvanceState
    <3> HIDE DEF table
    <3> QED
      BY <1>2, <2>2, <3>1
         DEF Propose, TypeInv, TypeOK, WorkersTyped, TableTyped,
             ProposalShape, JobRow
  <2>4. CASE j \in DreamIds
    <3> DEFINE adv == Advance(table, j, plan, recs, writes)
    <3>1. /\ jobs' = adv.jobs
          /\ dreamWrites' = adv.dreamWrites
          /\ cursor' = adv.cursor
          /\ seen' = adv.seen
          /\ passedOn' = adv.passedOn
      BY <1>4, <2>4 DEF Propose
    <3> HIDE DEF table
    <3>2. HasRoom(table)
      BY <1>1, <1>4, <2>2 DEF HasRoom, Propose, Room, LeaseHeld, JobIds
    <3>3. TableTyped(adv.jobs)
      BY <1>1, <2>2, <2>4, <3>2, AdvancedTable DEF TypeInv
    <3>4. /\ adv.dreamWrites \in Nat
          /\ adv.cursor \in Position
          /\ adv.seen \subseteq Position
          /\ adv.passedOn \in [DreamIds -> Nat]
      BY <1>1, <2>2, <2>4, <3>2, AdvanceEffect DEF TypeInv, TableTyped
    <3> HIDE DEF adv
    <3> QED
      BY <1>2, <3>1, <3>3, <3>4
         DEF Propose, TypeInv, TypeOK, WorkersTyped, TableTyped,
             ProposalShape, JobRow
  <2> QED  BY <2>3, <2>4
<1> QED  BY <1>3, <1>4

\* Fail keeps the types.
LEMMA FailTypes ==
    ASSUME TypeInv, NEW w \in Workers, Fail(w)
    PROVE  TypeInv'
<1> DEFINE j == wk[w].job
<1>1. /\ j \in JobIds /\ jobs[j] \in JobRow
      /\ wk[w].attempts \in 0 .. MaxAttempts
  BY DEF Fail, TypeInv, TypeOK, WorkerShape, Worker, JobRow
<1>2. WorkersTyped'
  BY IdleType DEF Fail
<1>3. CASE jobs' = jobs
  BY <1>2, <1>3 DEF Fail, TypeInv, TypeOK, WorkersTyped, ProposalShape
<1>4. CASE jobs' = [jobs EXCEPT ![j] = FailRow(jobs[j], wk[w].attempts)]
  <2>1. RowsTyped'
    BY <1>1, <1>4, RowUpdates, SettledFields, RowsTypedUpdate
  <2> QED
    BY <1>2, <2>1
       DEF Fail, TypeInv, TypeOK, WorkersTyped, RowsTyped, JobRow
<1> QED  BY <1>3, <1>4 DEF Fail

\* A thread that rolls back keeps the types.
LEMMA RollbackTypes ==
    ASSUME TypeInv, NEW t \in threads, ThreadConflict(t) \/ CaptureReview(t)
    PROVE  TypeInv'
<1>1. WorkersTyped' /\ threads' \subseteq Thread
  BY ReturnType DEF ThreadConflict, CaptureReview
<1> QED
  BY <1>1
     DEF ThreadConflict, CaptureReview, TypeInv, TypeOK, WorkersTyped,
         ProposalShape

\* The result of a committed thread and the rows its change writes.
LEMMA ThreadTypes ==
    ASSUME TypeInv, NEW t \in threads
    PROVE  /\ t.job \in JobIds /\ t.plan \in Plan
           /\ Applied(t.plan) \in Result
           /\ ApplyChange(recs, t.plan.change, generation + 1)
                \in [RecordIds -> Record]
<1>1. t.job \in JobIds /\ t.plan \in Plan
  BY DEF TypeInv, TypeOK, Thread
<1>2. Applied(t.plan) \in Result
  BY <1>1 DEF Applied, Result
<1>3. t.plan.change \in Change /\ generation + 1 \in Nat
  BY <1>1 DEF Plan, TypeInv, TypeOK
<1>4. ApplyChange(recs, t.plan.change, generation + 1)
        \in [RecordIds -> Record]
  BY <1>3, ApplyChangeType DEF TypeInv, TypeOK
<1> QED  BY <1>1, <1>2, <1>4

\* CaptureCommit keeps the types.
LEMMA CaptureCommitTypes ==
    ASSUME TypeInv, NEW t \in threads, CaptureCommit(t)
    PROVE  TypeInv'
<1> DEFINE scheduled == ScheduleDream(jobs, writes + 1, dreamWrites)
           row == FinishRow(scheduled[t.job], "done", Applied(t.plan))
<1>1. WorkersTyped' /\ threads' \subseteq Thread
  BY ReturnType DEF CaptureCommit
<1>2. OnlyInserts(jobs, scheduled)
  BY ScheduleInserts
     DEF CaptureCommit, Room, HasRoom, TypeInv, TypeOK, JobRow
<1> HIDE DEF scheduled
<1>3. TableTyped(scheduled)
  BY <1>2 DEF OnlyInserts, TableTyped, NewRow, AbsentRow, TypeInv,
              ProposalShape
<1>4. row \in JobRow /\ row.status = "done"
  <2>1. scheduled[t.job] \in JobRow
    BY <1>3, ThreadTypes DEF TableTyped
  <2>2. "done" \in Statuses /\ Applied(t.plan) \in Result
    BY ThreadTypes DEF Statuses
  <2> QED  BY <2>1, <2>2, FinishedRow
<1>5. jobs' = [scheduled EXCEPT ![t.job] = row]
  BY DEF CaptureCommit, scheduled
<1> HIDE DEF row
<1>6. RowsTyped'
  BY <1>3, <1>4, <1>5, ThreadTypes DEF TableTyped, RowsTyped, ProposalShape
<1>7. recs' \in [RecordIds -> Record]
  BY ThreadTypes DEF CaptureCommit
<1>8. commits' \in [JobIds -> Nat]
  BY ThreadTypes DEF CaptureCommit, TypeInv, TypeOK
<1> QED
  BY <1>1, <1>6, <1>7, <1>8
     DEF CaptureCommit, TypeInv, TypeOK, WorkersTyped, RowsTyped, JobRow

\* DreamCommit keeps the types.
LEMMA DreamCommitTypes ==
    ASSUME TypeInv, NEW t \in threads, DreamCommit(t)
    PROVE  TypeInv'
<1> DEFINE table == [jobs EXCEPT ![t.job] =
                       FinishRow(jobs[t.job], "done", Applied(t.plan))]
           newRecs == ApplyChange(recs, t.plan.change, generation + 1)
           adv == Advance(table, t.job, t.plan, newRecs, writes)
<1>1. WorkersTyped' /\ threads' \subseteq Thread
  BY ReturnType DEF DreamCommit
<1>2. "done" \in Statuses /\ t.job \in JobIds /\ t.job \in DreamIds
  BY ThreadTypes DEF Statuses, DreamCommit
<1>3. /\ TableTyped(table)
      /\ table[t.job].status = "done"
      /\ \A i \in JobIds \ {t.job} : table[i] = jobs[i]
  BY <1>2, ThreadTypes, FinishedTable
<1>4. /\ jobs' = adv.jobs
      /\ dreamWrites' = adv.dreamWrites
      /\ cursor' = adv.cursor
      /\ seen' = adv.seen
      /\ passedOn' = adv.passedOn
  BY DEF DreamCommit
<1>5. recs' \in [RecordIds -> Record]
  BY ThreadTypes DEF DreamCommit
<1>6. commits' \in [JobIds -> Nat]
  BY ThreadTypes DEF DreamCommit, TypeInv, TypeOK
<1>7. generation' \in Nat
  BY DEF DreamCommit, DreamGeneration, TypeInv, TypeOK
<1> HIDE DEF table, newRecs
<1>8. HasRoom(table)
  BY <1>2, <1>3 DEF HasRoom, DreamCommit, Room, LeaseHeld, JobIds
<1>9. TableTyped(adv.jobs)
  BY <1>2, <1>3, <1>8, ThreadTypes, AdvancedTable DEF TypeInv
<1>10. /\ adv.dreamWrites \in Nat
       /\ adv.cursor \in Position
       /\ adv.seen \subseteq Position
       /\ adv.passedOn \in [DreamIds -> Nat]
  BY <1>2, <1>3, <1>8, ThreadTypes, AdvanceEffect DEF TypeInv, TableTyped
<1> HIDE DEF adv
<1> QED
  BY <1>1, <1>4, <1>5, <1>6, <1>7, <1>9, <1>10
     DEF DreamCommit, TypeInv, TypeOK, WorkersTyped, TableTyped,
         ProposalShape, JobRow

\* The end of an attempt and the passing of time keep the types.
LEMMA EndTypes ==
    ASSUME TypeInv,
           \/ \E w \in Workers : Interrupt(w) \/ Crash(w)
           \/ \E j \in JobIds : Expire(j) \/ Elapse(j)
    PROVE  TypeInv'
<1>1. ASSUME NEW w \in Workers, Interrupt(w)
      PROVE  TypeInv'
  <2>1. WorkersTyped'
    BY <1>1, GoToType DEF Interrupt, WorkerStates
  <2> QED
    BY <1>1, <2>1 DEF Interrupt, TypeInv, TypeOK, WorkersTyped, ProposalShape
<1>2. ASSUME NEW w \in Workers, Crash(w)
      PROVE  TypeInv'
  <2>1. WorkersTyped'
    BY <1>2, IdleType DEF Crash
  <2> QED
    BY <1>2, <2>1 DEF Crash, TypeInv, TypeOK, WorkersTyped, ProposalShape
<1>3. ASSUME NEW j \in JobIds,
             NEW row \in JobRow, row.status # "proposed",
             jobs' = [jobs EXCEPT ![j] = row],
             UNCHANGED <<generation, writes, dreamWrites, cursor, recs, wk,
                         threads, fg, commits, passedOn, seen>>
      PROVE  TypeInv'
  <2>1. RowsTyped'
    BY <1>3, RowsTypedUpdate
  <2> QED
    BY <1>3, <2>1 DEF TypeInv, TypeOK, RowsTyped, WorkerShape, JobRow
<1>4. ASSUME NEW row \in JobRow
      PROVE  /\ RowExpires(row) \in JobRow /\ RowElapses(row) \in JobRow
             /\ RowExpires(row).status = row.status
             /\ RowElapses(row).status = row.status
  BY RowUpdates DEF RowExpires, RowElapses, JobRow, Row
<1>5. \A j \in JobIds : jobs[j] \in JobRow
  BY DEF TypeInv, TypeOK, JobRow
<1>6. ASSUME NEW j \in JobIds, Expire(j)
      PROVE  TypeInv'
  BY <1>3, <1>4, <1>5, <1>6 DEF Expire
<1>7. ASSUME NEW j \in JobIds, Elapse(j)
      PROVE  TypeInv'
  BY <1>3, <1>4, <1>5, <1>7 DEF Elapse
<1> QED  BY <1>1, <1>2, <1>6, <1>7

\* Reviews and retries keep the types.
LEMMA OperatorTypes ==
    ASSUME TypeInv, NEW j \in JobIds,
           Retry(j) \/ \E accept \in BOOLEAN : Review(j, accept)
    PROVE  TypeInv'
<1>1. jobs[j] \in JobRow
  BY DEF TypeInv, TypeOK, JobRow
<1>2. ASSUME NEW row \in JobRow, row.status # "proposed",
             jobs' = [jobs EXCEPT ![j] = row],
             UNCHANGED <<generation, writes, dreamWrites, cursor, recs, wk,
                         threads, fg, commits, passedOn, seen>>
      PROVE  TypeInv'
  <2>1. RowsTyped'
    BY <1>2, RowsTypedUpdate
  <2> QED
    BY <1>2, <2>1 DEF TypeInv, TypeOK, RowsTyped, WorkerShape, JobRow
<1>3. CASE Retry(j)
  <2>1. RetryRow(jobs[j]) \in JobRow /\ RetryRow(jobs[j]).status = "pending"
    BY <1>1, RowUpdates, SettledFields
  <2> QED  BY <1>2, <1>3, <2>1 DEF Retry
<1>4. ASSUME NEW accept \in BOOLEAN, Review(j, accept)
      PROVE  TypeInv'
  <2>1. jobs[j].result \in Result
    BY <1>4 DEF Review, TypeInv, ProposalShape
  <2>2. /\ ReviewRow(jobs[j], accept) \in JobRow
        /\ ReviewRow(jobs[j], accept).status # "proposed"
    BY <1>1, <2>1, ReviewRowType, SettledFields
  <2> QED  BY <1>2, <1>4, <2>2 DEF Review
<1> QED  BY <1>3, <1>4

\* Retention keeps the types.
LEMMA MaintainTypes ==
    ASSUME TypeInv, NEW old \in SUBSET Superseded,
           NEW finished \in SUBSET Finished, Maintain(old, finished)
    PROVE  TypeInv'
<1>1. generation' \in Nat /\ generation + 1 \in Nat
  <2>1. generation' = IF old = {} THEN generation ELSE generation + 1
    BY DEF Maintain
  <2>2. generation \in Nat
    BY DEF TypeInv, TypeOK
  <2> QED  BY <2>1, <2>2
<1>2. Put("archived", generation + 1) \in Record
  BY <1>1 DEF Put, Record, RecordStatuses
<1>3. recs' \in [RecordIds -> Record]
  BY <1>2 DEF Maintain, TypeInv, TypeOK
<1>4. ASSUME NEW j \in JobIds
      PROVE  /\ jobs'[j] \in JobRow
             /\ jobs'[j].status = jobs[j].status
             /\ jobs'[j].result = jobs[j].result
  <2>1. ASSUME NEW row \in JobRow
        PROVE  LET new == [row EXCEPT !.scan = NoScan, !.continued = FALSE]
               IN  /\ new \in JobRow /\ new.status = row.status
                   /\ new.result = row.result
    BY RowUpdates DEF JobRow, Row
  <2>2. jobs[j] \in JobRow
    BY DEF TypeInv, TypeOK, JobRow
  <2>3. jobs'[j] =
          IF j \in finished
            THEN [jobs[j] EXCEPT !.scan = NoScan, !.continued = FALSE]
            ELSE jobs[j]
    BY DEF Maintain
  <2> QED  BY <2>1, <2>2, <2>3
<1>5. RowsTyped'
  <2>1. jobs' \in [JobIds -> JobRow]
    BY <1>4 DEF Maintain
  <2> QED  BY <1>4, <2>1 DEF RowsTyped, ProposalShape, TypeInv
<1> QED
  BY <1>1, <1>3, <1>5
     DEF Maintain, TypeInv, TypeOK, RowsTyped, WorkerShape, JobRow

\* Applying a plan outside the queue keeps the types.
LEMMA ApplyPlanTypes ==
    ASSUME TypeInv, NEW plan \in Plan, ApplyPlan(plan),
           fg' \in ForegroundDream
    PROVE  TypeInv'
<1>1. /\ plan.change \in Change /\ plan.cursor \in Position
      /\ plan.writes \in Nat /\ plan.batch \subseteq Position
      /\ generation + 1 \in Nat
  BY DEF Plan, TypeInv, TypeOK
<1>2. recs' \in [RecordIds -> Record]
  BY <1>1, ApplyChangeType DEF ApplyPlan, TypeInv, TypeOK
<1>3. generation' \in Nat
  BY DEF ApplyPlan, DreamGeneration, TypeInv, TypeOK
<1>4. dreamWrites' \in Nat
  BY <1>1 DEF ApplyPlan, Max2, TypeInv, TypeOK
<1> QED
  BY <1>1, <1>2, <1>3, <1>4
     DEF ApplyPlan, TypeInv, TypeOK, ProposalShape, WorkerShape

\* A caller's own dream keeps the types.
LEMMA ForegroundTypes ==
    ASSUME TypeInv,
           \/ DreamSnapshot \/ DreamSave \/ DreamApply
           \/ \E d \in DreamIds : ApplyProposed(d)
    PROVE  TypeInv'
<1>1. fg.plan \in Plan /\ fg \in ForegroundDream
  BY DEF TypeInv, TypeOK, ForegroundDream
<1>2. ASSUME DreamSnapshot
      PROVE  TypeInv'
  <2> DEFINE new == FirstRows(Ahead(recs, cursor, generation))
             batch == IF new # {} THEN new ELSE FirstRows(Positions(recs))
             plan == [gen |-> generation, change |-> NoChange,
                      cursor |-> LastRow(batch, cursor), writes |-> writes,
                      batch |-> batch]
  <2>1. cursor \in Position /\ recs \in [RecordIds -> Record]
    BY DEF TypeInv, TypeOK
  <2>2. /\ Ahead(recs, cursor, generation) \in SUBSET Position
        /\ Positions(recs) \in SUBSET Position
    BY <2>1, BatchTypes
  <2>3. batch \in SUBSET Position
    BY <2>1, <2>2, BatchTypes
  <2>4. fg' = [pc |-> "snapshot", plan |-> plan]
    BY <1>2 DEF DreamSnapshot
  <2> HIDE DEF batch
  <2>5. LastRow(batch, cursor) \in Position
    BY <2>1, <2>3, BatchTypes
  <2>6. plan \in Plan
    BY <2>3, <2>5, StartTypes DEF Plan, TypeInv, TypeOK
  <2> HIDE DEF plan
  <2>7. fg' \in ForegroundDream
    BY <2>4, <2>6 DEF ForegroundDream
  <2> QED
    BY <1>2, <2>7
       DEF DreamSnapshot, TypeInv, TypeOK, ProposalShape, WorkerShape
<1>3. ASSUME DreamSave
      PROVE  TypeInv'
  <2>1. CASE fg' = NoDream /\ UNCHANGED dreamWrites
    BY <1>3, <2>1, StartTypes
       DEF DreamSave, TypeInv, TypeOK, ProposalShape, WorkerShape
  <2>2. ASSUME NEW c \in DreamChanges(fg.plan.batch),
               fg' = [pc |-> "saved", plan |-> [fg.plan EXCEPT !.change = c]],
               dreamWrites' = fg.plan.writes
        PROVE  TypeInv'
    <3>1. fg.plan.batch \in SUBSET Position /\ fg.plan.writes \in Nat
      BY <1>1 DEF Plan
    <3>2. c \in Change
      BY <3>1, DreamChangeTypes
    <3>3. [fg.plan EXCEPT !.change = c] \in Plan
      BY <1>1, <3>2 DEF Plan
    <3>4. fg' \in ForegroundDream
      BY <2>2, <3>3 DEF ForegroundDream
    <3> QED
      BY <1>3, <2>2, <3>1, <3>4
         DEF DreamSave, TypeInv, TypeOK, ProposalShape, WorkerShape
  <2> QED  BY <1>3, <2>1, <2>2 DEF DreamSave
<1>4. ASSUME DreamApply
      PROVE  TypeInv'
  <2>1. fg' \in ForegroundDream
    BY <1>4, StartTypes DEF DreamApply
  <2>2. CASE ApplyPlan(fg.plan)
    BY <1>1, <2>1, <2>2, ApplyPlanTypes
  <2>3. CASE UNCHANGED <<jobs, generation, writes, dreamWrites, cursor, recs,
                         wk, threads, commits, passedOn, seen>>
    BY <2>1, <2>3 DEF TypeInv, TypeOK, ProposalShape, WorkerShape
  <2> QED  BY <1>4, <2>2, <2>3 DEF DreamApply
<1>5. ASSUME NEW d \in DreamIds, ApplyProposed(d)
      PROVE  TypeInv'
  <2>1. jobs[d].result.plan \in Plan
    BY <1>5 DEF ApplyProposed, TypeInv, ProposalShape, JobIds, Result
  <2>2. fg' \in ForegroundDream
    BY <1>1, <1>5 DEF ApplyProposed
  <2> QED  BY <1>5, <2>1, <2>2, ApplyPlanTypes DEF ApplyProposed
<1> QED  BY <1>2, <1>3, <1>4, <1>5

\* Every step keeps the types.
LEMMA TypeInvStep == TypeInv /\ [Next]_vars => TypeInv'
<1> SUFFICES ASSUME TypeInv, [Next]_vars
             PROVE  TypeInv'
  OBVIOUS
<1>1. ASSUME NEW j \in CaptureIds, Submit(j)
      PROVE  TypeInv'
  BY <1>1, SubmitTypes
<1>2. ASSUME NEW n \in NoteIds, NEW c \in Reconciliations(NoteOps, n),
             Remember(c)
      PROVE  TypeInv'
  BY <1>2, RememberTypes
<1>3. ASSUME NEW w \in Workers, WorkerStep(w)
      PROVE  TypeInv'
  BY <1>3, ClaimTypes, ClaimNothingTypes, InspectTypes, ScanForTypes,
     PlanSnapshotTypes, PlanSaveTypes, ProposeTypes, FailTypes
     DEF WorkerStep
<1>4. ASSUME NEW t \in threads, ThreadStep(t)
      PROVE  TypeInv'
  BY <1>4, RollbackTypes, CaptureCommitTypes, DreamCommitTypes DEF ThreadStep
<1>5. ASSUME \/ \E w \in Workers : Interrupt(w) \/ Crash(w)
             \/ \E j \in JobIds : Expire(j) \/ Elapse(j)
      PROVE  TypeInv'
  BY <1>5, EndTypes
<1>6. ASSUME NEW j \in JobIds,
             Review(j, TRUE) \/ Review(j, FALSE) \/ Retry(j)
      PROVE  TypeInv'
  BY <1>6, OperatorTypes
<1>7. ASSUME NEW old \in SUBSET Superseded, NEW finished \in SUBSET Finished,
             Maintain(old, finished)
      PROVE  TypeInv'
  BY <1>7, MaintainTypes
<1>8. ASSUME \/ DreamSnapshot \/ DreamSave \/ DreamApply
             \/ \E d \in DreamIds : ApplyProposed(d)
      PROVE  TypeInv'
  BY <1>8, ForegroundTypes
<1>9. CASE UNCHANGED vars
  BY <1>9 DEF vars, TypeInv, TypeOK, WorkerShape, ProposalShape
<1> QED
  BY <1>1, <1>2, <1>3, <1>4, <1>5, <1>6, <1>7, <1>8, <1>9 DEF Next

\* Columns, plans, leases and worker variables keep their kinds in every
\* behaviour; in particular no row is ever claimed more than MaxAttempts times.
THEOREM TypeCorrect == Spec => []TypeOK
<1>1. Init => TypeInv
  BY TypeInvInit
<1>2. TypeInv /\ [Next]_vars => TypeInv'
  BY TypeInvStep
<1>3. TypeInv => TypeOK
  BY DEF TypeInv
<1> QED  BY <1>1, <1>2, <1>3, PTL DEF Spec

=============================================================================
