------------------------------ MODULE JobQueue ------------------------------
(***************************************************************************)
(* The rows of memory_jobs and what each statement of runtime/queue.py     *)
(* (and _review, _retry of runtime/core.py) does to one of them.           *)
(*                                                                         *)
(* Time is abstracted to what the statements compare with it: `ready` is   *)
(* available<=now, `live` is lease_until>now.  Both change by themselves,  *)
(* through RowElapses and RowExpires; nothing else about the clock is      *)
(* visible.  The columns task_id, error and owner carry no control.        *)
(***************************************************************************)
EXTENDS Naturals

CONSTANTS
    Tokens,       \* lease tokens (uuid4 values)
    NoToken,      \* SQL NULL in the token column
    NoResult,     \* SQL NULL in the result column
    NoScan,       \* a dream payload without a "scan" key
    MaxAttempts   \* RuntimePolicy.max_attempts

ASSUME MaxAttemptsAssumption == MaxAttempts \in Nat \ {0}
ASSUME NullAssumption == NoToken \notin Tokens

Statuses ==
    {"absent", "pending", "running", "proposed", "rejected", "failed", "done"}

\* Statuses schedule_dream counts as a pass already under way.
Unsettled == {"pending", "running"}

Row(results, scans) ==
    [status : Statuses, attempts : 0 .. MaxAttempts,
     ready : BOOLEAN, live : BOOLEAN, token : Tokens \cup {NoToken},
     result : results \cup {NoResult}, scan : scans \cup {NoScan},
     continued : BOOLEAN]

\* A row that was never inserted.
AbsentRow ==
    [status |-> "absent", attempts |-> 0, ready |-> FALSE, live |-> FALSE,
     token |-> NoToken, result |-> NoResult, scan |-> NoScan,
     continued |-> FALSE]

\* Queue.enqueue: the column defaults, available=now.
NewRow(scan) ==
    [AbsentRow EXCEPT !.status = "pending", !.ready = TRUE, !.scan = scan]

RowElapses(row) == [row EXCEPT !.ready = TRUE]
RowExpires(row) == [row EXCEPT !.live = FALSE]

-----------------------------------------------------------------------------
(***************************************************************************)
(* Queue.claim                                                             *)
(***************************************************************************)

\* The rows the first UPDATE fails: out of attempts, lease run out.
Exhausted(row) ==
    /\ row.status = "running"
    /\ ~row.live
    /\ row.attempts >= MaxAttempts

\* The UPDATE keeps result (an approval included) and the expired lease_until.
SweepRow(row) ==
    IF Exhausted(row)
      THEN [row EXCEPT !.status = "failed", !.token = NoToken]
      ELSE row

\* Mutant: only pending rows are taken; nobody recovers an expired lease.
ClaimableOnlyPending(row) ==
    /\ row.status = "pending" /\ row.ready
    /\ row.attempts < MaxAttempts

\* The SELECT: work that is due, or whose lease ran out, with attempts left.
Claimable(row) ==
    /\ \/ row.status = "pending" /\ row.ready
       \/ row.status = "running" /\ ~row.live
    /\ row.attempts < MaxAttempts

ClaimRow(row, token) ==
    [row EXCEPT !.status = "running", !.token = token, !.live = TRUE,
                !.attempts = @ + 1]

-----------------------------------------------------------------------------
(***************************************************************************)
(* Queue.assert_lease, finish, fail                                        *)
(***************************************************************************)

\* Mutant: the token is not compared.
LeaseHeldByAnyone(row, token) == row.status = "running" /\ row.live

LeaseHeld(row, token) ==
    /\ row.status = "running"
    /\ row.token = token
    /\ row.live

\* finish clears token and lease_until and overwrites result.
FinishRow(row, status, result) ==
    [row EXCEPT !.status = status, !.result = result,
                !.token = NoToken, !.live = FALSE]

\* Mutant: the exponential back-off also reopens the last attempt.
FailRowForever(row, attempts) ==
    [FinishRow(row, "pending", NoResult) EXCEPT !.ready = FALSE]

\* fail: finish with result=None, so an approval does not survive; `attempts`
\* is the number the claim was made with.
FailRow(row, attempts) ==
    [FinishRow(row, IF attempts >= MaxAttempts THEN "failed" ELSE "pending",
               NoResult)
       EXCEPT !.ready = FALSE]

-----------------------------------------------------------------------------
(***************************************************************************)
(* MemoryRuntime._review and _retry                                        *)
(***************************************************************************)

ReviewRow(row, accept) ==
    [row EXCEPT !.status = IF accept THEN "pending" ELSE "rejected",
                !.result.verdict = IF accept THEN "approved" ELSE "rejected",
                !.attempts = 0, !.ready = TRUE]

\* Mutant: a finished job may be retried too.
RetryableEvenDone(row) ==
    row.status \in {"failed", "proposed", "rejected", "done"}

Retryable(row) == row.status \in {"failed", "proposed", "rejected"}

\* Mutant: a retry gives one attempt back instead of all of them.
RetryRowRefundsOne(row) ==
    [FinishRow(row, "pending", NoResult)
       EXCEPT !.attempts = @ - 1, !.ready = TRUE]

\* _retry resets the columns but not the payload: scan and continued stay.
RetryRow(row) ==
    [FinishRow(row, "pending", NoResult) EXCEPT !.attempts = 0, !.ready = TRUE]

=============================================================================
