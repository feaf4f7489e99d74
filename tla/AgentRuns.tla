----------------------------- MODULE AgentRuns ------------------------------
(***************************************************************************)
(* Runs of a Claude agent on tasks (integrations/claude): admission to an  *)
(* adapter, the execution lease in the shared database, the evidence a run *)
(* has observed, what it records of its task, and how it ends.             *)
(*                                                                         *)
(* An adapter lives on one event loop: between two awaits a run is not     *)
(* interrupted.  Its transactions run in threads (asyncio.to_thread).      *)
(* Cancelling a run ends its await at once; a thread that has not started  *)
(* yet is dropped, one that has started goes on alone.  Adapters of        *)
(* different processes share only the database.                            *)
(*                                                                         *)
(* Calls that are refused (a closed or full adapter, a task it already     *)
(* runs, a tool whose hook denies it) change nothing and are not steps.    *)
(***************************************************************************)
EXTENDS Naturals, FiniteSets, Sequences, SequencesExt

CONSTANTS
    Calls,         \* pairs <<adapter, task>>: an adapter's key of a run
    MaxConcurrent, \* policy.max_concurrent_runs
    MaxPending,    \* policy.max_pending_runs
    MaxEvidence,   \* policy.max_evidence_records
    EvidenceIds,
    Contents,      \* what an item of evidence says
    MaxRuns        \* bound on the calls of run()

ASSUME AgentBounds ==
    /\ MaxConcurrent \in Nat \ {0} /\ MaxPending \in Nat
    /\ MaxEvidence \in Nat \ {0} /\ MaxRuns \in Nat

ASSUME CallsArePairs == \A c \in Calls : c = <<c[1], c[2]>>

Adapters == {c[1] : c \in Calls}
Tasks == {c[2] : c \in Calls}

Evidence == [id : EvidenceIds, content : Contents]

\* A finding cites evidence, an outcome may.
Citations == {{e} : e \in Evidence}

VARIABLES
    admitted,  \* calls of run() so far; a run's number stands for its token
    runs,      \* the state of each run, idle when the adapter has none
    slots,     \* _slots: the free permits of each adapter's semaphore
    closed,    \* _closed, and whether aclose() has returned
    threads,   \* transactions dispatched with asyncio.to_thread
    lease,     \* the row of memory_agent_leases of each task
    outcome,   \* the row of memory_tasks: its completion
    recorded,  \* what was recorded last of each task, and by which run
    granted,   \* history: the runs that claimed each task
    observed,  \* history: the evidence each run was shown
    lost       \* history: runs that could not release what they claimed

vars == <<admitted, runs, slots, closed, threads, lease, outcome, recorded,
          granted, observed, lost>>

adapterVars == <<admitted, closed>>
databaseVars == <<lease, outcome, recorded, granted>>

-----------------------------------------------------------------------------
RunNumbers == 1 .. MaxRuns

\* Where run() is: waiting for a slot, in the thread of claim(), resumed from
\* it, in begin_task, in the first prepare(), in the client's loop, in
\* prepare(guard=True), in disconnect() after a result or after an exception,
\* in the thread of complete_task, in the thread of release().
RunStates == {"idle", "waiting", "claiming", "claimed", "starting",
              "preparing", "executing", "guarding", "disconnecting",
              "aborting", "completing", "releasing"}

Result == [status : {"none", "succeeded", "failed"}, cites : SUBSET Evidence]

NoResult == [status |-> "none", cites |-> {}]
FailedResult == [status |-> "failed", cites |-> {}]

Run == [pc : RunStates, n : 0 .. MaxRuns, evidence : BoundedSeq(Evidence, MaxEvidence),
        failure : BOOLEAN, result : Result]

Idle == [pc |-> "idle", n |-> 0, evidence |-> <<>>, failure |-> FALSE,
         result |-> NoResult]

ThreadKinds == {"claim", "begin", "finding", "complete", "release"}

Thread == [kind : ThreadKinds, call : Calls, n : RunNumbers, result : Result]

NoLease == [n |-> 0, live |-> FALSE]

Init ==
    /\ admitted = 0
    /\ runs = [c \in Calls |-> Idle]
    /\ slots = [a \in Adapters |-> MaxConcurrent]
    /\ closed = [a \in Adapters |-> "open"]
    /\ threads = {}
    /\ lease = [t \in Tasks |-> NoLease]
    /\ outcome = [t \in Tasks |-> "absent"]
    /\ recorded = [t \in Tasks |-> {}]
    /\ granted = [t \in Tasks |-> {}]
    /\ observed = [n \in RunNumbers |-> {}]
    /\ lost = {}

-----------------------------------------------------------------------------
(***************************************************************************)
(* Runs and their threads                                                  *)
(***************************************************************************)
Adapter(c) == c[1]
Task(c) == c[2]

AdmittedRuns(a) == {c \in Calls : Adapter(c) = a /\ runs[c].pc # "idle"}

\* run() holds a permit from `acquired = True` to the last finally clause.
HasSlot(run) == run.pc \notin {"idle", "waiting"}

\* The lease variable of run() is set.
HasLease(run) == HasSlot(run) /\ run.pc \notin {"claiming", "claimed"}

ThreadOf(kind, c) ==
    [kind |-> kind, call |-> c, n |-> runs[c].n, result |-> runs[c].result]

ReleaseOf(c) == [ThreadOf("release", c) EXCEPT !.result = NoResult]

\* The thread a run in each state awaits.
AwaitedKind(pc) ==
    CASE pc = "claiming" -> "claim"
      [] pc = "starting" -> "begin"
      [] pc = "completing" -> "complete"
      [] pc = "releasing" -> "release"
      [] OTHER -> "none"

Awaits(c, thread) ==
    /\ runs[c].n = thread.n
    /\ AwaitedKind(runs[c].pc) = thread.kind

AwaitedThreads(c) ==
    {thread \in threads : thread.call = c /\ Awaits(c, thread)}

ThreadsOf(kind, c) ==
    {thread \in threads : thread.kind = kind /\ thread.n = runs[c].n}

\* On its way out a run reads its table of evidence no more.
LastSteps(run, pc) == [Idle EXCEPT !.pc = pc, !.n = run.n]

Goes(c, pc) == runs' = [runs EXCEPT ![c].pc = pc]

\* MUTANT: the permit is returned whether or not it was acquired.
EndRunAlwaysReleases(c) ==
    /\ runs' = [runs EXCEPT ![c] = Idle]
    /\ slots' = [slots EXCEPT ![Adapter(c)] = @ + 1]

\* The last finally clause: the permit goes back, the key leaves _runs.
EndRun(c) ==
    /\ runs' = [runs EXCEPT ![c] = Idle]
    /\ slots' = [slots EXCEPT ![Adapter(c)] =
                    IF HasSlot(runs[c]) THEN @ + 1 ELSE @]

\* The outer finally clause, entered with a lease.
Releases(c, others) ==
    /\ runs' = [runs EXCEPT ![c] = LastSteps(@, "releasing")]
    /\ threads' = others \cup {ReleaseOf(c)}

-----------------------------------------------------------------------------
(***************************************************************************)
(* Leases                                                                  *)
(***************************************************************************)
\* RunLease.check: the row carries this run's token and has not expired.
Check(t, n) == lease[t].live /\ lease[t].n = n

\* RunLeases.claim finds no unexpired row.
Free(t) == ~lease[t].live

\* time.time() passes the row's expiry, however the run is doing.
Expire(t) ==
    /\ lease[t].live
    /\ lease' = [lease EXCEPT ![t].live = FALSE]
    /\ UNCHANGED <<adapterVars, runs, slots, threads, outcome, recorded,
                   granted, observed, lost>>

-----------------------------------------------------------------------------
(***************************************************************************)
(* Admission                                                               *)
(***************************************************************************)
Admit(c) ==
    /\ runs[c].pc = "idle"
    /\ closed[Adapter(c)] = "open"
    /\ Cardinality(AdmittedRuns(Adapter(c))) < MaxConcurrent + MaxPending
    /\ admitted < MaxRuns
    /\ admitted' = admitted + 1
    /\ runs' = [runs EXCEPT ![c] = [Idle EXCEPT !.pc = "waiting",
                                                !.n = admitted + 1]]
    /\ UNCHANGED <<slots, closed, threads, databaseVars, observed, lost>>

\* The semaphore serves its waiters in order of arrival.
FirstWaiter(c) ==
    /\ runs[c].pc = "waiting"
    /\ \A d \in AdmittedRuns(Adapter(c)) :
          runs[d].pc = "waiting" => runs[d].n >= runs[c].n

Acquire(c) ==
    /\ FirstWaiter(c)
    /\ slots[Adapter(c)] > 0
    /\ slots' = [slots EXCEPT ![Adapter(c)] = @ - 1]
    /\ Goes(c, "claiming")
    /\ threads' = threads \cup {ThreadOf("claim", c)}
    /\ UNCHANGED <<adapterVars, databaseVars, observed, lost>>

\* admission_timeout_seconds pass: AgentCapacityError.
AdmissionTimeout(c) ==
    /\ runs[c].pc = "waiting"
    /\ EndRun(c)
    /\ UNCHANGED <<adapterVars, threads, databaseVars, observed, lost>>

\* The transaction of RunLeases.claim.
Claim(thread) ==
    LET c == thread.call
        t == Task(c)
    IN  /\ thread.kind = "claim"
        /\ Free(t)
        /\ threads' = threads \ {thread}
        /\ lease' = [lease EXCEPT ![t] = [n |-> thread.n, live |-> TRUE]]
        /\ granted' = [granted EXCEPT ![t] = @ \cup {thread.n}]
        /\ IF Awaits(c, thread)
           THEN Goes(c, "claimed") /\ UNCHANGED lost
           ELSE lost' = lost \cup {thread.n} /\ UNCHANGED runs
        /\ UNCHANGED <<adapterVars, slots, outcome, recorded, observed>>

\* AgentRunConflict: somebody else holds the task.
ClaimConflict(thread) ==
    LET c == thread.call
    IN  /\ thread.kind = "claim"
        /\ ~Free(Task(c))
        /\ threads' = threads \ {thread}
        /\ IF Awaits(c, thread) THEN EndRun(c) ELSE UNCHANGED <<runs, slots>>
        /\ UNCHANGED <<adapterVars, databaseVars, observed, lost>>

\* _options accepts what the host configured: the run goes on to begin_task.
Configure(c) ==
    /\ runs[c].pc = "claimed"
    /\ Goes(c, "starting")
    /\ threads' = threads \cup {ThreadOf("begin", c)}
    /\ UNCHANGED <<adapterVars, slots, databaseVars, observed, lost>>

\* MUTANT: the options are checked before the lease variable is set.
RejectOptionsUnleased(c) ==
    /\ runs[c].pc = "claimed"
    /\ EndRun(c)
    /\ UNCHANGED <<adapterVars, threads, databaseVars, observed, lost>>

\* _options raises: nothing is persisted, no client is launched.
RejectOptions(c) ==
    /\ runs[c].pc = "claimed"
    /\ Releases(c, threads)
    /\ UNCHANGED <<adapterVars, slots, databaseVars, observed, lost>>

-----------------------------------------------------------------------------
(***************************************************************************)
(* Execution                                                               *)
(***************************************************************************)
\* The transaction of begin_task, which no lease guards: the task exists from
\* now on.  A task that has an outcome is not run again.
Begin(thread) ==
    LET c == thread.call
        t == Task(c)
        open == outcome[t] \in {"absent", "open"}
    IN  /\ thread.kind = "begin"
        /\ outcome' = [outcome EXCEPT ![t] = IF open THEN "open" ELSE @]
        /\ \/ /\ Awaits(c, thread) /\ open
              /\ Goes(c, "preparing")
              /\ threads' = threads \ {thread}
           \/ /\ Awaits(c, thread) /\ ~open
              /\ Releases(c, threads \ {thread})
           \/ /\ ~Awaits(c, thread)
              /\ threads' = threads \ {thread}
              /\ UNCHANGED runs
        /\ UNCHANGED <<adapterVars, slots, lease, recorded, granted,
                       observed, lost>>

\* TaskBinding.prepare(guard=False) finds the lease valid, before and after.
Prepare(c) ==
    /\ runs[c].pc = "preparing"
    /\ Check(Task(c), runs[c].n)
    /\ Goes(c, "executing")
    /\ UNCHANGED <<adapterVars, slots, threads, databaseVars, observed,
                   lost>>

\* It does not, a required gap cannot be answered, evidence contradicts the
\* table, or the mandatory context exceeds its budget.
PrepareFails(c) ==
    /\ runs[c].pc = "preparing"
    /\ Releases(c, threads)
    /\ UNCHANGED <<adapterVars, slots, databaseVars, observed, lost>>

\* The table without the item an id names; an id is in it at most once.
Without(table, id) ==
    LET places == {i \in DOMAIN table : table[i].id = id}
    IN  IF places = {} THEN table
        ELSE RemoveAt(table, CHOOSE i \in places : TRUE)

\* MUTANT: the table is trimmed before the item is added.
RememberedTrimmedFirst(table, item) ==
    LET others == Without(table, item.id)
    IN  Append(IF Len(others) > MaxEvidence THEN Tail(others) ELSE others, item)

\* TaskBinding.remember_evidence: the newest items, each id once.
Remembered(table, item) ==
    LET all == Append(Without(table, item.id), item)
    IN  IF Len(all) > MaxEvidence THEN Tail(all) ELSE all

\* The id is in the table with other contents: SchemaError.
Contradicts(table, item) ==
    \E e \in ToSet(table) : e.id = item.id /\ e # item

Observe(c, item) ==
    /\ runs' = [runs EXCEPT ![c].evidence = Remembered(@, item)]
    /\ observed' = [observed EXCEPT ![runs[c].n] = @ \cup {item}]

\* Resolved knowledge, from a memory tool or from prepare(): the lease is
\* validated first.  Evidence that contradicts the table is an error of that
\* one call.
ObserveKnowledge(c, item) ==
    /\ runs[c].pc \in {"preparing", "executing"}
    /\ Check(Task(c), runs[c].n)
    /\ ~Contradicts(runs[c].evidence, item)
    /\ Observe(c, item)
    /\ UNCHANGED <<adapterVars, slots, threads, databaseVars, lost>>

\* MemoryHooks.after_tool with an item of the extractor.
AfterTool(c, item) ==
    /\ runs[c].pc = "executing"
    /\ ~Contradicts(runs[c].evidence, item)
    /\ Observe(c, item)
    /\ UNCHANGED <<adapterVars, slots, threads, databaseVars, lost>>

\* The extractor fails, times out, or contradicts the table.
AfterToolFails(c) ==
    /\ runs[c].pc = "executing"
    /\ ~runs[c].failure
    /\ runs' = [runs EXCEPT ![c].failure = TRUE]
    /\ UNCHANGED <<adapterVars, slots, threads, databaseVars, observed, lost>>

\* MUTANT: evidence is compared by its id alone.
ValidatedById(table, cites) ==
    {e.id : e \in cites} \subseteq {e.id : e \in ToSet(table)}

\* validate_findings and validate_result: exactly what is in the table.
Validated(table, cites) == cites \subseteq ToSet(table)

\* record_finding: validated here, written in a thread of its own.  The agent
\* is taken to wait for one finding before it records the next.
RecordFinding(c, cites) ==
    /\ runs[c].pc = "executing"
    /\ ThreadsOf("finding", c) = {}
    /\ Check(Task(c), runs[c].n)
    /\ Validated(runs[c].evidence, cites)
    /\ threads' = threads \cup
          {[ThreadOf("finding", c) EXCEPT !.result.cites = cites]}
    /\ UNCHANGED <<adapterVars, runs, slots, databaseVars, observed, lost>>

Ends(c, pc, result) ==
    /\ runs' = [runs EXCEPT ![c] = [LastSteps(@, pc) EXCEPT !.result = result]]
    /\ UNCHANGED <<adapterVars, slots, threads, databaseVars, observed,
                   lost>>

\* The client's loop ends with an error, without a result, with one that does
\* not validate, or after a failed hook.
ExecutionFails(c) ==
    /\ runs[c].pc = "executing"
    /\ Ends(c, "disconnecting", FailedResult)

\* A structured result that validates; success is guarded once more.
ReceiveResult(c, result) ==
    /\ runs[c].pc = "executing"
    /\ ~runs[c].failure
    /\ Validated(runs[c].evidence, result.cites)
    /\ Ends(c, IF result.status = "succeeded" THEN "guarding"
                                              ELSE "disconnecting", result)

\* prepare(guard=True) passes.
Guard(c) ==
    /\ runs[c].pc = "guarding"
    /\ Check(Task(c), runs[c].n)
    /\ Ends(c, "disconnecting", runs[c].result)

\* The lease is gone, a gap or a conflict of preferences is open, or the
\* evidence of resolved knowledge contradicts the table.
GuardFails(c) ==
    /\ runs[c].pc = "guarding"
    /\ Ends(c, "disconnecting", FailedResult)

\* client.disconnect() returns, fails or times out; then complete_task.
Disconnect(c) ==
    /\ runs[c].pc = "disconnecting"
    /\ Goes(c, "completing")
    /\ threads' = threads \cup {ThreadOf("complete", c)}
    /\ UNCHANGED <<adapterVars, slots, databaseVars, observed, lost>>

\* The same in the finally clause of an interrupted execution.
DisconnectAborted(c) ==
    /\ runs[c].pc = "aborting"
    /\ Releases(c, threads)
    /\ UNCHANGED <<adapterVars, slots, databaseVars, observed, lost>>

-----------------------------------------------------------------------------
(***************************************************************************)
(* What a run records                                                      *)
(***************************************************************************)
Recorded(thread) == [kind |-> thread.result.status,
                     cites |-> thread.result.cites]

\* MUTANT: any unexpired lease of the task will do.
MayRecordUnderAnyLease(thread) == lease[Task(thread.call)].live

\* _record checks the lease inside its transaction.
MayRecord(thread) == Check(Task(thread.call), thread.n)

Writes(thread) ==
    recorded' = [recorded EXCEPT ![Task(thread.call)] =
                    {<<thread.n, Recorded(thread)>>}]

\* record_finding; nobody waits for its thread but the tool call.
SaveFinding(thread) ==
    /\ thread.kind = "finding"
    /\ threads' = threads \ {thread}
    /\ IF MayRecord(thread) THEN Writes(thread) ELSE UNCHANGED recorded
    /\ UNCHANGED <<adapterVars, runs, slots, lease, outcome, granted,
                   observed, lost>>

\* The await of complete_task ends, with a capture or a capture_error.
CompleteReturns(thread) ==
    IF Awaits(thread.call, thread)
    THEN Releases(thread.call, threads \ {thread})
    ELSE threads' = threads \ {thread} /\ UNCHANGED runs

Complete(thread) ==
    /\ thread.kind = "complete"
    /\ MayRecord(thread)
    /\ outcome[Task(thread.call)] = "open"
    /\ outcome' = [outcome EXCEPT ![Task(thread.call)] = thread.result.status]
    /\ Writes(thread)
    /\ CompleteReturns(thread)
    /\ UNCHANGED <<adapterVars, slots, lease, granted, observed, lost>>

\* The lease check fails, the task has an outcome, a gap is open or the
\* database refuses the transaction.
CompleteFails(thread) ==
    /\ thread.kind = "complete"
    /\ CompleteReturns(thread)
    /\ UNCHANGED <<adapterVars, slots, databaseVars, observed, lost>>

-----------------------------------------------------------------------------
(***************************************************************************)
(* Ends of a run                                                           *)
(***************************************************************************)
\* The DELETE of RunLease.release: only the row with this token.
Released(t, n) == IF lease[t].n = n THEN NoLease ELSE lease[t]

ReleaseReturns(thread) ==
    /\ threads' = threads \ {thread}
    /\ IF Awaits(thread.call, thread)
       THEN EndRun(thread.call) ELSE UNCHANGED <<runs, slots>>

Release(thread) ==
    /\ thread.kind = "release"
    /\ lease' = [lease EXCEPT ![Task(thread.call)] =
                    Released(Task(thread.call), thread.n)]
    /\ ReleaseReturns(thread)
    /\ UNCHANGED <<adapterVars, outcome, recorded, granted, observed,
                   lost>>

\* The transaction fails: local capacity is released all the same.
ReleaseFails(thread) ==
    /\ thread.kind = "release"
    /\ lost' = lost \cup {thread.n}
    /\ ReleaseReturns(thread)
    /\ UNCHANGED <<adapterVars, databaseVars, observed>>

\* Where CancelledError takes a run.
InterruptedPc(pc) ==
    CASE pc \in {"idle", "waiting", "claiming", "claimed", "releasing"} ->
            "idle"
      [] pc \in {"executing", "guarding"} -> "aborting"
      [] OTHER -> "releasing"

Interrupted(run) ==
    IF InterruptedPc(run.pc) = "idle" THEN Idle
    ELSE LastSteps(run, InterruptedPc(run.pc))

\* CancelledError reaches the runs of C; threads that have not started are
\* dropped.  A run that is between claim() and the assignment of its lease
\* variable, or whose release() is dropped, leaves its row behind.
Interrupt(C) ==
    \E dropped \in SUBSET UNION {AwaitedThreads(c) : c \in C} :
        /\ runs' = [c \in Calls |->
                       IF c \in C THEN Interrupted(runs[c]) ELSE runs[c]]
        /\ slots' = [a \in Adapters |-> slots[a] + Cardinality(
                       {c \in C : /\ Adapter(c) = a
                                  /\ HasSlot(runs[c])
                                  /\ Interrupted(runs[c]) = Idle})]
        /\ threads' = (threads \ dropped) \cup
               {ReleaseOf(c) :
                   c \in {d \in C : Interrupted(runs[d]).pc = "releasing"}}
        /\ lost' = lost
               \cup {runs[c].n : c \in {d \in C : runs[d].pc = "claimed"}}
               \cup {thread.n : thread \in
                        {th \in dropped : th.kind = "release"}}

\* The host cancels a run.
Cancel(c) ==
    /\ runs[c].pc # "idle"
    /\ Interrupt({c})
    /\ UNCHANGED <<adapterVars, databaseVars, observed>>

\* MUTANT: the timeout does not cover the execution of the client.
RunTimeoutOutsideExecution(c) ==
    /\ runs[c].pc \in {"starting", "preparing", "completing"}
    /\ Interrupt({c})
    /\ UNCHANGED <<adapterVars, databaseVars, observed>>

\* run_timeout_seconds pass.
RunTimeout(c) ==
    /\ runs[c].pc \in {"starting", "preparing", "executing", "guarding",
                       "disconnecting", "completing"}
    /\ Interrupt({c})
    /\ UNCHANGED <<adapterVars, databaseVars, observed>>

\* aclose() cancels every admitted run and waits for them.
Close(a) ==
    /\ closed[a] = "open"
    /\ closed' = [closed EXCEPT ![a] = "closing"]
    /\ Interrupt(AdmittedRuns(a))
    /\ UNCHANGED <<admitted, databaseVars, observed>>

CloseReturns(a) ==
    /\ closed[a] = "closing"
    /\ AdmittedRuns(a) = {}
    /\ closed' = [closed EXCEPT ![a] = "closed"]
    /\ UNCHANGED <<admitted, runs, slots, threads, databaseVars, observed,
                   lost>>

\* The process dies and is started again: only the database survives.
Crash(a) ==
    LET mine == {c \in Calls : Adapter(c) = a}
    IN  /\ runs' = [c \in Calls |-> IF c \in mine THEN Idle ELSE runs[c]]
        /\ slots' = [slots EXCEPT ![a] = MaxConcurrent]
        /\ closed' = [closed EXCEPT ![a] = "open"]
        /\ threads' = {thread \in threads : thread.call \notin mine}
        /\ lost' = lost \cup ({runs[c].n : c \in mine} \ {0})
                        \cup {thread.n : thread \in threads \ threads'}
        /\ UNCHANGED <<admitted, databaseVars, observed>>

-----------------------------------------------------------------------------
\* A run's own steps, between two awaits.
Step(c) ==
    \/ Acquire(c)
    \/ Configure(c) \/ RejectOptions(c)
    \/ Prepare(c) \/ PrepareFails(c)
    \/ Guard(c) \/ GuardFails(c)
    \/ Disconnect(c) \/ DisconnectAborted(c)

\* What the SDK's client and its tools do with a run.
Agent(c) ==
    \/ \E item \in Evidence : ObserveKnowledge(c, item) \/ AfterTool(c, item)
    \/ \E cites \in Citations : RecordFinding(c, cites)
    \/ \E status \in {"succeeded", "failed"}, cites \in Citations \cup {{}} :
          ReceiveResult(c, [status |-> status, cites |-> cites])
    \/ ExecutionFails(c)
    \/ AfterToolFails(c)

Transaction(thread) ==
    \/ Claim(thread) \/ ClaimConflict(thread)
    \/ Begin(thread)
    \/ SaveFinding(thread)
    \/ Complete(thread) \/ CompleteFails(thread)
    \/ Release(thread) \/ ReleaseFails(thread)

TransactionOf(c) == \E thread \in threads : thread.call = c /\ Transaction(thread)

Next ==
    \/ \E c \in Calls :
          \/ Admit(c) \/ AdmissionTimeout(c)
          \/ Step(c) \/ Agent(c) \/ TransactionOf(c)
          \/ Cancel(c) \/ RunTimeout(c)
    \/ \E a \in Adapters : Close(a) \/ CloseReturns(a) \/ Crash(a)
    \/ \E t \in Tasks : Expire(t)

Spec == Init /\ [][Next]_vars

\* The event loop and the thread pool of a process keep running; the run's
\* timeout fires.  Nothing is assumed of the agent, of the host, of the
\* admission timeout or of the expiry of a lease.
Fairness ==
    /\ \A c \in Calls :
          WF_vars(Step(c)) /\ WF_vars(TransactionOf(c)) /\ WF_vars(RunTimeout(c))
    /\ \A a \in Adapters : WF_vars(CloseReturns(a))

FairSpec == Spec /\ Fairness

-----------------------------------------------------------------------------
(***************************************************************************)
(* Properties                                                              *)
(***************************************************************************)
TypeOK ==
    /\ admitted \in 0 .. MaxRuns
    /\ runs \in [Calls -> Run]
    /\ slots \in [Adapters -> 0 .. MaxConcurrent]
    /\ closed \in [Adapters -> {"open", "closing", "closed"}]
    /\ threads \in SUBSET Thread
    /\ lease \in [Tasks -> [n : 0 .. MaxRuns, live : BOOLEAN]]
    /\ outcome \in [Tasks -> {"absent", "open", "succeeded", "failed"}]
    /\ recorded \in [Tasks -> SUBSET (RunNumbers \X
                          [kind : {"none", "succeeded", "failed"},
                           cites : SUBSET Evidence])]
    /\ granted \in [Tasks -> SUBSET RunNumbers]
    /\ observed \in [RunNumbers -> SUBSET Evidence]
    /\ lost \subseteq RunNumbers

\* Every permit of an adapter is free or held by one admitted run: no way out
\* of run(), be it a conflict, a timeout, a cancellation at any await or a
\* failed release, leaks a permit or returns one twice.
SlotsBalanced ==
    \A a \in Adapters :
        slots[a] + Cardinality({c \in AdmittedRuns(a) : HasSlot(runs[c])})
            = MaxConcurrent

\* A row of memory_agent_leases belongs to a run that will still release it or
\* to the thread that is about to.  The exceptions are the rows that only
\* expiry recovers: those of a crashed process, of a release that failed, and
\* of a run cancelled while claim() was inserting them.
LeaseReturned ==
    \A t \in Tasks :
        \/ lease[t].n \in lost \cup {0}
        \/ \E c \in Calls :
              /\ Task(c) = t /\ runs[c].n = lease[t].n
              /\ HasLease(runs[c]) \/ runs[c].pc = "claimed"
        \/ \E thread \in threads :
              thread.kind = "release" /\ thread.n = lease[t].n

\* What is recorded of a task cites evidence, contents included, that the run
\* which recorded it was shown itself, though the table it is checked against
\* forgets.
EvidenceHonest ==
    \A t \in Tasks : \A entry \in recorded[t] :
        entry[2].cites \subseteq observed[entry[1]]

\* A task is held by at most one run at a time, and what is recorded of it is
\* recorded by the run that holds it: neither a run whose lease expired nor a
\* thread left over from a cancelled one writes after another run has claimed
\* the task.
Exclusion == INSTANCE TaskExclusion WITH
    Runs <- RunNumbers,
    Records <- [kind : {"none", "succeeded", "failed"},
                cites : SUBSET Evidence],
    Nobody <- 0,
    holder <- [t \in Tasks |-> IF lease[t].live THEN lease[t].n ELSE 0]

ExclusionSpec == Exclusion!Spec

\* Every admitted run ends and leaves _runs, whatever the agent does and
\* without help from the admission timeout.
RunsEnd == \A c \in Calls : runs[c].pc # "idle" ~> runs[c].pc = "idle"

=============================================================================
