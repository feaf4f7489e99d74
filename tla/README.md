# MemoryCore: a TLA+ verification project

MemoryCore keeps durable, versioned memories for agents in SQLite and maintains
them in the background. This directory models the parts of it that run
concurrently, retry, lease and recover, checks them with TLC on small instances
and proves the central results with TLAPS for all instances.

## 1. Inventory

| component | code | state it keeps | operations | what makes it hard |
|---|---|---|---|---|
| job queue | `runtime/queue.py` | `memory_jobs` rows: status, attempts, available, lease, token, result, payload | enqueue, claim (with its sweep), assert_lease, finish, fail, schedule_dream | leases expire while work goes on; attempts run out |
| worker | `runtime/worker.py` | one attempt per loop; the executor thread its transaction runs in | run_once, `_capture`, `_dream`, `_finish` | a timeout abandons the thread but not the transaction |
| dream scans | `runtime/dreams.py` | scan in the job's payload, cursor and counters in `memory_owners` | scan_for, advance | passes are split over jobs that are retried and reviewed |
| dream plan and apply | `memory/dream.py` | `memory_dreams`, the records it changes | plan, apply, due | plans are computed outside transactions |
| reconciliation | `memory/reconciliation.py` | statuses and revisions of records | apply_reconciliation | decisions name targets that may change |
| runtime facade | `runtime/core.py` | `memory_tasks`, `memory_events` | begin, record, complete, review, retry, prepare | reviews race writes, completion races research |
| knowledge gaps | `runtime/knowledge.py` | `memory_gaps` | resolve | evidence is read long before it is stored |
| retention | `runtime/retention.py` | archives | maintain, reclaim | archives rows other operations look for |
| memory service | `memory/service.py` | owner caches, receipts | remember, recall, prepare and validate context, checkpoints | optimistic: reads, thinks, compares the generation, writes |
| store | `memory/store.py` | `memory_owners`, `memories_v1`, audit | transaction, bump, put | one generation counter orders everything |
| owner cache, index | `memory/cache.py`, `indexing/semantic.py` | rows and vectors in memory | sync, search, restore | staleness across processes |
| agent runs | `integrations/claude/` | slots, run table, `memory_agent_leases`, evidence | run, hooks, binding | cancellation at every await |
| session context | `integrations/session.py` | fingerprints, last context | prepare, commit, before_action | responses committed late |
| legacy system | `core/system.py`, `storage/*` | three tables and an index | remember, record_event, recall, forget, hydrate, purge_expired | no lock spans an operation; stores are written one after the other |
| memory engine | `src/lib.rs`, `indexing/rust_index.py` | dense traces, slots, posting lists | ingest, mark, remove, search | removal moves another trace |
| pure functions | `memory/preferences.py`, `memory/metadata.py`, `runtime/context.py` | none | resolution, filtering, rendering | ties and limits |
| vector search, schema, providers, MCP | `src/vector_index.rs`, `src/ranking.rs`, `indexing/semantic.py`, `storage/database.py`, ... | | | numeric or pure input/output; not modelled |

All writers of one owner are serialised twice: by the process' owner lock and by
`BEGIN IMMEDIATE`. What is concurrent is everything between transactions, and
that is where every hazard listed in `PROJECT.json` bites: a value read in one
transaction and used in a later one, a thread that commits after its caller gave
up, a lease that expires under its holder, a crash between two commits.

Statements are filtered by owner everywhere, so one owner is modelled.

## 2. Modules

| module | models |
|---|---|
| `JobQueue` | one row of `memory_jobs` and what each statement does to it |
| `Records` | records, the changes made to them, the order and batches of a scan |
| `Maintenance` | workers, threads, dream scans, reviews, retries, retention and foreground writes over both |
| `JobLifecycle` | abstract specification: what maintenance promises about a job |
| `MaintenanceRefinement` | the mapping under which `Maintenance` implements `JobLifecycle` |
| `MaintenanceProofs`, `MaintenanceSafety`, `MaintenanceScans` | theorems about `Maintenance` |
| `TaskRuntime` | one task: begin, findings, research, completion, guarded preparation, archival of its events |
| `TaskProofs` | theorems about `TaskRuntime` |
| `AgentRuns` | runs of Claude adapters: admission, leases, evidence, what a run records, every way it ends |
| `TaskExclusion` | abstract specification: one writer of a task at a time; `AgentRuns` implements it |
| `AgentProofs` | theorems about `AgentRuns` |
| `OwnerCache` (over `Records`) | the in-memory index of an owner in each process and the graphs it is restored from |
| `SessionContext` (over `OwnerCache`) | one conversation that prepares, delivers, commits and acts, in one of these processes |
| `CacheProofs` | theorems about `OwnerCache` and `SessionContext` |
| `MemoryEngine` | the Rust index of the legacy user memory, as operators on its value |
| `LegacySystem` (over `MemoryEngine`) | threads that remember, recall, forget, hydrate, record and purge over the index and three tables |
| `LegacyProofs`, `LegacyAnswers` | theorems about `LegacySystem`, over lemmas that each operation of `MemoryEngine` keeps an index sound |
| `MC*` | small instances and symmetry for TLC; the `.cfg` files give the constants |

### Maintenance: state and code

* `jobs` is `memory_jobs`. Time is reduced to what the SQL compares with it:
  `ready` is `available<=now`, `live` is `lease_until>now`; `Elapse` and `Expire`
  flip them at any moment.
* `generation`, `writes`, `dreamWrites`, `cursor` are the columns of
  `memory_owners`; `recs` is `memories_v1` with `memory_archives`: a status and
  the generation of the last change. Content is abstracted: reconciler and
  planner may return any decision of the configured kinds.
* `wk[w]` holds the local variables of one `run_once`; `threads` are the
  transactions handed to `asyncio.to_thread` and not executed yet. `Interrupt`
  (timeout, cancellation, provider error) ends the attempt and leaves the thread:
  it may commit later, when the job has been failed, retried, claimed by another
  worker or finished.
* `commits`, `passedOn` and `seen` are history variables.

| action | code |
|---|---|
| `Submit`, `Remember` | `Queue.capture` of a new event; a caller's `remember_reconciled` with the commit observer that schedules a dream |
| `Claim`, `ClaimNothing` | `Queue.claim`: sweep, select, update |
| `Inspect` | `_capture` up to its `persist()` |
| `ScanFor`, `PlanSnapshot`, `PlanSave` | `_dream`: `scan_for`, the snapshot and `save()` of `dream.plan` |
| `ThreadConflict`, `CaptureReview`, `CaptureCommit`, `DreamCommit` | `persist()` and `dream.apply`'s `commit()`, with the worker's callback inside the transaction |
| `Propose`, `Fail` | `_finish(claim, "proposed", ...)` and `Queue.fail` |
| `Interrupt`, `Crash`, `Expire`, `Elapse` | timeouts and cancellations, process death, time |
| `Review`, `Retry`, `Maintain` | `_review`, `_retry`, `retention.maintain` |
| `DreamSnapshot`, `DreamSave`, `DreamApply`, `ApplyProposed` | a caller's `dream()` and `apply_dream()` |

A foreground `remember` is one action: its writing transaction compares the
generation of its reads, so a call that succeeds is atomic and one that fails
leaves nothing. A dream plan holds at most one change (the code allows several
with disjoint ids in one transaction). `Queue.fail`'s delay is the time until
`Elapse`.

### TaskRuntime: state and code

* `task` and `outcome` are the columns of the `memory_tasks` row; its context is
  reduced to one attribute. A caller gives a value in normal form or not (an
  alias, an unsorted keyword list); `Normalize` is `Registry.normalize`, which
  `save()` applies and `existing()` does not.
* `events` is `memory_events` with `memory_event_archives`, `jobs` the capture job
  of each event: `JobDone` is all that is left of `Maintenance` here.
* `gaps` is `memory_gaps`; an answer cites memories in revisions and turns old
  (`Age`). Evidence of a researcher that names no recalled memory has nothing the
  code could compare and is an empty set of citations.
* `mems`, `generation` and `receipt` belong to the memory service: `WriteMemory`
  stands for any of its writes, `LoseReceipt` for a restart or the limit of 1024.
* `starts`, `researches` and `preps` hold the local variables of calls between
  their transactions. `preps[p].held` is the context a `TaskBinding` keeps for
  reuse; a `TaskSession` always prepares anew.
* `enqueued` and `replies` are history variables.

| action | code |
|---|---|
| `Begin`, `SaveTask` | `existing()`; resolvers and `save()` of `_begin` |
| `RecordFinding`, `Complete`, `CompleteAgain` | `_record` for a finding, a first and a repeated completion |
| `DeclareGap`, `RecallEvidence`, `Answer`, `LeaveUnresolved`, `AbandonResearch` | `begin()`, recall and evaluation, and the ends of `finish()` in `knowledge.resolve` |
| `PrepareContext`, `ReuseContext`, `Collect`, `ReturnGuarded` | `_prepare_task`: preparation or validation of a cached one, `collect()`, the last validation |
| `ArchiveEvents`, `JobDone` | `retention.maintain`; the worker |

Every transaction is one action; calls that only answer or raise are no steps.

### AgentRuns: state and code

* An element of `Calls` is a key of `ClaudeMemoryAgent._runs` with the adapter it
  belongs to; `runs[c].pc` says at which await the run is. A run's number stands
  for the token of its lease. `slots` is the semaphore, which serves its waiters
  in order.
* `threads` are the transactions given to `asyncio.to_thread`. A cancelled run
  leaves its await at once; a thread that has not started yet is dropped, one that
  has goes on alone. `Interrupt` chooses which, and `InterruptedPc` says where the
  exception takes the run: out of a client's loop it disconnects first, with a
  lease it releases, without one it just gives its permit back.
* `lease` is `memory_agent_leases`: token and whether `expires>now`. `outcome` is
  the task's row. `recorded` holds what was recorded last of each task; nothing
  depends on more.
* The agent may call any tool with any citations at any time; the table of
  evidence is the `OrderedDict` of `TaskBinding`.

| action | code |
|---|---|
| `Admit`, `Acquire`, `AdmissionTimeout` | `run()` up to its slot |
| `Claim`, `ClaimConflict`, `Expire`, `Release`, `ReleaseFails` | the transactions of `leases.py`, and time |
| `Configure`, `RejectOptions`, `Begin`, `Prepare`, `PrepareFails` | `_options`, `binding.start()`, `prepare(guard=False)` |
| `ObserveKnowledge`, `AfterTool`, `AfterToolFails`, `RecordFinding`, `SaveFinding` | memory tools and hooks of the client's loop |
| `ReceiveResult`, `ExecutionFails`, `Guard`, `GuardFails`, `Disconnect`, `DisconnectAborted` | `_execute` |
| `Complete`, `CompleteFails` | `_record` of a completion, with the lease checked inside |
| `Cancel`, `RunTimeout`, `Close`, `CloseReturns`, `Crash` | the host, `asyncio.timeout`, `aclose()`, process death |

### OwnerCache and SessionContext: state and code

* `history` is the database: the records at each generation. A read transaction
  sees the generation it began at (`calls[p].at`), a write one the last. The
  generation of a record stands for its revision; an embedding does not change
  with a revision, so a graph is the set of ids it finds.
* `caches[p]` is `MemoryService._caches`: headers and postings (`rows`), the graph
  (`vectors`), payloads (`resident`). Which payload makes room is left open.
* A checkpoint takes the graph after one transaction (`Checkpoint`) and stores it
  in another (`Save`), perhaps over a newer one. `Evict` is what an exception, or
  too many owners, does; `Persist` any committed write; `Archive` is retention,
  which does not look at the cache.
* A session's `responses` are numbered; `pending` and `injected` are the fields of
  `SessionContext`, `receipt` the entry of `_receipts` for its task. A context is
  the revisions of the memories that apply in it.
* `Deliver`, `DeliverUncertain`, `Reset` and `Resume` are the host, which follows
  `docs/persistent-sessions.md`; `shown` is the text the conversation read last.

### LegacySystem and MemoryEngine: state and code

* Every operation runs in a worker thread (`threads[t].pc`), and each call of the
  index and each transaction is a step. `Fail` rolls a transaction back and ends
  its operation; `Restart` loses the index.
* `engine` is the Rust value: dense `traces`, `slot` (`trace_index`), `posts`
  and the embedding's length. The three posting indexes of the code are treated
  alike and are one map here. `ltm`, `stm` and `events` are the tables.
* Which candidates of a recall score best is open (`Found`); `_enforce_cap` is
  three statements (`Count`, `Pick`, `Trim`), as it is in the code.
* `log` is history: what callers have been told.

### Bounds

Ids are finite sets: at most `|CaptureIds|` captures, `|NoteIds|` other records
and `|DreamIds|` dream jobs per behaviour. A transaction that may enqueue a dream
needs an unused dream id (`Room`), so behaviours end when dream ids are used up;
two of them give a pass and its continuation, three a following pass, too. Tokens are
reused once no attempt holds them: a lease only compares the row's token with
that of an attempt, so two are enough for a current attempt and the thread of an
abandoned one. `ForegroundUntil` bounds a caller's own dreams by the
generation. `BatchSize` 1 makes passes of several batches out of two or
three records. `MaxAttempts` 1 or 2 reaches both sides of the limit.
Deadlock is not checked: with finite ids the system comes to rest when all work
is done. In `TaskRuntime` `MaxGeneration` bounds writes (one is enough to make
evidence or a receipt stale; several calls can hold it), `MaxEvents` the number
in a knowledge event's id, and every set of calls, gaps and memories is finite;
two of each actor make every pair of them race.
`AgentRuns` bounds the calls of `run()`: two adapters and three keys, with two
runs in one behaviour, reach a second run on the task of the first, in the same
adapter (which waits for its slot) and in the other one (which waits for the
lease); nothing relates three runs. Evidence is checked with one run and a
table of one item, so that every second item evicts the first. `MaxWork` (3)
bounds commits, checkpoints and preparations of a session together: enough to
store a graph, change the database, and prepare on a cache restored from the
old graph; `MaxPrepared` 2 gives an old response and a new one. Two threads,
two traces of one user, two embedding lengths, four calls and one fault are
enough for two first writes of different lengths, a hydration around a forget,
and adds that trim each other's events.

## 3. What the runs check

| run | shows |
|---|---|
| `capture_jobs` | two workers, two tokens, abandoned threads, expiry, crash, review, retry, decisions that are applied at once and such that are reviewed: `TypeOK`, `EffectOnce` (an effect per job, exactly when acknowledged), `LeaseRespected` (nobody ends another attempt's live lease), `AckMatchesStore` (a capture's memory exists exactly when its job is acknowledged with a decision that stores it), `ApprovalHonoured` (reviewed changes only under an approval of this change in this generation), `JobsSettle` (once operators stop resetting jobs, every queued job is done, proposed, rejected or failed) |
| `dream_passes` | the worker's scans over three records, with merges applied at once and supersessions reviewed, beside callers that plan and apply dreams themselves: `CursorCovers` (every stored record at or before the cursor was given to a planner), `PassCovers` (a pass that is accounted for has covered every record up to its boundary), `ApprovalHonoured` for plans |
| `refinement` | captures, with the decisions `capture_jobs` leaves out, and dreams whose merges are reviewed, interleaved: `LifecycleSpec` (`Maintenance` implements `JobLifecycle`), `AckMatchesStore`, `ScanNotForked` (a job hands its scan on once, whatever is retried), `JobsSettle` (the chain of continuations is finite, too) |
| `dream_trigger` | **violated**: `TriggerRetained`, see below |
| `task_lifecycle` | racing `begin_task` calls, two researchers, findings, completion and archival: `TypeOK`, `TaskAgreed` (all who are answered agree on the stored context and it has their values), `EventOnce` (no event gets a second job), `ArchivedSettled` (nothing is archived before the task has settled for good), `SuccessAnswered` (a task that succeeded keeps its answers), `AnswerGrounded` (answers are stored on evidence that stands) |
| `guarded_preparation` | two sessions on one task: `GuardSound` (a guarded call returns on evidence that stands, although it checks in several transactions) |
| `task_resume` | **violated**: `ResumeAccepted`, see below |
| `completion_replay` | **violated**: `ReplayIdempotent`, see below |
| `agent_leases` | two adapters, two tasks: `SlotsBalanced` (no way out of a run leaks a permit or returns one twice), `LeaseReturned` (a row without an owner is left only by a crash, a failed release, or a run cancelled while it claims), `ExclusionSpec` (`AgentRuns` implements `TaskExclusion`: nobody records after another run has claimed), `RunsEnd` (every admitted run ends, whatever the agent does) |
| `agent_evidence` | a table smaller than what is observed: `EvidenceHonest` (what is recorded cites evidence this run was shown, contents included), `TypeOK` with the table's limit |
| `session_context` | two processes and a conversation: `TypeOK`, `CacheCoherent` (headers, postings, graph and payloads of a cache are the database at its generation), `SnapshotCoherent` (a stored graph is what was visible at its label), `ConversationInformed` (what counts as injected is what the conversation read last), `ActionCurrent` (an action proceeds only on a committed context that was exactly current when it was validated) |
| `legacy_stores` | two threads, faults and restart: `TypeOK`, `PostingsExact`, `DurableFirst` (only durable traces are found), `RememberedOrTakenBack`, `AccessesCounted` (no recall's access is lost, the index is ahead of the row only by recalls in progress), `EventsCapped`, `ForgottenEverywhere` |

Fairness (`FairSpec`): worker loops are polled by the event loop for as long as
the process (or a successor) runs, executor threads run, and clocks advance, so
worker steps, threads, `Expire` and `Elapse` are weakly fair. Timeouts, crashes,
reviews, retries and submissions are not assumed to happen. A worker that crashes
for ever is ruled out by the attempt limit, not by fairness.

Fairness of `AgentRuns`: the event loop of an adapter runs what is ready and its
thread pool runs what it was given (a crashed process has no runs), and
`asyncio.timeout(run_timeout_seconds)` fires. Nothing is assumed of the agent,
the host, the admission timeout or the expiry of a lease. `OwnerCache`,
`SessionContext` and `LegacySystem` state safety only.

### Findings

*Dream trigger.* `dreams.advance` returns early for a job that was continued before and so skips
the `schedule_dream` at its end. Writes that reach the threshold while such a job
(a proposed dream that an operator retried) is pending or running are due when it
settles and no dream is queued for them; the comment at `runtime/dreams.py:60`
says they retain their trigger. TLC's counterexample: a dream is proposed; the
operator retries it; a write arrives, and nothing is scheduled because a dream is
pending; the job is proposed again; `advance` returns early. The next write heals
it.

*Resume.* `_begin` stores normalised attributes and compares a repeated request's
attributes as they were given (`runtime/core.py:157`). A task begun with
`languages=["python", "go"]` is stored with the sorted list, and the same request
is then refused as "task ID reused with different context/objective"; the docs
(`docs/task-lifecycle.md:92`) ask only for compatible explicit attributes.

*Completion replay.* A repeated completion is answered from the rows still in
`memory_events` (`runtime/core.py:251`). After event archival the answer names
fewer jobs, or none. `docs/task-lifecycle.md:101` calls the replay idempotent and
`docs/indexed-memory.md:92` promises a `ConflictError` for archived events.

### What the exceptions in properties stand for

Some properties exclude a case because the code does not cover it. Each is a
deliberate reading of the code, kept small:

* `ConversationInformed` excepts a conversation that last read a text which was
  never committed. `docs/persistent-sessions.md` says of an uncertain delivery
  that the next preparation "replays the unacknowledged snapshot". It does,
  unless memories have meanwhile returned to what was committed before: then
  `prepare()` compares with the older commit, answers `unchanged` with an empty
  text, and the conversation keeps the text in between.
* `ForgottenEverywhere` counts a `forget()` only when it is `alone`. The docstring
  says "Remove a trace everywhere"; a hydration that has read the row before puts
  it back into the index, and a `remember()` of this trace that is still running
  writes its short-term row and its event afterwards.
* `EventsCapped` is an upper bound only. Count, choice and deletion are separate
  statements, so concurrent adds may together trim more than the overflow.
* `RememberedOrTakenBack` speaks of a `remember()` that has raised, not of one
  that was killed: the row of a rejected embedding is in the long-term table
  until it is taken back, and stays if the process dies or the deletion fails in
  between. The comment at `core/system.py:118` says such an embedding never
  reaches it.
* `LeaseReturned` names the three leases that only expiry recovers, as the comment
  in `agent.py` on a failing release says.

## 4. What is proved

Every invariant, every action property and both refinements that a passing run
checks are theorems, for every value of the constants.

About `Maintenance`, for every set of workers, jobs, records, tokens and dreams,
every policy and every limit, from the named assumptions on the constants only
(of these `AbsenceAssumption` says that SQL's NULL is no result and no scan):

* `TypeCorrect`: `Spec => []TypeOK`. Not inductive alone: a review edits the
  stored proposal and a plan uses the worker's scan. `TypeInv` adds that a busy
  worker holds a claim (and a scan once it has one) and that a row under review
  holds a proposal. The bound on attempts is part of it.
* `EffectsOnce`: `Spec => []EffectOnce`.
* `LeasesRespected`: `Spec => LeaseRespected`.
* `ApprovalsHonoured`: `Spec => ApprovalHonoured`.
* `AcksMatchStore`: `Spec => []AckMatchesStore`. A change stores what its plan
  says, and the plan was made by a thread that may be abandoned, so the invariant
  is about every plan under way: a plan for a capture creates that capture's
  memory and no other, a dream's plan and a caller's create none of a capture
  (`PlansOwned`, `ForegroundOwned`). `PlanSteps` says that a plan of a job was
  one before the step or is made in it.
* `ImplementsLifecycle`: `Spec => LifecycleSpec`, that is `Maintenance` implements
  `JobLifecycle` under the mapping of `MaintenanceRefinement`. `RowSteps` gives
  the edge each row takes, `ApprovalInv` the ticket of a commit, and no step
  commits twice, because an effect is counted by one thread on one row.
* `ScansNotForked`: `Spec => []ScanNotForked`. A job that handed its scan on is
  marked as continued, until retention drops the payload of the finished row with
  the mark in it; the invariant `Fork` says that the row is then done for good.
* `CursorsCover` and `PassesCover`: `CursorCovers` and `PassCovers`, both from
  `CoverInv`. What lies at or before a cursor, and is stored, was given to a
  planner: of the stored cursor, of every scan of a row or a worker, and of every
  plan under way together with its batch. Three facts make it last. A write gives
  its record a newer version, which lies ahead of every cursor; the versions that
  are stored are those of generations that have been; and a batch takes the next
  positions without a gap. The last needs a least position, hence that what is
  stored at a time is finite: this is a conjunct of the invariant, so records may
  be infinitely many.

`EffectOnce`, `LeaseRespected`, `ApprovalHonoured` and the refinement rest on one
lemma, `RowSteps`: whatever step is taken, a row is kept, inserted, swept, claimed
with a fresh token, given up by the worker that holds its lease, reopened by an
operator, reviewed, or acknowledged by a thread that holds its lease, and only the
last counts an effect. `EffectOnce` is then inductive with `TypeInv`.
`ApprovalHonoured` needs `ApprovalInv`: while a row is leased to an attempt it
still has the result the attempt was claimed with, and while it is leased to a
thread's attempt, an approval the thread relies on is the row's. That holds
because a row leased after a step to a token some attempt held before it was
leased to it before the step (`LeaseKept`): new claims take fresh tokens.

About `TaskRuntime`, for every number of calls, gaps, memories, events and
writes, from the assumptions that `Absent` is no attribute and `NoReceipt` no
receipt:

* `TaskTypeCorrect`: `Spec => []TypeOK`, inductive as it stands.
* `StartsAgree`, `SuccessKept`: `TaskAgreed` and `SuccessAnswered` are inductive
  with the type invariant; the second rests on `GapSteps`: no step touches a
  gap's status once the task has an outcome.
* `EventsOnce`, `ArchivalSettled`: from `EventInv`, which adds that an event
  without a row has no job. An event is captured only while its task is open, and
  archived only when it is not.
* `AnswersGrounded`: no invariant is needed, the transaction checks its evidence.
* `GuardsSound`: needs `GuardInv`. The receipt carries the generation its holder
  has read, no preparation is ahead of the store, and what was checked stands as
  long as the generation is the one that was read, because every write of a
  memory moves it.

About `AgentRuns`, for every set of calls (pairs of an adapter and a task), every
number of permits and every limit, from `AgentBounds` and `CallsArePairs`:

* `AgentInv` is the inductive invariant of the leases and the evidence. Runs are
  numbered in the order they are admitted, and a lease row carries the number of
  its run (`Numbered`, `ClaimsFresh`); a live row belongs to a run under way or to
  a thread that is about to write or release it (`RowsOwned`, `ReleasesPending`,
  `LeaseReturned`); what a run was shown and what its findings and its result
  cite is what it observed (`Shown`, `EvidenceHonest`, `Resulted`).
  `LeasesAreReturned` and `EvidenceIsHonest` state the two properties in it. Most
  steps are tame: they neither make a row nor end a run, and one lemma per
  conjunct serves them all. Admission, claim, the ways to end and the crash are
  proved each for itself.
* `LeasesExclude`: `Spec => ExclusionSpec`. The writer of a task in `TaskExclusion`
  is the run whose live row it has; `RowsOwned` and the numbering make it one.
* `SlotsAreBalanced`: `Spec => []SlotsBalanced`, from `SlotsInv`, in which the free
  permits of an adapter and the runs that hold one make up `MaxConcurrent`. The
  invariant says, too, that the runs admitted at a time are finitely many, as a
  sum of cardinalities means nothing without it.
* `AgentTypes`: `Spec => []TypeOK`, from the two invariants.

About `OwnerCache` and `SessionContext`, for every number of processes, memories,
contexts, commits and checkpoints, from `CacheBounds` and `SessionAssumption`:

* `CachesCoherent`, `GraphsCoherent`: from `CacheInv`. Every record carries the
  generation it last changed in, and none of an earlier generation has changed
  since; hence what a cache loads, the records newer than its own generation,
  is what has changed, and a cache that was the database at its generation is it
  at the new one (`SyncedReflects`, `HydratedReflects`, `FetchedReflects`). A
  graph is labelled with the generation of the cache it was made from, which is
  why a process that stores its own late, over a newer one, does no harm.
* `ActionsCurrent`: the context an action is validated against is resolved from
  headers and payloads of a cache, not from the database. `ResolvedIsContent`
  says that the result is nevertheless what the database said in the cache's
  generation. The receipt that is looked up belongs to the response.
* `ConversationsInformed`: the property speaks of what was committed; the
  invariant adds the same of the latest response once nothing of it is left to
  deliver, since the next commit makes it the committed one.
* `SessionTypeCorrect`: `Spec => []TypeOK`. That the payload cache stays within
  its limit includes that it is finite.

About `LegacySystem`, for every number of threads, users, traces, calls and
faults, every cap and limit, with or without short-term memory, from
`EngineConstants` (traces are finitely many and numbered from 1, keys and lengths
fit) and `LegacyConstants` (there is a user; every trace is posted under its own):

* The operations of the index preserve `Sound`, its type and `Exact`, whatever
  the traces are (`IngestedSound`, `MarkedSound`, `RemovedSound`). Each proof describes the result field by field, so the case
  that is easy to get wrong, a removal that moves another trace of the same keys,
  is a few lines about slots.
* `IndexExact` and `LegacyTypeCorrect`: `Spec => []PostingsExact` and
  `Spec => []TypeOK`, from `TypeInv`, which adds to the types that the index is
  sound, that threads carry what their next step uses (`Ready`), and that events
  are finitely many. The bound on the index in `TypeOK` follows: slots number
  the traces without repetition. `FiniteMax`, that a finite set of naturals has a
  maximum, comes from the well-foundedness of strict inclusion.
* `DurableBeforeFound`: `Spec => []DurableFirst`, from `DurableInv`: a uuid on its
  way is in one thread (`EarlyInv`); its embedding has the length that was asked
  for wherever it is, and is rejected under another one only (`LengthInv`); a row
  a hydration has read is of a known trace, or of one the index does not accept
  (`RowInv`). The last part is needed because a hydration may hold the row of a
  trace that is being taken back. It rests on the length of the index never
  changing while the process lives, although the index may become empty.

* `RemembersOrTakesBack`: `Spec => []RememberedOrTakenBack`, from `DurableInv` and
  `AnswerInv`. A uuid is remembered by one thread, which answers for it once
  (`OnceInv`); no short-term row and no event exists before the publication
  (`UntouchedInv`); from then on row and index entry are there until somebody
  asks to forget the trace (`HeldInv`); and a trace that was refused is nowhere,
  and stays refused to a hydration that still holds its row (`RejectedInv`).
* `ForgetsEverywhere`: `Spec => []ForgottenEverywhere`, from `ForgetInv`: nothing
  under way can bring the trace of a `forget()` that is alone back (`Out`), and
  the stores the call has been to are empty of it (`Emptied`).
* `EventsStayCapped`: `Spec => []EventsCapped`, from `CapInv`. Whenever a user has
  too many events, some thread covers the excess: it has yet to count, or has
  counted enough to delete, or has chosen enough. The thread that inserted last
  is one, and other threads' deletions only lower what remains.
* `AccessesAreCounted`: `Spec => []AccessesCounted`, from `CountInv`. A row counts
  no less than was returned of it, than a hydration has read of it, and than the
  index has of it less the recalls that have marked it and are still to write
  (`RowsInv`). Such a recall has marked all its candidates before it writes
  (`MarksInv`), and no recall has met a trace that has no row yet (`UnseenInv`).

Only model-checked. `JobsSettle` and `RunsEnd` are liveness under fairness, whose
proofs reason with ENABLED, which the prover does not support. `TriggerRetained`,
`ResumeAccepted` and `ReplayIdempotent` are what the code does not keep: TLC's
counterexamples are the result.

## 5. Not modelled, and the plan

Left to do: name the steps that several proofs about one component repeat, as the
lemmas of `AgentProofs` on tame steps do, and state the facts about plans,
batches and the index that a change of the code would need first as lemmas of
their own.

Not modelled: the archives of applied dreams and the reclaiming of pages in
`retention.py`; the status, history, audit and evaluation views, which only read;
the text of revisions; the resolution of preferences, metadata filters and the
rendering of a context, pure functions of one snapshot whose content is
formatting and float ranking; nearest-neighbour search, scores, embeddings and
model providers; schema migration and catalogs, which run once and alone; metrics,
MCP and tool registration, which keep no state.
