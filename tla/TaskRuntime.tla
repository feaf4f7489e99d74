---------------------------- MODULE TaskRuntime -----------------------------
(***************************************************************************)
(* One task of one owner: its start, its findings, the knowledge it        *)
(* declares to need, guarded preparation of its context, its completion    *)
(* and the archival of its events (runtime/core.py, runtime/knowledge.py,  *)
(* Queue.task and Queue.capture, receipts of memory/service.py,            *)
(* runtime/retention.py).                                                  *)
(*                                                                         *)
(* Every transaction is one action.  Calls that only answer (a replayed    *)
(* finding, a current answer), or only raise (an event or gap id reused    *)
(* with other content, a changed completion), leave the state as it is and *)
(* are not steps; nothing is said of what an event or a question contains. *)
(* Memories change under the task's feet: Revise and Retire stand for      *)
(* every write of memory/service.py.                                       *)
(***************************************************************************)
EXTENDS Naturals, FiniteSets

CONSTANTS
    Starts,        \* calls of begin_task
    Researches,    \* calls of require_knowledge
    Preparations,  \* sessions that prepare the task's context
    Attributes,    \* normalised values of a context attribute
    NoAttribute,
    Absent,        \* no such row
    FindingIds,    \* event ids of recorded findings
    Gaps,          \* ids of declared gaps
    Memories,      \* memories that can serve as evidence
    NoReceipt,
    MaxGeneration, \* bound on memory writes
    MaxEvents      \* bound on the events of the task

ASSUME TaskBounds == MaxGeneration \in Nat /\ MaxEvents \in Nat

ASSUME NotARow == Absent \notin Attributes \cup {NoAttribute}

ASSUME NotAReceipt == NoReceipt \notin [holder : Preparations, gen : Nat]

\* Event ids: "finding:"+id, "knowledge:"+gap+":"+count, "completion:0" and
\* "outcome".
FindingEvents == [kind : {"finding"}, key : FindingIds]
KnowledgeEvents == [kind : {"knowledge"}, key : Gaps, n : 0 .. MaxEvents]
CompletionEvents == [kind : {"completion", "outcome"}]
EventIds == FindingEvents \cup KnowledgeEvents \cup CompletionEvents

VARIABLES
    task,        \* the context column of the row of memory_tasks
    outcome,     \* its completion column
    events,      \* memory_events and memory_event_archives
    jobs,        \* the capture job of each event
    gaps,        \* memory_gaps
    mems,        \* memories_v1
    generation,  \* memory_owners.generation
    receipt,     \* the service's current receipt for this task
    starts,      \* local state of each begin_task
    researches,  \* local state of each require_knowledge
    preps,       \* local state of each preparation
    enqueued,    \* history: jobs enqueued for each event
    replies      \* history: events whose jobs complete_task answered with

vars == <<task, outcome, events, jobs, gaps, mems, generation, receipt,
          starts, researches, preps, enqueued, replies>>

\* What a transaction on the task's own tables leaves alone.
memoryVars == <<mems, generation, receipt>>
callVars == <<starts, researches, preps>>
eventVars == <<events, jobs, enqueued, replies>>

-----------------------------------------------------------------------------
Context == Attributes \cup {NoAttribute}

\* What a caller may give: nothing, or a value in normal form or not (a field
\* under its alias, an unsorted list of keywords).
Given == [value : Attributes, normal : BOOLEAN] \cup {NoAttribute}

\* Registry.normalize
Normalize(given) == IF given = NoAttribute THEN NoAttribute ELSE given.value

Evidence == [memory : Memories, rev : Nat]

\* A row of memory_gaps; `fresh` is the age test of is_fresh.
Gap == [status : {"undeclared", "pending", "unresolved", "resolved"},
        cites : SUBSET Evidence, fresh : BOOLEAN]

Start == [pc : {"idle", "resolving", "begun", "refused"}, given : Given,
          reply : Context \cup {Absent}]

Research == [pc : {"idle", "begun", "recalled"}, gap : Gaps \cup {Absent},
             cites : SUBSET Evidence]

\* `held`: the session holds a context under its newest receipt.
Preparation == [pc : {"idle", "prepared", "checked", "returned"},
                guard : BOOLEAN, held : BOOLEAN, gen : Nat,
                cites : SUBSET Evidence]

NoStart == [pc |-> "idle", given |-> NoAttribute, reply |-> Absent]
NoResearch == [pc |-> "idle", gap |-> Absent, cites |-> {}]
NoPreparation == [pc |-> "idle", guard |-> FALSE, held |-> FALSE, gen |-> 0,
                  cites |-> {}]

Unanswered(status) == [status |-> status, cites |-> {}, fresh |-> FALSE]

Init ==
    /\ task = Absent
    /\ outcome = "none"
    /\ events = [e \in EventIds |-> "absent"]
    /\ jobs = [e \in EventIds |-> "none"]
    /\ gaps = [g \in Gaps |-> Unanswered("undeclared")]
    /\ mems = [m \in Memories |-> [rev |-> 1, active |-> TRUE]]
    /\ generation = 0
    /\ receipt = NoReceipt
    /\ starts = [s \in Starts |-> NoStart]
    /\ researches = [r \in Researches |-> NoResearch]
    /\ preps = [p \in Preparations |-> NoPreparation]
    /\ enqueued = [e \in EventIds |-> 0]
    /\ replies = {}

-----------------------------------------------------------------------------
(***************************************************************************)
(* The memories                                                            *)
(***************************************************************************)

\* Some other call of the service writes a memory: a new revision, active or
\* not (superseded, retired, forgotten).
WriteMemory(m, active) ==
    /\ mems[m].active
    /\ generation < MaxGeneration
    /\ mems' = [mems EXCEPT ![m] = [rev |-> @.rev + 1, active |-> active]]
    /\ generation' = generation + 1
    /\ UNCHANGED <<task, outcome, gaps, receipt, eventVars, callVars>>

\* The stored memory is still the cited revision, and active.
Stands(c) == mems[c.memory].active /\ mems[c.memory].rev = c.rev

\* is_current
IsCurrent(gap) ==
    /\ gap.status = "resolved"
    /\ gap.fresh
    /\ \A c \in gap.cites : Stands(c)

\* The evidence of an answer passes its age limit.
Age(g) ==
    /\ gaps[g].fresh
    /\ gaps' = [gaps EXCEPT ![g].fresh = FALSE]
    /\ UNCHANGED <<task, outcome, memoryVars, eventVars, callVars>>

-----------------------------------------------------------------------------
(***************************************************************************)
(* begin_task                                                              *)
(***************************************************************************)

\* existing() compares what the caller gives, as it is given, with what is
\* stored; omitted values are accepted.
Fits(given, context) ==
    given # NoAttribute => given.normal /\ given.value = context

\* existing(): answer with the saved task, refuse changed inputs, or go on to
\* the resolvers.
Begin(s, given) ==
    /\ starts[s].pc = "idle"
    /\ starts' = [starts EXCEPT ![s] =
         [pc |-> IF task = Absent THEN "resolving"
                 ELSE IF Fits(given, task) THEN "begun" ELSE "refused",
          given |-> given,
          reply |-> IF Fits(given, task) THEN task ELSE Absent]]
    /\ UNCHANGED <<task, outcome, gaps, memoryVars, eventVars, researches,
                   preps>>

\* Mutant: what the caller gives is stored as it is.
ResolvedRaw(s, inferred) ==
    IF starts[s].given = NoAttribute THEN inferred ELSE starts[s].given

\* Explicit values override what the resolvers contribute.
Resolved(s, inferred) ==
    IF starts[s].given = NoAttribute THEN inferred
    ELSE Normalize(starts[s].given)

\* Mutant: save() answers with its own context without looking at the row.
SaveTaskUnchecked(s, inferred) ==
    /\ starts[s].pc = "resolving"
    /\ task' = IF task = Absent THEN Resolved(s, inferred) ELSE task
    /\ starts' = [starts EXCEPT ![s] =
                    [@ EXCEPT !.pc = "begun", !.reply = Resolved(s, inferred)]]
    /\ UNCHANGED <<outcome, gaps, memoryVars, eventVars, researches, preps>>

\* save() inserts the task unless another call was faster, and then must agree
\* with it.
SaveTask(s, inferred) ==
    LET context == Resolved(s, inferred) IN
    /\ starts[s].pc = "resolving"
    /\ \/ /\ task \in {Absent, context}
          /\ task' = context
          /\ starts' = [starts EXCEPT ![s] =
                          [@ EXCEPT !.pc = "begun", !.reply = context]]
       \/ /\ task \notin {Absent, context}
          /\ starts' = [starts EXCEPT ![s] = NoStart]
          /\ UNCHANGED task
    /\ UNCHANGED <<outcome, gaps, memoryVars, eventVars, researches, preps>>

-----------------------------------------------------------------------------
(***************************************************************************)
(* Events                                                                  *)
(***************************************************************************)

Live(e) == events[e] = "live"

\* Mutant: an archived event is revived, whatever the task says.
MayCaptureArchived(e) ==
    /\ task # Absent
    /\ events[e] = "archived" \/ (events[e] = "absent" /\ outcome = "none")

\* The checks of Queue.capture for an event that is not already there.
MayCapture(e) == task # Absent /\ events[e] = "absent" /\ outcome = "none"

\* Queue.capture of new events: each event and its job, in one transaction.
Capture(new) ==
    /\ \A e \in new : MayCapture(e)
    /\ events' = [e \in EventIds |-> IF e \in new THEN "live" ELSE events[e]]
    /\ jobs' = [e \in EventIds |-> IF e \in new THEN "open" ELSE jobs[e]]
    /\ enqueued' = [e \in EventIds |->
                      IF e \in new THEN enqueued[e] + 1 ELSE enqueued[e]]

\* record_finding with an event id not used before.
RecordFinding(e) ==
    /\ Capture({e})
    /\ UNCHANGED <<task, outcome, gaps, memoryVars, callVars, replies>>

\* A worker finishes the job of an event (module Maintenance).
JobDone(e) ==
    /\ jobs[e] = "open"
    /\ jobs' = [jobs EXCEPT ![e] = "done"]
    /\ UNCHANGED <<task, outcome, events, gaps, memoryVars, callVars, enqueued,
                   replies>>

\* Mutant: the query does not look at the other jobs of the task.
ArchivableAlone(e) == Live(e) /\ outcome # "none" /\ jobs[e] = "done"

\* The events retention may select: the task is complete, all its jobs are
\* done and none of its gaps is open.
Archivable(e) ==
    /\ Live(e)
    /\ outcome # "none"
    /\ \A f \in EventIds : jobs[f] \in {"none", "done"}
    /\ \A g \in Gaps : gaps[g].status \in {"undeclared", "resolved"}

\* retention.maintain moves a batch of old events to the archive.
ArchiveEvents(old) ==
    /\ old # {}
    /\ \A e \in old : Archivable(e)
    /\ events' = [e \in EventIds |->
                    IF e \in old THEN "archived" ELSE events[e]]
    /\ UNCHANGED <<task, outcome, jobs, gaps, memoryVars, callVars, enqueued,
                   replies>>

-----------------------------------------------------------------------------
(***************************************************************************)
(* complete_task                                                           *)
(***************************************************************************)

\* assert_gaps
GapsClosed ==
    \A g \in Gaps : gaps[g].status # "undeclared" => IsCurrent(gaps[g])

\* The events of a completion, with or without a finding.
EventsOf(finding) ==
    {e \in CompletionEvents : e.kind = "outcome" \/ finding}

\* A task with open gaps can only fail, or be cancelled.
MaySucceed(status) == status = "succeeded" => GapsClosed

Complete(status, finding) ==
    /\ outcome = "none"
    /\ MaySucceed(status)
    /\ Capture(EventsOf(finding))
    /\ outcome' = status
    /\ replies' = {EventsOf(finding)}
    /\ UNCHANGED <<task, gaps, memoryVars, callVars>>

\* The same completion again is answered from the rows that are still in
\* memory_events.
CompleteAgain ==
    /\ outcome # "none"
    /\ replies' = replies \cup {{e \in CompletionEvents : Live(e)}}
    /\ UNCHANGED <<task, outcome, events, jobs, gaps, memoryVars, callVars,
                   enqueued>>

-----------------------------------------------------------------------------
(***************************************************************************)
(* require_knowledge                                                       *)
(***************************************************************************)

\* begin(): declare the gap; a current answer ends the call.
DeclareGap(r, g) ==
    /\ researches[r].pc = "idle"
    /\ task # Absent
    /\ outcome = "none"
    /\ ~IsCurrent(gaps[g])
    /\ gaps' = IF gaps[g].status = "undeclared"
               THEN [gaps EXCEPT ![g] = Unanswered("pending")]
               ELSE gaps
    /\ researches' = [researches EXCEPT ![r] =
                        [pc |-> "begun", gap |-> g, cites |-> {}]]
    /\ UNCHANGED <<task, outcome, memoryVars, eventVars, starts, preps>>

\* Evidence for some memories, in their present revisions.
Citing(cited) == {[memory |-> m, rev |-> mems[m].rev] : m \in cited}

\* recall(): candidates are active memories; the evaluator will cite some of
\* them, or only evidence from outside that has no revision to check.
RecallEvidence(r, cited) ==
    /\ researches[r].pc = "begun"
    /\ \A m \in cited : mems[m].active
    /\ researches' = [researches EXCEPT ![r] =
                        [@ EXCEPT !.pc = "recalled", !.cites = Citing(cited)]]
    /\ UNCHANGED <<task, outcome, gaps, memoryVars, eventVars, starts, preps>>

EndResearch(r) == researches' = [researches EXCEPT ![r] = NoResearch]

\* Mutant: the evidence is not compared with the store again.
EvidenceStandsAlways(r) == TRUE

EvidenceStands(r) == \A c \in researches[r].cites : Stands(c)

\* The event id finish() forms from the number of the task's events.
KnowledgeEvent(g) ==
    [kind |-> "knowledge", key |-> g,
     n |-> Cardinality({e \in EventIds : Live(e)})]

\* Mutant: the outcome of the task is only looked at when research begins.
MayFinishAlways(r) == ~IsCurrent(gaps[researches[r].gap])

\* finish() goes on only for an open task and a gap nobody else has answered.
MayFinish(r) == outcome = "none" /\ ~IsCurrent(gaps[researches[r].gap])

\* finish() with an answer: the answer and the job that captures it commit
\* together.
Answer(r) ==
    LET g == researches[r].gap IN
    /\ researches[r].pc = "recalled"
    /\ MayFinish(r)
    /\ EvidenceStands(r)
    /\ KnowledgeEvent(g) \in EventIds       \* MaxEvents
    /\ Capture({KnowledgeEvent(g)})
    /\ gaps' = [gaps EXCEPT ![g] =
                  [status |-> "resolved", cites |-> researches[r].cites,
                   fresh |-> TRUE]]
    /\ EndResearch(r)
    /\ UNCHANGED <<task, outcome, memoryVars, starts, preps, replies>>

\* finish() without an answer: none was found, the user must be asked, or a
\* provider failed or timed out.
LeaveUnresolved(r) ==
    /\ researches[r].pc # "idle"
    /\ MayFinish(r)
    /\ gaps' = [gaps EXCEPT ![researches[r].gap] = Unanswered("unresolved")]
    /\ EndResearch(r)
    /\ UNCHANGED <<task, outcome, memoryVars, eventVars, starts, preps>>

\* The call ends without a trace: completed meanwhile, answered meanwhile,
\* evidence changed, or the caller is cancelled.
AbandonResearch(r) ==
    /\ researches[r].pc # "idle"
    /\ EndResearch(r)
    /\ UNCHANGED <<task, outcome, gaps, memoryVars, eventVars, starts, preps>>

-----------------------------------------------------------------------------
(***************************************************************************)
(* prepare_task                                                            *)
(***************************************************************************)

\* prepare_task_context: preferences and memories of the current generation,
\* under a new receipt that replaces the task's last one.
PrepareContext(p, guard) ==
    /\ preps[p].pc \in {"idle", "returned"}
    /\ task # Absent
    /\ preps' = [preps EXCEPT ![p] =
                   [pc |-> "prepared", guard |-> guard, held |-> FALSE,
                    gen |-> generation, cites |-> {}]]
    /\ receipt' = [holder |-> p, gen |-> generation]
    /\ UNCHANGED <<task, outcome, gaps, mems, generation, eventVars, starts,
                   researches>>

\* Mutant: a receipt is good whatever was written since.
ValidReceiptEver(p) == receipt = [holder |-> p, gen |-> preps[p].gen]

\* validate_context: the task's last receipt is p's, and nothing was written.
ValidReceipt(p) == receipt = [holder |-> p, gen |-> generation]

\* A session reuses the context it holds while it is valid.
ReuseContext(p, guard) ==
    /\ preps[p].pc \in {"idle", "returned"}
    /\ preps[p].held
    /\ ValidReceipt(p)
    /\ preps' = [preps EXCEPT ![p] =
                   [@ EXCEPT !.pc = "prepared", !.guard = guard]]
    /\ UNCHANGED <<task, outcome, gaps, memoryVars, eventVars, starts,
                   researches>>

\* The call raises; a context held from before stays.
Refuse(p) ==
    preps' = [preps EXCEPT ![p] = [@ EXCEPT !.pc = "idle", !.cites = {}]]

Return(p) ==
    preps' = [preps EXCEPT ![p] =
                [@ EXCEPT !.pc = "returned", !.held = TRUE, !.cites = {}]]

Declared == {g \in Gaps : gaps[g].status # "undeclared"}

Cited == UNION {gaps[g].cites : g \in Declared}

\* collect(): an unguarded call returns what there is.  A guarded one needs an
\* open task, answers that are current and preferences without conflict.
Collect(p) ==
    /\ preps[p].pc = "prepared"
    /\ \/ ~preps[p].guard /\ Return(p)
       \/ /\ preps[p].guard
          /\ outcome = "none"
          /\ GapsClosed
          /\ preps' = [preps EXCEPT ![p] =
                         [@ EXCEPT !.pc = "checked", !.cites = Cited]]
       \/ preps[p].guard /\ Refuse(p)
    /\ UNCHANGED <<task, outcome, gaps, memoryVars, eventVars, starts,
                   researches>>

\* The receipt is validated once more before a guarded call returns.
ReturnGuarded(p) ==
    /\ preps[p].pc = "checked"
    /\ IF ValidReceipt(p) THEN Return(p) ELSE Refuse(p)
    /\ UNCHANGED <<task, outcome, gaps, memoryVars, eventVars, starts,
                   researches>>

\* The service restarts, or keeps 1024 newer receipts.
LoseReceipt ==
    /\ receipt # NoReceipt
    /\ receipt' = NoReceipt
    /\ UNCHANGED <<task, outcome, gaps, mems, generation, eventVars, callVars>>

-----------------------------------------------------------------------------
Next ==
    \/ \E m \in Memories, active \in BOOLEAN : WriteMemory(m, active)
    \/ \E g \in Gaps : Age(g)
    \/ \E s \in Starts :
         \/ \E given \in Given : Begin(s, given)
         \/ \E inferred \in Context : SaveTask(s, inferred)
    \/ \E e \in FindingEvents : RecordFinding(e)
    \/ \E e \in EventIds : JobDone(e)
    \/ \E old \in SUBSET {e \in EventIds : Live(e)} : ArchiveEvents(old)
    \/ \E status \in {"succeeded", "failed"}, finding \in BOOLEAN :
         Complete(status, finding)
    \/ CompleteAgain
    \/ \E r \in Researches :
         \/ \E g \in Gaps : DeclareGap(r, g)
         \/ \E cited \in SUBSET Memories : RecallEvidence(r, cited)
         \/ Answer(r)
         \/ LeaveUnresolved(r)
         \/ AbandonResearch(r)
    \/ \E p \in Preparations :
         \/ \E guard \in BOOLEAN : PrepareContext(p, guard)
         \/ \E guard \in BOOLEAN : ReuseContext(p, guard)
         \/ Collect(p)
         \/ ReturnGuarded(p)
    \/ LoseReceipt

Spec == Init /\ [][Next]_vars

-----------------------------------------------------------------------------
(***************************************************************************)
(* Properties                                                              *)
(***************************************************************************)

\* Every column and local variable holds a value of its kind.
TypeOK ==
    /\ task \in Context \cup {Absent}
    /\ outcome \in {"none", "succeeded", "failed"}
    /\ events \in [EventIds -> {"absent", "live", "archived"}]
    /\ jobs \in [EventIds -> {"none", "open", "done"}]
    /\ gaps \in [Gaps -> Gap]
    /\ mems \in [Memories -> [rev : Nat, active : BOOLEAN]]
    /\ generation \in 0 .. MaxGeneration
    /\ receipt \in [holder : Preparations, gen : Nat] \cup {NoReceipt}
    /\ starts \in [Starts -> Start]
    /\ researches \in [Researches -> Research]
    /\ preps \in [Preparations -> Preparation]
    /\ enqueued \in [EventIds -> Nat]
    /\ replies \subseteq SUBSET CompletionEvents

\* All callers that have begun the task were answered with the context that is
\* stored, and it has the values they gave, although the resolvers of
\* concurrent calls may infer different ones (_begin, runtime/core.py:201-224).
TaskAgreed ==
    \A s \in Starts : starts[s].pc = "begun" =>
        /\ task # Absent
        /\ starts[s].reply = task
        /\ starts[s].given # NoAttribute => Normalize(starts[s].given) = task

\* "Resuming requires the same objective/project and compatible explicit
\* attributes" (docs/task-lifecycle.md:92): whoever gives the values the task
\* was stored with is not refused.
ResumeAccepted ==
    \A s \in Starts : starts[s].pc = "refused" =>
        Normalize(starts[s].given) # task

\* No event ever has two jobs: not by replay, not by research that finishes
\* late, not after its row was archived ("It never creates a new side effect
\* from that event ID", docs/indexed-memory.md:93).
EventOnce == \A e \in EventIds : enqueued[e] <= 1

\* A task that was completed as succeeded has an answer to every gap it ever
\* declared, and keeps it, although research may be under way when it is
\* completed (knowledge.py:182, core.py:261).
SuccessAnswered ==
    outcome = "succeeded" =>
        \A g \in Gaps : gaps[g].status \in {"undeclared", "resolved"}

\* Once an event is archived its task is complete, no job of the task is open
\* and none will be (retention.py:131-143).
ArchivedSettled ==
    (\E e \in EventIds : events[e] = "archived") =>
        outcome # "none" /\ \A e \in EventIds : jobs[e] # "open"

\* An answer is stored only while every memory it cites is active in the
\* revision that was cited, although it was recalled long before
\* (knowledge.py:192-215).
AnswerGrounded ==
    [][\A g \in Gaps :
         /\ gaps'[g].status = "resolved"
         /\ gaps[g].status # "resolved" \/ gaps[g].cites # gaps'[g].cites
         => \A c \in gaps'[g].cites : Stands(c)]_vars

\* When a guarded preparation returns, every memory cited by the answers it
\* has checked is still active in the cited revision: the receipt closes the
\* window between the check and the return (core.py:516-519).
GuardSound ==
    [][\A p \in Preparations :
         preps[p].pc = "checked" /\ preps'[p].pc = "returned" =>
           \A c \in preps[p].cites : Stands(c)]_vars

\* "Completion replay is idempotent when the same content is supplied"
\* (docs/task-lifecycle.md:101): every answer names the same jobs.
ReplayIdempotent == Cardinality(replies) <= 1

=============================================================================
