----------------------------- MODULE TaskProofs ------------------------------
(***************************************************************************)
(* What TaskRuntime guarantees for any number of calls, gaps, memories and *)
(* events.                                                                 *)
(***************************************************************************)
EXTENDS TaskRuntime, TLAPS

\* The initial state is well typed.
LEMMA TypeInit == Init => TypeOK
<1> SUFFICES ASSUME Init PROVE TypeOK
  OBVIOUS
<1>1. Unanswered("undeclared") \in Gap
  BY DEF Unanswered, Gap
<1>2. NoStart \in Start /\ NoResearch \in Research
  BY DEF NoStart, Start, Given, NoResearch, Research
<1>3. NoPreparation \in Preparation
  BY DEF NoPreparation, Preparation
<1>4. 0 \in 0 .. MaxGeneration
  BY TaskBounds
<1> QED
  BY <1>1, <1>2, <1>3, <1>4 DEF Init, TypeOK

\* The writes of memory/service.py and the passing of time keep types.
LEMMA TypeMemories ==
  ASSUME TypeOK,
         \/ \E m \in Memories, active \in BOOLEAN : WriteMemory(m, active)
         \/ \E g \in Gaps : Age(g)
         \/ LoseReceipt
  PROVE  TypeOK'
<1>1. ASSUME NEW m \in Memories, NEW active \in BOOLEAN, WriteMemory(m, active)
      PROVE  TypeOK'
  <2>1. mems' \in [Memories -> [rev : Nat, active : BOOLEAN]]
    BY <1>1 DEF WriteMemory, TypeOK
  <2>2. generation' \in 0 .. MaxGeneration
    BY <1>1, TaskBounds DEF WriteMemory, TypeOK
  <2> QED
    BY <1>1, <2>1, <2>2 DEF WriteMemory, TypeOK, eventVars, callVars
<1>2. ASSUME NEW g \in Gaps, Age(g)
      PROVE  TypeOK'
  <2>1. gaps' \in [Gaps -> Gap]
    BY <1>2 DEF Age, TypeOK, Gap
  <2> QED
    BY <1>2, <2>1 DEF Age, TypeOK, memoryVars, eventVars, callVars
<1>3. CASE LoseReceipt
  BY <1>3 DEF LoseReceipt, TypeOK, eventVars, callVars
<1> QED
  BY <1>1, <1>2, <1>3

\* begin_task keeps types: what it stores is normalised.
LEMMA TypeStarts ==
  ASSUME TypeOK, NEW s \in Starts,
         \/ \E given \in Given : Begin(s, given)
         \/ \E inferred \in Context : SaveTask(s, inferred)
  PROVE  TypeOK'
<1>1. ASSUME NEW given \in Given, Begin(s, given)
      PROVE  TypeOK'
  <2>1. starts' \in [Starts -> Start]
    BY <1>1 DEF Begin, TypeOK, Start
  <2> QED
    BY <1>1, <2>1 DEF Begin, TypeOK, memoryVars, eventVars
<1>2. ASSUME NEW inferred \in Context, SaveTask(s, inferred)
      PROVE  TypeOK'
  <2>1. Resolved(s, inferred) \in Context
    BY DEF Resolved, Normalize, Context, Given, TypeOK, Start
  <2>2. starts' \in [Starts -> Start]
    <3>1. CASE starts' = [starts EXCEPT ![s] =
                 [@ EXCEPT !.pc = "begun", !.reply = Resolved(s, inferred)]]
      BY <2>1, <3>1 DEF TypeOK, Start
    <3>2. CASE starts' = [starts EXCEPT ![s] = NoStart]
      BY <3>2 DEF TypeOK, Start, NoStart, Given
    <3> QED
      BY <1>2, <3>1, <3>2 DEF SaveTask
  <2>3. task' \in Context \cup {Absent}
    BY <1>2, <2>1 DEF SaveTask, TypeOK
  <2> QED
    BY <1>2, <2>2, <2>3 DEF SaveTask, TypeOK, memoryVars, eventVars
<1> QED
  BY <1>1, <1>2

\* Queue.capture keeps types.
LEMMA TypeCapture ==
  ASSUME TypeOK, NEW new, Capture(new)
  PROVE  /\ events' \in [EventIds -> {"absent", "live", "archived"}]
         /\ jobs' \in [EventIds -> {"none", "open", "done"}]
         /\ enqueued' \in [EventIds -> Nat]
<1>1. enqueued' \in [EventIds -> Nat]
  <2>1. ASSUME NEW e \in EventIds
        PROVE  (IF e \in new THEN enqueued[e] + 1 ELSE enqueued[e]) \in Nat
    BY DEF TypeOK
  <2> QED
    BY <2>1 DEF Capture
<1> QED
  BY <1>1 DEF Capture, TypeOK

\* Findings, jobs, archival and completion keep types.
LEMMA TypeEvents ==
  ASSUME TypeOK,
         \/ \E e \in FindingEvents : RecordFinding(e)
         \/ \E e \in EventIds : JobDone(e)
         \/ \E old \in SUBSET {e \in EventIds : Live(e)} : ArchiveEvents(old)
         \/ \E status \in {"succeeded", "failed"}, finding \in BOOLEAN :
              Complete(status, finding)
         \/ CompleteAgain
  PROVE  TypeOK'
<1>1. ASSUME NEW e \in FindingEvents, RecordFinding(e)
      PROVE  TypeOK'
  BY <1>1, TypeCapture DEF RecordFinding, TypeOK, memoryVars, callVars
<1>2. ASSUME NEW e \in EventIds, JobDone(e)
      PROVE  TypeOK'
  BY <1>2 DEF JobDone, TypeOK, memoryVars, callVars
<1>3. ASSUME NEW old \in SUBSET {e \in EventIds : Live(e)}, ArchiveEvents(old)
      PROVE  TypeOK'
  BY <1>3 DEF ArchiveEvents, TypeOK, memoryVars, callVars
<1>4. ASSUME NEW status \in {"succeeded", "failed"}, NEW finding \in BOOLEAN,
             Complete(status, finding)
      PROVE  TypeOK'
  <2>1. replies' \subseteq SUBSET CompletionEvents
    BY <1>4 DEF Complete, EventsOf
  <2>2. Capture(EventsOf(finding))
    BY <1>4 DEF Complete
  <2> QED
    BY <1>4, <2>1, <2>2, TypeCapture DEF Complete, TypeOK, memoryVars, callVars
<1>5. CASE CompleteAgain
  BY <1>5 DEF CompleteAgain, TypeOK, memoryVars, callVars
<1> QED
  BY <1>1, <1>2, <1>3, <1>4, <1>5

\* require_knowledge keeps types.
LEMMA TypeResearch ==
  ASSUME TypeOK, NEW r \in Researches,
         \/ \E g \in Gaps : DeclareGap(r, g)
         \/ \E cited \in SUBSET Memories : RecallEvidence(r, cited)
         \/ Answer(r)
         \/ LeaveUnresolved(r)
         \/ AbandonResearch(r)
  PROVE  TypeOK'
<1>1. EndResearch(r) => researches' \in [Researches -> Research]
  BY DEF EndResearch, TypeOK, Research, NoResearch
<1>2. researches[r].cites \in SUBSET Evidence
  BY DEF TypeOK, Research
<1>3. \A status \in {"pending", "unresolved"} : Unanswered(status) \in Gap
  BY DEF Unanswered, Gap
<1>4. ASSUME NEW g \in Gaps, DeclareGap(r, g)
      PROVE  TypeOK'
  <2>1. researches' \in [Researches -> Research]
    BY <1>4 DEF DeclareGap, TypeOK, Research
  <2>2. gaps' \in [Gaps -> Gap]
    BY <1>3, <1>4 DEF DeclareGap, TypeOK
  <2> QED
    BY <1>4, <2>1, <2>2 DEF DeclareGap, TypeOK, memoryVars, eventVars
<1>5. ASSUME NEW cited \in SUBSET Memories, RecallEvidence(r, cited)
      PROVE  TypeOK'
  <2>1. Citing(cited) \in SUBSET Evidence
    <3>1. ASSUME NEW m \in cited
          PROVE  [memory |-> m, rev |-> mems[m].rev] \in Evidence
      BY DEF Evidence, TypeOK
    <3> QED
      BY <3>1 DEF Citing
  <2>2. researches' \in [Researches -> Research]
    BY <1>5, <2>1 DEF RecallEvidence, TypeOK, Research
  <2> QED
    BY <1>5, <2>2 DEF RecallEvidence, TypeOK, memoryVars, eventVars
<1>6. CASE Answer(r)
  <2>1. [status |-> "resolved", cites |-> researches[r].cites, fresh |-> TRUE]
          \in Gap
    BY <1>2 DEF Gap
  <2>2. gaps' \in [Gaps -> Gap]
    BY <1>6, <2>1 DEF Answer, TypeOK
  <2>3. Capture({KnowledgeEvent(researches[r].gap)}) /\ EndResearch(r)
    BY <1>6 DEF Answer
  <2> QED
    BY <1>1, <1>6, <2>2, <2>3, TypeCapture DEF Answer, TypeOK, memoryVars
<1>7. CASE LeaveUnresolved(r)
  <2>1. gaps' \in [Gaps -> Gap]
    BY <1>3, <1>7 DEF LeaveUnresolved, TypeOK
  <2> QED
    BY <1>1, <1>7, <2>1 DEF LeaveUnresolved, TypeOK, memoryVars, eventVars
<1>8. CASE AbandonResearch(r)
  BY <1>1, <1>8 DEF AbandonResearch, TypeOK, memoryVars, eventVars
<1> QED
  BY <1>4, <1>5, <1>6, <1>7, <1>8

\* What the steps of a preparation do to its record keeps its type.
LEMMA PreparationUpdates ==
  ASSUME NEW x \in Preparation, NEW c \in SUBSET Evidence, NEW guard \in BOOLEAN
  PROVE  /\ [x EXCEPT !.pc = "idle", !.cites = {}] \in Preparation
         /\ [x EXCEPT !.pc = "returned", !.held = TRUE, !.cites = {}]
              \in Preparation
         /\ [x EXCEPT !.pc = "checked", !.cites = c] \in Preparation
         /\ [x EXCEPT !.pc = "prepared", !.guard = guard] \in Preparation
<1>1. [x EXCEPT !.pc = "idle", !.cites = {}] \in Preparation
  BY DEF Preparation
<1>2. [x EXCEPT !.pc = "returned", !.held = TRUE, !.cites = {}] \in Preparation
  BY DEF Preparation
<1>3. [x EXCEPT !.pc = "checked", !.cites = c] \in Preparation
  BY DEF Preparation
<1>4. [x EXCEPT !.pc = "prepared", !.guard = guard] \in Preparation
  BY DEF Preparation
<1> QED
  BY <1>1, <1>2, <1>3, <1>4

\* prepare_task keeps types.
LEMMA TypePreparation ==
  ASSUME TypeOK, NEW p \in Preparations,
         \/ \E guard \in BOOLEAN : PrepareContext(p, guard)
         \/ \E guard \in BOOLEAN : ReuseContext(p, guard)
         \/ Collect(p)
         \/ ReturnGuarded(p)
  PROVE  TypeOK'
<1>0. preps \in [Preparations -> Preparation] /\ preps[p] \in Preparation
  BY DEF TypeOK
<1>1. Refuse(p) => preps' \in [Preparations -> Preparation]
  BY <1>0, PreparationUpdates DEF Refuse
<1>2. Return(p) => preps' \in [Preparations -> Preparation]
  BY <1>0, PreparationUpdates DEF Return
<1>3. ASSUME NEW guard \in BOOLEAN, PrepareContext(p, guard)
      PROVE  TypeOK'
  <2>1. generation \in Nat
    BY TaskBounds DEF TypeOK
  <2>2. preps' \in [Preparations -> Preparation]
    BY <1>3, <2>1 DEF PrepareContext, TypeOK, Preparation
  <2>3. receipt' \in [holder : Preparations, gen : Nat]
    BY <1>3, <2>1 DEF PrepareContext
  <2> QED
    BY <1>3, <2>2, <2>3 DEF PrepareContext, TypeOK, eventVars
<1>4. ASSUME NEW guard \in BOOLEAN, ReuseContext(p, guard)
      PROVE  TypeOK'
  <2>1. preps' \in [Preparations -> Preparation]
    BY <1>0, <1>4, PreparationUpdates DEF ReuseContext
  <2> QED
    BY <1>4, <2>1 DEF ReuseContext, TypeOK, memoryVars, eventVars
<1>5. CASE Collect(p)
  <2>1. Cited \in SUBSET Evidence
    BY DEF Cited, Declared, TypeOK, Gap
  <2>2. [preps EXCEPT ![p] = [@ EXCEPT !.pc = "checked", !.cites = Cited]]
          \in [Preparations -> Preparation]
    BY <1>0, <2>1, PreparationUpdates
  <2>3. preps' \in [Preparations -> Preparation]
    BY <1>1, <1>2, <1>5, <2>2 DEF Collect
  <2> QED
    BY <1>5, <2>3 DEF Collect, TypeOK, memoryVars, eventVars
<1>6. CASE ReturnGuarded(p)
  BY <1>1, <1>2, <1>6 DEF ReturnGuarded, TypeOK, memoryVars, eventVars
<1> QED
  BY <1>3, <1>4, <1>5, <1>6

\* Every step of the task keeps types.
LEMMA TypeNext == TypeOK /\ [Next]_vars => TypeOK'
<1> SUFFICES ASSUME TypeOK, [Next]_vars PROVE TypeOK'
  OBVIOUS
<1>1. CASE Next
  BY <1>1, TypeMemories, TypeStarts, TypeEvents, TypeResearch, TypePreparation
     DEF Next
<1>2. CASE UNCHANGED vars
  BY <1>2 DEF vars, TypeOK
<1> QED
  BY <1>1, <1>2

\* Every column and local variable holds a value of its kind, whatever the
\* calls and however they interleave (core.py, knowledge.py).
THEOREM TaskTypeCorrect == Spec => []TypeOK
  BY TypeInit, TypeNext, PTL DEF Spec

-----------------------------------------------------------------------------
(***************************************************************************)
(* begin_task                                                              *)
(***************************************************************************)

\* Only begin_task touches what callers of begin_task are told.
LEMMA StartSteps ==
  ASSUME TypeOK, [Next]_vars
  PROVE  \/ UNCHANGED <<task, starts>>
         \/ \E s \in Starts :
              \/ \E given \in Given : Begin(s, given)
              \/ \E inferred \in Context : SaveTask(s, inferred)
<1>1. CASE Next
  BY <1>1 DEF Next, WriteMemory, Age, RecordFinding, JobDone, ArchiveEvents,
     Complete, CompleteAgain, DeclareGap, RecallEvidence, Answer,
     LeaveUnresolved, AbandonResearch, PrepareContext, ReuseContext, Collect,
     ReturnGuarded, LoseReceipt, callVars
<1>2. CASE UNCHANGED vars
  BY <1>2 DEF vars
<1> QED
  BY <1>1, <1>2

\* existing() answers with the row it has compared.
LEMMA BeginAgrees ==
  ASSUME TypeOK, TaskAgreed, NEW s \in Starts, NEW given \in Given,
         Begin(s, given)
  PROVE  TaskAgreed'
<1> SUFFICES ASSUME NEW u \in Starts, starts'[u].pc = "begun"
             PROVE  /\ task' # Absent
                    /\ starts'[u].reply = task'
                    /\ starts'[u].given # NoAttribute =>
                         Normalize(starts'[u].given) = task'
  BY DEF TaskAgreed
<1>1. task' = task
  BY DEF Begin
<1>2. CASE u # s
  <2>1. starts'[u] = starts[u]
    BY <1>2 DEF Begin, TypeOK
  <2> QED
    BY <1>1, <2>1 DEF TaskAgreed
<1>3. CASE u = s
  <2>1. starts'[u] = [pc |-> IF task = Absent THEN "resolving"
                             ELSE IF Fits(given, task) THEN "begun"
                                  ELSE "refused",
                      given |-> given,
                      reply |-> IF Fits(given, task) THEN task ELSE Absent]
    BY <1>3 DEF Begin, TypeOK
  <2>2. task # Absent /\ Fits(given, task)
    BY <2>1
  <2>3. starts'[u].reply = task /\ starts'[u].given = given
    BY <2>1, <2>2
  <2> QED
    BY <1>1, <2>2, <2>3 DEF Fits, Normalize
<1> QED
  BY <1>2, <1>3

\* save() answers with the row, whoever inserted it.
LEMMA SaveAgrees ==
  ASSUME TypeOK, TaskAgreed, NEW s \in Starts, NEW inferred \in Context,
         SaveTask(s, inferred)
  PROVE  TaskAgreed'
<1> DEFINE context == Resolved(s, inferred)
<1>1. context # Absent
  BY NotARow DEF Resolved, Normalize, Context, Given, TypeOK, Start
<1> SUFFICES ASSUME NEW u \in Starts, starts'[u].pc = "begun"
             PROVE  /\ task' # Absent
                    /\ starts'[u].reply = task'
                    /\ starts'[u].given # NoAttribute =>
                         Normalize(starts'[u].given) = task'
  BY DEF TaskAgreed
<1>2. CASE u # s
  <2>1. starts'[u] = starts[u]
    BY <1>2 DEF SaveTask, TypeOK
  <2>2. task # Absent
    BY <2>1 DEF TaskAgreed
  <2>3. task' = task
    BY <2>2 DEF SaveTask
  <2> QED
    BY <2>1, <2>3 DEF TaskAgreed
<1>3. CASE u = s
  <2>1. starts[s] \in Start
    BY DEF TypeOK
  <2>2. CASE starts' = [starts EXCEPT ![s] = NoStart]
    BY <1>3, <2>2 DEF NoStart, TypeOK
  <2>3. CASE /\ task' = context
             /\ starts' = [starts EXCEPT ![s] =
                             [@ EXCEPT !.pc = "begun", !.reply = context]]
    <3>1. starts'[u] = [starts[s] EXCEPT !.pc = "begun", !.reply = context]
      BY <1>3, <2>3 DEF TypeOK
    <3>2. starts'[u].reply = context /\ starts'[u].given = starts[s].given
      BY <2>1, <3>1 DEF Start
    <3> QED
      BY <1>1, <2>3, <3>2 DEF Resolved
  <2> QED
    BY <2>2, <2>3 DEF SaveTask
<1> QED
  BY <1>2, <1>3

\* All callers of begin_task agree on the stored context, for any number of
\* concurrent calls and whatever their resolvers infer (_begin, core.py:138).
THEOREM StartsAgree == Spec => []TaskAgreed
<1>1. Init => TaskAgreed
  BY DEF Init, TaskAgreed, NoStart
<1>2. TypeOK /\ TaskAgreed /\ [Next]_vars => TaskAgreed'
  <2> SUFFICES ASSUME TypeOK, TaskAgreed, [Next]_vars PROVE TaskAgreed'
    OBVIOUS
  <2>1. CASE UNCHANGED <<task, starts>>
    BY <2>1 DEF TaskAgreed
  <2> QED
    BY <2>1, StartSteps, BeginAgrees, SaveAgrees
<1> QED
  BY <1>1, <1>2, TaskTypeCorrect, PTL DEF Spec

-----------------------------------------------------------------------------
(***************************************************************************)
(* Events, completion and gaps                                             *)
(***************************************************************************)

\* An event that was never captured has no job.
EventInv ==
    /\ \A e \in EventIds : enqueued[e] <= 1
    /\ \A e \in EventIds : events[e] = "absent" => enqueued[e] = 0
    /\ ArchivedSettled

\* What a step may do to the events, their jobs and the outcome of the task.
LEMMA EventSteps ==
  ASSUME TypeOK, [Next]_vars
  PROVE  \/ UNCHANGED <<events, jobs, enqueued, outcome>>
         \/ \E new : new # {} /\ Capture(new)
         \/ \E e \in EventIds : JobDone(e)
         \/ \E old : ArchiveEvents(old)
<1>1. CASE Next
  <2>1. ASSUME NEW e \in FindingEvents, RecordFinding(e)
        PROVE  Capture({e})
    BY <2>1 DEF RecordFinding
  <2>2. ASSUME NEW status, NEW finding, Complete(status, finding)
        PROVE  EventsOf(finding) # {} /\ Capture(EventsOf(finding))
    <3>1. [kind |-> "outcome"] \in EventsOf(finding)
      BY DEF EventsOf, CompletionEvents
    <3> QED
      BY <2>2, <3>1 DEF Complete
  <2>3. ASSUME NEW r \in Researches, Answer(r)
        PROVE  Capture({KnowledgeEvent(researches[r].gap)})
    BY <2>3 DEF Answer
  <2> QED
    BY <1>1, <2>1, <2>2, <2>3
       DEF Next, WriteMemory, Age, Begin, SaveTask, CompleteAgain, DeclareGap,
       RecallEvidence, LeaveUnresolved, AbandonResearch, PrepareContext,
       ReuseContext, Collect, ReturnGuarded, LoseReceipt, eventVars
<1>2. CASE UNCHANGED vars
  BY <1>2 DEF vars
<1> QED
  BY <1>1, <1>2

\* The events of the task keep their invariant.
LEMMA EventNext == TypeOK /\ EventInv /\ [Next]_vars => EventInv'
<1> SUFFICES ASSUME TypeOK, EventInv, [Next]_vars PROVE EventInv'
  OBVIOUS
<1>1. CASE UNCHANGED <<events, jobs, enqueued, outcome>>
  BY <1>1 DEF EventInv, ArchivedSettled
<1>2. ASSUME NEW new, new # {}, Capture(new)
      PROVE  EventInv'
  <2>1. outcome = "none" /\ \A e \in new : events[e] = "absent"
    BY <1>2 DEF Capture, MayCapture
  <2>2. \A e \in EventIds : events[e] # "archived"
    BY <2>1 DEF EventInv, ArchivedSettled
  <2>3. \A e \in EventIds : events'[e] # "archived"
    BY <1>2, <2>2 DEF Capture
  <2>4. ASSUME NEW e \in EventIds
        PROVE  /\ enqueued'[e] <= 1
               /\ events'[e] = "absent" => enqueued'[e] = 0
    <3>1. CASE e \in new
      BY <1>2, <2>1, <3>1 DEF Capture, EventInv
    <3>2. CASE e \notin new
      BY <1>2, <3>2 DEF Capture, EventInv
    <3> QED
      BY <3>1, <3>2
  <2> QED
    BY <2>3, <2>4 DEF EventInv, ArchivedSettled
<1>3. ASSUME NEW e \in EventIds, JobDone(e)
      PROVE  EventInv'
  <2>1. UNCHANGED <<events, enqueued, outcome>>
    BY <1>3 DEF JobDone
  <2>2. ASSUME NEW f \in EventIds, jobs'[f] = "open"
        PROVE  jobs[f] = "open"
    BY <1>3, <2>2 DEF JobDone, TypeOK
  <2> QED
    BY <2>1, <2>2 DEF EventInv, ArchivedSettled
<1>4. ASSUME NEW old, ArchiveEvents(old)
      PROVE  EventInv'
  <2>1. UNCHANGED <<jobs, enqueued, outcome>>
    BY <1>4 DEF ArchiveEvents
  <2>2. outcome # "none" /\ \A f \in EventIds : jobs[f] # "open"
    BY <1>4 DEF ArchiveEvents, Archivable
  <2>3. \A e \in EventIds : events'[e] = "absent" => events[e] = "absent"
    BY <1>4 DEF ArchiveEvents
  <2> QED
    BY <2>1, <2>2, <2>3 DEF EventInv, ArchivedSettled
<1> QED
  BY <1>1, <1>2, <1>3, <1>4, EventSteps

\* The invariant of the events holds throughout.
LEMMA EventsInvariant == Spec => []EventInv
<1>1. Init => EventInv
  BY DEF Init, EventInv, ArchivedSettled
<1> QED
  BY <1>1, EventNext, TaskTypeCorrect, PTL DEF Spec

\* No event of the task ever gets a second job, for any number of findings,
\* gaps, replays and archivals (Queue.capture, queue.py:109).
THEOREM EventsOnce == Spec => []EventOnce
<1>1. EventInv => EventOnce
  BY DEF EventInv, EventOnce
<1> QED
  BY <1>1, EventsInvariant, PTL

\* After the first archival no job of the task is open, now or later
\* (retention.py:131).
THEOREM ArchivalSettled == Spec => []ArchivedSettled
<1>1. EventInv => ArchivedSettled
  BY DEF EventInv
<1> QED
  BY <1>1, EventsInvariant, PTL

\* A step that changes the gaps leaves the task open or their statuses alone;
\* a step that completes the task leaves them alone and has looked at them.
LEMMA GapSteps ==
  ASSUME TypeOK, [Next]_vars
  PROVE  \/ outcome' = outcome /\ \A g \in Gaps : gaps'[g].status = gaps[g].status
         \/ outcome' = "none"
         \/ gaps' = gaps /\ (outcome' = "succeeded" => GapsClosed)
<1>1. CASE Next
  <2>1. ASSUME NEW g \in Gaps, Age(g)
        PROVE  /\ outcome' = outcome
               /\ \A h \in Gaps : gaps'[h].status = gaps[h].status
    BY <2>1 DEF Age, TypeOK, Gap
  <2>2. ASSUME NEW status, NEW finding, Complete(status, finding)
        PROVE  gaps' = gaps /\ (outcome' = "succeeded" => GapsClosed)
    BY <2>2 DEF Complete, MaySucceed
  <2>3. ASSUME NEW r \in Researches,
               \/ \E g \in Gaps : DeclareGap(r, g)
               \/ Answer(r)
               \/ LeaveUnresolved(r)
        PROVE  outcome' = "none"
    BY <2>3 DEF DeclareGap, Answer, LeaveUnresolved, MayFinish
  <2> QED
    BY <1>1, <2>1, <2>2, <2>3
       DEF Next, WriteMemory, Begin, SaveTask, RecordFinding, JobDone,
       ArchiveEvents, CompleteAgain, RecallEvidence, AbandonResearch,
       PrepareContext, ReuseContext, Collect, ReturnGuarded, LoseReceipt
<1>2. CASE UNCHANGED vars
  BY <1>2 DEF vars
<1> QED
  BY <1>1, <1>2

\* A task that has succeeded never has an open gap, whatever research was
\* under way when it was completed (core.py:261, knowledge.py:182).
THEOREM SuccessKept == Spec => []SuccessAnswered
<1>1. Init => SuccessAnswered
  BY DEF Init, SuccessAnswered
<1>2. TypeOK /\ SuccessAnswered /\ [Next]_vars => SuccessAnswered'
  <2> SUFFICES ASSUME TypeOK, SuccessAnswered, [Next]_vars,
                      outcome' = "succeeded", NEW g \in Gaps
               PROVE  gaps'[g].status \in {"undeclared", "resolved"}
    BY DEF SuccessAnswered
  <2>1. CASE outcome' = outcome
             /\ \A h \in Gaps : gaps'[h].status = gaps[h].status
    BY <2>1 DEF SuccessAnswered
  <2>2. CASE gaps' = gaps /\ GapsClosed
    BY <2>2 DEF GapsClosed, IsCurrent
  <2> QED
    BY <2>1, <2>2, GapSteps
<1> QED
  BY <1>1, <1>2, TaskTypeCorrect, PTL DEF Spec

\* An answer is stored only on evidence that stands in the same transaction,
\* for any number of researchers and writes in between (knowledge.py:192).
THEOREM AnswersGrounded == Spec => AnswerGrounded
<1> DEFINE Grounded ==
      \A g \in Gaps :
         /\ gaps'[g].status = "resolved"
         /\ gaps[g].status # "resolved" \/ gaps[g].cites # gaps'[g].cites
         => \A c \in gaps'[g].cites : Stands(c)
<1>1. TypeOK /\ [Next]_vars => Grounded
  <2> SUFFICES ASSUME TypeOK, [Next]_vars, NEW g \in Gaps,
                      gaps'[g].status = "resolved",
                      \/ gaps[g].status # "resolved"
                      \/ gaps[g].cites # gaps'[g].cites
               PROVE  \A c \in gaps'[g].cites : Stands(c)
    OBVIOUS
  <2>1. gaps' # gaps
    OBVIOUS
  <2>2. Next
    BY <2>1 DEF vars
  <2>3. ASSUME NEW h \in Gaps, Age(h)
        PROVE  FALSE
    BY <2>3 DEF Age, TypeOK, Gap
  <2>4. ASSUME NEW r \in Researches, NEW h \in Gaps, DeclareGap(r, h)
        PROVE  FALSE
    BY <2>4 DEF DeclareGap, Unanswered, TypeOK, Gap
  <2>5. ASSUME NEW r \in Researches, LeaveUnresolved(r)
        PROVE  FALSE
    BY <2>5 DEF LeaveUnresolved, Unanswered, TypeOK, Gap
  <2>6. ASSUME NEW r \in Researches, Answer(r)
        PROVE  \A c \in gaps'[g].cites : Stands(c)
    <3>1. gaps'[g].cites = researches[r].cites
      BY <2>6 DEF Answer, TypeOK, Gap
    <3> QED
      BY <2>6, <3>1 DEF Answer, EvidenceStands
  <2> QED
    BY <2>1, <2>2, <2>3, <2>4, <2>5, <2>6
       DEF Next, WriteMemory, Begin, SaveTask, RecordFinding, JobDone,
       ArchiveEvents, Complete, CompleteAgain, RecallEvidence,
       AbandonResearch, PrepareContext, ReuseContext, Collect, ReturnGuarded,
       LoseReceipt
<1> QED
  BY <1>1, TaskTypeCorrect, PTL DEF Spec, AnswerGrounded

-----------------------------------------------------------------------------
(***************************************************************************)
(* prepare_task                                                            *)
(***************************************************************************)

\* A receipt carries the generation its holder has read; what was checked
\* stands as long as that generation is the current one.
GuardInv ==
    /\ \A p \in Preparations : preps[p].gen <= generation
    /\ \A p \in Preparations, n \in Nat :
         receipt = [holder |-> p, gen |-> n] => n = preps[p].gen
    /\ \A p \in Preparations :
         preps[p].pc = "checked" /\ preps[p].gen = generation =>
           \A c \in preps[p].cites : Stands(c)

\* What a step may do to memories, receipt and preparations.
LEMMA GuardSteps ==
  ASSUME TypeOK, [Next]_vars
  PROVE  \/ UNCHANGED <<mems, generation, receipt, preps>>
         \/ \E m \in Memories, active \in BOOLEAN : WriteMemory(m, active)
         \/ LoseReceipt
         \/ \E p \in Preparations :
              \/ \E guard \in BOOLEAN : PrepareContext(p, guard)
              \/ \E guard \in BOOLEAN : ReuseContext(p, guard)
              \/ Collect(p)
              \/ ReturnGuarded(p)
<1>1. CASE Next
  BY <1>1 DEF Next, Age, Begin, SaveTask, RecordFinding, JobDone,
     ArchiveEvents, Complete, CompleteAgain, DeclareGap, RecallEvidence,
     Answer, LeaveUnresolved, AbandonResearch, memoryVars, callVars
<1>2. CASE UNCHANGED vars
  BY <1>2 DEF vars
<1> QED
  BY <1>1, <1>2

\* A step of one preparation that keeps its generation, and the store, keeps
\* the invariant if what it has checked stands.
LEMMA GuardUpdate ==
  ASSUME TypeOK, GuardInv, NEW p \in Preparations, NEW x,
         preps' = [preps EXCEPT ![p] = x],
         x.gen = preps[p].gen,
         x.pc = "checked" => \A c \in x.cites : Stands(c),
         UNCHANGED <<mems, generation, receipt>>
  PROVE  GuardInv'
<1>1. ASSUME NEW q \in Preparations
      PROVE  preps'[q].gen = preps[q].gen
  BY DEF TypeOK
<1>2. ASSUME NEW q \in Preparations, preps'[q].pc = "checked",
             preps'[q].gen = generation', NEW c \in preps'[q].cites
      PROVE  Stands(c)'
  <2>1. CASE q = p
    <3>1. preps'[q] = x
      BY <2>1 DEF TypeOK
    <3> QED
      BY <1>2, <3>1 DEF Stands
  <2>2. CASE q # p
    <3>1. preps'[q] = preps[q]
      BY <2>2 DEF TypeOK
    <3> QED
      BY <1>2, <3>1 DEF Stands, GuardInv
  <2> QED
    BY <2>1, <2>2
<1> QED
  BY <1>1, <1>2 DEF GuardInv

\* Every step keeps the invariant of the preparations.
LEMMA GuardNext == TypeOK /\ GuardInv /\ [Next]_vars => GuardInv'
<1> SUFFICES ASSUME TypeOK, GuardInv, [Next]_vars PROVE GuardInv'
  OBVIOUS
<1>1. CASE UNCHANGED <<mems, generation, receipt, preps>>
  BY <1>1 DEF GuardInv, Stands
<1>2. ASSUME NEW m \in Memories, NEW active \in BOOLEAN, WriteMemory(m, active)
      PROVE  GuardInv'
  <2>1. UNCHANGED <<receipt, preps>> /\ generation' = generation + 1
    BY <1>2 DEF WriteMemory, callVars
  <2>2. generation \in Nat
    BY TaskBounds DEF TypeOK
  <2>3. ASSUME NEW p \in Preparations
        PROVE  preps'[p].gen <= generation' /\ preps'[p].gen # generation'
    <3>1. preps[p].gen \in Nat /\ preps[p].gen <= generation
      BY DEF GuardInv, TypeOK, Preparation
    <3> QED
      BY <2>1, <2>2, <3>1
  <2> QED
    BY <2>1, <2>3 DEF GuardInv
<1>3. CASE LoseReceipt
  <2>1. \A p \in Preparations, n \in Nat : receipt' # [holder |-> p, gen |-> n]
    BY <1>3, NotAReceipt DEF LoseReceipt
  <2>2. UNCHANGED <<mems, generation, preps>>
    BY <1>3 DEF LoseReceipt, callVars
  <2> QED
    BY <2>1, <2>2 DEF GuardInv, Stands
<1>4. ASSUME NEW p \in Preparations, NEW guard \in BOOLEAN,
             PrepareContext(p, guard)
      PROVE  GuardInv'
  <2> DEFINE x == [pc |-> "prepared", guard |-> guard, held |-> FALSE,
                   gen |-> generation, cites |-> {}]
  <2>1. /\ preps' = [preps EXCEPT ![p] = x]
        /\ receipt' = [holder |-> p, gen |-> generation]
        /\ UNCHANGED <<mems, generation>>
    BY <1>4 DEF PrepareContext
  <2>2. preps'[p] = x /\ \A q \in Preparations \ {p} : preps'[q] = preps[q]
    BY <2>1 DEF TypeOK
  <2>3. generation \in Nat
    BY TaskBounds DEF TypeOK
  <2>4. x.pc = "prepared" /\ x.gen = generation
    OBVIOUS
  <2> HIDE DEF x
  <2>5. \A q \in Preparations : preps'[q].gen <= generation'
    BY <2>1, <2>2, <2>3, <2>4 DEF GuardInv
  <2>6. ASSUME NEW q \in Preparations, NEW n \in Nat,
               receipt' = [holder |-> q, gen |-> n]
        PROVE  n = preps'[q].gen
    <3>1. receipt'.holder = p /\ receipt'.gen = generation
      BY <2>1
    <3>2. receipt'.holder = q /\ receipt'.gen = n
      BY <2>6
    <3> QED
      BY <2>2, <2>4, <3>1, <3>2
  <2>7. ASSUME NEW q \in Preparations, preps'[q].pc = "checked",
               preps'[q].gen = generation', NEW c \in preps'[q].cites
        PROVE  Stands(c)'
    <3>1. q # p
      BY <2>2, <2>4, <2>7
    <3> QED
      BY <2>1, <2>2, <2>7, <3>1 DEF GuardInv, Stands
  <2> QED
    BY <2>5, <2>6, <2>7 DEF GuardInv
<1>5. ASSUME NEW p \in Preparations, NEW guard \in BOOLEAN,
             ReuseContext(p, guard)
      PROVE  GuardInv'
  <2> DEFINE x == [preps[p] EXCEPT !.pc = "prepared", !.guard = guard]
  <2>1. x.gen = preps[p].gen /\ x.pc = "prepared"
    BY DEF TypeOK, Preparation
  <2>2. preps' = [preps EXCEPT ![p] = x] /\ UNCHANGED <<mems, generation, receipt>>
    BY <1>5 DEF ReuseContext, memoryVars
  <2> HIDE DEF x
  <2> QED
    BY <2>1, <2>2, GuardUpdate
<1>6. ASSUME NEW p \in Preparations, Refuse(p) \/ Return(p),
             UNCHANGED <<mems, generation, receipt>>
      PROVE  GuardInv'
  <2>1. CASE Refuse(p)
    <3> DEFINE x == [preps[p] EXCEPT !.pc = "idle", !.cites = {}]
    <3>1. x.gen = preps[p].gen /\ x.pc = "idle"
      BY DEF TypeOK, Preparation
    <3>2. preps' = [preps EXCEPT ![p] = x]
      BY <2>1 DEF Refuse
    <3> HIDE DEF x
    <3> QED
      BY <1>6, <3>1, <3>2, GuardUpdate
  <2>2. CASE Return(p)
    <3> DEFINE x == [preps[p] EXCEPT !.pc = "returned", !.held = TRUE,
                                     !.cites = {}]
    <3>1. x.gen = preps[p].gen /\ x.pc = "returned"
      BY DEF TypeOK, Preparation
    <3>2. preps' = [preps EXCEPT ![p] = x]
      BY <2>2 DEF Return
    <3> HIDE DEF x
    <3> QED
      BY <1>6, <3>1, <3>2, GuardUpdate
  <2> QED
    BY <1>6, <2>1, <2>2
<1>7. ASSUME NEW p \in Preparations, Collect(p)
      PROVE  GuardInv'
  <2> DEFINE x == [preps[p] EXCEPT !.pc = "checked", !.cites = Cited]
  <2>1. UNCHANGED <<mems, generation, receipt>>
    BY <1>7 DEF Collect, memoryVars
  <2>2. CASE GapsClosed /\ preps' = [preps EXCEPT ![p] = x]
    <3>1. x.gen = preps[p].gen /\ x.cites = Cited
      BY DEF TypeOK, Preparation
    <3>2. \A c \in Cited : Stands(c)
      BY <2>2 DEF Cited, Declared, GapsClosed, IsCurrent
    <3>3. preps' = [preps EXCEPT ![p] = x]
      BY <2>2
    <3> HIDE DEF x
    <3> QED
      BY <2>1, <3>1, <3>2, <3>3, GuardUpdate
  <2> QED
    BY <1>6, <1>7, <2>1, <2>2 DEF Collect
<1>8. ASSUME NEW p \in Preparations, ReturnGuarded(p)
      PROVE  GuardInv'
  BY <1>6, <1>8 DEF ReturnGuarded, memoryVars
<1> QED
  BY <1>1, <1>2, <1>3, <1>4, <1>5, <1>7, <1>8, GuardSteps

\* Only ReturnGuarded ends a guarded preparation with success.
LEMMA ReturnSteps ==
  ASSUME TypeOK, [Next]_vars, NEW p \in Preparations,
         preps[p].pc = "checked", preps'[p].pc = "returned"
  PROVE  ValidReceipt(p)
<1>1. preps'[p] # preps[p]
  OBVIOUS
<1>2. ASSUME NEW q \in Preparations, NEW x, q # p,
             preps' = [preps EXCEPT ![q] = x]
      PROVE  FALSE
  BY <1>1, <1>2 DEF TypeOK
<1>3. PICK q \in Preparations :
        \/ \E guard \in BOOLEAN : PrepareContext(q, guard)
        \/ \E guard \in BOOLEAN : ReuseContext(q, guard)
        \/ Collect(q)
        \/ ReturnGuarded(q)
  BY <1>1, GuardSteps DEF WriteMemory, LoseReceipt, callVars
<1>4. q = p
  BY <1>2, <1>3 DEF PrepareContext, ReuseContext, Collect, ReturnGuarded,
     Refuse, Return
<1>5. ReturnGuarded(p)
  BY <1>3, <1>4 DEF PrepareContext, ReuseContext, Collect
<1>6. Refuse(p) => preps'[p].pc = "idle"
  BY DEF Refuse, TypeOK, Preparation
<1> QED
  BY <1>5, <1>6 DEF ReturnGuarded

\* A guarded preparation returns only while every memory it has checked is
\* active in the cited revision, for any number of sessions sharing the task
\* and any writes in between (_prepare_task, core.py:448).
THEOREM GuardsSound == Spec => GuardSound
<1> DEFINE Sound ==
      \A p \in Preparations :
         preps[p].pc = "checked" /\ preps'[p].pc = "returned" =>
           \A c \in preps[p].cites : Stands(c)
<1>1. Init => GuardInv
  <2> SUFFICES ASSUME Init PROVE GuardInv
    OBVIOUS
  <2>1. \A p \in Preparations, n \in Nat : receipt # [holder |-> p, gen |-> n]
    BY NotAReceipt DEF Init
  <2>2. \A p \in Preparations : preps[p].pc = "idle" /\ preps[p].gen = 0
    BY DEF Init, NoPreparation
  <2>3. generation = 0
    BY DEF Init
  <2> QED
    BY <2>1, <2>2, <2>3 DEF GuardInv
<1>2. TypeOK /\ GuardInv /\ [Next]_vars => Sound
  <2> SUFFICES ASSUME TypeOK, GuardInv, [Next]_vars, NEW p \in Preparations,
                      preps[p].pc = "checked", preps'[p].pc = "returned"
               PROVE  \A c \in preps[p].cites : Stands(c)
    OBVIOUS
  <2>1. receipt = [holder |-> p, gen |-> generation]
    BY ReturnSteps DEF ValidReceipt
  <2>2. generation \in Nat
    BY TaskBounds DEF TypeOK
  <2>3. preps[p].gen = generation
    BY <2>1, <2>2 DEF GuardInv
  <2> QED
    BY <2>3 DEF GuardInv
<1> QED
  BY <1>1, <1>2, GuardNext, TaskTypeCorrect, PTL DEF Spec, GuardSound

=============================================================================
