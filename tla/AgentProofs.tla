----------------------------- MODULE AgentProofs -----------------------------
(***************************************************************************)
(* Proofs about AgentRuns: runs and threads keep their types and numbers,  *)
(* leases exclude (AgentRuns implements TaskExclusion), permits balance,   *)
(* leases are returned, and what is recorded was shown.                    *)
(***************************************************************************)
EXTENDS AgentRuns, FiniteSetTheorems, SequenceTheorems, TLAPS

-----------------------------------------------------------------------------
(***************************************************************************)
(* Types                                                                   *)
(***************************************************************************)
\* The types of what runs and threads are made of, permits left out.
Typed ==
    /\ admitted \in 0 .. MaxRuns
    /\ runs \in [Calls -> Run]
    /\ closed \in [Adapters -> {"open", "closing", "closed"}]
    /\ threads \in SUBSET Thread
    /\ lease \in [Tasks -> [n : 0 .. MaxRuns, live : BOOLEAN]]
    /\ outcome \in [Tasks -> {"absent", "open", "succeeded", "failed"}]
    /\ recorded \in [Tasks -> SUBSET (RunNumbers \X
                          [kind : {"none", "succeeded", "failed"},
                           cites : SUBSET Evidence])]
    /\ granted \in [Tasks -> SUBSET RunNumbers]
    /\ observed \in [RunNumbers -> SUBSET Evidence]
    /\ lost \subseteq RunNumbers

\* Idle is a run, and so are the last steps of a run.
LEMMA RunTypes ==
    /\ Idle \in Run
    /\ \A run \in Run, pc \in RunStates : LastSteps(run, pc) \in Run
    /\ \A run \in Run, pc \in RunStates : [run EXCEPT !.pc = pc] \in Run
    /\ \A run \in Run, pc \in RunStates, result \in Result :
          [LastSteps(run, pc) EXCEPT !.result = result] \in Run
<1> DEFINE Table == BoundedSeq(Evidence, MaxEvidence)
<1>1. <<>> \in Table
  <2>1. 0 \in 0 .. MaxEvidence
    BY AgentBounds
  <2>2. <<>> \in [1 .. 0 -> Evidence]
    OBVIOUS
  <2> QED
    BY <2>1, <2>2 DEF BoundedSeq, SeqOf
<1>2. 0 \in 0 .. MaxRuns
  BY AgentBounds
<1>3. Run = [pc : RunStates, n : 0 .. MaxRuns, evidence : Table,
             failure : BOOLEAN, result : Result]
  BY DEF Run
<1> HIDE DEF Table
<1>4. NoResult \in Result
  BY DEF NoResult, Result
<1>5. Idle \in Run
  BY <1>1, <1>2, <1>3, <1>4 DEF Idle, RunStates
<1>6. \A run \in Run : run.n \in 0 .. MaxRuns
  BY <1>3
<1>7. ASSUME NEW run \in Run, NEW pc \in RunStates
      PROVE  LastSteps(run, pc) \in Run
  <2>1. [Idle EXCEPT !.pc = pc] \in Run
    BY <1>3, <1>5
  <2>2. [[Idle EXCEPT !.pc = pc] EXCEPT !.n = run.n] \in Run
    BY <1>3, <1>6, <2>1
  <2> QED
    BY <2>2 DEF LastSteps
<1>8. \A run \in Run, pc \in RunStates : [run EXCEPT !.pc = pc] \in Run
  BY <1>3
<1>9. \A run \in Run, pc \in RunStates, result \in Result :
          [LastSteps(run, pc) EXCEPT !.result = result] \in Run
  BY <1>3, <1>7
<1> QED
  BY <1>5, <1>7, <1>8, <1>9

\* A run's fields have their types.
LEMMA RunFields ==
    ASSUME NEW run \in Run
    PROVE  /\ run.pc \in RunStates
           /\ run.n \in 0 .. MaxRuns
           /\ run.evidence \in BoundedSeq(Evidence, MaxEvidence)
           /\ run.failure \in BOOLEAN
           /\ run.result \in Result
<1> DEFINE Table == BoundedSeq(Evidence, MaxEvidence)
<1>1. run \in [pc : RunStates, n : 0 .. MaxRuns, evidence : Table,
               failure : BOOLEAN, result : Result]
  BY DEF Run
<1> HIDE DEF Table
<1>2. run.evidence \in Table
  BY <1>1
<1> QED
  BY <1>1, <1>2 DEF Table

\* What LastSteps and Idle are, field by field.
LEMMA RunShapes ==
    /\ Idle.pc = "idle" /\ Idle.n = 0 /\ Idle.evidence = <<>>
    /\ Idle.failure = FALSE /\ Idle.result = NoResult
    /\ \A run, pc :
          /\ LastSteps(run, pc).pc = pc
          /\ LastSteps(run, pc).n = run.n
          /\ LastSteps(run, pc).evidence = <<>>
          /\ LastSteps(run, pc).result = NoResult
BY DEF LastSteps, Idle

\* A thread of an admitted run is a thread.
LEMMA ThreadTypes ==
    ASSUME Typed, NEW c \in Calls, runs[c].n # 0, NEW kind \in ThreadKinds
    PROVE  /\ ThreadOf(kind, c) \in Thread
           /\ ReleaseOf(c) \in Thread
           /\ ThreadOf(kind, c).kind = kind /\ ThreadOf(kind, c).call = c
           /\ ThreadOf(kind, c).n = runs[c].n
           /\ ThreadOf(kind, c).result = runs[c].result
           /\ ReleaseOf(c).kind = "release" /\ ReleaseOf(c).call = c
           /\ ReleaseOf(c).n = runs[c].n
           /\ ReleaseOf(c).result = NoResult
<1> DEFINE run == runs[c]
<1>1. run \in Run
  BY DEF Typed
<1>2. run.n \in RunNumbers /\ run.result \in Result
  BY <1>1, RunFields, AgentBounds DEF RunNumbers
<1>3. NoResult \in Result
  BY DEF NoResult, Result
<1>4. ThreadOf(kind, c) = [kind |-> kind, call |-> c, n |-> run.n,
                           result |-> run.result]
  BY DEF ThreadOf
<1>5. ReleaseOf(c) = [kind |-> "release", call |-> c, n |-> run.n,
                      result |-> NoResult]
  BY DEF ReleaseOf, ThreadOf
<1> HIDE DEF run
<1>6. ThreadOf(kind, c) \in Thread /\ ReleaseOf(c) \in Thread
  BY <1>2, <1>3, <1>4, <1>5 DEF Thread, ThreadKinds
<1> QED
  BY <1>4, <1>5, <1>6 DEF run

\* A thread's fields have their types.
LEMMA ThreadFields ==
    ASSUME NEW th \in Thread
    PROVE  /\ th.kind \in ThreadKinds
           /\ th.call \in Calls
           /\ th.n \in RunNumbers
           /\ th.result \in Result
BY DEF Thread

\* An adapter's and a task's names come from the calls.
LEMMA CallParts ==
    ASSUME NEW c \in Calls
    PROVE  Adapter(c) \in Adapters /\ Task(c) \in Tasks
BY DEF Adapter, Task, Adapters, Tasks

\* Everything of a table of evidence is in it, and a table is a sequence.
LEMMA TableFacts ==
    ASSUME NEW table \in BoundedSeq(Evidence, MaxEvidence)
    PROVE  /\ table \in Seq(Evidence)
           /\ Len(table) \in 0 .. MaxEvidence
           /\ DOMAIN table = 1 .. Len(table)
           /\ \A i \in 1 .. Len(table) : table[i] \in Evidence
<1>1. PICK m \in 0 .. MaxEvidence : table \in [1 .. m -> Evidence]
  BY DEF BoundedSeq, SeqOf
<1>2. m \in Nat
  BY AgentBounds
<1>3. table \in Seq(Evidence)
  BY <1>1, <1>2
<1>4. Len(table) = m
  BY <1>1, <1>2
<1> QED
  BY <1>1, <1>2, <1>3, <1>4

\* A short sequence of evidence is a table.
LEMMA SeqIsTable ==
    ASSUME NEW s \in Seq(Evidence), Len(s) <= MaxEvidence
    PROVE  s \in BoundedSeq(Evidence, MaxEvidence)
<1>1. Len(s) \in 0 .. MaxEvidence /\ s \in [1 .. Len(s) -> Evidence]
  BY LenProperties, AgentBounds
<1> QED
  BY <1>1 DEF BoundedSeq, SeqOf

\* Without keeps evidence of the table only, and leaves it no longer.
LEMMA WithoutFacts ==
    ASSUME NEW s \in Seq(Evidence), NEW id
    PROVE  /\ Without(s, id) \in Seq(Evidence)
           /\ Len(Without(s, id)) <= Len(s)
           /\ \A i \in 1 .. Len(Without(s, id)) :
                 \E j \in 1 .. Len(s) : Without(s, id)[i] = s[j]
<1> DEFINE places == {i \in DOMAIN s : s[i].id = id}
           k == CHOOSE i \in places : TRUE
           left == SubSeq(s, 1, k - 1)
           right == SubSeq(s, k + 1, Len(s))
<1>0. Len(s) \in Nat /\ DOMAIN s = 1 .. Len(s)
      /\ \A i \in 1 .. Len(s) : s[i] \in Evidence
  BY LenProperties
<1>1. CASE places = {}
  BY <1>0, <1>1 DEF Without
<1>2. CASE places # {}
  <2>1. k \in 1 .. Len(s)
    BY <1>0, <1>2
  <2>2. Without(s, id) = left \o right
    BY <1>2 DEF Without, RemoveAt
  <2> HIDE DEF k
  <2>3. /\ left \in Seq(Evidence) /\ Len(left) = k - 1
        /\ \A i \in 1 .. k - 1 : left[i] = s[i]
    <3>1. \A i \in 1 .. k - 1 : s[i] \in Evidence
      BY <1>0, <2>1
    <3>2. 1 \in Int /\ k - 1 \in Int
      BY <2>1
    <3>3. /\ left \in Seq(Evidence)
          /\ Len(left) = IF 1 <= k - 1 THEN k - 1 - 1 + 1 ELSE 0
          /\ \A i \in 1 .. k - 1 - 1 + 1 : left[i] = s[1 + i - 1]
      BY <3>1, <3>2, SubSeqProperties
    <3> HIDE DEF left
    <3> QED
      BY <3>3, <2>1, <1>0
  <2>4. /\ right \in Seq(Evidence) /\ Len(right) = Len(s) - k
        /\ \A i \in 1 .. Len(s) - k : right[i] = s[k + i]
    <3>1. \A i \in k + 1 .. Len(s) : s[i] \in Evidence
      BY <1>0, <2>1
    <3>2. k + 1 \in Int /\ Len(s) \in Int
      BY <2>1, <1>0
    <3>3. /\ right \in Seq(Evidence)
          /\ Len(right) = IF k + 1 <= Len(s) THEN Len(s) - (k + 1) + 1 ELSE 0
          /\ \A i \in 1 .. Len(s) - (k + 1) + 1 : right[i] = s[k + 1 + i - 1]
      BY <3>1, <3>2, SubSeqProperties
    <3> HIDE DEF right
    <3>4. Len(right) = Len(s) - k /\ Len(s) - (k + 1) + 1 = Len(s) - k
      <4> DEFINE m == Len(s)
      <4>1. m \in Nat /\ k \in Nat /\ 1 <= k /\ k <= m
        BY <2>1, <1>0
      <4>2. Len(right) = IF k + 1 <= m THEN m - (k + 1) + 1 ELSE 0
        BY <3>3
      <4> HIDE DEF m
      <4>3. m - (k + 1) + 1 = m - k
        BY <4>1
      <4>4. k + 1 <= m \/ m - k = 0
        BY <4>1
      <4> QED
        BY <4>2, <4>3, <4>4 DEF m
    <3>5. ASSUME NEW i \in 1 .. Len(s) - k
          PROVE  right[i] = s[k + i]
      <4>1. k + 1 + i - 1 = k + i
        BY <2>1
      <4> QED
        BY <3>3, <3>4, <4>1
    <3> QED
      BY <3>3, <3>4, <3>5
  <2> HIDE DEF left, right
  <2>5. /\ left \o right \in Seq(Evidence)
        /\ Len(left \o right) = Len(left) + Len(right)
        /\ \A i \in 1 .. Len(left) + Len(right) : (left \o right)[i] =
              IF i <= Len(left) THEN left[i] ELSE right[i - Len(left)]
    BY <2>3, <2>4, ConcatProperties
  <2>6. Len(left) + Len(right) = Len(s) - 1
    BY <2>3, <2>4, <2>1, <1>0
  <2>7. ASSUME NEW i \in 1 .. Len(s) - 1
        PROVE  \E j \in 1 .. Len(s) : (left \o right)[i] = s[j]
    <3>1. CASE i <= k - 1
      <4>1. (left \o right)[i] = s[i]
        BY <2>3, <2>5, <2>6, <3>1, <2>1, <1>0
      <4> QED
        BY <4>1, <1>0
    <3>2. CASE ~(i <= k - 1)
      <4>1. (left \o right)[i] = right[i - (k - 1)]
        BY <2>3, <2>5, <2>6, <3>2
      <4>2. i - (k - 1) \in 1 .. Len(s) - k
        BY <3>2, <2>1, <1>0
      <4>3. right[i - (k - 1)] = s[k + (i - (k - 1))]
        BY <4>2, <2>4
      <4>4. k + (i - (k - 1)) \in 1 .. Len(s)
        BY <3>2, <2>1, <1>0
      <4> QED
        BY <4>1, <4>3, <4>4
    <3> QED
      BY <3>1, <3>2
  <2>8. Len(left \o right) = Len(s) - 1
    BY <2>5, <2>6
  <2> HIDE DEF places
  <2> QED
    BY <2>2, <2>5, <2>7, <2>8, <1>0
<1> QED
  BY <1>1, <1>2

\* remember_evidence keeps the table within its bound, and it holds nothing
\* but what it held before and the new item.
LEMMA RememberedFacts ==
    ASSUME NEW table \in BoundedSeq(Evidence, MaxEvidence),
           NEW item \in Evidence
    PROVE  /\ Remembered(table, item) \in BoundedSeq(Evidence, MaxEvidence)
           /\ ToSet(Remembered(table, item)) \subseteq ToSet(table) \cup {item}
<1> DEFINE others == Without(table, item.id)
           all == Append(others, item)
<1>1. /\ table \in Seq(Evidence) /\ Len(table) \in 0 .. MaxEvidence
      /\ DOMAIN table = 1 .. Len(table)
  BY TableFacts
<1>2. /\ others \in Seq(Evidence) /\ Len(others) <= Len(table)
      /\ \A i \in 1 .. Len(others) : \E j \in 1 .. Len(table) :
            others[i] = table[j]
  BY <1>1, WithoutFacts
<1>3. Len(others) \in Nat
  BY <1>2, LenProperties
<1> HIDE DEF others
<1>4. /\ all \in Seq(Evidence) /\ all # <<>> /\ Len(all) = Len(others) + 1
      /\ \A i \in 1 .. Len(others) : all[i] = others[i]
      /\ all[Len(others) + 1] = item
  BY <1>2, AppendProperties
<1>5. \A i \in 1 .. Len(all) : all[i] \in ToSet(table) \cup {item}
  <2> SUFFICES ASSUME NEW i \in 1 .. Len(all)
               PROVE  all[i] \in ToSet(table) \cup {item}
    OBVIOUS
  <2>1. i \in 1 .. Len(others) \/ i = Len(others) + 1
    BY <1>3, <1>4
  <2>2. CASE i \in 1 .. Len(others)
    <3>1. PICK j \in 1 .. Len(table) : others[i] = table[j]
      BY <1>2, <2>2
    <3> QED
      BY <3>1, <1>1, <1>4, <2>2 DEF ToSet
  <2> QED
    BY <2>1, <2>2, <1>4
<1>6. Len(all) <= MaxEvidence + 1
  BY <1>1, <1>2, <1>3, <1>4, AgentBounds
<1>7. Remembered(table, item) =
         IF Len(all) > MaxEvidence THEN Tail(all) ELSE all
  BY DEF Remembered, others
<1>8. Len(all) \in Nat
  BY <1>3, <1>4
<1> HIDE DEF all
<1>9. CASE Len(all) > MaxEvidence
  <2>1. /\ Tail(all) \in Seq(Evidence) /\ Len(Tail(all)) = Len(all) - 1
        /\ \A i \in 1 .. Len(Tail(all)) : Tail(all)[i] = all[i + 1]
    BY <1>4, HeadTailProperties
  <2> DEFINE rest == Tail(all)
  <2>2. rest \in Seq(Evidence) /\ Len(rest) = Len(all) - 1
        /\ \A i \in 1 .. Len(rest) : rest[i] = all[i + 1]
    BY <2>1
  <2> HIDE DEF rest
  <2>3. DOMAIN rest = 1 .. Len(rest)
    BY <2>2, LenProperties
  <2>4. Len(rest) <= MaxEvidence
    BY <2>2, <1>6, <1>8, AgentBounds
  <2>5. rest \in BoundedSeq(Evidence, MaxEvidence)
    BY <2>2, <2>4, SeqIsTable
  <2>6. \A i \in 1 .. Len(rest) : i + 1 \in 1 .. Len(all)
    BY <2>2, <1>8
  <2>7. ToSet(rest) \subseteq ToSet(table) \cup {item}
    <3> SUFFICES ASSUME NEW i \in 1 .. Len(rest)
                 PROVE  rest[i] \in ToSet(table) \cup {item}
      BY <2>3 DEF ToSet
    <3> QED
      BY <2>2, <2>6, <1>5
  <2> QED
    BY <1>7, <1>9, <2>5, <2>7 DEF rest
<1>10. CASE ~(Len(all) > MaxEvidence)
  <2>1. Len(all) <= MaxEvidence
    BY <1>10, <1>8, AgentBounds
  <2>2. all \in BoundedSeq(Evidence, MaxEvidence)
    BY <1>4, <2>1, SeqIsTable
  <2>3. DOMAIN all = 1 .. Len(all)
    BY <1>4, LenProperties
  <2>4. ToSet(all) \subseteq ToSet(table) \cup {item}
    BY <2>3, <1>5 DEF ToSet
  <2> QED
    BY <1>7, <1>10, <2>2, <2>4
<1> QED
  BY <1>9, <1>10

-----------------------------------------------------------------------------
(***************************************************************************)
(* The invariant                                                           *)
(***************************************************************************)
\* A number belongs to one call: an idle call has none, no number is given
\* out twice, and the threads of a run are threads of its call.
Numbered ==
    /\ \A c \in Calls : /\ runs[c].n <= admitted
                        /\ runs[c].pc = "idle" <=> runs[c].n = 0
    /\ \A c, d \in Calls : runs[c].n = runs[d].n => c = d \/ runs[c].n = 0
    /\ \A th \in threads : th.n <= admitted
    /\ \A th \in threads, c \in Calls : th.n = runs[c].n => th.call = c
    /\ \A th, tk \in threads : th.n = tk.n => th.call = tk.call

\* A run has at most one thread that claims, and claims nothing before it.
ClaimsFresh ==
    /\ \A t \in Tasks : \A n \in granted[t] : n <= admitted
    /\ \A th \in threads : th.kind = "claim" =>
          \A t \in Tasks : th.n \notin granted[t]
    /\ \A th, tk \in threads :
          th.kind = "claim" /\ tk.kind = "claim" /\ th.n = tk.n => th = tk
    /\ \A c \in Calls : runs[c].pc = "waiting" =>
          /\ \A th \in threads : th.n # runs[c].n
          /\ \A t \in Tasks : runs[c].n \notin granted[t]

\* A row of memory_agent_leases names a run of its own task.
RowsOwned ==
    /\ \A t \in Tasks : /\ lease[t].n <= admitted
                        /\ lease[t].live => lease[t].n # 0
    /\ \A t \in Tasks : \A th \in threads :
          lease[t].n = th.n => Task(th.call) = t
    /\ \A t \in Tasks : \A c \in Calls :
          lease[t].n = runs[c].n => lease[t].n = 0 \/ Task(c) = t

\* A run that waits for its release has a thread that releases.
ReleasesPending ==
    \A c \in Calls : runs[c].pc = "releasing" =>
        \E th \in threads : th.kind = "release" /\ th.n = runs[c].n

\* What a run knows of: its table of evidence and what its result cites.
Seen(run) == ToSet(run.evidence) \cup run.result.cites

\* A run knows only what it was shown, and its threads cite nothing else.
Shown ==
    /\ \A c \in Calls : runs[c].n # 0 => Seen(runs[c]) \subseteq observed[runs[c].n]
    /\ \A th \in threads : th.result.cites \subseteq observed[th.n]

\* The run has its result, for complete_task.
Concluded(run) == run.pc \in {"guarding", "disconnecting", "completing"}

\* complete_task is called with an outcome.
Resulted ==
    /\ \A c \in Calls : Concluded(runs[c]) => runs[c].result.status # "none"
    /\ \A th \in threads : th.kind = "complete" => th.result.status # "none"

\* The inductive invariant of the leases and of the evidence.
AgentInv ==
    /\ Typed
    /\ Numbered
    /\ ClaimsFresh
    /\ RowsOwned
    /\ ReleasesPending
    /\ LeaseReturned
    /\ Shown
    /\ EvidenceHonest
    /\ Resulted

-----------------------------------------------------------------------------
(***************************************************************************)
(* Steps that leave most of it alone                                       *)
(***************************************************************************)
\* claim() has returned to the run, or is past.
Underway(run) == run.pc \notin {"idle", "waiting", "claiming"}

\* c goes on, knowing no more than it did or is shown now.
Continues(c) ==
    /\ runs'[c].n = runs[c].n
    /\ Underway(runs[c]) /\ Underway(runs'[c])
    /\ Seen(runs'[c]) \subseteq Seen(runs[c]) \cup observed'[runs[c].n]
    /\ Concluded(runs'[c]) => runs'[c].result.status # "none"

\* th is a thread a run under way has just dispatched.
Dispatched(th) ==
    /\ th.kind # "claim"
    /\ Underway(runs[th.call])
    /\ th.n = runs[th.call].n
    /\ th.result.cites \subseteq Seen(runs[th.call])
    /\ th.kind = "complete" => th.result.status # "none"

\* Runs go on or end; no run gets a number or claims.
Quiet ==
    /\ admitted' = admitted /\ granted' = granted
    /\ \A t \in Tasks : \/ lease'[t] = NoLease
                        \/ /\ lease'[t].n = lease[t].n
                           /\ lease'[t].live => lease[t].live
    /\ \A n \in RunNumbers : observed[n] \subseteq observed'[n]
    /\ \A c \in Calls :
          runs'[c] = Idle \/ runs'[c] = runs[c] \/ Continues(c)
    /\ \A th \in threads' : th \in threads \/ Dispatched(th)

\* ... none ends, no thread that releases is lost and every run that is to
\* wait for one gets it.
Tame ==
    /\ Quiet
    /\ slots' = slots /\ lost' = lost
    /\ \A t \in Tasks : lease'[t].n = lease[t].n
    /\ \A c \in Calls : runs'[c] = runs[c] \/ Continues(c)
    /\ \A th \in threads : th.kind = "release" => th \in threads'
    /\ \A c \in Calls : runs'[c].pc = "releasing" =>
          \/ runs'[c] = runs[c]
          \/ \E th \in threads' : th.kind = "release" /\ th.n = runs[c].n

\* Whoever is not idle has a number of a run.
LEMMA UnderwayNumbered ==
    ASSUME Typed, Numbered, NEW c \in Calls, runs[c].pc # "idle"
    PROVE  runs[c].n # 0 /\ runs[c].n \in RunNumbers /\ runs[c] \in Run
<1>1. runs[c].n # 0
  BY DEF Numbered
<1>2. runs[c] \in Run
  BY DEF Typed
<1>3. runs[c].n \in 0 .. MaxRuns
  BY <1>2, RunFields
<1> QED
  BY <1>1, <1>2, <1>3, AgentBounds DEF RunNumbers

\* NoLease is the row of nobody.
LEMMA NoLeaseFields == NoLease.n = 0 /\ NoLease.live = FALSE
BY DEF NoLease

\* A quiet step gives no number to two calls.
LEMMA QuietNumbered ==
    ASSUME Typed, Typed', Numbered, Quiet
    PROVE  Numbered'
<1>0. /\ admitted' = admitted /\ admitted \in Nat
      /\ \A c \in Calls : runs[c].n \in Nat
      /\ \A th \in threads' : th.call \in Calls /\ th.n \in RunNumbers
      /\ \A n \in RunNumbers : n # 0
  <2>1. \A c \in Calls : runs[c] \in Run
    BY DEF Typed
  <2>2. \A c \in Calls : runs[c].n \in 0 .. MaxRuns
    BY <2>1, RunFields
  <2>3. threads' \subseteq Thread
    BY DEF Typed
  <2>4. \A th \in threads' : th.call \in Calls /\ th.n \in RunNumbers
    BY <2>3, ThreadFields
  <2> QED
    BY <2>2, <2>4, AgentBounds DEF Quiet, Typed, RunNumbers
<1>1. \A c \in Calls :
         \/ runs'[c].n = 0 /\ runs'[c].pc = "idle"
         \/ /\ runs'[c].n = runs[c].n
            /\ runs'[c].pc = "idle" <=> runs[c].pc = "idle"
  BY RunShapes DEF Quiet, Continues, Underway
<1>2. \A th \in threads' : th \in threads \/ th.n = runs[th.call].n
  BY DEF Quiet, Dispatched
<1>3. /\ \A c \in Calls : /\ runs[c].n <= admitted
                          /\ runs[c].pc = "idle" <=> runs[c].n = 0
      /\ \A c, d \in Calls : runs[c].n = runs[d].n => c = d \/ runs[c].n = 0
      /\ \A th \in threads : th.n <= admitted
      /\ \A th \in threads, c \in Calls : th.n = runs[c].n => th.call = c
      /\ \A th, tk \in threads : th.n = tk.n => th.call = tk.call
  BY DEF Numbered
<1>4. \A c \in Calls : /\ runs'[c].n <= admitted
                       /\ runs'[c].pc = "idle" <=> runs'[c].n = 0
  BY <1>0, <1>1, <1>3
<1>5. \A c, d \in Calls : runs'[c].n = runs'[d].n => c = d \/ runs'[c].n = 0
  BY <1>1, <1>3
<1>6. \A th \in threads' : th.n <= admitted
  BY <1>0, <1>2, <1>3
<1>7. \A th \in threads', c \in Calls : th.n = runs'[c].n => th.call = c
  BY <1>0, <1>1, <1>2, <1>3
<1>8. \A th, tk \in threads' : th.n = tk.n => th.call = tk.call
  BY <1>0, <1>2, <1>3
<1> QED
  BY <1>0, <1>4, <1>5, <1>6, <1>7, <1>8 DEF Numbered

\* Nor does it let a run claim again.
LEMMA QuietClaimsFresh ==
    ASSUME Typed', Numbered, ClaimsFresh, Quiet
    PROVE  ClaimsFresh'
<1>1. \A c \in Calls : runs'[c].pc = "waiting" => runs'[c] = runs[c]
  BY RunShapes DEF Quiet, Continues, Underway
<1>2. \A th \in threads' : th \in threads \/ Dispatched(th)
  BY DEF Quiet
<1>3. \A th \in threads' : th.kind = "claim" => th \in threads
  BY <1>2 DEF Dispatched
<1>4. threads' \subseteq Thread
  BY DEF Typed
<1>5. ASSUME NEW c \in Calls, runs'[c].pc = "waiting", NEW th \in threads'
      PROVE  th.n # runs'[c].n
  <2>1. runs'[c] = runs[c]
    BY <1>1, <1>5
  <2>2. CASE th \in threads
    BY <1>5, <2>1, <2>2 DEF ClaimsFresh
  <2>3. CASE Dispatched(th)
    <3>1. th.call \in Calls
      BY <1>4, ThreadFields
    <3>2. th.call # c
      BY <1>5, <2>1, <2>3 DEF Dispatched, Underway
    <3>3. runs[th.call].n # runs[c].n
      BY <1>5, <2>1, <3>1, <3>2 DEF Numbered
    <3> QED
      BY <2>1, <2>3, <3>3 DEF Dispatched
  <2> QED
    BY <1>2, <2>2, <2>3
<1>6. admitted' = admitted /\ granted' = granted
  BY DEF Quiet
<1> QED
  BY <1>1, <1>3, <1>5, <1>6 DEF ClaimsFresh

\* Rows keep the run they name, or lose it.
LEMMA QuietRowsOwned ==
    ASSUME Typed, Typed', Numbered, RowsOwned, Quiet
    PROVE  RowsOwned'
<1>0. admitted' = admitted /\ admitted \in Nat
  BY AgentBounds DEF Quiet, Typed
<1>1. \A t \in Tasks : \/ lease'[t].n = 0 /\ lease'[t].live = FALSE
                       \/ /\ lease'[t].n = lease[t].n
                          /\ lease'[t].live => lease[t].live
  BY NoLeaseFields DEF Quiet
<1>2. \A c \in Calls : runs'[c].n = 0 \/ runs'[c].n = runs[c].n
  BY RunShapes DEF Quiet, Continues
<1>3. \A th \in threads' : th.call \in Calls /\ th.n \in RunNumbers
  BY ThreadFields DEF Typed
<1>4. \A th \in threads' : th \in threads \/ th.n = runs[th.call].n
  BY DEF Quiet, Dispatched
<1>5. \A n \in RunNumbers : n # 0
  BY DEF RunNumbers
<1>6. \A t \in Tasks : lease'[t].n <= admitted /\ (lease'[t].live => lease'[t].n # 0)
  BY <1>0, <1>1 DEF RowsOwned
<1>7. \A t \in Tasks : \A th \in threads' :
          lease'[t].n = th.n => Task(th.call) = t
  BY <1>1, <1>3, <1>4, <1>5 DEF RowsOwned
<1>8. \A t \in Tasks : \A c \in Calls :
          lease'[t].n = runs'[c].n => lease'[t].n = 0 \/ Task(c) = t
  BY <1>1, <1>2 DEF RowsOwned
<1> QED
  BY <1>0, <1>6, <1>7, <1>8 DEF RowsOwned

\* Idle runs know nothing.
LEMMA IdleSeen ==
    /\ Seen(Idle) = {}
    /\ \A run, pc : Seen(LastSteps(run, pc)) = {}
<1>1. ToSet(<<>>) = {} /\ NoResult.cites = {}
  BY DEF ToSet, NoResult
<1> QED
  BY <1>1, RunShapes DEF Seen

\* A quiet step makes nobody know what it was not shown.
LEMMA QuietShown ==
    ASSUME Typed, Typed', Numbered, Shown, Quiet
    PROVE  Shown'
<1>1. \A c \in Calls : runs[c].n # 0 => runs[c].n \in RunNumbers
  <2>1. \A c \in Calls : runs[c] \in Run
    BY DEF Typed
  <2>2. \A c \in Calls : runs[c].n \in 0 .. MaxRuns
    BY <2>1, RunFields
  <2> QED
    BY <2>2, AgentBounds DEF RunNumbers
<1>2. \A n \in RunNumbers : observed[n] \subseteq observed'[n]
  BY DEF Quiet
<1>3. ASSUME NEW c \in Calls, runs'[c].n # 0
      PROVE  Seen(runs'[c]) \subseteq observed'[runs'[c].n]
  <2>1. runs'[c] = runs[c] \/ Continues(c)
    BY <1>3, RunShapes DEF Quiet
  <2>2. runs'[c].n = runs[c].n
    BY <2>1 DEF Continues
  <2>3. Seen(runs[c]) \subseteq observed'[runs[c].n]
    BY <1>1, <1>2, <1>3, <2>2 DEF Shown
  <2>4. Seen(runs'[c]) \subseteq Seen(runs[c]) \cup observed'[runs[c].n]
    BY <2>1 DEF Continues
  <2> QED
    BY <2>2, <2>3, <2>4
<1>4. ASSUME NEW th \in threads'
      PROVE  th.result.cites \subseteq observed'[th.n]
  <2>1. th \in Thread
    BY DEF Typed
  <2>2. th.call \in Calls /\ th.n \in RunNumbers
    BY <2>1, ThreadFields
  <2>3. CASE th \in threads
    BY <1>2, <2>2, <2>3 DEF Shown
  <2>4. CASE Dispatched(th)
    <3>1. th.n # 0
      BY <2>2 DEF RunNumbers
    <3>2. Seen(runs[th.call]) \subseteq observed[th.n]
      BY <2>2, <2>4, <3>1 DEF Dispatched, Shown
    <3> QED
      BY <1>2, <2>2, <2>4, <3>2 DEF Dispatched
  <2> QED
    BY <2>3, <2>4 DEF Quiet
<1> QED
  BY <1>3, <1>4 DEF Shown

\* Nor does it conclude a run without a result.
LEMMA QuietResulted ==
    ASSUME Resulted, Quiet
    PROVE  Resulted'
<1>1. ~Concluded(Idle)
  BY RunShapes DEF Concluded
<1> QED
  BY <1>1 DEF Resulted, Quiet, Continues, Dispatched

\* A tame step leaves a release to every run that waits for one.
LEMMA TameReleasesPending ==
    ASSUME ReleasesPending, Tame
    PROVE  ReleasesPending'
<1> SUFFICES ASSUME NEW c \in Calls, runs'[c].pc = "releasing"
             PROVE  \E th \in threads' : th.kind = "release" /\ th.n = runs'[c].n
  BY DEF ReleasesPending
<1>1. runs'[c].n = runs[c].n
  BY DEF Tame, Continues
<1>2. CASE runs'[c] = runs[c]
  BY <1>1, <1>2 DEF ReleasesPending, Tame
<1>3. CASE \E th \in threads' : th.kind = "release" /\ th.n = runs[c].n
  BY <1>1, <1>3
<1> QED
  BY <1>2, <1>3 DEF Tame

\* HasLease, or the moment before the lease variable is set.
LEMMA UnderwayHolds ==
    \A run : Underway(run) <=> HasLease(run) \/ run.pc = "claimed"
BY DEF Underway, HasLease, HasSlot

\* A tame step abandons no row.
LEMMA TameLeaseReturned ==
    ASSUME LeaseReturned, Tame
    PROVE  LeaseReturned'
<1> SUFFICES ASSUME NEW t \in Tasks
             PROVE  \/ lease'[t].n \in lost' \cup {0}
                    \/ \E c \in Calls :
                          /\ Task(c) = t /\ runs'[c].n = lease'[t].n
                          /\ Underway(runs'[c])
                    \/ \E thread \in threads' :
                          thread.kind = "release" /\ thread.n = lease'[t].n
  BY UnderwayHolds DEF LeaseReturned, HasLease, HasSlot
<1>1. lease'[t].n = lease[t].n /\ lost' = lost
  BY DEF Tame
<1>2. CASE lease[t].n \in lost \cup {0}
  BY <1>1, <1>2
<1>3. CASE \E c \in Calls : /\ Task(c) = t /\ runs[c].n = lease[t].n
                            /\ Underway(runs[c])
  <2>1. PICK c \in Calls : /\ Task(c) = t /\ runs[c].n = lease[t].n
                           /\ Underway(runs[c])
    BY <1>3
  <2>2. runs'[c].n = runs[c].n /\ Underway(runs'[c])
    BY <2>1 DEF Tame, Continues
  <2> QED
    BY <1>1, <2>1, <2>2
<1>4. CASE \E th \in threads : th.kind = "release" /\ th.n = lease[t].n
  BY <1>1, <1>4 DEF Tame
<1> QED
  BY <1>2, <1>3, <1>4, UnderwayHolds DEF LeaseReturned

\* A run that goes on keeps its number and what it knows.
LEMMA GoesFacts ==
    ASSUME Typed, NEW c \in Calls, NEW pc \in RunStates, Goes(c, pc)
    PROVE  /\ runs' \in [Calls -> Run]
           /\ \A d \in Calls : d # c => runs'[d] = runs[d]
           /\ runs'[c].pc = pc /\ runs'[c].n = runs[c].n
           /\ runs'[c].evidence = runs[c].evidence
           /\ runs'[c].result = runs[c].result
           /\ Seen(runs'[c]) = Seen(runs[c])
<1>1. runs \in [Calls -> Run] /\ runs[c] \in Run
  BY DEF Typed
<1>2. runs' = [runs EXCEPT ![c] = [runs[c] EXCEPT !.pc = pc]]
  BY DEF Goes
<1>3. [runs[c] EXCEPT !.pc = pc] \in Run
  BY <1>1, RunTypes
<1>4. runs' \in [Calls -> Run] /\ \A d \in Calls : d # c => runs'[d] = runs[d]
  BY <1>1, <1>2, <1>3
<1>5. runs'[c] = [runs[c] EXCEPT !.pc = pc]
  BY <1>1, <1>2
<1>6. /\ runs'[c].pc = pc /\ runs'[c].n = runs[c].n
      /\ runs'[c].evidence = runs[c].evidence
      /\ runs'[c].result = runs[c].result
  BY <1>1, <1>5 DEF Run
<1> QED
  BY <1>4, <1>6 DEF Seen

\* A run on its way out keeps its number and knows nothing but its result.
LEMMA LastFacts ==
    ASSUME Typed, NEW c \in Calls, NEW pc \in RunStates, NEW result \in Result,
           \/ runs' = [runs EXCEPT ![c] =
                          [LastSteps(@, pc) EXCEPT !.result = result]]
           \/ /\ runs' = [runs EXCEPT ![c] = LastSteps(@, pc)]
              /\ result = NoResult
    PROVE  /\ runs' \in [Calls -> Run]
           /\ \A d \in Calls : d # c => runs'[d] = runs[d]
           /\ runs'[c].pc = pc /\ runs'[c].n = runs[c].n
           /\ runs'[c].result = result
           /\ Seen(runs'[c]) = result.cites
<1> DEFINE last == LastSteps(runs[c], pc)
           ended == [last EXCEPT !.result = result]
<1>1. runs \in [Calls -> Run] /\ runs[c] \in Run
  BY DEF Typed
<1>2. last \in Run /\ ended \in Run
  BY <1>1, RunTypes
<1>3. /\ last.pc = pc /\ last.n = runs[c].n /\ last.evidence = <<>>
      /\ last.result = NoResult
  BY RunShapes
<1>4. runs'[c] = ended \/ (runs'[c] = last /\ result = NoResult)
  BY <1>1
<1>5. runs' \in [Calls -> Run] /\ \A d \in Calls : d # c => runs'[d] = runs[d]
  BY <1>1, <1>2
<1> HIDE DEF last
<1>6. /\ ended.pc = pc /\ ended.n = runs[c].n /\ ended.evidence = <<>>
      /\ ended.result = result
  BY <1>2, <1>3 DEF Run
<1> HIDE DEF ended
<1>7. /\ runs'[c].pc = pc /\ runs'[c].n = runs[c].n /\ runs'[c].evidence = <<>>
      /\ runs'[c].result = result
  BY <1>3, <1>4, <1>6
<1>8. ToSet(<<>>) = {}
  BY DEF ToSet
<1> QED
  BY <1>5, <1>7, <1>8 DEF Seen

\* ... as the actions of the execution have it.
LEMMA EndsFacts ==
    ASSUME Typed, NEW c \in Calls, NEW pc \in RunStates, NEW result \in Result,
           Ends(c, pc, result)
    PROVE  /\ runs' \in [Calls -> Run]
           /\ \A d \in Calls : d # c => runs'[d] = runs[d]
           /\ runs'[c].pc = pc /\ runs'[c].n = runs[c].n
           /\ runs'[c].result = result
           /\ Seen(runs'[c]) = result.cites
<1>1. \/ runs' = [runs EXCEPT ![c] =
                     [LastSteps(@, pc) EXCEPT !.result = result]]
      \/ /\ runs' = [runs EXCEPT ![c] = LastSteps(@, pc)]
         /\ result = NoResult
  BY DEF Ends
<1> QED
  BY <1>1, LastFacts

\* The outcomes of a run are results.
LEMMA ResultTypes ==
    /\ NoResult \in Result /\ FailedResult \in Result
    /\ NoResult.cites = {} /\ FailedResult.cites = {}
    /\ FailedResult.status # "none"
BY DEF NoResult, FailedResult, Result

\* Which await a thread of each kind ends.
LEMMA AwaitedKinds ==
    ASSUME NEW pc \in RunStates
    PROVE  /\ AwaitedKind(pc) = "claim" <=> pc = "claiming"
           /\ AwaitedKind(pc) = "begin" <=> pc = "starting"
           /\ AwaitedKind(pc) = "complete" <=> pc = "completing"
           /\ AwaitedKind(pc) = "release" <=> pc = "releasing"
           /\ AwaitedKind(pc) # "finding"
BY DEF AwaitedKind, RunStates

\* A run leaves for its release: the steps that end with _releases_.
LEMMA ReleasesTame ==
    ASSUME Typed, Numbered, NEW c \in Calls, NEW others \in SUBSET threads,
           Underway(runs[c]),
           \A th \in threads : th.kind = "release" => th \in others,
           Releases(c, others),
           UNCHANGED <<admitted, slots, lease, granted, observed, lost>>
    PROVE  runs' \in [Calls -> Run] /\ threads' \in SUBSET Thread /\ Tame
<1>1. runs[c].pc # "idle" /\ runs[c].n # 0 /\ runs[c].n \in RunNumbers
  BY UnderwayNumbered DEF Underway
<1>2. /\ runs' \in [Calls -> Run]
      /\ \A d \in Calls : d # c => runs'[d] = runs[d]
      /\ runs'[c].pc = "releasing" /\ runs'[c].n = runs[c].n
      /\ Seen(runs'[c]) = {}
  BY LastFacts, ResultTypes DEF Releases, RunStates
<1>3. /\ ReleaseOf(c) \in Thread /\ ReleaseOf(c).kind = "release"
      /\ ReleaseOf(c).call = c /\ ReleaseOf(c).n = runs[c].n
      /\ ReleaseOf(c).result = NoResult
  BY <1>1, ThreadTypes DEF ThreadKinds
<1>4. threads' = others \cup {ReleaseOf(c)}
  BY DEF Releases
<1>5. threads' \in SUBSET Thread
  BY <1>3, <1>4 DEF Typed
<1>6. Dispatched(ReleaseOf(c))
  BY <1>3, ResultTypes DEF Dispatched
<1>7. Continues(c)
  BY <1>2 DEF Continues, Underway, Concluded
<1>8. \A t \in Tasks : \/ lease'[t] = NoLease
                       \/ /\ lease'[t].n = lease[t].n
                          /\ lease'[t].live => lease[t].live
  OBVIOUS
<1>9. Quiet
  BY <1>2, <1>4, <1>6, <1>7, <1>8 DEF Quiet
<1>10. \A th \in threads : th.kind = "release" => th \in threads'
  BY <1>4
<1>11. ReleaseOf(c) \in threads'
  BY <1>4
<1>12. \A d \in Calls : runs'[d].pc = "releasing" =>
          \/ runs'[d] = runs[d]
          \/ \E th \in threads' : th.kind = "release" /\ th.n = runs[d].n
  BY <1>2, <1>3, <1>11
<1> QED
  BY <1>2, <1>5, <1>7, <1>9, <1>10, <1>12 DEF Tame

\* A run goes on, with a new thread or without.
LEMMA GoesTame ==
    ASSUME Typed, Numbered, NEW c \in Calls, NEW pc \in RunStates,
           NEW kind \in ThreadKinds,
           Underway(runs[c]), pc \notin {"idle", "waiting", "claiming", "releasing"},
           kind # "claim",
           pc \in {"guarding", "disconnecting", "completing"} \/ kind = "complete"
              => runs[c].result.status # "none",
           Goes(c, pc),
           threads' \in {threads, threads \cup {ThreadOf(kind, c)}},
           UNCHANGED <<admitted, slots, lease, granted, observed, lost>>
    PROVE  runs' \in [Calls -> Run] /\ threads' \in SUBSET Thread /\ Tame
<1>1. runs[c].pc # "idle" /\ runs[c].n # 0 /\ runs[c].n \in RunNumbers
  BY UnderwayNumbered DEF Underway
<1>2. /\ runs' \in [Calls -> Run]
      /\ \A d \in Calls : d # c => runs'[d] = runs[d]
      /\ runs'[c].pc = pc /\ runs'[c].n = runs[c].n
      /\ runs'[c].result = runs[c].result
      /\ Seen(runs'[c]) = Seen(runs[c])
  BY GoesFacts
<1>3. /\ ThreadOf(kind, c) \in Thread /\ ThreadOf(kind, c).kind = kind
      /\ ThreadOf(kind, c).call = c /\ ThreadOf(kind, c).n = runs[c].n
      /\ ThreadOf(kind, c).result = runs[c].result
  BY <1>1, ThreadTypes
<1>4. threads' \in SUBSET Thread
  BY <1>3 DEF Typed
<1>5. Dispatched(ThreadOf(kind, c))
  BY <1>3 DEF Dispatched, Seen
<1>6. Continues(c)
  BY <1>2 DEF Continues, Underway, Concluded
<1>7. \A t \in Tasks : \/ lease'[t] = NoLease
                       \/ /\ lease'[t].n = lease[t].n
                          /\ lease'[t].live => lease[t].live
  OBVIOUS
<1>8. Quiet
  BY <1>2, <1>5, <1>6, <1>7 DEF Quiet
<1>9. \A th \in threads : th.kind = "release" => th \in threads'
  OBVIOUS
<1>10. \A d \in Calls : runs'[d].pc = "releasing" => runs'[d] = runs[d]
  BY <1>2
<1> QED
  BY <1>2, <1>4, <1>6, <1>8, <1>9, <1>10 DEF Tame

\* A run ends its execution with a result that cites what it knows.
LEMMA EndsTame ==
    ASSUME Typed, Numbered, NEW c \in Calls, NEW pc \in RunStates,
           NEW result \in Result,
           Underway(runs[c]), pc \notin {"idle", "waiting", "claiming", "releasing"},
           result.cites \subseteq Seen(runs[c]), result.status # "none",
           Ends(c, pc, result)
    PROVE  runs' \in [Calls -> Run] /\ threads' \in SUBSET Thread /\ Tame
<1>1. /\ runs' \in [Calls -> Run]
      /\ \A d \in Calls : d # c => runs'[d] = runs[d]
      /\ runs'[c].pc = pc /\ runs'[c].n = runs[c].n
      /\ runs'[c].result = result
      /\ Seen(runs'[c]) = result.cites
  BY EndsFacts
<1>2. UNCHANGED <<admitted, slots, lease, granted, observed, lost, threads>>
  BY DEF Ends, adapterVars, databaseVars
<1>3. Continues(c)
  BY <1>1 DEF Continues, Underway
<1>4. \A t \in Tasks : \/ lease'[t] = NoLease
                       \/ /\ lease'[t].n = lease[t].n
                          /\ lease'[t].live => lease[t].live
  BY <1>2
<1>5. Quiet
  BY <1>1, <1>2, <1>3, <1>4 DEF Quiet
<1>6. \A d \in Calls : runs'[d].pc = "releasing" => runs'[d] = runs[d]
  BY <1>1
<1> QED
  BY <1>1, <1>2, <1>3, <1>5, <1>6 DEF Tame, Typed

\* A run is shown something.
LEMMA ObserveTame ==
    ASSUME Typed, Numbered, NEW c \in Calls, NEW item \in Evidence,
           runs[c].pc \in {"preparing", "executing"},
           Observe(c, item),
           UNCHANGED <<admitted, slots, lease, granted, lost, threads>>
    PROVE  /\ runs' \in [Calls -> Run]
           /\ observed' \in [RunNumbers -> SUBSET Evidence]
           /\ Tame
<1> DEFINE run == runs[c]
           table == Remembered(run.evidence, item)
<1>1. runs \in [Calls -> Run] /\ run \in Run
  BY DEF Typed
<1>2. run.n \in RunNumbers
  BY UnderwayNumbered
<1>3. run.evidence \in BoundedSeq(Evidence, MaxEvidence)
  BY <1>1, RunFields
<1>4. /\ table \in BoundedSeq(Evidence, MaxEvidence)
      /\ ToSet(table) \subseteq ToSet(run.evidence) \cup {item}
  BY <1>3, RememberedFacts
<1>5. /\ runs' = [runs EXCEPT ![c] = [run EXCEPT !.evidence = table]]
      /\ observed' = [observed EXCEPT ![run.n] = @ \cup {item}]
  BY DEF Observe
<1>6. /\ observed' \in [RunNumbers -> SUBSET Evidence]
      /\ \A n \in RunNumbers : observed[n] \subseteq observed'[n]
      /\ item \in observed'[run.n]
  BY <1>2, <1>5 DEF Typed
<1> HIDE DEF table
<1>7. [run EXCEPT !.evidence = table] \in Run
  <2> DEFINE Table == BoundedSeq(Evidence, MaxEvidence)
  <2>1. Run = [pc : RunStates, n : 0 .. MaxRuns, evidence : Table,
               failure : BOOLEAN, result : Result]
    BY DEF Run
  <2>2. table \in Table
    BY <1>4
  <2> HIDE DEF run, Table
  <2> QED
    BY <1>1, <2>1, <2>2
<1>8. runs' \in [Calls -> Run] /\ \A d \in Calls : d # c => runs'[d] = runs[d]
  BY <1>1, <1>5, <1>7
<1>9. runs'[c] = [run EXCEPT !.evidence = table]
  BY <1>1, <1>5
<1> HIDE DEF run
<1>10. /\ runs'[c].pc = run.pc /\ runs'[c].n = run.n
       /\ runs'[c].evidence = table /\ runs'[c].result = run.result
  BY <1>1, <1>9 DEF Run
<1> USE DEF run
<1>11. Seen(runs'[c]) \subseteq Seen(runs[c]) \cup observed'[runs[c].n]
  BY <1>4, <1>6, <1>10 DEF Seen
<1>12. Continues(c)
  BY <1>10, <1>11 DEF Continues, Underway, Concluded
<1>13. \A t \in Tasks : \/ lease'[t] = NoLease
                        \/ /\ lease'[t].n = lease[t].n
                           /\ lease'[t].live => lease[t].live
  OBVIOUS
<1>14. Quiet
  BY <1>6, <1>8, <1>12, <1>13 DEF Quiet
<1>15. \A d \in Calls : runs'[d].pc = "releasing" => runs'[d] = runs[d]
  BY <1>8, <1>10
<1> QED
  BY <1>6, <1>8, <1>12, <1>14, <1>15 DEF Tame

\* A thread ends and no run goes on.
LEMMA ThreadEndsTame ==
    ASSUME Typed, NEW th \in threads, th.kind # "release",
           threads' = threads \ {th},
           UNCHANGED <<admitted, runs, slots, lease, granted, observed, lost>>
    PROVE  runs' \in [Calls -> Run] /\ threads' \in SUBSET Thread /\ Tame
<1>1. Quiet
  BY DEF Quiet
<1> QED
  BY <1>1 DEF Tame, Typed

\* The rest of the state, where an action leaves it alone.
RestTyped ==
    /\ admitted' = admitted /\ closed' = closed /\ lease' = lease
    /\ outcome' = outcome /\ recorded' = recorded /\ granted' = granted
    /\ observed' = observed /\ lost' = lost

\* What a run does between two awaits once claim() has returned.
LEMMA StepTame ==
    ASSUME Typed, Numbered, Resulted, NEW c \in Calls,
           \/ Configure(c) \/ RejectOptions(c)
           \/ Prepare(c) \/ PrepareFails(c)
           \/ Guard(c) \/ GuardFails(c)
           \/ Disconnect(c) \/ DisconnectAborted(c)
    PROVE  Typed' /\ Tame
<1>0. runs[c] \in Run
  BY DEF Typed
<1>1. RestTyped /\ slots' = slots
  BY DEF RestTyped, Configure, RejectOptions, Prepare, PrepareFails, Guard,
         GuardFails, Disconnect, DisconnectAborted, Ends, adapterVars,
         databaseVars
<1>2. CASE Configure(c) \/ Prepare(c) \/ Disconnect(c)
  <2>1. PICK pc \in {"starting", "executing", "completing"},
             kind \in {"begin", "complete"} :
           /\ Goes(c, pc)
           /\ threads' \in {threads, threads \cup {ThreadOf(kind, c)}}
           /\ \/ runs[c].result.status # "none"
              \/ pc # "completing" /\ kind # "complete"
    BY <1>2 DEF Configure, Prepare, Disconnect, Resulted, Concluded
  <2>2. Underway(runs[c])
    BY <1>2 DEF Configure, Prepare, Disconnect, Underway
  <2>3. /\ pc \in RunStates /\ kind \in ThreadKinds /\ kind # "claim"
        /\ pc \notin {"idle", "waiting", "claiming", "releasing"}
    BY DEF RunStates, ThreadKinds
  <2>4. pc \in {"guarding", "disconnecting", "completing"} \/ kind = "complete"
           => runs[c].result.status # "none"
    BY <2>1
  <2>5. UNCHANGED <<admitted, slots, lease, granted, observed, lost>>
    BY <1>1 DEF RestTyped
  <2>6. runs' \in [Calls -> Run] /\ threads' \in SUBSET Thread /\ Tame
    BY <2>1, <2>2, <2>3, <2>4, <2>5, GoesTame
  <2> QED
    BY <1>1, <2>6 DEF RestTyped, Typed
<1>3. CASE RejectOptions(c) \/ PrepareFails(c) \/ DisconnectAborted(c)
  <2>1. Releases(c, threads) /\ Underway(runs[c])
    BY <1>3 DEF RejectOptions, PrepareFails, DisconnectAborted, Underway
  <2>2. runs' \in [Calls -> Run] /\ threads' \in SUBSET Thread /\ Tame
    BY <1>1, <2>1, ReleasesTame DEF RestTyped
  <2> QED
    BY <1>1, <2>2 DEF RestTyped, Typed
<1>4. CASE Guard(c) \/ GuardFails(c)
  <2>1. PICK result \in {runs[c].result, FailedResult} :
           Ends(c, "disconnecting", result) /\ result.status # "none"
    BY <1>4, ResultTypes DEF Guard, GuardFails, Resulted, Concluded
  <2>2. result \in Result /\ result.cites \subseteq Seen(runs[c])
    BY <1>0, RunFields, ResultTypes DEF Seen
  <2>3. Underway(runs[c]) /\ "disconnecting" \in RunStates
    BY <1>4 DEF Guard, GuardFails, Underway, RunStates
  <2>4. runs' \in [Calls -> Run] /\ threads' \in SUBSET Thread /\ Tame
    BY <2>1, <2>2, <2>3, EndsTame
  <2> QED
    BY <1>1, <2>4 DEF RestTyped, Typed
<1> QED
  BY <1>2, <1>3, <1>4

\* What is cited is evidence.
LEMMA CitationTypes ==
    \A cites \in Citations \cup {{}} : cites \subseteq Evidence
BY DEF Citations

\* record_finding dispatches a thread that cites what is in the table.
LEMMA RecordFindingTame ==
    ASSUME Typed, Numbered, NEW c \in Calls, NEW cites \in Citations,
           RecordFinding(c, cites)
    PROVE  Typed' /\ Tame
<1> DEFINE th == [ThreadOf("finding", c) EXCEPT !.result.cites = cites]
           result == runs[c].result
<1>0. runs[c] \in Run /\ runs[c].n \in RunNumbers /\ runs[c].n # 0
  BY UnderwayNumbered DEF Typed, RecordFinding
<1>1. RestTyped /\ slots' = slots /\ runs' = runs
      /\ threads' = threads \cup {th}
  BY DEF RestTyped, RecordFinding, adapterVars, databaseVars
<1>2. ThreadOf("finding", c) \in Thread /\ ThreadOf("finding", c) =
         [kind |-> "finding", call |-> c, n |-> runs[c].n, result |-> result]
  BY <1>0, ThreadTypes DEF ThreadKinds, ThreadOf
<1>3. result \in Result
  BY <1>0, RunFields
<1>4. cites \subseteq Evidence
  BY CitationTypes
<1> HIDE DEF result
<1>5. [result EXCEPT !.cites = cites] \in Result
      /\ [result EXCEPT !.cites = cites].cites = cites
  BY <1>3, <1>4 DEF Result
<1>6. th = [kind |-> "finding", call |-> c, n |-> runs[c].n,
            result |-> [result EXCEPT !.cites = cites]]
  BY <1>2
<1> HIDE DEF th
<1>7. th \in Thread
  BY <1>0, <1>5, <1>6 DEF Thread, ThreadKinds
<1>8. cites \subseteq Seen(runs[c])
  BY DEF RecordFinding, Validated, Seen
<1>9. Dispatched(th)
  <2>1. Underway(runs[c])
    BY DEF RecordFinding, Underway
  <2>2. /\ th.kind = "finding" /\ th.call = c /\ th.n = runs[c].n
        /\ th.result.cites = cites
    BY <1>5, <1>6
  <2> QED
    BY <1>8, <2>1, <2>2 DEF Dispatched
<1>10. Quiet
  BY <1>1, <1>9 DEF Quiet, RestTyped
<1>11. Tame
  BY <1>1, <1>10 DEF Tame, RestTyped
<1>12. Typed'
  BY <1>1, <1>7 DEF Typed, RestTyped
<1> QED
  BY <1>11, <1>12

\* What the client and its tools do with a run.
LEMMA AgentTame ==
    ASSUME Typed, Numbered, NEW c \in Calls, Agent(c)
    PROVE  Typed' /\ Tame
<1>0. runs \in [Calls -> Run] /\ runs[c] \in Run
  BY DEF Typed
<1>1. ASSUME NEW item \in Evidence,
             ObserveKnowledge(c, item) \/ AfterTool(c, item)
      PROVE  Typed' /\ Tame
  <2>1. /\ runs[c].pc \in {"preparing", "executing"} /\ Observe(c, item)
        /\ UNCHANGED <<adapterVars, slots, threads, databaseVars, lost>>
    BY <1>1 DEF ObserveKnowledge, AfterTool
  <2>2. /\ runs' \in [Calls -> Run]
        /\ observed' \in [RunNumbers -> SUBSET Evidence] /\ Tame
    BY <2>1, ObserveTame DEF adapterVars, databaseVars
  <2> QED
    BY <2>1, <2>2 DEF Typed, adapterVars, databaseVars
<1>2. ASSUME NEW cites \in Citations, RecordFinding(c, cites)
      PROVE  Typed' /\ Tame
  BY <1>2, RecordFindingTame
<1>3. ASSUME NEW status \in {"succeeded", "failed"},
             NEW cites \in Citations \cup {{}},
             ReceiveResult(c, [status |-> status, cites |-> cites])
      PROVE  Typed' /\ Tame
  <2> DEFINE result == [status |-> status, cites |-> cites]
             pc == IF result.status = "succeeded" THEN "guarding"
                                                  ELSE "disconnecting"
  <2>1. cites \subseteq Evidence
    BY CitationTypes
  <2>2. result \in Result /\ result.cites = cites /\ result.status # "none"
    BY <2>1 DEF Result
  <2>3. /\ runs[c].pc = "executing" /\ Ends(c, pc, result)
        /\ cites \subseteq Seen(runs[c])
    BY <1>3, <2>2 DEF ReceiveResult, Validated, Seen
  <2>4. Underway(runs[c])
    BY <2>3 DEF Underway
  <2>5. pc \in RunStates /\ pc \notin {"idle", "waiting", "claiming", "releasing"}
    BY DEF RunStates
  <2> HIDE DEF result, pc
  <2>6. runs' \in [Calls -> Run] /\ threads' \in SUBSET Thread /\ Tame
    BY <2>2, <2>3, <2>4, <2>5, EndsTame
  <2> QED
    BY <2>3, <2>6 DEF Typed, Ends, adapterVars, databaseVars
<1>4. CASE ExecutionFails(c)
  <2>1. Underway(runs[c]) /\ Ends(c, "disconnecting", FailedResult)
    BY <1>4 DEF ExecutionFails, Underway
  <2>2. FailedResult.cites \subseteq Seen(runs[c]) /\ "disconnecting" \in RunStates
    BY ResultTypes DEF RunStates
  <2>3. runs' \in [Calls -> Run] /\ threads' \in SUBSET Thread /\ Tame
    BY <2>1, <2>2, ResultTypes, EndsTame
  <2> QED
    BY <2>1, <2>3 DEF Typed, Ends, adapterVars, databaseVars
<1>5. CASE AfterToolFails(c)
  <2> DEFINE run == runs[c]
             failed == [run EXCEPT !.failure = TRUE]
  <2>1. /\ RestTyped /\ slots' = slots /\ threads' = threads
        /\ runs' = [runs EXCEPT ![c] = failed] /\ run.pc = "executing"
    BY <1>5 DEF AfterToolFails, RestTyped, adapterVars, databaseVars
  <2>2. failed \in Run
    <3> DEFINE Table == BoundedSeq(Evidence, MaxEvidence)
    <3>1. Run = [pc : RunStates, n : 0 .. MaxRuns, evidence : Table,
                 failure : BOOLEAN, result : Result]
      BY DEF Run
    <3> HIDE DEF run, Table
    <3>2. run \in Run
      BY <1>0 DEF run
    <3> QED
      BY <3>1, <3>2
  <2>3. /\ failed.pc = run.pc /\ failed.n = run.n
        /\ failed.evidence = run.evidence /\ failed.result = run.result
    BY <1>0 DEF Run
  <2>4. /\ runs' \in [Calls -> Run] /\ runs'[c] = failed
        /\ \A d \in Calls : d # c => runs'[d] = runs[d]
    BY <1>0, <2>1, <2>2
  <2> HIDE DEF failed
  <2>5. Continues(c)
    BY <2>1, <2>3, <2>4 DEF Continues, Underway, Seen, Concluded
  <2>6. Quiet
    BY <2>1, <2>4, <2>5 DEF Quiet, RestTyped
  <2>7. \A d \in Calls : runs'[d].pc = "releasing" => runs'[d] = runs[d]
    BY <2>1, <2>3, <2>4
  <2>8. Tame
    BY <2>1, <2>4, <2>5, <2>6, <2>7 DEF Tame, RestTyped
  <2> QED
    BY <2>1, <2>4, <2>8 DEF Typed, RestTyped
<1> QED
  BY <1>1, <1>2, <1>3, <1>4, <1>5 DEF Agent

\* The entry of a thread is an entry.
LEMMA WritesTyped ==
    ASSUME Typed, NEW th \in threads, Writes(th)
    PROVE  recorded' \in [Tasks -> SUBSET (RunNumbers \X
                          [kind : {"none", "succeeded", "failed"},
                           cites : SUBSET Evidence])]
<1>1. th \in Thread
  BY DEF Typed
<1>2. /\ th.call \in Calls /\ th.n \in RunNumbers
      /\ th.result \in Result
  BY <1>1, ThreadFields
<1>3. Recorded(th) \in [kind : {"none", "succeeded", "failed"},
                        cites : SUBSET Evidence]
  BY <1>2 DEF Recorded, Result
<1>4. {<<th.n, Recorded(th)>>} \in SUBSET (RunNumbers \X
                          [kind : {"none", "succeeded", "failed"},
                           cites : SUBSET Evidence])
  BY <1>2, <1>3
<1>5. Task(th.call) \in Tasks
  BY <1>2, CallParts
<1> QED
  BY <1>4, <1>5 DEF Writes, Typed

\* An awaited thread belongs to the call whose run awaits it.
LEMMA AwaitedRun ==
    ASSUME Typed, Numbered, NEW th \in threads
    PROVE  /\ th \in Thread /\ th.call \in Calls /\ th.n \in RunNumbers
           /\ th.n # 0 /\ Task(th.call) \in Tasks
           /\ Awaits(th.call, th) =>
                 /\ runs[th.call].n = th.n
                 /\ runs[th.call].pc \in
                       {"claiming", "starting", "completing", "releasing"}
                 /\ th.kind = "claim" <=> runs[th.call].pc = "claiming"
                 /\ th.kind = "release" <=> runs[th.call].pc = "releasing"
<1>1. th \in Thread
  BY DEF Typed
<1>2. /\ th.kind \in ThreadKinds /\ th.call \in Calls /\ th.n \in RunNumbers
      /\ runs[th.call] \in Run
  BY <1>1, ThreadFields DEF Typed
<1>3. runs[th.call].pc \in RunStates
  BY <1>2, RunFields
<1>4. Awaits(th.call, th) =>
         runs[th.call].pc \in {"claiming", "starting", "completing", "releasing"}
  BY <1>2, <1>3, AwaitedKinds DEF Awaits, ThreadKinds
<1>5. Awaits(th.call, th) =>
         /\ th.kind = "claim" <=> runs[th.call].pc = "claiming"
         /\ th.kind = "release" <=> runs[th.call].pc = "releasing"
  BY <1>3, AwaitedKinds DEF Awaits
<1>6. th.n # 0
  BY <1>2 DEF RunNumbers
<1>7. Task(th.call) \in Tasks
  BY <1>2, CallParts
<1> QED
  BY <1>1, <1>2, <1>4, <1>5, <1>6, <1>7 DEF Awaits

\* The transactions of begin_task, record_finding and complete_task, whether
\* or not their run still waits for them.
LEMMA TransactionTame ==
    ASSUME Typed, Numbered, Resulted, NEW th \in threads,
           Begin(th) \/ SaveFinding(th) \/ Complete(th) \/ CompleteFails(th)
    PROVE  Typed' /\ Tame
<1> DEFINE c == th.call
           Ended == threads' = threads \ {th} /\ UNCHANGED runs
           Left == Awaits(c, th) /\ Releases(c, threads \ {th})
           Prepares == /\ Awaits(c, th) /\ Goes(c, "preparing")
                       /\ threads' = threads \ {th}
<1>0. /\ th \in Thread /\ c \in Calls /\ Task(c) \in Tasks
      /\ Awaits(c, th) =>
            /\ runs[c].pc \in {"claiming", "starting", "completing", "releasing"}
            /\ th.kind = "claim" <=> runs[c].pc = "claiming"
            /\ th.kind = "release" <=> runs[c].pc = "releasing"
  BY AwaitedRun
<1>1. th.kind \notin {"claim", "release"}
  BY DEF Begin, SaveFinding, Complete, CompleteFails
<1>2. /\ UNCHANGED <<admitted, closed, slots, lease, granted, observed, lost>>
      /\ outcome' \in [Tasks -> {"absent", "open", "succeeded", "failed"}]
      /\ recorded' \in [Tasks -> SUBSET (RunNumbers \X
                          [kind : {"none", "succeeded", "failed"},
                           cites : SUBSET Evidence])]
  <2>1. CASE Begin(th)
    BY <1>0, <2>1 DEF Begin, adapterVars, Typed
  <2>2. CASE SaveFinding(th)
    BY <2>2, WritesTyped DEF SaveFinding, adapterVars, Typed
  <2>3. CASE Complete(th)
    <3>1. th.result.status \in {"succeeded", "failed"}
      BY <2>3, <1>0, ThreadFields DEF Complete, Resulted, Result
    <3>2. outcome' = [outcome EXCEPT ![Task(c)] = th.result.status]
      BY <2>3 DEF Complete
    <3>3. outcome' \in [Tasks -> {"absent", "open", "succeeded", "failed"}]
      BY <1>0, <3>1, <3>2 DEF Typed
    <3> QED
      BY <2>3, <3>3, WritesTyped DEF Complete, adapterVars
  <2>4. CASE CompleteFails(th)
    BY <2>4 DEF CompleteFails, adapterVars, databaseVars, Typed
  <2> QED
    BY <2>1, <2>2, <2>3, <2>4
<1>3. Ended \/ Left \/ Prepares
  BY DEF Begin, SaveFinding, Complete, CompleteFails, CompleteReturns
<1>4. runs' \in [Calls -> Run] /\ threads' \in SUBSET Thread /\ Tame
  <2>1. CASE Ended
    BY <1>1, <1>2, <2>1, ThreadEndsTame
  <2>2. CASE Left
    <3>1. Underway(runs[c])
      BY <1>0, <1>1, <2>2 DEF Underway
    <3>2. \A tk \in threads : tk.kind = "release" => tk \in threads \ {th}
      BY <1>1
    <3> QED
      BY <1>0, <1>2, <2>2, <3>1, <3>2, ReleasesTame
  <2>3. CASE Prepares
    <3>1. /\ runs' \in [Calls -> Run]
          /\ \A d \in Calls : d # c => runs'[d] = runs[d]
          /\ runs'[c].pc = "preparing" /\ runs'[c].n = runs[c].n
          /\ Seen(runs'[c]) = Seen(runs[c])
      BY <1>0, <2>3, GoesFacts DEF RunStates
    <3>2. Continues(c)
      BY <1>0, <1>1, <2>3, <3>1 DEF Continues, Underway, Concluded
    <3>3. Quiet
      BY <1>2, <2>3, <3>1, <3>2 DEF Quiet
    <3>4. \A d \in Calls : runs'[d].pc = "releasing" => runs'[d] = runs[d]
      BY <3>1
    <3>5. \A tk \in threads : tk.kind = "release" => tk \in threads'
      BY <1>1, <2>3
    <3>6. Tame
      BY <1>2, <3>1, <3>2, <3>3, <3>4, <3>5 DEF Tame
    <3> QED
      BY <2>3, <3>1, <3>6 DEF Typed
  <2> QED
    BY <1>3, <2>1, <2>2, <2>3
<1> QED
  BY <1>2, <1>4 DEF Typed

\* aclose() returns, or a row expires.
LEMMA TimeTame ==
    ASSUME Typed,
           \/ \E a \in Adapters : CloseReturns(a)
           \/ \E t \in Tasks : Expire(t)
    PROVE  Typed' /\ Tame
<1>1. UNCHANGED <<admitted, runs, slots, threads, outcome, recorded, granted,
                  observed, lost>>
  BY DEF CloseReturns, Expire, adapterVars, databaseVars
<1>2. closed' \in [Adapters -> {"open", "closing", "closed"}]
  BY DEF CloseReturns, Expire, adapterVars, Typed
<1>3. /\ lease' \in [Tasks -> [n : 0 .. MaxRuns, live : BOOLEAN]]
      /\ \A t \in Tasks : /\ lease'[t].n = lease[t].n
                          /\ lease'[t].live => lease[t].live
  <2>1. CASE \E a \in Adapters : CloseReturns(a)
    BY <2>1 DEF CloseReturns, databaseVars, Typed
  <2>2. CASE \E t \in Tasks : Expire(t)
    <3>1. PICK t \in Tasks : lease' = [lease EXCEPT ![t].live = FALSE]
      BY <2>2 DEF Expire
    <3> QED
      BY <3>1 DEF Typed
  <2> QED
    BY <2>1, <2>2
<1>4. Quiet
  BY <1>1, <1>3 DEF Quiet
<1> QED
  BY <1>1, <1>2, <1>3, <1>4 DEF Tame, Typed

-----------------------------------------------------------------------------
(***************************************************************************)
(* Steps that end runs                                                     *)
(***************************************************************************)
\* Nobody gives up a row without a word: who is under way goes on, or its
\* number is lost, or a thread will release its row, or it has none.
Handed ==
    /\ lost \subseteq lost'
    /\ \A t \in Tasks : lease'[t].n \in {lease[t].n, 0}
    /\ \A c \in Calls : Underway(runs[c]) =>
          \/ runs'[c].n = runs[c].n /\ Underway(runs'[c])
          \/ runs[c].n \in lost'
          \/ \E th \in threads' : th.kind = "release" /\ th.n = runs[c].n
          \/ \A t \in Tasks : lease'[t].n # runs[c].n
    /\ \A th \in threads : th.kind = "release" =>
          \/ th \in threads' \/ th.n \in lost'
          \/ \A t \in Tasks : lease'[t].n # th.n

\* Then no row is abandoned.
LEMMA HandedLeaseReturned ==
    ASSUME LeaseReturned, Handed
    PROVE  LeaseReturned'
<1> SUFFICES ASSUME NEW t \in Tasks
             PROVE  \/ lease'[t].n \in lost' \cup {0}
                    \/ \E c \in Calls :
                          /\ Task(c) = t /\ runs'[c].n = lease'[t].n
                          /\ Underway(runs'[c])
                    \/ \E thread \in threads' :
                          thread.kind = "release" /\ thread.n = lease'[t].n
  BY UnderwayHolds DEF LeaseReturned, HasLease, HasSlot
<1>1. CASE lease'[t].n = 0
  BY <1>1
<1>2. CASE lease'[t].n = lease[t].n
  <2>1. CASE lease[t].n \in lost \cup {0}
    BY <1>2, <2>1 DEF Handed
  <2>2. CASE \E c \in Calls : /\ Task(c) = t /\ runs[c].n = lease[t].n
                              /\ Underway(runs[c])
    <3>1. PICK c \in Calls : /\ Task(c) = t /\ runs[c].n = lease[t].n
                             /\ Underway(runs[c])
      BY <2>2
    <3>2. \/ runs'[c].n = runs[c].n /\ Underway(runs'[c])
          \/ runs[c].n \in lost'
          \/ \E th \in threads' : th.kind = "release" /\ th.n = runs[c].n
          \/ \A u \in Tasks : lease'[u].n # runs[c].n
      BY <3>1 DEF Handed
    <3> QED
      BY <1>2, <3>1, <3>2
  <2>3. CASE \E th \in threads : th.kind = "release" /\ th.n = lease[t].n
    <3>1. PICK th \in threads : th.kind = "release" /\ th.n = lease[t].n
      BY <2>3
    <3>2. \/ th \in threads' \/ th.n \in lost'
          \/ \A u \in Tasks : lease'[u].n # th.n
      BY <3>1 DEF Handed
    <3> QED
      BY <1>2, <3>1, <3>2
  <2> QED
    BY <2>1, <2>2, <2>3, UnderwayHolds DEF LeaseReturned
<1> QED
  BY <1>1, <1>2 DEF Handed

\* A run that ends is idle, whether or not it had a permit.
LEMMA EndRunFacts ==
    ASSUME Typed, NEW c \in Calls, EndRun(c)
    PROVE  /\ runs' \in [Calls -> Run]
           /\ runs'[c] = Idle
           /\ \A d \in Calls : d # c => runs'[d] = runs[d]
BY RunTypes DEF Typed, EndRun

\* Waiters who time out are under no way, and claims that conflict.
LEMMA TimeoutOrConflict ==
    ASSUME Typed, Numbered, ReleasesPending, NEW c \in Calls,
           \/ AdmissionTimeout(c)
           \/ \E th \in threads : th.call = c /\ ClaimConflict(th)
    PROVE  Typed' /\ Quiet /\ Handed /\ ReleasesPending'
<1>1. RestTyped
  BY DEF AdmissionTimeout, ClaimConflict, RestTyped, adapterVars, databaseVars
<1>2. PICK gone \in SUBSET threads :
         /\ threads' = threads \ gone
         /\ \A th \in gone : th.kind = "claim"
         /\ \/ UNCHANGED runs
            \/ EndRun(c) /\ runs[c].pc \in {"waiting", "claiming"}
  <2>1. CASE AdmissionTimeout(c)
    <3> WITNESS {} \in SUBSET threads
    <3> QED
      BY <2>1 DEF AdmissionTimeout
  <2>2. CASE \E th \in threads : th.call = c /\ ClaimConflict(th)
    <3>1. PICK th \in threads : th.call = c /\ ClaimConflict(th)
      BY <2>2
    <3>2. th.kind = "claim" /\ (Awaits(c, th) => runs[c].pc = "claiming")
      BY <3>1, AwaitedRun DEF ClaimConflict
    <3> WITNESS {th} \in SUBSET threads
    <3> QED
      BY <3>1, <3>2 DEF ClaimConflict
  <2> QED
    BY <2>1, <2>2
<1>3. /\ runs' \in [Calls -> Run]
      /\ \A d \in Calls : \/ runs'[d] = runs[d]
                          \/ runs'[d] = Idle /\ ~Underway(runs[d])
  BY <1>2, EndRunFacts DEF Typed, Underway
<1>4. Typed'
  BY <1>1, <1>2, <1>3 DEF Typed, RestTyped
<1>5. Quiet
  BY <1>1, <1>2, <1>3 DEF Quiet, RestTyped
<1>6. Handed
  BY <1>1, <1>2, <1>3 DEF Handed, RestTyped
<1>7. ReleasesPending'
  BY <1>2, <1>3, RunShapes DEF ReleasesPending
<1> QED
  BY <1>4, <1>5, <1>6, <1>7

\* release() removes the row of its run, or fails to and says so.
LEMMA ReleaseEnds ==
    ASSUME Typed, Numbered, RowsOwned, ReleasesPending, NEW th \in threads,
           Release(th) \/ ReleaseFails(th)
    PROVE  Typed' /\ Quiet /\ Handed /\ ReleasesPending'
<1> DEFINE c == th.call
           t == Task(c)
<1>0. /\ c \in Calls /\ t \in Tasks /\ th.n \in RunNumbers /\ th.n # 0
      /\ Awaits(c, th) => runs[c].n = th.n /\ runs[c].pc = "releasing"
      /\ th.kind = "release"
  BY AwaitedRun DEF Release, ReleaseFails
<1>1. /\ UNCHANGED <<admitted, closed, outcome, recorded, granted, observed>>
      /\ threads' = threads \ {th}
      /\ IF Awaits(c, th) THEN EndRun(c) ELSE UNCHANGED runs
  BY DEF Release, ReleaseFails, ReleaseReturns, adapterVars, databaseVars
<1>2. /\ runs' \in [Calls -> Run]
      /\ \A d \in Calls : \/ runs'[d] = runs[d]
                          \/ runs'[d] = Idle /\ d = c /\ Awaits(c, th)
  BY <1>0, <1>1, EndRunFacts DEF Typed
<1>3. /\ lease' \in [Tasks -> [n : 0 .. MaxRuns, live : BOOLEAN]]
      /\ \A u \in Tasks : lease'[u] = lease[u] \/ lease'[u] = NoLease
      /\ th.n \in lost' \/ \A u \in Tasks : lease'[u].n # th.n
      /\ lost \subseteq lost' /\ lost' \subseteq RunNumbers
  <2>1. CASE Release(th)
    <3>1. /\ lease' = [lease EXCEPT ![t] =
                          IF lease[t].n = th.n THEN NoLease ELSE lease[t]]
          /\ lost' = lost
      BY <2>1 DEF Release, Released
    <3>2. NoLease \in [n : 0 .. MaxRuns, live : BOOLEAN]
      BY AgentBounds DEF NoLease
    <3>3. \A u \in Tasks : lease[u].n = th.n => u = t
      BY DEF RowsOwned
    <3> QED
      BY <1>0, <3>1, <3>2, <3>3, NoLeaseFields DEF Typed
  <2>2. CASE ReleaseFails(th)
    BY <1>0, <2>2 DEF ReleaseFails, databaseVars, Typed
  <2> QED
    BY <2>1, <2>2
<1>4. Typed'
  BY <1>1, <1>2, <1>3 DEF Typed
<1>5. Quiet
  BY <1>1, <1>2, <1>3 DEF Quiet
<1>6. Handed
  BY <1>0, <1>1, <1>2, <1>3, NoLeaseFields DEF Handed
<1>7. ReleasesPending'
  <2> SUFFICES ASSUME NEW d \in Calls, runs'[d].pc = "releasing"
               PROVE  \E tk \in threads' : tk.kind = "release" /\ tk.n = runs'[d].n
    BY DEF ReleasesPending
  <2>1. runs'[d] = runs[d]
    BY <1>2, RunShapes
  <2>2. PICK tk \in threads : tk.kind = "release" /\ tk.n = runs[d].n
    BY <2>1 DEF ReleasesPending
  <2>3. tk # th
    <3> SUFFICES ASSUME tk = th PROVE FALSE
      OBVIOUS
    <3>1. d = c
      BY <2>2 DEF Numbered
    <3>2. AwaitedKind("releasing") = "release"
      BY AwaitedKinds DEF RunStates
    <3>3. Awaits(c, th)
      BY <2>1, <2>2, <3>1, <3>2 DEF Awaits
    <3>4. runs'[c] = Idle
      BY <1>0, <1>1, <3>3, EndRunFacts
    <3> QED
      BY <3>1, <3>4, RunShapes
  <2> QED
    BY <1>1, <2>1, <2>2, <2>3
<1> QED
  BY <1>4, <1>5, <1>6, <1>7

\* Where an interrupted run goes.
LEMMA InterruptedFacts ==
    ASSUME NEW run \in Run
    PROVE  /\ Interrupted(run) \in Run
           /\ \/ /\ Interrupted(run) = Idle
                 /\ run.pc \in {"idle", "waiting", "claiming", "claimed",
                                "releasing"}
              \/ /\ Interrupted(run).pc \in {"aborting", "releasing"}
                 /\ Interrupted(run).n = run.n
                 /\ Seen(Interrupted(run)) = {}
                 /\ Underway(run) /\ HasSlot(run)
                 /\ run.pc \notin {"claimed", "releasing"}
<1>1. run.pc \in RunStates
  BY RunFields
<1>2. CASE run.pc \in {"idle", "waiting", "claiming", "claimed", "releasing"}
  BY <1>2, RunTypes DEF Interrupted, InterruptedPc
<1>3. CASE run.pc \notin {"idle", "waiting", "claiming", "claimed", "releasing"}
  <2>1. InterruptedPc(run.pc) \in {"aborting", "releasing"}
    BY <1>3 DEF InterruptedPc
  <2>2. Interrupted(run) = LastSteps(run, InterruptedPc(run.pc))
    BY <2>1 DEF Interrupted
  <2>3. InterruptedPc(run.pc) \in RunStates
    BY <2>1 DEF RunStates
  <2> QED
    BY <1>3, <2>1, <2>2, <2>3, RunTypes, RunShapes, IdleSeen
    DEF Underway, HasSlot
<1> QED
  BY <1>2, <1>3

\* A cancellation, a timeout or aclose(): the runs of C end, abort or leave
\* for their release.
LEMMA InterruptEnds ==
    ASSUME Typed, Numbered, ReleasesPending, NEW C \in SUBSET Calls,
           closed' \in [Adapters -> {"open", "closing", "closed"}],
           Interrupt(C), UNCHANGED <<admitted, databaseVars, observed>>
    PROVE  Typed' /\ Quiet /\ Handed /\ ReleasesPending'
<1> DEFINE Leaves == {d \in C : Interrupted(runs[d]).pc = "releasing"}
           Claimed == {d \in C : runs[d].pc = "claimed"}
<1>1. PICK dropped \in SUBSET UNION {AwaitedThreads(c) : c \in C} :
        /\ runs' = [c \in Calls |->
                       IF c \in C THEN Interrupted(runs[c]) ELSE runs[c]]
        /\ threads' = (threads \ dropped) \cup {ReleaseOf(c) : c \in Leaves}
        /\ lost' = lost
               \cup {runs[c].n : c \in Claimed}
               \cup {thread.n : thread \in
                        {th \in dropped : th.kind = "release"}}
  BY DEF Interrupt
<1>2. \A th \in dropped : th \in threads /\ th.call \in C /\ Awaits(th.call, th)
  BY <1>1 DEF AwaitedThreads
<1>3. \A c \in Calls : runs[c] \in Run
  BY DEF Typed
<1>4. \A c \in C :
         /\ runs'[c] = Interrupted(runs[c]) /\ runs'[c] \in Run
         /\ \/ /\ runs'[c] = Idle
               /\ runs[c].pc \in {"idle", "waiting", "claiming", "claimed",
                                  "releasing"}
            \/ /\ runs'[c].pc \in {"aborting", "releasing"}
               /\ runs'[c].n = runs[c].n
               /\ Seen(runs'[c]) = {}
               /\ Underway(runs[c])
               /\ runs[c].pc \notin {"claimed", "releasing"}
  BY <1>1, <1>3, InterruptedFacts
<1>5. \A c \in Calls \ C : runs'[c] = runs[c]
  BY <1>1
<1>6. runs' \in [Calls -> Run]
  BY <1>1, <1>3, <1>4
<1>7. \A c \in Leaves : /\ c \in Calls /\ Underway(runs[c])
                        /\ ReleaseOf(c) \in Thread
                        /\ ReleaseOf(c).kind = "release"
                        /\ ReleaseOf(c).call = c
                        /\ ReleaseOf(c).n = runs[c].n
                        /\ ReleaseOf(c).result = NoResult
  <2> TAKE c \in Leaves
  <2>1. c \in Calls /\ runs'[c].pc = "releasing"
    BY <1>4
  <2>2. Underway(runs[c])
    BY <1>4, <2>1, RunShapes
  <2>3. runs[c].n # 0
    BY <2>1, <2>2, UnderwayNumbered DEF Underway
  <2>4. "release" \in ThreadKinds
    BY DEF ThreadKinds
  <2> QED
    BY <2>1, <2>2, <2>3, <2>4, ThreadTypes
<1>8. threads' \in SUBSET Thread
  BY <1>1, <1>7 DEF Typed
<1>9. lost \subseteq lost' /\ lost' \subseteq RunNumbers
  <2>1. \A c \in Claimed : runs[c].n \in RunNumbers
    BY UnderwayNumbered
  <2>2. \A th \in dropped : th.n \in RunNumbers
    BY <1>2, AwaitedRun
  <2> QED
    BY <1>1, <2>1, <2>2 DEF Typed
<1>10. Typed'
  BY <1>6, <1>8, <1>9 DEF Typed, databaseVars
<1>11. \A c \in Calls : runs'[c] = Idle \/ runs'[c] = runs[c] \/ Continues(c)
  <2> TAKE c \in Calls
  <2>1. CASE c \in C /\ runs'[c] # Idle
    BY <1>4, <2>1 DEF Continues, Underway, Concluded
  <2> QED
    BY <1>5, <2>1
<1>12. \A th \in threads' : th \in threads \/ Dispatched(th)
  BY <1>1, <1>7, ResultTypes DEF Dispatched
<1>13. Quiet
  BY <1>11, <1>12 DEF Quiet, databaseVars
<1>14. ASSUME NEW th \in threads, th.kind = "release"
       PROVE  th \in threads' \/ th.n \in lost'
  BY <1>1, <1>14
<1>15. ASSUME NEW c \in Calls, Underway(runs[c])
       PROVE  \/ runs'[c].n = runs[c].n /\ Underway(runs'[c])
              \/ runs[c].n \in lost'
              \/ \E th \in threads' : th.kind = "release" /\ th.n = runs[c].n
  <2>1. CASE c \notin C \/ runs'[c] # Idle
    BY <1>4, <1>5, <1>15, <2>1 DEF Underway
  <2>2. CASE c \in C /\ runs[c].pc = "claimed"
    BY <1>1, <2>2
  <2>3. CASE c \in C /\ runs[c].pc = "releasing"
    <3>1. PICK th \in threads : th.kind = "release" /\ th.n = runs[c].n
      BY <2>3 DEF ReleasesPending
    <3> QED
      BY <1>14, <3>1
  <2> QED
    BY <1>4, <1>15, <2>1, <2>2, <2>3 DEF Underway
<1>16. Handed
  BY <1>9, <1>14, <1>15 DEF Handed, databaseVars
<1>17. ReleasesPending'
  <2> SUFFICES ASSUME NEW c \in Calls, runs'[c].pc = "releasing"
               PROVE  \E th \in threads' : th.kind = "release" /\ th.n = runs'[c].n
    BY DEF ReleasesPending
  <2>1. CASE c \in C
    <3>1. c \in Leaves /\ runs'[c].n = runs[c].n
      BY <1>4, <2>1, RunShapes
    <3>2. ReleaseOf(c) \in threads'
      BY <1>1, <3>1
    <3> QED
      BY <1>7, <3>1, <3>2
  <2>2. CASE c \notin C
    <3>1. runs'[c] = runs[c]
      BY <1>5, <2>2
    <3>2. PICK th \in threads : th.kind = "release" /\ th.n = runs[c].n
      BY <3>1 DEF ReleasesPending
    <3>3. th \notin dropped
      BY <1>2, <2>2, <3>2 DEF Numbered
    <3> QED
      BY <1>1, <3>1, <3>2, <3>3
  <2> QED
    BY <2>1, <2>2
<1> QED
  BY <1>10, <1>13, <1>16, <1>17

\* A process dies: its runs and threads are lost.
LEMMA CrashEnds ==
    ASSUME Typed, Numbered, ReleasesPending, NEW a \in Adapters, Crash(a)
    PROVE  Typed' /\ Quiet /\ Handed /\ ReleasesPending'
<1> DEFINE mine == {c \in Calls : Adapter(c) = a}
<1>1. /\ runs' = [c \in Calls |-> IF c \in mine THEN Idle ELSE runs[c]]
      /\ closed' = [closed EXCEPT ![a] = "open"]
      /\ threads' = {thread \in threads : thread.call \notin mine}
      /\ lost' = lost \cup ({runs[c].n : c \in mine} \ {0})
                      \cup {thread.n : thread \in threads \ threads'}
      /\ UNCHANGED <<admitted, databaseVars, observed>>
  BY DEF Crash
<1>2. /\ \A c \in mine : runs'[c] = Idle
      /\ \A c \in Calls \ mine : runs'[c] = runs[c]
      /\ runs' \in [Calls -> Run]
  BY <1>1, RunTypes DEF Typed
<1>3. lost \subseteq lost' /\ lost' \subseteq RunNumbers
  <2>1. \A c \in Calls : runs[c].n # 0 => runs[c].n \in RunNumbers
    BY UnderwayNumbered DEF Numbered
  <2>2. \A th \in threads : th.n \in RunNumbers
    BY AwaitedRun
  <2> QED
    BY <1>1, <2>1, <2>2 DEF Typed
<1>4. Typed'
  BY <1>1, <1>2, <1>3 DEF Typed, databaseVars
<1>5. Quiet
  BY <1>1, <1>2 DEF Quiet, databaseVars
<1>6. \A c \in Calls : Underway(runs[c]) =>
         runs[c].n \in lost' \/ runs'[c] = runs[c]
  BY <1>1, <1>2, UnderwayNumbered DEF Underway
<1>7. \A th \in threads : th \in threads' \/ th.n \in lost'
  BY <1>1
<1>8. Handed
  BY <1>1, <1>3, <1>6, <1>7 DEF Handed, databaseVars
<1>9. ReleasesPending'
  <2> SUFFICES ASSUME NEW c \in Calls, runs'[c].pc = "releasing"
               PROVE  \E th \in threads' : th.kind = "release" /\ th.n = runs'[c].n
    BY DEF ReleasesPending
  <2>1. c \notin mine /\ runs'[c] = runs[c]
    BY <1>2, RunShapes
  <2>2. PICK th \in threads : th.kind = "release" /\ th.n = runs[c].n
    BY <2>1 DEF ReleasesPending
  <2>3. th.call = c
    BY <2>2 DEF Numbered
  <2>4. th \in threads'
    BY <1>1, <2>1, <2>3
  <2> QED
    BY <2>1, <2>2, <2>4
<1> QED
  BY <1>4, <1>5, <1>8, <1>9

-----------------------------------------------------------------------------
(***************************************************************************)
(* Steps that number runs and grant leases                                 *)
(***************************************************************************)
\* run() is called: the new number is nobody's.
LEMMA AdmitStep ==
    ASSUME AgentInv, NEW c \in Calls, Admit(c)
    PROVE  /\ Typed' /\ Numbered' /\ ClaimsFresh' /\ RowsOwned'
           /\ ReleasesPending' /\ LeaseReturned' /\ Shown' /\ Resulted'
<1> USE DEF AgentInv
<1> DEFINE new == [Idle EXCEPT !.pc = "waiting", !.n = admitted + 1]
<1>0. admitted \in Nat /\ admitted + 1 \in 0 .. MaxRuns
  BY AgentBounds DEF Admit, Typed
<1>1. /\ UNCHANGED <<slots, closed, threads, databaseVars, observed, lost>>
      /\ admitted' = admitted + 1 /\ runs' = [runs EXCEPT ![c] = new]
      /\ runs[c].pc = "idle"
  BY DEF Admit
<1>2. new \in Run
  <2> DEFINE Table == BoundedSeq(Evidence, MaxEvidence)
  <2>1. Run = [pc : RunStates, n : 0 .. MaxRuns, evidence : Table,
               failure : BOOLEAN, result : Result]
    BY DEF Run
  <2> HIDE DEF Table
  <2>2. Idle \in Run /\ "waiting" \in RunStates
    BY RunTypes DEF RunStates
  <2> QED
    BY <1>0, <2>1, <2>2
<1>3. /\ new.pc = "waiting" /\ new.n = admitted + 1
      /\ new.evidence = <<>> /\ new.result = NoResult
  BY DEF Idle
<1> HIDE DEF new
<1>4. /\ runs' \in [Calls -> Run] /\ runs'[c] = new
      /\ \A d \in Calls : d # c => runs'[d] = runs[d]
  BY <1>1, <1>2 DEF Typed
<1>5. Typed'
  BY <1>0, <1>1, <1>4 DEF Typed, databaseVars
<1>6. \A d \in Calls : runs[d].n \in Nat /\ runs[d].n <= admitted
                       /\ runs[d].n # admitted + 1
  <2>1. \A d \in Calls : runs[d] \in Run
    BY DEF Typed
  <2>2. \A d \in Calls : runs[d].n \in 0 .. MaxRuns
    BY <2>1, RunFields
  <2>3. \A d \in Calls : runs[d].n <= admitted
    BY DEF Numbered
  <2>4. \A d \in Calls : runs[d].n \in Nat
    BY <2>2
  <2> QED
    BY <1>0, <2>3, <2>4
<1>7. \A th \in threads : th.n \in Nat /\ th.n <= admitted /\ th.n # admitted + 1
  <2>1. \A th \in threads : th.n \in RunNumbers
    BY AwaitedRun
  <2>2. \A th \in threads : th.n <= admitted
    BY DEF Numbered
  <2>3. \A th \in threads : th.n \in Nat
    BY <2>1 DEF RunNumbers
  <2> QED
    BY <1>0, <2>2, <2>3
<1>8. \A t \in Tasks : /\ lease[t].n \in Nat /\ lease[t].n <= admitted
                       /\ lease[t].n # admitted + 1
  <2>1. \A t \in Tasks : lease[t].n \in Nat
    BY DEF Typed
  <2>2. \A t \in Tasks : lease[t].n <= admitted
    BY DEF RowsOwned
  <2> QED
    BY <1>0, <2>1, <2>2
<1>9. \A t \in Tasks : \A n \in granted[t] :
         n \in Nat /\ n <= admitted /\ n # admitted + 1
  <2>1. \A t \in Tasks : \A n \in granted[t] : n \in Nat
    BY DEF Typed, RunNumbers
  <2>2. \A t \in Tasks : \A n \in granted[t] : n <= admitted
    BY DEF ClaimsFresh
  <2> QED
    BY <1>0, <2>1, <2>2
<1>10. \A n \in Nat : n <= admitted => n <= admitted + 1
  BY <1>0
<1>11. admitted + 1 # 0 /\ admitted + 1 <= admitted + 1
  BY <1>0
<1>12. /\ threads' = threads /\ lease' = lease /\ granted' = granted
       /\ observed' = observed /\ lost' = lost
  BY <1>1 DEF databaseVars
<1>13. Numbered'
  <2>1. \A d \in Calls : /\ runs'[d].n <= admitted'
                         /\ runs'[d].pc = "idle" <=> runs'[d].n = 0
    BY <1>1, <1>3, <1>4, <1>6, <1>10, <1>11 DEF Numbered
  <2>2. \A d, e \in Calls : runs'[d].n = runs'[e].n => d = e \/ runs'[d].n = 0
    BY <1>3, <1>4, <1>6 DEF Numbered
  <2>3. \A th \in threads' : th.n <= admitted'
    BY <1>1, <1>7, <1>10, <1>12
  <2>4. \A th \in threads', d \in Calls : th.n = runs'[d].n => th.call = d
    BY <1>3, <1>4, <1>7, <1>12 DEF Numbered
  <2>5. \A th, tk \in threads' : th.n = tk.n => th.call = tk.call
    BY <1>12 DEF Numbered
  <2> QED
    BY <2>1, <2>2, <2>3, <2>4, <2>5 DEF Numbered
<1>14. ClaimsFresh'
  <2>1. \A t \in Tasks : \A n \in granted'[t] : n <= admitted'
    BY <1>1, <1>9, <1>10, <1>12
  <2>2. \A d \in Calls : runs'[d].pc = "waiting" =>
          /\ \A th \in threads' : th.n # runs'[d].n
          /\ \A t \in Tasks : runs'[d].n \notin granted'[t]
    BY <1>3, <1>4, <1>7, <1>9, <1>12 DEF ClaimsFresh
  <2> QED
    BY <1>12, <2>1, <2>2 DEF ClaimsFresh
<1>15. RowsOwned'
  <2>1. \A t \in Tasks : lease'[t].n <= admitted' /\ (lease'[t].live => lease'[t].n # 0)
    BY <1>1, <1>8, <1>10, <1>12 DEF RowsOwned
  <2>2. \A t \in Tasks : \A d \in Calls :
           lease'[t].n = runs'[d].n => lease'[t].n = 0 \/ Task(d) = t
    BY <1>3, <1>4, <1>8, <1>12 DEF RowsOwned
  <2> QED
    BY <1>12, <2>1, <2>2 DEF RowsOwned
<1>16. ReleasesPending'
  BY <1>3, <1>4, <1>12 DEF ReleasesPending
<1>17. LeaseReturned'
  <2>1. Handed
    BY <1>1, <1>4, <1>12 DEF Handed, Underway
  <2> QED
    BY <2>1, HandedLeaseReturned
<1>18. Shown' /\ Resulted'
  <2>1. Seen(new) = {} /\ ~Concluded(new)
    <3>1. ToSet(<<>>) = {}
      BY DEF ToSet
    <3> QED
      BY <1>3, <3>1, ResultTypes DEF Seen, Concluded
  <2>2. Shown'
    BY <1>4, <1>12, <2>1 DEF Shown
  <2> QED
    BY <1>4, <1>12, <2>1, <2>2 DEF Resulted
<1> QED
  BY <1>5, <1>13, <1>14, <1>15, <1>16, <1>17, <1>18

\* The semaphore lets a run go on to its first and only claim.
LEMMA AcquireStep ==
    ASSUME AgentInv, NEW c \in Calls, Acquire(c)
    PROVE  /\ Typed' /\ Numbered' /\ ClaimsFresh' /\ RowsOwned'
           /\ ReleasesPending' /\ LeaseReturned' /\ Shown' /\ Resulted'
<1> USE DEF AgentInv
<1> DEFINE claim == ThreadOf("claim", c)
<1>1. /\ UNCHANGED <<adapterVars, databaseVars, observed, lost>>
      /\ threads' = threads \cup {claim} /\ Goes(c, "claiming")
      /\ runs[c].pc = "waiting"
  BY DEF Acquire, FirstWaiter
<1>2. /\ runs' \in [Calls -> Run]
      /\ \A d \in Calls : d # c => runs'[d] = runs[d]
      /\ runs'[c].pc = "claiming" /\ runs'[c].n = runs[c].n
      /\ runs'[c].result = runs[c].result
      /\ Seen(runs'[c]) = Seen(runs[c])
  BY <1>1, GoesFacts DEF RunStates
<1>3. runs[c].n # 0 /\ runs[c].n \in RunNumbers
  BY <1>1, UnderwayNumbered
<1>4. /\ claim \in Thread /\ claim.kind = "claim" /\ claim.call = c
      /\ claim.n = runs[c].n /\ claim.result = runs[c].result
  BY <1>3, ThreadTypes DEF ThreadKinds
<1> HIDE DEF claim
<1>5. /\ admitted' = admitted /\ lease' = lease /\ granted' = granted
      /\ observed' = observed /\ lost' = lost
  BY <1>1 DEF databaseVars, adapterVars
<1>6. Typed'
  BY <1>1, <1>2, <1>4 DEF Typed, databaseVars, adapterVars
<1>7. \A d \in Calls : /\ runs'[d].n = runs[d].n
                       /\ runs'[d].pc = "idle" <=> runs[d].pc = "idle"
                       /\ runs'[d].pc = "waiting" => d # c /\ runs[d].pc = "waiting"
                       /\ runs'[d].pc = "releasing" => runs[d].pc = "releasing"
                       /\ Underway(runs[d]) => Underway(runs'[d])
  BY <1>1, <1>2 DEF Underway
<1>8. /\ \A th \in threads : th.n # runs[c].n
      /\ \A t \in Tasks : runs[c].n \notin granted[t]
  BY <1>1 DEF ClaimsFresh
<1>9. Numbered'
  <2>1. \A th \in threads' : th.n <= admitted
    BY <1>1, <1>4 DEF Numbered
  <2>2. \A th \in threads', d \in Calls : th.n = runs[d].n => th.call = d
    BY <1>1, <1>3, <1>4 DEF Numbered
  <2>3. \A th, tk \in threads' : th.n = tk.n => th.call = tk.call
    BY <1>1, <1>4, <1>8
    DEF Numbered
  <2> QED
    BY <1>5, <1>7, <2>1, <2>2, <2>3 DEF Numbered
<1>10. ClaimsFresh'
  <2>1. \A th \in threads' : th.kind = "claim" =>
           \A t \in Tasks : th.n \notin granted[t]
    BY <1>1, <1>4, <1>8 DEF ClaimsFresh
  <2>2. \A th, tk \in threads' :
           th.kind = "claim" /\ tk.kind = "claim" /\ th.n = tk.n => th = tk
    BY <1>1, <1>4, <1>8 DEF ClaimsFresh
  <2>3. \A d \in Calls : runs'[d].pc = "waiting" =>
           \A th \in threads' : th.n # runs'[d].n
    <3> SUFFICES ASSUME NEW d \in Calls, runs'[d].pc = "waiting",
                        NEW th \in threads'
                 PROVE  th.n # runs[d].n
      BY <1>7
    <3>1. d # c /\ runs[d].pc = "waiting"
      BY <1>7
    <3>2. CASE th = claim
      BY <1>3, <1>4, <3>1, <3>2 DEF Numbered
    <3>3. CASE th \in threads
      BY <3>1, <3>3 DEF ClaimsFresh
    <3> QED
      BY <1>1, <3>2, <3>3
  <2>4. \A d \in Calls : runs'[d].pc = "waiting" =>
           \A t \in Tasks : runs'[d].n \notin granted[t]
    BY <1>7 DEF ClaimsFresh
  <2> QED
    BY <1>5, <2>1, <2>2, <2>3, <2>4 DEF ClaimsFresh
<1>11. RowsOwned'
  <2>1. \A t \in Tasks : \A th \in threads' :
           lease[t].n = th.n => Task(th.call) = t
    BY <1>1, <1>3, <1>4 DEF RowsOwned
  <2> QED
    BY <1>5, <1>7, <2>1 DEF RowsOwned
<1>12. ReleasesPending'
  BY <1>1, <1>7 DEF ReleasesPending
<1>13. LeaseReturned'
  <2>1. Handed
    BY <1>1, <1>5, <1>7 DEF Handed
  <2> QED
    BY <2>1, HandedLeaseReturned
<1>14. Shown'
  <2>1. \A d \in Calls : Seen(runs'[d]) = Seen(runs[d])
    BY <1>2
  <2>2. claim.result.cites \subseteq observed[claim.n]
    BY <1>3, <1>4 DEF Shown, Seen
  <2> QED
    BY <1>1, <1>5, <1>7, <2>1, <2>2 DEF Shown
<1>15. Resulted'
  BY <1>1, <1>2, <1>4 DEF Resulted, Concluded
<1> QED
  BY <1>6, <1>9, <1>10, <1>11, <1>12, <1>13, <1>14, <1>15

\* The transaction of claim(): the row goes to a run that never had one.
LEMMA ClaimStep ==
    ASSUME AgentInv, NEW th \in threads, Claim(th)
    PROVE  /\ Typed' /\ Numbered' /\ ClaimsFresh' /\ RowsOwned'
           /\ ReleasesPending' /\ LeaseReturned' /\ Shown' /\ Resulted'
<1> USE DEF AgentInv
<1> DEFINE c == th.call
           t == Task(c)
<1>0. /\ c \in Calls /\ t \in Tasks /\ th.n \in RunNumbers /\ th.n # 0
      /\ Awaits(c, th) => runs[c].n = th.n /\ runs[c].pc = "claiming"
  BY AwaitedRun DEF Claim
<1>1. /\ th.kind = "claim" /\ threads' = threads \ {th}
      /\ lease' = [lease EXCEPT ![t] = [n |-> th.n, live |-> TRUE]]
      /\ granted' = [granted EXCEPT ![t] = @ \cup {th.n}]
      /\ IF Awaits(c, th) THEN Goes(c, "claimed") /\ lost' = lost
                          ELSE lost' = lost \cup {th.n} /\ runs' = runs
      /\ UNCHANGED <<adapterVars, slots, outcome, recorded, observed>>
  BY DEF Claim
<1>2. /\ runs' \in [Calls -> Run]
      /\ \A d \in Calls :
            \/ runs'[d] = runs[d]
            \/ /\ d = c /\ Awaits(c, th)
               /\ runs[d].pc = "claiming" /\ runs'[d].pc = "claimed"
               /\ runs'[d].n = runs[d].n
               /\ Seen(runs'[d]) = Seen(runs[d])
      /\ Awaits(c, th) => runs'[c].pc = "claimed" /\ runs'[c].n = th.n
  <2>1. CASE Awaits(c, th)
    <3>1. Goes(c, "claimed") /\ "claimed" \in RunStates
      BY <1>1, <2>1 DEF RunStates
    <3> HIDE DEF c
    <3>2. /\ runs' \in [Calls -> Run]
          /\ \A d \in Calls : d # c => runs'[d] = runs[d]
          /\ runs'[c].pc = "claimed" /\ runs'[c].n = runs[c].n
          /\ Seen(runs'[c]) = Seen(runs[c])
      BY <1>0, <3>1, GoesFacts
    <3> QED
      BY <1>0, <2>1, <3>2
  <2>2. CASE ~Awaits(c, th)
    BY <1>1, <2>2 DEF Typed
  <2> QED
    BY <2>1, <2>2
<1>3. /\ lease'[t].n = th.n /\ lease'[t].live = TRUE
      /\ \A u \in Tasks : u # t => lease'[u] = lease[u]
      /\ lease' \in [Tasks -> [n : 0 .. MaxRuns, live : BOOLEAN]]
  <2>1. [n |-> th.n, live |-> TRUE] \in [n : 0 .. MaxRuns, live : BOOLEAN]
    BY <1>0, AgentBounds DEF RunNumbers
  <2> QED
    BY <1>0, <1>1, <2>1 DEF Typed
<1>4. /\ granted' \in [Tasks -> SUBSET RunNumbers]
      /\ \A u \in Tasks : granted'[u] \subseteq granted[u] \cup {th.n}
  BY <1>0, <1>1 DEF Typed
<1>5. lost \subseteq lost' /\ lost' \subseteq RunNumbers
  BY <1>0, <1>1 DEF Typed
<1>6. admitted' = admitted /\ observed' = observed
  BY <1>1 DEF adapterVars
<1>7. Typed'
  BY <1>1, <1>2, <1>3, <1>4, <1>5 DEF Typed, adapterVars
<1>8. \A d \in Calls : /\ runs'[d].n = runs[d].n
                       /\ runs'[d].pc = "idle" <=> runs[d].pc = "idle"
                       /\ runs'[d].pc = "waiting" => runs[d].pc = "waiting"
                       /\ runs'[d].pc = "releasing" => runs[d].pc = "releasing"
                       /\ Underway(runs[d]) => Underway(runs'[d])
                       /\ Seen(runs'[d]) = Seen(runs[d])
  BY <1>2 DEF Underway
<1>9. threads' \subseteq threads
  BY <1>1
<1>10. Numbered'
  BY <1>6, <1>8, <1>9 DEF Numbered
<1>11. ClaimsFresh'
  <2>1. \A u \in Tasks : \A n \in granted'[u] : n <= admitted
    BY <1>4 DEF ClaimsFresh, Numbered
  <2>2. \A tk \in threads' : tk.kind = "claim" =>
           \A u \in Tasks : tk.n \notin granted'[u]
    <3> SUFFICES ASSUME NEW tk \in threads', tk.kind = "claim"
                 PROVE  \A u \in Tasks : tk.n \notin granted'[u]
      OBVIOUS
    <3>1. tk \in threads /\ tk # th
      BY <1>1
    <3>2. tk.n # th.n
      BY <1>1, <3>1 DEF ClaimsFresh
    <3> QED
      BY <1>4, <3>1, <3>2 DEF ClaimsFresh
  <2>3. \A d \in Calls : runs'[d].pc = "waiting" =>
          /\ \A tk \in threads' : tk.n # runs'[d].n
          /\ \A u \in Tasks : runs'[d].n \notin granted'[u]
    <3> SUFFICES ASSUME NEW d \in Calls, runs[d].pc = "waiting"
                 PROVE  /\ \A tk \in threads' : tk.n # runs[d].n
                        /\ \A u \in Tasks : runs[d].n \notin granted'[u]
      BY <1>8
    <3>1. \A tk \in threads : tk.n # runs[d].n
      BY DEF ClaimsFresh
    <3>2. \A u \in Tasks : runs[d].n \notin granted[u]
      BY DEF ClaimsFresh
    <3> QED
      BY <1>4, <1>9, <3>1, <3>2
  <2> QED
    BY <1>6, <1>9, <2>1, <2>2, <2>3 DEF ClaimsFresh
<1>12. RowsOwned'
  <2>1. \A u \in Tasks : lease'[u].n <= admitted /\ (lease'[u].live => lease'[u].n # 0)
    BY <1>0, <1>3 DEF RowsOwned, Numbered
  <2>2. \A u \in Tasks : \A tk \in threads' : lease'[u].n = tk.n => Task(tk.call) = u
    BY <1>3, <1>9 DEF RowsOwned, Numbered
  <2>3. \A u \in Tasks : \A d \in Calls :
           lease'[u].n = runs[d].n => lease'[u].n = 0 \/ Task(d) = u
    BY <1>3 DEF RowsOwned, Numbered
  <2> QED
    BY <1>6, <1>8, <2>1, <2>2, <2>3 DEF RowsOwned
<1>13. ReleasesPending'
  BY <1>1, <1>8 DEF ReleasesPending
<1>14. LeaseReturned'
  <2> SUFFICES ASSUME NEW u \in Tasks
               PROVE  \/ lease'[u].n \in lost' \cup {0}
                      \/ \E d \in Calls :
                            /\ Task(d) = u /\ runs'[d].n = lease'[u].n
                            /\ HasLease(runs'[d]) \/ runs'[d].pc = "claimed"
                      \/ \E thread \in threads' :
                            thread.kind = "release" /\ thread.n = lease'[u].n
    BY DEF LeaseReturned, HasLease, HasSlot
  <2>1. CASE u = t
    <3>1. CASE Awaits(c, th)
      <4>1. /\ Task(c) = u /\ runs'[c].n = lease'[u].n
            /\ runs'[c].pc = "claimed"
        BY <1>2, <1>3, <2>1, <3>1
      <4> QED
        BY <1>0, <4>1
    <3>2. CASE ~Awaits(c, th)
      BY <1>1, <1>3, <2>1, <3>2
    <3> QED
      BY <3>1, <3>2
  <2>2. CASE u # t
    <3>1. lease'[u].n = lease[u].n
      BY <1>3, <2>2
    <3>2. CASE lease[u].n \in lost \cup {0}
      BY <1>5, <3>1, <3>2
    <3>3. CASE \E d \in Calls : /\ Task(d) = u /\ runs[d].n = lease[u].n
                                /\ Underway(runs[d])
      BY <1>8, <3>1, <3>3, UnderwayHolds
    <3>4. CASE \E tk \in threads : tk.kind = "release" /\ tk.n = lease[u].n
      BY <1>1, <3>1, <3>4
    <3> QED
      BY <3>2, <3>3, <3>4, UnderwayHolds DEF LeaseReturned
  <2> QED
    BY <2>1, <2>2
<1>15. Shown'
  BY <1>6, <1>8, <1>9 DEF Shown
<1>16. Resulted'
  BY <1>2, <1>9 DEF Resulted, Concluded
<1> QED
  BY <1>7, <1>10, <1>11, <1>12, <1>13, <1>14, <1>15, <1>16

-----------------------------------------------------------------------------
(***************************************************************************)
(* The invariant holds                                                     *)
(***************************************************************************)
\* What a step does to the database: nothing, a claim, an entry of a run
\* that holds the task, an expiry or a release.
LEMMA DatabaseSteps ==
    ASSUME [Next]_vars
    PROVE  \/ UNCHANGED <<lease, granted, recorded>>
           \/ \E th \in threads : Claim(th)
           \/ \E th \in threads : Writes(th) /\ MayRecord(th)
                                  /\ UNCHANGED <<lease, granted>>
           \/ \E th \in threads : Release(th)
           \/ \E t \in Tasks : Expire(t)
<1>1. CASE UNCHANGED vars
  BY <1>1 DEF vars
<1>2. ASSUME NEW c \in Calls, Admit(c) \/ AdmissionTimeout(c)
      PROVE  UNCHANGED <<lease, granted, recorded>>
  BY <1>2 DEF Admit, AdmissionTimeout, databaseVars
<1>3. ASSUME NEW c \in Calls, Step(c)
      PROVE  UNCHANGED <<lease, granted, recorded>>
  BY <1>3 DEF Step, Acquire, Configure, RejectOptions, Prepare, PrepareFails,
       Guard, GuardFails, Disconnect, DisconnectAborted, Ends, databaseVars
<1>4. ASSUME NEW c \in Calls, Agent(c)
      PROVE  UNCHANGED <<lease, granted, recorded>>
  BY <1>4 DEF Agent, ObserveKnowledge, AfterTool, RecordFinding, ReceiveResult,
       ExecutionFails, AfterToolFails, Ends, databaseVars
<1>5. ASSUME NEW c \in Calls, Cancel(c) \/ RunTimeout(c)
      PROVE  UNCHANGED <<lease, granted, recorded>>
  BY <1>5 DEF Cancel, RunTimeout, databaseVars
<1>6. ASSUME NEW a \in Adapters, Close(a) \/ CloseReturns(a) \/ Crash(a)
      PROVE  UNCHANGED <<lease, granted, recorded>>
  BY <1>6 DEF Close, CloseReturns, Crash, databaseVars
<1>7. ASSUME NEW th \in threads, Transaction(th)
      PROVE  \/ UNCHANGED <<lease, granted, recorded>>
             \/ Claim(th)
             \/ Writes(th) /\ MayRecord(th) /\ UNCHANGED <<lease, granted>>
             \/ Release(th)
  <2>1. CASE ClaimConflict(th) \/ CompleteFails(th) \/ ReleaseFails(th)
    BY <2>1 DEF ClaimConflict, CompleteFails, ReleaseFails, databaseVars
  <2>2. CASE Begin(th)
    BY <2>2 DEF Begin
  <2>3. CASE SaveFinding(th)
    BY <2>3 DEF SaveFinding
  <2>4. CASE Complete(th)
    BY <2>4 DEF Complete
  <2> QED
    BY <1>7, <2>1, <2>2, <2>3, <2>4 DEF Transaction
<1> QED
  BY <1>1, <1>2, <1>3, <1>4, <1>5, <1>6, <1>7 DEF Next, TransactionOf

\* What is recorded was shown, as long as nothing is taken back.
LEMMA EvidenceStep ==
    ASSUME Typed, Shown, EvidenceHonest, [Next]_vars,
           \A n \in RunNumbers : observed[n] \subseteq observed'[n]
    PROVE  EvidenceHonest'
<1> SUFFICES ASSUME NEW t \in Tasks, NEW entry \in recorded'[t]
             PROVE  entry[2].cites \subseteq observed'[entry[1]]
  BY DEF EvidenceHonest
<1>1. CASE entry \in recorded[t]
  <2>1. entry[1] \in RunNumbers
    BY <1>1 DEF Typed
  <2> QED
    BY <1>1, <2>1 DEF EvidenceHonest
<1>2. CASE \E th \in threads : Writes(th)
  <2>1. PICK th \in threads : Writes(th)
    BY <1>2
  <2>2. th \in Thread
    BY DEF Typed
  <2>3. entry \in recorded[t] \/ entry = <<th.n, Recorded(th)>>
    BY <2>1 DEF Writes, Typed
  <2>4. CASE entry = <<th.n, Recorded(th)>>
    <3>1. entry[1] = th.n /\ entry[2].cites = th.result.cites
      BY <2>4 DEF Recorded
    <3>2. th.n \in RunNumbers
      BY <2>2, ThreadFields
    <3> QED
      BY <3>1, <3>2 DEF Shown
  <2> QED
    BY <1>1, <2>3, <2>4
<1>3. CASE recorded' = recorded
  BY <1>1, <1>3
<1> QED
  BY <1>2, <1>3, DatabaseSteps DEF Claim, Release, Expire

\* Nobody has anything at first.
LEMMA AgentInvInit == Init => AgentInv
<1> SUFFICES ASSUME Init PROVE AgentInv
  OBVIOUS
<1>1. /\ runs = [c \in Calls |-> Idle] /\ threads = {}
      /\ lease = [t \in Tasks |-> NoLease] /\ admitted = 0 /\ lost = {}
      /\ granted = [t \in Tasks |-> {}] /\ recorded = [t \in Tasks |-> {}]
      /\ outcome = [t \in Tasks |-> "absent"]
      /\ closed = [a \in Adapters |-> "open"]
      /\ observed = [n \in RunNumbers |-> {}]
  BY DEF Init
<1>2. /\ \A c \in Calls : runs[c].pc = "idle" /\ runs[c].n = 0
                          /\ Seen(runs[c]) = {}
      /\ \A t \in Tasks : lease[t].n = 0 /\ lease[t].live = FALSE
  BY <1>1, RunShapes, IdleSeen, NoLeaseFields
<1>3. Typed
  <2>1. runs \in [Calls -> Run]
    BY <1>1, RunTypes
  <2>2. lease \in [Tasks -> [n : 0 .. MaxRuns, live : BOOLEAN]]
    BY <1>1, AgentBounds DEF NoLease
  <2>3. admitted \in 0 .. MaxRuns
    BY <1>1, AgentBounds
  <2> QED
    BY <1>1, <2>1, <2>2, <2>3 DEF Typed
<1>4. Numbered /\ RowsOwned
  BY <1>1, <1>2 DEF Numbered, RowsOwned
<1>5. ClaimsFresh /\ ReleasesPending
  BY <1>1, <1>2 DEF ClaimsFresh, ReleasesPending
<1>6. LeaseReturned /\ EvidenceHonest
  BY <1>1, <1>2 DEF LeaseReturned, EvidenceHonest
<1>7. Shown /\ Resulted
  BY <1>1, <1>2 DEF Shown, Resulted, Concluded
<1> QED
  BY <1>3, <1>4, <1>5, <1>6, <1>7 DEF AgentInv

\* Tame steps keep it.
LEMMA TameInv ==
    ASSUME AgentInv, Typed', Tame, [Next]_vars
    PROVE  AgentInv'
<1> USE DEF AgentInv
<1>1. Quiet
  BY DEF Tame
<1>2. Numbered' /\ ClaimsFresh' /\ RowsOwned'
  BY <1>1, QuietNumbered, QuietClaimsFresh, QuietRowsOwned
<1>3. Shown' /\ Resulted'
  BY <1>1, QuietShown, QuietResulted
<1>4. ReleasesPending' /\ LeaseReturned'
  BY TameReleasesPending, TameLeaseReturned
<1>5. EvidenceHonest'
  BY <1>1, EvidenceStep DEF Quiet
<1> QED
  BY <1>2, <1>3, <1>4, <1>5

\* Steps that end runs keep it.
LEMMA EndingInv ==
    ASSUME AgentInv, Typed', Quiet, Handed, ReleasesPending', [Next]_vars
    PROVE  AgentInv'
<1> USE DEF AgentInv
<1>1. Numbered' /\ ClaimsFresh' /\ RowsOwned'
  BY QuietNumbered, QuietClaimsFresh, QuietRowsOwned
<1>2. Shown' /\ Resulted'
  BY QuietShown, QuietResulted
<1>3. LeaseReturned'
  BY HandedLeaseReturned
<1>4. EvidenceHonest'
  BY EvidenceStep DEF Quiet
<1> QED
  BY <1>1, <1>2, <1>3, <1>4

\* Every step keeps it.
LEMMA AgentInvStep == AgentInv /\ [Next]_vars => AgentInv'
<1> SUFFICES ASSUME AgentInv, [Next]_vars PROVE AgentInv'
  OBVIOUS
<1>0. Typed /\ Numbered /\ RowsOwned /\ ReleasesPending /\ Resulted /\ Shown
      /\ EvidenceHonest
  BY DEF AgentInv
<1>1. CASE UNCHANGED vars
  BY <1>1 DEF vars, AgentInv, Typed, Numbered, ClaimsFresh, RowsOwned,
       ReleasesPending, LeaseReturned, Shown, EvidenceHonest, Resulted
<1>2. ASSUME NEW c \in Calls, Admit(c) \/ Acquire(c)
      PROVE  AgentInv'
  <2>1. /\ Typed' /\ Numbered' /\ ClaimsFresh' /\ RowsOwned'
        /\ ReleasesPending' /\ LeaseReturned' /\ Shown' /\ Resulted'
    BY <1>2, AdmitStep, AcquireStep
  <2>2. observed' = observed
    BY <1>2 DEF Admit, Acquire
  <2>3. EvidenceHonest'
    BY <1>0, <2>2, EvidenceStep
  <2> QED
    BY <2>1, <2>3 DEF AgentInv
<1>3. ASSUME NEW c \in Calls,
             \/ Configure(c) \/ RejectOptions(c)
             \/ Prepare(c) \/ PrepareFails(c)
             \/ Guard(c) \/ GuardFails(c)
             \/ Disconnect(c) \/ DisconnectAborted(c)
             \/ Agent(c)
      PROVE  AgentInv'
  BY <1>0, <1>3, StepTame, AgentTame, TameInv
<1>4. ASSUME NEW c \in Calls, AdmissionTimeout(c)
      PROVE  AgentInv'
  BY <1>0, <1>4, TimeoutOrConflict, EndingInv
<1>5. ASSUME NEW c \in Calls, NEW th \in threads, th.call = c, Transaction(th)
      PROVE  AgentInv'
  <2>1. CASE Claim(th)
    <3>1. /\ Typed' /\ Numbered' /\ ClaimsFresh' /\ RowsOwned'
          /\ ReleasesPending' /\ LeaseReturned' /\ Shown' /\ Resulted'
      BY <2>1, ClaimStep
    <3>2. EvidenceHonest'
      BY <1>0, <2>1, EvidenceStep DEF Claim
    <3> QED
      BY <3>1, <3>2 DEF AgentInv
  <2>2. CASE ClaimConflict(th)
    BY <1>0, <1>5, <2>2, TimeoutOrConflict, EndingInv
  <2>3. CASE Begin(th) \/ SaveFinding(th) \/ Complete(th) \/ CompleteFails(th)
    BY <1>0, <2>3, TransactionTame, TameInv
  <2>4. CASE Release(th) \/ ReleaseFails(th)
    BY <1>0, <2>4, ReleaseEnds, EndingInv
  <2> QED
    BY <1>5, <2>1, <2>2, <2>3, <2>4 DEF Transaction
<1>6. ASSUME NEW c \in Calls, Cancel(c) \/ RunTimeout(c)
      PROVE  AgentInv'
  <2>1. /\ Interrupt({c}) /\ UNCHANGED <<admitted, databaseVars, observed>>
        /\ closed' = closed
    BY <1>6 DEF Cancel, RunTimeout, adapterVars
  <2>2. closed' \in [Adapters -> {"open", "closing", "closed"}]
    BY <1>0, <2>1 DEF Typed
  <2>3. {c} \in SUBSET Calls
    OBVIOUS
  <2> QED
    BY <1>0, <2>1, <2>2, <2>3, InterruptEnds, EndingInv
<1>7. ASSUME NEW a \in Adapters, Close(a)
      PROVE  AgentInv'
  <2>1. /\ Interrupt(AdmittedRuns(a))
        /\ UNCHANGED <<admitted, databaseVars, observed>>
    BY <1>7 DEF Close
  <2>2. closed' \in [Adapters -> {"open", "closing", "closed"}]
    BY <1>0, <1>7 DEF Close, Typed
  <2>3. AdmittedRuns(a) \in SUBSET Calls
    BY DEF AdmittedRuns
  <2> QED
    BY <1>0, <2>1, <2>2, <2>3, InterruptEnds, EndingInv
<1>8. ASSUME NEW a \in Adapters, Crash(a)
      PROVE  AgentInv'
  BY <1>0, <1>8, CrashEnds, EndingInv
<1>9. CASE (\E a \in Adapters : CloseReturns(a)) \/ (\E t \in Tasks : Expire(t))
  BY <1>0, <1>9, TimeTame, TameInv
<1> QED
  BY <1>1, <1>2, <1>3, <1>4, <1>5, <1>6, <1>7, <1>8, <1>9
  DEF Next, Step, TransactionOf

\* The inductive invariant, for any number of adapters, tasks and runs.
THEOREM AgentInvariant == Spec => []AgentInv
BY AgentInvInit, AgentInvStep, PTL DEF Spec

\* No row of memory_agent_leases is abandoned but by a crash, a failed
\* release or a run cancelled while claim() was inserting it.
THEOREM LeasesAreReturned == Spec => []LeaseReturned
<1>1. AgentInv => LeaseReturned
  BY DEF AgentInv
<1> QED
  BY <1>1, AgentInvariant, PTL

\* What is recorded of a task cites what the run that recorded it was shown.
THEOREM EvidenceIsHonest == Spec => []EvidenceHonest
<1>1. AgentInv => EvidenceHonest
  BY DEF AgentInv
<1> QED
  BY <1>1, AgentInvariant, PTL

-----------------------------------------------------------------------------
(***************************************************************************)
(* AgentRuns implements TaskExclusion                                      *)
(***************************************************************************)
\* The holder of a task as TaskExclusion sees it.
Holder == [t \in Tasks |-> IF lease[t].live THEN lease[t].n ELSE 0]

\* At first nobody holds anything.
LEMMA ExclusionInit == Init => Exclusion!Init
BY DEF Init, Exclusion!Init, NoLease

\* A claim grants, an entry is recorded by the holder, an expiry or a release
\* withdraws, and every other step stutters.
LEMMA ExclusionStep ==
    ASSUME AgentInv, [Next]_vars
    PROVE  [Exclusion!Next]_(Exclusion!vars)
<1>0. Typed /\ Numbered /\ ClaimsFresh /\ RowsOwned
  BY DEF AgentInv
<1>1. CASE UNCHANGED <<lease, granted, recorded>>
  BY <1>1 DEF Exclusion!vars
<1>2. ASSUME NEW th \in threads, Claim(th)
      PROVE  Exclusion!Next
  <2> DEFINE t == Task(th.call)
  <2>1. t \in Tasks /\ th.n \in RunNumbers
    BY <1>0, AwaitedRun
  <2>2. /\ lease' = [lease EXCEPT ![t] = [n |-> th.n, live |-> TRUE]]
        /\ granted' = [granted EXCEPT ![t] = @ \cup {th.n}]
        /\ recorded' = recorded /\ ~lease[t].live /\ th.kind = "claim"
    BY <1>2 DEF Claim, Free
  <2>3. th.n \notin granted[t]
    BY <1>0, <2>1, <2>2 DEF ClaimsFresh
  <2> HIDE DEF t
  <2>4. /\ lease'[t].live /\ lease'[t].n = th.n
        /\ \A u \in Tasks : u # t => lease'[u] = lease[u]
    BY <1>0, <2>1, <2>2 DEF Typed
  <2>5. Holder[t] = 0
    BY <2>1, <2>2 DEF Holder
  <2>6. Holder' = [Holder EXCEPT ![t] = th.n]
    BY <2>1, <2>4 DEF Holder
  <2>7. Exclusion!Grant(t, th.n)
    BY <2>2, <2>3, <2>5, <2>6 DEF Exclusion!Grant, Holder
  <2> QED
    BY <2>1, <2>7 DEF Exclusion!Next
<1>3. ASSUME NEW th \in threads, Writes(th), MayRecord(th),
             UNCHANGED <<lease, granted>>
      PROVE  Exclusion!Next
  <2> DEFINE t == Task(th.call)
             Records == [kind : {"none", "succeeded", "failed"},
                         cites : SUBSET Evidence]
  <2>1. t \in Tasks /\ th.n # 0 /\ th \in Thread
    BY <1>0, AwaitedRun
  <2>2. recorded' = [recorded EXCEPT ![t] = {<<th.n, Recorded(th)>>}]
    BY <1>3 DEF Writes
  <2>3. Holder[t] = th.n
    BY <1>3, <2>1 DEF MayRecord, Check, Holder
  <2>4. Recorded(th) \in Records
    BY <2>1, ThreadFields DEF Recorded, Result
  <2> HIDE DEF t, Records
  <2>5. Exclusion!Record(t, Recorded(th))
    BY <1>3, <2>1, <2>2, <2>3 DEF Exclusion!Record, Holder
  <2> QED
    BY <2>1, <2>4, <2>5 DEF Exclusion!Next, Records
<1>4. ASSUME NEW t \in Tasks,
             lease[t].live => lease[t].n # 0,
             \/ lease' = lease
             \/ lease' = [lease EXCEPT ![t].live = FALSE]
             \/ lease' = [lease EXCEPT ![t] = NoLease],
             UNCHANGED <<granted, recorded>>
      PROVE  Exclusion!Withdraw(t) \/ UNCHANGED Exclusion!vars
  <2>1. /\ lease' = lease \/ ~lease'[t].live
        /\ \A u \in Tasks : u # t => lease'[u] = lease[u]
    BY <1>0, <1>4, NoLeaseFields DEF Typed
  <2>2. CASE lease' = lease \/ ~lease[t].live
    <3>1. Holder' = Holder
      BY <2>1, <2>2 DEF Holder
    <3> QED
      BY <1>4, <3>1 DEF Exclusion!vars, Holder
  <2>3. CASE lease' # lease /\ lease[t].live
    <3>1. Holder[t] # 0 /\ Holder' = [Holder EXCEPT ![t] = 0]
      BY <1>4, <2>1, <2>3 DEF Holder
    <3> QED
      BY <1>4, <3>1 DEF Exclusion!Withdraw, Holder
  <2> QED
    BY <2>2, <2>3
<1>5. ASSUME NEW th \in threads, Release(th)
      PROVE  Exclusion!Next \/ UNCHANGED Exclusion!vars
  <2> DEFINE t == Task(th.call)
  <2>1. t \in Tasks /\ (lease[t].live => lease[t].n # 0)
    BY <1>0, AwaitedRun DEF RowsOwned
  <2>2. lease' = lease \/ lease' = [lease EXCEPT ![t] = NoLease]
    BY <1>0, <1>5, <2>1 DEF Release, Released, Typed
  <2>3. UNCHANGED <<granted, recorded>>
    BY <1>5 DEF Release
  <2> HIDE DEF t
  <2>4. Exclusion!Withdraw(t) \/ UNCHANGED Exclusion!vars
    BY <1>4, <2>1, <2>2, <2>3
  <2> QED
    BY <2>1, <2>4 DEF Exclusion!Next
<1>6. ASSUME NEW t \in Tasks, Expire(t)
      PROVE  Exclusion!Next \/ UNCHANGED Exclusion!vars
  <2>1. /\ lease' = [lease EXCEPT ![t].live = FALSE]
        /\ UNCHANGED <<granted, recorded>>
        /\ lease[t].live => lease[t].n # 0
    BY <1>0, <1>6 DEF Expire, RowsOwned
  <2>2. Exclusion!Withdraw(t) \/ UNCHANGED Exclusion!vars
    BY <1>4, <2>1
  <2> QED
    BY <2>2 DEF Exclusion!Next
<1> QED
  BY <1>1, <1>2, <1>3, <1>5, <1>6, DatabaseSteps

\* Leases exclude: a task has one holder at a time, no run holds a task
\* twice, and only the holder records anything of it.
THEOREM LeasesExclude == Spec => ExclusionSpec
<1>1. Init => Exclusion!Init
  BY ExclusionInit
<1>2. AgentInv /\ [Next]_vars => [Exclusion!Next]_(Exclusion!vars)
  BY ExclusionStep
<1> QED
  BY <1>1, <1>2, AgentInvariant, PTL DEF Spec, ExclusionSpec, Exclusion!Spec

-----------------------------------------------------------------------------
(***************************************************************************)
(* Permits                                                                 *)
(***************************************************************************)
\* The runs that hold a permit of an adapter.
Holding(a) == {c \in Calls : Adapter(c) = a /\ HasSlot(runs[c])}

\* The permits of an adapter are free or held, by one of its admitted runs,
\* of which there are finitely many.
Balanced(a) ==
    /\ slots[a] \in Nat
    /\ IsFiniteSet(AdmittedRuns(a))
    /\ slots[a] + Cardinality(Holding(a)) = MaxConcurrent

\* ... of every adapter.
SlotsInv ==
    /\ slots \in [Adapters -> Nat]
    /\ \A a \in Adapters : Balanced(a)

\* Who holds a permit is admitted.
LEMMA HoldingAdmitted ==
    ASSUME NEW a
    PROVE  /\ Holding(a) \subseteq AdmittedRuns(a)
           /\ Holding(a) = {c \in AdmittedRuns(a) : HasSlot(runs[c])}
BY DEF Holding, AdmittedRuns, HasSlot

\* Permits balance when as many come back as runs stop holding one.
LEMMA BalancedOfReturned ==
    ASSUME NEW a \in Adapters, Balanced(a), NEW gone \in SUBSET Holding(a),
           AdmittedRuns(a)' \subseteq AdmittedRuns(a),
           Holding(a)' = Holding(a) \ gone,
           slots'[a] = slots[a] + Cardinality(gone)
    PROVE  Balanced(a)'
<1> DEFINE held == Cardinality(Holding(a))
           back == Cardinality(gone)
<1>1. IsFiniteSet(Holding(a))
  BY HoldingAdmitted, FS_Subset DEF Balanced
<1>2. IsFiniteSet(gone) /\ back \in Nat /\ held \in Nat
  BY <1>1, FS_Subset, FS_CardinalityType
<1>3. Holding(a) \cap gone = gone
  OBVIOUS
<1>4. Cardinality(Holding(a) \ gone) = held - back
  <2>1. Cardinality(Holding(a) \ gone)
           = held - Cardinality(Holding(a) \cap gone)
    BY <1>1, FS_Difference
  <2> QED
    BY <1>3, <2>1
<1>5. IsFiniteSet(AdmittedRuns(a)')
  BY FS_Subset DEF Balanced
<1>6. slots[a] \in Nat /\ slots[a] + held = MaxConcurrent
  BY DEF Balanced
<1> HIDE DEF held, back
<1>7. slots'[a] = slots[a] + back
  BY DEF back
<1>8. slots'[a] \in Nat
  BY <1>2, <1>6, <1>7
<1>9. slots'[a] + (held - back) = MaxConcurrent
  BY <1>2, <1>6, <1>7
<1>10. Cardinality(Holding(a)') = held - back
  BY <1>4 DEF held, back
<1>11. slots'[a] + Cardinality(Holding(a)') = MaxConcurrent
  BY <1>9, <1>10
<1> QED
  BY <1>5, <1>8, <1>11 DEF Balanced

\* Permits are left alone by steps in which nobody takes or returns one.
LEMMA SlotsStill ==
    ASSUME SlotsInv, slots' = slots,
           \A c \in Calls : /\ HasSlot(runs'[c]) <=> HasSlot(runs[c])
                            /\ runs'[c].pc # "idle" => runs[c].pc # "idle"
    PROVE  SlotsInv'
<1>1. ASSUME NEW a \in Adapters
      PROVE  Balanced(a)'
  <2>1. AdmittedRuns(a)' \subseteq AdmittedRuns(a)
    BY DEF AdmittedRuns, Adapter
  <2>2. Holding(a)' = Holding(a) \ {}
    BY DEF Holding, Adapter
  <2>3. slots'[a] = slots[a] + Cardinality({})
    BY FS_EmptySet DEF SlotsInv
  <2>4. Balanced(a) /\ {} \in SUBSET Holding(a)
    BY DEF SlotsInv
  <2> QED
    BY <2>1, <2>2, <2>3, <2>4, BalancedOfReturned
<1> QED
  BY <1>1 DEF SlotsInv

\* Tame steps do.
LEMMA TameSlots ==
    ASSUME SlotsInv, Tame
    PROVE  SlotsInv'
<1>1. \A c \in Calls : /\ HasSlot(runs'[c]) <=> HasSlot(runs[c])
                       /\ runs'[c].pc # "idle" => runs[c].pc # "idle"
  BY DEF Tame, Continues, Underway, HasSlot
<1> QED
  BY <1>1, SlotsStill DEF Tame

\* Permits balance when every run that stops holding one returns it: the
\* adapters' runs in _gone_ do.
LEMMA SlotsReturned ==
    ASSUME SlotsInv, NEW gone \in SUBSET Calls,
           slots' \in [Adapters -> Nat],
           \A c \in Calls : runs'[c].pc # "idle" => runs[c].pc # "idle",
           \A c \in gone : HasSlot(runs[c]) /\ ~HasSlot(runs'[c]),
           \A c \in Calls \ gone : HasSlot(runs'[c]) <=> HasSlot(runs[c]),
           \A a \in Adapters : slots'[a] = slots[a] +
                                  Cardinality({c \in gone : Adapter(c) = a})
    PROVE  SlotsInv'
<1>1. ASSUME NEW a \in Adapters
      PROVE  Balanced(a)'
  <2> DEFINE back == {c \in gone : Adapter(c) = a}
  <2>1. AdmittedRuns(a)' \subseteq AdmittedRuns(a)
    BY DEF AdmittedRuns, Adapter
  <2>2. Holding(a)' = Holding(a) \ back
    BY DEF Holding, Adapter
  <2>3. slots'[a] = slots[a] + Cardinality(back)
    OBVIOUS
  <2>4. Balanced(a) /\ back \in SUBSET Holding(a)
    BY DEF SlotsInv, Holding
  <2> HIDE DEF back
  <2> QED
    BY <2>1, <2>2, <2>3, <2>4, BalancedOfReturned
<1> QED
  BY <1>1 DEF SlotsInv

\* A run that ends returns its permit if it has one.
LEMMA EndRunSlots ==
    ASSUME Typed, SlotsInv, NEW c \in Calls, EndRun(c)
    PROVE  SlotsInv'
<1> DEFINE gone == {d \in {c} : HasSlot(runs[d])}
<1>0. Adapter(c) \in Adapters
  BY CallParts
<1>1. /\ runs'[c] = Idle /\ ~HasSlot(Idle)
      /\ \A d \in Calls : d # c => runs'[d] = runs[d]
  BY EndRunFacts, RunShapes DEF HasSlot
<1>2. slots' = [slots EXCEPT ![Adapter(c)] =
                   IF HasSlot(runs[c]) THEN @ + 1 ELSE @]
  BY DEF EndRun
<1>3. slots \in [Adapters -> Nat]
  BY DEF SlotsInv
<1>4. slots' \in [Adapters -> Nat]
  BY <1>0, <1>2, <1>3
<1>5. ASSUME NEW a \in Adapters
      PROVE  slots'[a] = slots[a] + Cardinality({d \in gone : Adapter(d) = a})
  <2>0. slots[a] \in Nat
    BY <1>3
  <2>1. CASE HasSlot(runs[c]) /\ a = Adapter(c)
    <3>1. {d \in gone : Adapter(d) = a} = {c}
      BY <2>1
    <3>2. Cardinality({c}) = 1
      BY FS_Singleton
    <3>3. slots'[a] = slots[a] + 1
      BY <1>0, <1>2, <1>3, <2>1
    <3> QED
      BY <3>1, <3>2, <3>3
  <2>2. CASE ~(HasSlot(runs[c]) /\ a = Adapter(c))
    <3>1. {d \in gone : Adapter(d) = a} = {}
      BY <2>2
    <3>2. Cardinality({}) = 0
      BY FS_EmptySet
    <3>3. slots'[a] = slots[a]
      BY <1>2, <1>3, <2>2
    <3> QED
      BY <2>0, <3>1, <3>2, <3>3
  <2> QED
    BY <2>1, <2>2
<1>6. /\ gone \in SUBSET Calls
      /\ \A d \in Calls : runs'[d].pc # "idle" => runs[d].pc # "idle"
      /\ \A d \in gone : HasSlot(runs[d]) /\ ~HasSlot(runs'[d])
      /\ \A d \in Calls \ gone : HasSlot(runs'[d]) <=> HasSlot(runs[d])
  BY <1>1, RunShapes
<1> HIDE DEF gone
<1> QED
  BY <1>4, <1>5, <1>6, SlotsReturned

\* So do the runs that an interruption ends.
LEMMA InterruptSlots ==
    ASSUME Typed, SlotsInv, NEW C \in SUBSET Calls, Interrupt(C)
    PROVE  SlotsInv'
<1> DEFINE gone == {c \in C : HasSlot(runs[c]) /\ Interrupted(runs[c]) = Idle}
           Back(a) == {c \in C : /\ Adapter(c) = a
                                 /\ HasSlot(runs[c])
                                 /\ Interrupted(runs[c]) = Idle}
<1>1. /\ runs' = [c \in Calls |->
                     IF c \in C THEN Interrupted(runs[c]) ELSE runs[c]]
      /\ slots' = [a \in Adapters |-> slots[a] + Cardinality(Back(a))]
  BY DEF Interrupt
<1>2. \A c \in Calls : runs[c] \in Run
  BY DEF Typed
<1>3. ~HasSlot(Idle) /\ Idle.pc = "idle"
  BY RunShapes DEF HasSlot
<1>4. \A c \in C : \/ Interrupted(runs[c]) = Idle
                   \/ /\ HasSlot(Interrupted(runs[c])) /\ HasSlot(runs[c])
                      /\ runs[c].pc # "idle"
  BY <1>2, InterruptedFacts DEF HasSlot
<1>5. /\ gone \in SUBSET Calls
      /\ \A c \in Calls : runs'[c].pc # "idle" => runs[c].pc # "idle"
      /\ \A c \in gone : HasSlot(runs[c]) /\ ~HasSlot(runs'[c])
      /\ \A c \in Calls \ gone : HasSlot(runs'[c]) <=> HasSlot(runs[c])
  BY <1>1, <1>3, <1>4
<1>6. ASSUME NEW a \in Adapters
      PROVE  /\ slots'[a] = slots[a] + Cardinality({c \in gone : Adapter(c) = a})
             /\ slots'[a] \in Nat
  <2>1. Back(a) = {c \in gone : Adapter(c) = a}
    OBVIOUS
  <2>2. Back(a) \subseteq Holding(a)
    BY DEF Holding
  <2>3. IsFiniteSet(Holding(a)) /\ slots[a] \in Nat
    BY HoldingAdmitted, FS_Subset DEF SlotsInv, Balanced
  <2>4. Cardinality(Back(a)) \in Nat
    BY <2>2, <2>3, FS_Subset, FS_CardinalityType
  <2>5. slots'[a] = slots[a] + Cardinality(Back(a))
    BY <1>1
  <2> HIDE DEF Back, gone
  <2> QED
    BY <2>1, <2>3, <2>4, <2>5
<1>7. slots' = [a \in Adapters |-> slots'[a]]
  BY <1>1
<1>8. slots' \in [Adapters -> Nat]
  BY <1>6, <1>7
<1> HIDE DEF gone
<1> QED
  BY <1>5, <1>6, <1>8, SlotsReturned

\* A process that starts again has all its permits.
LEMMA CrashSlots ==
    ASSUME Typed, SlotsInv, NEW a \in Adapters, Crash(a)
    PROVE  SlotsInv'
<1> DEFINE gone == Holding(a)
<1>1. /\ \A c \in Calls : Adapter(c) = a => runs'[c] = Idle
      /\ \A c \in Calls : Adapter(c) # a => runs'[c] = runs[c]
      /\ slots' = [slots EXCEPT ![a] = MaxConcurrent]
  BY DEF Crash
<1>2. slots \in [Adapters -> Nat] /\ MaxConcurrent \in Nat
  BY AgentBounds DEF SlotsInv
<1>3. ASSUME NEW b \in Adapters
      PROVE  slots'[b] = slots[b] + Cardinality({c \in gone : Adapter(c) = b})
  <2>1. CASE b = a
    <3>1. {c \in gone : Adapter(c) = b} = Holding(a)
      BY <2>1 DEF Holding
    <3>2. slots'[b] = MaxConcurrent
      BY <1>1, <1>2, <2>1
    <3>3. slots[a] + Cardinality(Holding(a)) = MaxConcurrent
      BY DEF SlotsInv, Balanced
    <3> QED
      BY <2>1, <3>1, <3>2, <3>3
  <2>2. CASE b # a
    <3>1. {c \in gone : Adapter(c) = b} = {}
      BY <2>2 DEF Holding
    <3>2. Cardinality({}) = 0
      BY FS_EmptySet
    <3>3. slots'[b] = slots[b] /\ slots[b] \in Nat
      BY <1>1, <1>2, <2>2
    <3> QED
      BY <3>1, <3>2, <3>3
  <2> QED
    BY <2>1, <2>2
<1>4. /\ gone \in SUBSET Calls
      /\ \A c \in Calls : runs'[c].pc # "idle" => runs[c].pc # "idle"
      /\ \A c \in gone : HasSlot(runs[c]) /\ ~HasSlot(runs'[c])
      /\ \A c \in Calls \ gone : HasSlot(runs'[c]) <=> HasSlot(runs[c])
  BY <1>1, RunShapes DEF Holding, HasSlot
<1>5. slots' \in [Adapters -> Nat]
  BY <1>1, <1>2
<1> HIDE DEF gone
<1> QED
  BY <1>3, <1>4, <1>5, SlotsReturned

\* A run that is admitted holds no permit yet.
LEMMA AdmitSlots ==
    ASSUME Typed, SlotsInv, NEW c \in Calls, Admit(c)
    PROVE  SlotsInv'
<1>1. /\ slots' = slots /\ runs[c].pc = "idle"
      /\ runs'[c].pc = "waiting"
      /\ \A d \in Calls : d # c => runs'[d] = runs[d]
  BY DEF Admit, Typed, Idle
<1>2. ASSUME NEW a \in Adapters
      PROVE  Balanced(a)'
  <2>1. AdmittedRuns(a)' \subseteq AdmittedRuns(a) \cup {c}
    BY <1>1 DEF AdmittedRuns
  <2>2. Holding(a)' = Holding(a)
    BY <1>1 DEF Holding, HasSlot
  <2>3. Balanced(a)
    BY DEF SlotsInv
  <2>4. IsFiniteSet(AdmittedRuns(a) \cup {c})
    BY <2>3, FS_AddElement DEF Balanced
  <2>5. IsFiniteSet(AdmittedRuns(a)')
    BY <2>1, <2>4, FS_Subset
  <2> QED
    BY <1>1, <2>2, <2>3, <2>5 DEF Balanced
<1> QED
  BY <1>1, <1>2 DEF SlotsInv

\* The semaphore gives a permit to a run that has none.
LEMMA AcquireSlots ==
    ASSUME Typed, SlotsInv, NEW c \in Calls, Acquire(c)
    PROVE  SlotsInv'
<1> DEFINE b == Adapter(c)
<1>0. b \in Adapters
  BY CallParts
<1>1. /\ slots[b] > 0 /\ slots' = [slots EXCEPT ![b] = @ - 1]
      /\ runs[c].pc = "waiting" /\ Goes(c, "claiming")
  BY DEF Acquire, FirstWaiter
<1>2. /\ runs'[c].pc = "claiming"
      /\ \A d \in Calls : d # c => runs'[d] = runs[d]
  BY <1>1, GoesFacts DEF RunStates
<1>3. slots \in [Adapters -> Nat]
  BY DEF SlotsInv
<1>4. /\ slots'[b] = slots[b] - 1 /\ slots[b] \in Nat
      /\ \A a \in Adapters : a # b => slots'[a] = slots[a]
      /\ slots' \in [Adapters -> Nat]
  BY <1>0, <1>1, <1>3
<1>5. ASSUME NEW a \in Adapters
      PROVE  Balanced(a)'
  <2>1. Balanced(a)
    BY DEF SlotsInv
  <2>2. AdmittedRuns(a)' = AdmittedRuns(a)
    BY <1>1, <1>2 DEF AdmittedRuns
  <2>3. CASE a = b
    <3> DEFINE held == Cardinality(Holding(a))
    <3>1. Holding(a)' = Holding(a) \cup {c} /\ c \notin Holding(a)
      BY <1>1, <1>2, <2>3 DEF Holding, HasSlot
    <3>2. IsFiniteSet(Holding(a)) /\ held \in Nat
      BY <2>1, HoldingAdmitted, FS_Subset, FS_CardinalityType DEF Balanced
    <3>3. Cardinality(Holding(a)') = held + 1
      BY <3>1, <3>2, FS_AddElement
    <3>4. slots[a] + held = MaxConcurrent /\ slots'[a] = slots[a] - 1
          /\ slots[a] \in Nat
      BY <1>4, <2>1, <2>3 DEF Balanced
    <3> HIDE DEF held
    <3>5. slots'[a] + (held + 1) = MaxConcurrent
      BY <3>2, <3>4
    <3>6. slots'[a] + Cardinality(Holding(a)') = MaxConcurrent
      BY <3>3, <3>5
    <3> QED
      BY <1>4, <2>1, <2>2, <3>6 DEF Balanced
  <2>4. CASE a # b
    <3>1. Holding(a)' = Holding(a)
      BY <1>2, <2>4 DEF Holding
    <3> QED
      BY <1>4, <2>1, <2>2, <2>4, <3>1 DEF Balanced
  <2> QED
    BY <2>3, <2>4
<1> QED
  BY <1>4, <1>5 DEF SlotsInv

\* At first every permit is free.
LEMMA SlotsInit == Init => SlotsInv
<1> SUFFICES ASSUME Init PROVE SlotsInv
  OBVIOUS
<1>1. /\ slots = [a \in Adapters |-> MaxConcurrent] /\ MaxConcurrent \in Nat
      /\ \A c \in Calls : runs[c].pc = "idle"
  BY AgentBounds, RunShapes DEF Init
<1>2. \A a \in Adapters : AdmittedRuns(a) = {} /\ Holding(a) = {}
  BY <1>1 DEF AdmittedRuns, Holding, HasSlot
<1>3. \A a \in Adapters : Balanced(a)
  BY <1>1, <1>2, FS_EmptySet DEF Balanced
<1> QED
  BY <1>1, <1>3 DEF SlotsInv

\* Every step keeps the permits balanced.
LEMMA SlotsStep ==
    ASSUME AgentInv, SlotsInv, [Next]_vars
    PROVE  SlotsInv'
<1>0. Typed /\ Numbered /\ Resulted
  BY DEF AgentInv
<1>1. CASE UNCHANGED vars
  BY <1>1, SlotsStill DEF vars
<1>2. ASSUME NEW c \in Calls, Admit(c) \/ Acquire(c)
      PROVE  SlotsInv'
  BY <1>0, <1>2, AdmitSlots, AcquireSlots
<1>3. ASSUME NEW c \in Calls,
             \/ Configure(c) \/ RejectOptions(c)
             \/ Prepare(c) \/ PrepareFails(c)
             \/ Guard(c) \/ GuardFails(c)
             \/ Disconnect(c) \/ DisconnectAborted(c)
             \/ Agent(c)
      PROVE  SlotsInv'
  BY <1>0, <1>3, StepTame, AgentTame, TameSlots
<1>4. ASSUME NEW c \in Calls, AdmissionTimeout(c)
      PROVE  SlotsInv'
  BY <1>0, <1>4, EndRunSlots DEF AdmissionTimeout
<1>5. ASSUME NEW c \in Calls, NEW th \in threads, th.call = c, Transaction(th)
      PROVE  SlotsInv'
  <2>1. CASE Claim(th)
    <3>0. th.kind = "claim" /\ (Awaits(c, th) => runs[c].pc = "claiming")
      BY <1>0, <1>5, <2>1, AwaitedRun DEF Claim
    <3>1. \/ slots' = slots /\ runs' = runs
          \/ slots' = slots /\ Goes(c, "claimed") /\ runs[c].pc = "claiming"
      BY <1>5, <2>1, <3>0 DEF Claim
    <3>2. CASE slots' = slots /\ runs' = runs
      BY <3>2, SlotsStill
    <3>3. CASE slots' = slots /\ Goes(c, "claimed") /\ runs[c].pc = "claiming"
      <4>1. /\ runs'[c].pc = "claimed"
            /\ \A d \in Calls : d # c => runs'[d] = runs[d]
        BY <1>0, <3>3, GoesFacts DEF RunStates
      <4> QED
        BY <3>3, <4>1, SlotsStill DEF HasSlot
    <3> QED
      BY <3>1, <3>2, <3>3
  <2>2. CASE ClaimConflict(th) \/ Release(th) \/ ReleaseFails(th)
    <3>1. EndRun(c) \/ UNCHANGED <<runs, slots>>
      BY <1>5, <2>2 DEF ClaimConflict, Release, ReleaseFails, ReleaseReturns
    <3> QED
      BY <1>0, <3>1, EndRunSlots, SlotsStill
  <2>3. CASE Begin(th) \/ SaveFinding(th) \/ Complete(th) \/ CompleteFails(th)
    BY <1>0, <2>3, TransactionTame, TameSlots
  <2> QED
    BY <1>5, <2>1, <2>2, <2>3 DEF Transaction
<1>6. ASSUME NEW c \in Calls, Cancel(c) \/ RunTimeout(c)
      PROVE  SlotsInv'
  <2>1. Interrupt({c}) /\ {c} \in SUBSET Calls
    BY <1>6 DEF Cancel, RunTimeout
  <2> QED
    BY <1>0, <2>1, InterruptSlots
<1>7. ASSUME NEW a \in Adapters, Close(a)
      PROVE  SlotsInv'
  <2>1. Interrupt(AdmittedRuns(a)) /\ AdmittedRuns(a) \in SUBSET Calls
    BY <1>7 DEF Close, AdmittedRuns
  <2> QED
    BY <1>0, <2>1, InterruptSlots
<1>8. ASSUME NEW a \in Adapters, Crash(a)
      PROVE  SlotsInv'
  BY <1>0, <1>8, CrashSlots
<1>9. CASE (\E a \in Adapters : CloseReturns(a)) \/ (\E t \in Tasks : Expire(t))
  BY <1>0, <1>9, TimeTame, TameSlots
<1> QED
  BY <1>1, <1>2, <1>3, <1>4, <1>5, <1>6, <1>7, <1>8, <1>9
  DEF Next, Step, TransactionOf

\* Permits balance in every reachable state.
THEOREM SlotsInvariant == Spec => []SlotsInv
<1>1. Init => SlotsInv
  BY SlotsInit
<1>2. AgentInv /\ SlotsInv /\ [Next]_vars => SlotsInv'
  BY SlotsStep
<1> QED
  BY <1>1, <1>2, AgentInvariant, PTL DEF Spec

\* No way out of run() leaks a permit or returns one twice.
THEOREM SlotsAreBalanced == Spec => []SlotsBalanced
<1>1. SlotsInv => SlotsBalanced
  BY HoldingAdmitted DEF SlotsInv, Balanced, SlotsBalanced
<1> QED
  BY <1>1, SlotsInvariant, PTL

\* Runs, threads, leases, outcomes, entries and evidence keep their types;
\* no adapter has more permits than its policy says.
THEOREM AgentTypes == Spec => []TypeOK
<1>1. ASSUME AgentInv, SlotsInv
      PROVE  TypeOK
  <2>1. slots \in [Adapters -> Nat]
    BY <1>1 DEF SlotsInv
  <2>2. ASSUME NEW a \in Adapters
        PROVE  slots[a] \in 0 .. MaxConcurrent
    <3> DEFINE held == Cardinality(Holding(a))
    <3>1. /\ slots[a] \in Nat /\ slots[a] + held = MaxConcurrent
          /\ IsFiniteSet(AdmittedRuns(a))
      BY <1>1 DEF SlotsInv, Balanced
    <3>2. held \in Nat
      BY <3>1, HoldingAdmitted, FS_Subset, FS_CardinalityType
    <3> HIDE DEF held
    <3> QED
      BY <3>1, <3>2, AgentBounds
  <2>3. slots \in [Adapters -> 0 .. MaxConcurrent]
    BY <2>1, <2>2
  <2> QED
    BY <1>1, <2>3 DEF AgentInv, Typed, TypeOK
<1>2. AgentInv /\ SlotsInv => TypeOK
  BY <1>1
<1> QED
  BY <1>2, AgentInvariant, SlotsInvariant, PTL

=============================================================================
