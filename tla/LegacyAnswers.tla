---------------------------- MODULE LegacyAnswers ----------------------------
(***************************************************************************)
(* What the callers of LegacySystem may rely on, for any number of         *)
(* threads, users, traces, calls and faults: what remember() returned is   *)
(* there and what it refused is not; what forget() removed stays away; the *)
(* events of a user are capped, and the accesses to a trace are counted.   *)
(***************************************************************************)
EXTENDS LegacyProofs

Touched(u) == stm[u] # "absent" \/ \E e \in events : e.uid = u

\* remember() has published the trace and has not returned.
Late(t) == threads[t].pc \in {"stash", "note", "count", "pick", "trim"}

Forgetting(t) == threads[t].pc \in {"remove", "unstore", "unstash", "unlog"}

\* A uuid is remembered by one thread, which answers for it once.
OnceInv ==
    /\ \A t \in Threads, u \in Uids : Remembering(t, u) =>
          /\ u <= issued /\ u \notin log.remembered \cup log.rejected
          /\ \A o \in Threads : Remembering(o, u) => o = t
    /\ \A u \in log.remembered \cup log.rejected : u <= issued

\* Neither short-term memory nor an event knows a trace before it is published.
UntouchedInv ==
    /\ \A u \in Uids : u > issued => ~Touched(u)
    /\ \A t \in Threads : Early(t) => ~Touched(threads[t].uid)

Held(u) == u \in Persisted \cap Indexed(engine) /\ ltm[u].dim = engine.dim

\* A trace is held from its publication until somebody asks to forget it.
HeldInv ==
    \A u \in Uids \ log.dropped :
        /\ u \in log.remembered => Held(u)
        /\ \A t \in Threads : Late(t) /\ threads[t].uid = u => Held(u)

\* A trace that was refused is nowhere, and the index refuses it still when a
\* hydration has read its row before it was taken back.
RejectedInv ==
    \A u \in log.rejected :
        /\ u \notin Persisted \cup Indexed(engine)
        /\ ~Touched(u)
        /\ \A t \in Threads : \A row \in RowsOf(t) :
              row.uid = u => engine.dim \notin {0, row.dim}

AnswerInv == OnceInv /\ UntouchedInv /\ HeldInv /\ RejectedInv

\* Nothing that is under way can bring the trace back.
Out(u) == \A o \in Threads : ~Remembering(o, u) /\ \A row \in RowsOf(o) : row.uid # u

\* A call of forget() that is alone has emptied the stores it has been to.
Emptied(t) ==
    /\ Out(threads[t].uid)
    /\ ~At(t, "remove") => threads[t].uid \notin Indexed(engine)
    /\ threads[t].pc \in {"unstash", "unlog"} => threads[t].uid \notin Persisted
    /\ At(t, "unlog") => stm[threads[t].uid] = "absent"

ForgetInv ==
    /\ \A t \in Threads : Forgetting(t) => threads[t].uid \in log.dropped
    /\ log.forgotten \subseteq log.dropped
    /\ \A t \in Threads : Forgetting(t) /\ threads[t].alone => Emptied(t)
    /\ \A u \in log.forgotten :
          Out(u) /\ u \notin Persisted \cup Indexed(engine) /\ ~Touched(u)

-----------------------------------------------------------------------------
\* What threads carry, of the sorts the invariants compare.
LEMMA Carried ==
  ASSUME TypeInv, NEW t \in Threads
  PROVE  /\ threads[t] \in Thread /\ Ready(threads[t])
         /\ threads[t].uid \in {0} \cup Uids
         /\ Early(t) \/ Forgetting(t) \/ At(t, "stash") => threads[t].uid \in Uids
         /\ \A row \in RowsOf(t) : row \in Trace /\ row.uid \in Uids
         /\ \A u \in Uids : u \in Nat /\ u # 0
<1>1. threads[t] \in Thread /\ Ready(threads[t])
  BY DEF TypeInv, ReadyThread
<1>2. threads[t].uid \in {0} \cup Uids /\ threads[t].rows \in Seq(Trace)
  BY <1>1 DEF Thread
<1>3. Early(t) \/ Forgetting(t) \/ At(t, "stash") => threads[t].uid \in Uids
  BY <1>1, <1>2 DEF Early, Forgetting, At, Ready
<1>4. \A row \in RowsOf(t) : row \in Trace
  BY <1>2, LenProperties, ElementOfSeq DEF RowsOf
<1>5. \A row \in RowsOf(t) : row.uid \in Uids
  BY <1>4 DEF Trace
<1>6. \A u \in Uids : u \in Nat /\ u # 0
  BY EngineConstants
<1> QED
  BY <1>1, <1>2, <1>3, <1>4, <1>5, <1>6

\* remember(u) has published or it has not.
LEMMA Phases ==
  ASSUME NEW t, NEW u
  PROVE  /\ Remembering(t, u) <=> threads[t].uid = u /\ (Early(t) \/ Late(t))
         /\ ~(Early(t) /\ Late(t)) /\ ~(Early(t) /\ Forgetting(t))
         /\ ~(Late(t) /\ Forgetting(t))
BY DEF Remembering, Early, Late, Forgetting

\* A removal takes one trace away, and leaves the others what they are.
LEMMA RemovedOnly ==
  ASSUME NEW e, Sound(e), NEW u \in Uids
  PROVE  /\ Indexed(Removed(e, u)) = Indexed(e) \ {u}
         /\ \A v \in Indexed(e) \ {u} :
               Removed(e, u).traces[Removed(e, u).slot[v]] = e.traces[e.slot[v]]
<1> DEFINE old == e.traces
           i == e.slot[u]
           last == Len(old)
           moved == old[last].uid
<1>0. /\ old \in Seq(Trace) /\ last \in Nat /\ DOMAIN old = 1 .. last
      /\ \A j \in DOMAIN old : old[j].uid \in Uids /\ e.slot[old[j].uid] = j
      /\ e.slot \in [Uids -> Nat]
      /\ \A v \in Uids : e.slot[v] # 0 =>
            e.slot[v] \in DOMAIN old /\ old[e.slot[v]].uid = v
      /\ e \in Engine
  BY Parts DEF Sound
<1>1. CASE i = 0
  BY <1>0, <1>1 DEF Removed, Indexed
<1>2. CASE i # 0
  <2>1. i \in DOMAIN old /\ last \in DOMAIN old /\ old[i].uid = u /\ moved \in Uids
    BY <1>0, <1>2
  <2> DEFINE full == [old EXCEPT ![i] = old[last]]
             traces == Front(full)
             slot == [e.slot EXCEPT ![moved] = i, ![u] = 0]
  <2>2. Removed(e, u).traces = traces /\ Removed(e, u).slot = slot
    BY <1>0, <1>2 DEF Removed, Engine
  <2>3. /\ full \in Seq(Trace) /\ Len(full) = last
        /\ \A j \in 1 .. last : full[j] = IF j = i THEN old[last] ELSE old[j]
    BY <1>0, <2>1, ExceptSeq, LenProperties
  <2>4. \A j \in 1 .. last - 1 : traces[j] = IF j = i THEN old[last] ELSE old[j]
    <3>0. \A j \in 1 .. last - 1 : j \in 1 .. last
      BY <1>0, <2>1
    <3> HIDE DEF full
    <3>1. last - 1 \in Nat /\ last - 1 \in 0 .. last
      BY <1>0, <2>1
    <3>2. \A j \in 1 .. last - 1 : traces[j] = full[j]
      BY <1>0, <2>3, <3>1 DEF Front
    <3> QED
      BY <2>3, <3>0, <3>2
  <2>5. \A v \in Uids : slot[v] = IF v = u THEN 0 ELSE IF v = moved THEN i
                                   ELSE e.slot[v]
    BY <1>0, <2>1
  <2> HIDE DEF full, traces, slot
  <2>6. Indexed(Removed(e, u)) = Indexed(e) \ {u}
    <3>1. moved \in Indexed(e)
      BY <1>0, <2>1 DEF Indexed
    <3> HIDE DEF moved
    <3> QED
      BY <1>2, <2>2, <2>5, <3>1 DEF Indexed
  <2>7. ASSUME NEW v \in Indexed(e) \ {u}
        PROVE  traces[slot[v]] = old[e.slot[v]]
    <3>1. v \in Uids /\ v # u /\ e.slot[v] \in 1 .. last /\ old[e.slot[v]].uid = v
      BY <1>0 DEF Indexed
    <3>2. CASE v = moved
      <4>1. slot[v] = i /\ e.slot[v] = last /\ i # last
        BY <1>0, <2>1, <2>5, <3>1, <3>2
      <4>2. i \in 1 .. last - 1
        BY <1>0, <2>1, <4>1
      <4> QED
        BY <2>4, <4>1, <4>2
    <3>3. CASE v # moved
      <4>1. slot[v] = e.slot[v] /\ e.slot[v] # last /\ e.slot[v] # i
        BY <1>0, <2>1, <2>5, <3>1, <3>3
      <4>2. e.slot[v] \in 1 .. last - 1
        BY <1>0, <3>1, <4>1
      <4> QED
        BY <2>4, <4>1, <4>2
    <3> QED
      BY <3>2, <3>3
  <2> QED
    BY <2>2, <2>6, <2>7
<1> QED
  BY <1>1, <1>2

-----------------------------------------------------------------------------
\* A thread that does not begin remember(), and reads rows of the table.
Answering(t) ==
    /\ Early(t)' => Early(t) /\ threads'[t].uid = threads[t].uid
    /\ Late(t)' /\ threads'[t].uid # 0 =>
          /\ threads'[t].uid = threads[t].uid
          /\ Late(t) \/ At(t, "publish")
    /\ \A row \in RowsOf(t)' : row \in RowsOf(t) \/ row.uid \in Persisted

\* A thread that begins or furthers neither forget() nor hydrate() either.
Settled(t) ==
    /\ Answering(t)
    /\ RowsOf(t)' \subseteq RowsOf(t)
    /\ Forgetting(t)' => threads'[t] = threads[t]

Unpublished(t) == At(t, "publish") /\ Late(t)' => threads'[t].uid = 0

\* What such a thread remembers, it remembered before.
LEMMA AnsweringRemembers ==
  ASSUME NEW t \in Threads, NEW u \in Uids, TypeInv, Answering(t), Remembering(t, u)'
  PROVE  /\ Remembering(t, u) /\ (Early(t)' => Early(t)) /\ (Late(t) => Late(t)')
         /\ threads'[t].uid = threads[t].uid
<1>1. u # 0
  BY EngineConstants
<1>2. threads'[t].uid = u /\ (Early(t)' \/ Late(t)')
  BY DEF Remembering, Early, Late
<1>3. threads[t].uid = u /\ (Early(t)' => Early(t)) /\ (Late(t)' => Late(t) \/ Early(t))
  BY <1>1, <1>2 DEF Answering, At, Early
<1>4. ~(Early(t) /\ Late(t)) /\ ~(Early(t)' /\ Late(t)')
  BY DEF Early, Late
<1> QED
  BY <1>2, <1>3, <1>4, Phases

\* A thread that goes on with what it does, or gives it up, is settled, and so
\* are the others.
LEMMA SettledMove ==
  ASSUME TypeInv, NEW t \in Threads, NEW th,
         threads' = [threads EXCEPT ![t] = th],
         th.pc \in {"persist", "publish", "reject"} => Early(t) /\ th.uid = threads[t].uid,
         th.pc \in {"stash", "note", "count", "pick", "trim"} =>
            th.uid = 0 \/ (th.uid = threads[t].uid /\ (Late(t) \/ At(t, "publish"))),
         {th.rows[i] : i \in DOMAIN th.rows} \subseteq RowsOf(t),
         th.pc \notin {"remove", "unstore", "unstash", "unlog"}
  PROVE  /\ \A o \in Threads : Settled(o)
         /\ (\/ th.pc \notin {"stash", "note", "count", "pick", "trim"}
             \/ th.uid = 0 \/ Late(t))
            => \A o \in Threads : Unpublished(o)
<1>1. threads'[t] = th /\ \A o \in Threads \ {t} : threads'[o] = threads[o]
  BY DEF TypeInv
<1>2. Settled(t)
  BY <1>1 DEF Settled, Answering, Early, Late, At, RowsOf, Forgetting
<1>3. \A o \in Threads \ {t} : Settled(o)
  BY <1>1 DEF Settled, Answering, Early, Late, RowsOf
<1>4. ASSUME \/ th.pc \notin {"stash", "note", "count", "pick", "trim"}
             \/ th.uid = 0 \/ Late(t)
      PROVE  \A o \in Threads : Unpublished(o)
  BY <1>1, <1>4 DEF Unpublished, At, Late
<1> QED
  BY <1>2, <1>3, <1>4

\* Going on after the publication, or without a uuid.
LEMMA SettledGoto ==
  ASSUME TypeInv, NEW t \in Threads, NEW pc, Goto(t, pc),
         \/ Early(t) /\ pc \in {"publish", "reject"}
         \/ (Late(t) \/ At(t, "publish")) /\ pc \in {"stash", "note", "count"}
         \/ pc = "sweep"
  PROVE  /\ \A o \in Threads : Settled(o)
         /\ Late(t) \/ pc \in {"publish", "reject", "sweep"}
            => \A o \in Threads : Unpublished(o)
<1> DEFINE th == [threads[t] EXCEPT !.pc = pc]
<1>1. threads' = [threads EXCEPT ![t] = th]
  BY DEF Goto
<1>2. th.pc = pc /\ th.rows = threads[t].rows /\ th.uid = threads[t].uid
  BY Carried DEF Thread
<1>3. {th.rows[i] : i \in DOMAIN th.rows} \subseteq RowsOf(t)
  BY <1>2 DEF RowsOf
<1> HIDE DEF th
<1> QED
  BY <1>1, <1>2, <1>3, SettledMove

\* Ending an operation, and beginning one that carries neither a uuid nor rows.
LEMMA SettledReturn ==
  ASSUME TypeInv, NEW t \in Threads, NEW th, threads' = [threads EXCEPT ![t] = th],
         th.rows = <<>>, th.uid = 0,
         th.pc \in {"idle", "note", "mark", "purge", "sweep"}
  PROVE  \A o \in Threads : Settled(o) /\ Unpublished(o)
<1>1. {th.rows[i] : i \in DOMAIN th.rows} \subseteq RowsOf(t)
  OBVIOUS
<1> QED
  BY <1>1, SettledMove

\* An idle thread carries nothing.
LEMMA IdleFields ==
  /\ Idle.pc = "idle" /\ Idle.rows = <<>> /\ Idle.uid = 0
  /\ Idle.uids = {} /\ Idle.left = {}
BY DEF Idle

-----------------------------------------------------------------------------
\* What a step brings to the stores it has from where it may come: a row from
\* a thread that persists it, a trace of the index from one that publishes it
\* or from a row that was read, the rest from a thread that has published it.
Sourced(u) ==
    /\ u \in Persisted' => u \in Persisted \/ \E t \in Threads : Remembering(t, u)
    /\ u \in Indexed(engine') =>
          \/ u \in Indexed(engine)
          \/ \E t \in Threads : Remembering(t, u)
          \/ \E t \in Threads : \E row \in RowsOf(t) : row.uid = u
    /\ Touched(u)' => Touched(u) \/ \E t \in Threads : Late(t) /\ threads[t].uid = u

\* The stores after a step of a call that forgets u.
LEMMA EmptiedNext ==
  ASSUME NEW t \in Threads, NEW u \in Uids, threads'[t].uid = u, Out(u)',
         ~At(t, "remove")' => u \notin Indexed(engine'),
         threads'[t].pc \in {"unstash", "unlog"} => u \notin Persisted',
         At(t, "unlog")' => stm'[u] = "absent"
  PROVE  Emptied(t)'
<1>1. Out(threads[t].uid)'
  BY DEF Out, Remembering
<1> QED
  BY <1>1 DEF Emptied

\* A thread that goes on forgetting where it was, without company that could
\* bring the trace back, or has come to a new place.
Advancing(t) ==
    Forgetting(t)' =>
        \/ /\ Forgetting(t)
           /\ threads'[t].pc = threads[t].pc /\ threads'[t].uid = threads[t].uid
           /\ threads'[t].alone =>
                /\ threads[t].alone
                /\ \A u \in Uids : u = threads[t].uid /\ Out(u) => Out(u)'
        \/ /\ threads'[t].uid \in log'.dropped
           /\ threads'[t].alone => Emptied(t)'

\* What forget() has removed stays away, if what is under way cannot bring it
\* back.
LEMMA ForgetKept ==
  ASSUME TypeInv, ForgetInv, \A t \in Threads : Advancing(t),
         \A u \in Uids : Sourced(u), log.dropped \subseteq log'.dropped,
         \A u \in log.forgotten : Out(u)',
         \A u \in log'.forgotten \ log.forgotten :
            /\ u \in log'.dropped
            /\ Out(u)' /\ u \notin Persisted' \cup Indexed(engine') /\ ~Touched(u)',
         \A u \in Uids : stm[u] = "absent" =>
             stm'[u] = "absent" \/ \E t \in Threads : Remembering(t, u)
  PROVE  ForgetInv'
<1>1. ASSUME NEW u \in Uids, Out(u)
      PROVE  /\ u \notin Persisted => u \notin Persisted'
             /\ u \notin Indexed(engine) => u \notin Indexed(engine')
             /\ ~Touched(u) => ~Touched(u)'
             /\ stm[u] = "absent" => stm'[u] = "absent"
  <2>1. \A t \in Threads : ~Remembering(t, u) /\ \A row \in RowsOf(t) : row.uid # u
    BY <1>1 DEF Out
  <2>2. \A t \in Threads : ~(Late(t) /\ threads[t].uid = u)
    BY <2>1, Phases
  <2> QED
    BY <2>1, <2>2 DEF Sourced
<1>2. ASSUME NEW t \in Threads, Forgetting(t)'
      PROVE  threads'[t].uid \in log'.dropped /\ (threads'[t].alone => Emptied(t)')
  <2>1. CASE /\ Forgetting(t)
             /\ threads'[t].pc = threads[t].pc /\ threads'[t].uid = threads[t].uid
             /\ threads'[t].alone =>
                  /\ threads[t].alone
                  /\ \A u \in Uids : u = threads[t].uid /\ Out(u) => Out(u)'
    <3>1. threads'[t].uid \in log'.dropped
      BY <2>1 DEF ForgetInv
    <3>2. ASSUME threads'[t].alone PROVE Emptied(t)'
      <4>1. PICK u \in Uids : u = threads[t].uid
        BY <2>1, Carried
      <4>2. Emptied(t)
        BY <2>1, <3>2 DEF ForgetInv
      <4>3. Out(u)
        BY <4>1, <4>2 DEF Emptied, Out, Remembering
      <4>4. /\ ~At(t, "remove") => u \notin Indexed(engine)
            /\ threads[t].pc \in {"unstash", "unlog"} => u \notin Persisted
            /\ At(t, "unlog") => stm[u] = "absent"
        BY <4>1, <4>2 DEF Emptied
      <4>5. Out(u)'
        BY <2>1, <3>2, <4>1, <4>3
      <4> QED
        BY <1>1, <2>1, <4>1, <4>3, <4>4, <4>5, EmptiedNext DEF At
    <3> QED
      BY <3>1, <3>2
  <2> QED
    BY <1>2, <2>1 DEF Advancing
<1>3. \A u \in log'.forgotten : Out(u)' /\ u \notin Persisted' \cup Indexed(engine') /\ ~Touched(u)'
  BY <1>1 DEF ForgetInv, TypeInv, Log
<1>4. log'.forgotten \subseteq log'.dropped
  BY DEF ForgetInv
<1> QED
  BY <1>2, <1>3, <1>4 DEF ForgetInv

\* Settled threads bring nothing back.
LEMMA SettledOut ==
  ASSUME TypeInv, \A t \in Threads : Settled(t)
  PROVE  /\ \A u \in Uids : Out(u) => Out(u)'
         /\ \A t \in Threads : Advancing(t)
<1>1. ASSUME NEW u \in Uids, Out(u) PROVE Out(u)'
  <2>1. \A t \in Threads : ~Remembering(t, u) /\ \A row \in RowsOf(t) : row.uid # u
    BY <1>1 DEF Out
  <2>2. \A t \in Threads : ~Remembering(t, u)'
    BY <2>1, AnsweringRemembers DEF Settled
  <2>3. \A t \in Threads : \A row \in RowsOf(t)' : row.uid # u
    BY <2>1 DEF Settled
  <2> QED
    BY <2>2, <2>3 DEF Out
<1>2. \A t \in Threads : Advancing(t)
  BY <1>1 DEF Settled, Advancing, Forgetting
<1> QED
  BY <1>1, <1>2

\* Steps of settled threads that name no trace as forgotten.
LEMMA ForgetQuiet ==
  ASSUME TypeInv, ForgetInv, \A t \in Threads : Settled(t),
         \A u \in Uids : Sourced(u),
         log'.forgotten = log.forgotten, log'.dropped = log.dropped,
         \A u \in Uids : stm[u] = "absent" =>
             stm'[u] = "absent" \/ \E t \in Threads : Remembering(t, u)
  PROVE  ForgetInv'
<1>1. \A u \in log.forgotten : Out(u)'
  BY SettledOut DEF ForgetInv, TypeInv, Log
<1> QED
  BY <1>1, SettledOut, ForgetKept

\* A trace that is refused in this step: its row is taken back, and the index
\* refuses what hydrations have read of it.
Refused(u) ==
    /\ \E t \in Threads : Early(t) /\ threads[t].uid = u /\ ~Early(t)' /\ ~Late(t)'
    /\ u \notin Persisted' \cup Indexed(engine')
    /\ \A t \in Threads : \A row \in RowsOf(t)' : row.uid = u => engine'.dim \notin {0, row.dim}

\* Steps that take nothing away that nobody asked to forget, and publish what
\* is held and has not been refused.
LEMMA AnswerQuiet ==
  ASSUME TypeInv, TypeInv', AnswerInv, \A t \in Threads : Answering(t),
         issued' = issued, log.dropped \subseteq log'.dropped,
         \A u \in log'.remembered : u \in log.remembered \/
             \E t \in Threads : Late(t) /\ threads[t].uid = u /\ ~Late(t)',
         \A u \in log'.rejected : u \in log.rejected \/ Refused(u),
         \A u \in Persisted' : u \in Persisted \/ \E t \in Threads : Remembering(t, u),
         Persisted \subseteq Persisted' \cup log.dropped \cup log'.rejected,
         \A u \in Persisted \cap Persisted' : ltm'[u].dim = ltm[u].dim,
         Indexed(engine') \cap log.rejected \subseteq Indexed(engine),
         Indexed(engine) \subseteq Indexed(engine') \cup log.dropped,
         engine.dim \in {0, engine'.dim},
         \A u \in Uids : Touched(u)' =>
             Touched(u) \/ \E t \in Threads : Late(t) /\ threads[t].uid = u,
         \A t \in Threads, u \in Uids : At(t, "publish") /\ Late(t)' /\ threads'[t].uid = u =>
             u \in log'.dropped \/ Held(u)'
  PROVE  AnswerInv'
<1>2. \A t \in Threads, u \in Uids : Late(t) /\ threads[t].uid = u => Remembering(t, u)
  BY Phases
<1>3. ASSUME NEW t \in Threads, NEW u \in Uids, Remembering(t, u)'
      PROVE  Remembering(t, u) /\ (Late(t) => Late(t)') /\ (Early(t)' => Early(t))
  BY <1>3, AnsweringRemembers
<1>10. log'.remembered \subseteq Uids /\ log'.rejected \subseteq Uids
  BY DEF TypeInv, Log
<1>11. ASSUME NEW t \in Threads, NEW u \in Uids, Remembering(t, u)'
       PROVE  u \notin log'.remembered \cup log'.rejected
  <2>1. /\ u \notin log.remembered \cup log.rejected
        /\ \A o \in Threads : Remembering(o, u) => o = t
    BY <1>3, <1>11 DEF AnswerInv, OnceInv
  <2>2. \A o \in Threads : Late(o) /\ threads[o].uid = u => Late(o)'
    BY <1>2, <1>3, <1>11, <2>1
  <2>3. u \notin log'.remembered
    BY <2>1, <2>2
  <2>4. ~Refused(u)
    <3>1. ASSUME NEW o \in Threads, Early(o), threads[o].uid = u, ~Early(o)', ~Late(o)'
          PROVE  FALSE
      <4>1. o = t
        BY <2>1, <3>1, Phases
      <4> QED
        BY <1>11, <3>1, <4>1 DEF Remembering, Early, Late
    <3> QED
      BY <3>1 DEF Refused
  <2> QED
    BY <2>1, <2>3, <2>4
<1>12. ASSUME NEW u \in Uids, Refused(u)
       PROVE  /\ u <= issued /\ u \notin log.remembered \cup log.rejected
              /\ \A t \in Threads : ~(Late(t) /\ threads[t].uid = u)
              /\ ~Touched(u)
  <2>1. PICK t \in Threads : Early(t) /\ threads[t].uid = u
    BY <1>12 DEF Refused
  <2>2. Remembering(t, u) /\ ~Late(t)
    BY <2>1, Phases
  <2>3. ~Touched(threads[t].uid)
    BY <2>1 DEF AnswerInv, UntouchedInv
  <2> QED
    BY <1>2, <2>1, <2>2, <2>3 DEF AnswerInv, OnceInv, Touched
<1>1. ASSUME NEW u \in Uids \ log'.dropped, Held(u), u \notin log'.rejected
      PROVE  Held(u)'
  <2>1. u \in Persisted' /\ ltm'[u].dim = ltm[u].dim /\ u \in Indexed(engine')
    BY <1>1 DEF Held
  <2>2. engine.dim # 0
    BY <1>1, NoLength DEF Held, TypeInv
  <2> QED
    BY <1>1, <2>1, <2>2 DEF Held
<1>4. OnceInv'
  <2>1. ASSUME NEW t \in Threads, NEW u \in Uids, Remembering(t, u)'
        PROVE  /\ u <= issued' /\ u \notin log'.remembered \cup log'.rejected
               /\ \A o \in Threads : Remembering(o, u)' => o = t
    BY <1>3, <1>11, <2>1 DEF AnswerInv, OnceInv
  <2>2. \A u \in log'.remembered \cup log'.rejected : u <= issued'
    <3>1. ASSUME NEW u \in log'.remembered PROVE u <= issued
      BY <1>2, <1>10 DEF AnswerInv, OnceInv
    <3>2. ASSUME NEW u \in log'.rejected PROVE u <= issued
      BY <1>10, <1>12 DEF AnswerInv, OnceInv
    <3> QED
      BY <3>1, <3>2
  <2> QED
    BY <2>1, <2>2 DEF OnceInv
<1>5. UntouchedInv'
  <2>1. ASSUME NEW u \in Uids, u > issued' PROVE ~Touched(u)'
    <3>1. u > issued /\ ~Touched(u) /\ u \in Nat /\ issued \in Nat
      BY <2>1, EngineConstants DEF AnswerInv, UntouchedInv, TypeInv
    <3>2. \A t \in Threads : ~(Late(t) /\ threads[t].uid = u)
      BY <1>2, <3>1 DEF AnswerInv, OnceInv
    <3> QED
      BY <3>1, <3>2
  <2>2. ASSUME NEW t \in Threads, Early(t)' PROVE ~Touched(threads[t].uid)'
    <3>1. Early(t) /\ threads'[t].uid = threads[t].uid
      BY <2>2 DEF Answering
    <3>2. PICK u \in Uids : u = threads[t].uid
      BY <3>1, Carried
    <3>3. ~Touched(u) /\ Remembering(t, u) /\ ~Late(t)
      <4>1. ~Touched(threads[t].uid)
        BY <3>1 DEF AnswerInv, UntouchedInv
      <4> QED
        BY <3>1, <3>2, <4>1, Phases DEF Touched
    <3>4. \A o \in Threads : Remembering(o, u) => o = t
      BY <3>3 DEF AnswerInv, OnceInv
    <3>5. \A o \in Threads : ~(Late(o) /\ threads[o].uid = u)
      BY <1>2, <3>3, <3>4
    <3>6. ~Touched(u)'
      BY <3>3, <3>5
    <3> QED
      BY <3>1, <3>2, <3>6 DEF Touched
  <2> QED
    BY <2>1, <2>2 DEF UntouchedInv
<1>6. HeldInv'
  <2>1. ASSUME NEW u \in Uids \ log'.dropped, u \in log'.remembered
        PROVE  Held(u)'
    <3>1. Held(u)
      BY <2>1 DEF AnswerInv, HeldInv
    <3>2. u \notin log'.rejected
      <4>1. u \notin log.rejected
        BY <3>1 DEF Held, AnswerInv, RejectedInv
      <4>2. ~Refused(u)
        BY <1>12, <2>1
      <4> QED
        BY <4>1, <4>2
    <3> QED
      BY <1>1, <3>1, <3>2
  <2>2. ASSUME NEW u \in Uids \ log'.dropped, NEW t \in Threads,
               Late(t)', threads'[t].uid = u
        PROVE  Held(u)'
    <3>1. CASE At(t, "publish")
      BY <2>2, <3>1
    <3>2. CASE ~At(t, "publish")
      <4>1. Late(t) /\ threads[t].uid = u
        BY <2>2, <3>2, EngineConstants DEF Answering
      <4>2. Held(u)
        BY <4>1 DEF AnswerInv, HeldInv
      <4>3. u \notin log'.rejected
        <5>1. Remembering(t, u)'
          BY <2>2 DEF Late, Remembering
        <5> QED
          BY <1>11, <5>1
      <4> QED
        BY <1>1, <4>2, <4>3
    <3> QED
      BY <3>1, <3>2
  <2> QED
    BY <2>1, <2>2 DEF HeldInv
<1>7. RejectedInv'
  <2>1. ASSUME NEW u \in log'.rejected
        PROVE  ~Touched(u)'
    <3>1. u \in Uids
      BY <1>10
    <3>2. ~Touched(u)
      BY <1>12, <3>1 DEF AnswerInv, RejectedInv
    <3>3. \A t \in Threads : ~(Late(t) /\ threads[t].uid = u)
      BY <1>2, <1>12, <3>1 DEF AnswerInv, OnceInv
    <3> QED
      BY <3>1, <3>2, <3>3
  <2>2. ASSUME NEW u \in log'.rejected, NEW t \in Threads, NEW row \in RowsOf(t)',
               row.uid = u
        PROVE  engine'.dim \notin {0, row.dim}
    <3>1. CASE u \in log.rejected
      <4>1. u \notin Persisted
        BY <3>1 DEF AnswerInv, RejectedInv
      <4>2. row \in RowsOf(t)
        BY <2>2, <4>1 DEF Answering
      <4> QED
        BY <2>2, <3>1, <4>2 DEF AnswerInv, RejectedInv
    <3>2. CASE u \notin log.rejected
      BY <2>2, <3>2 DEF Refused
    <3> QED
      BY <3>1, <3>2
  <2>3. \A u \in log'.rejected : u \notin Persisted' \cup Indexed(engine')
    <3>1. ASSUME NEW u \in log.rejected PROVE u \notin Persisted' \cup Indexed(engine')
      <4>1. u \notin Persisted \cup Indexed(engine) /\ \A t \in Threads : ~Remembering(t, u)
        BY DEF AnswerInv, RejectedInv, OnceInv, TypeInv, Log
      <4> QED
        BY <4>1
    <3> QED
      BY <3>1 DEF Refused
  <2> QED
    BY <2>1, <2>2, <2>3 DEF RejectedInv
<1> QED
  BY <1>4, <1>5, <1>6, <1>7 DEF AnswerInv

\* Both at once, for steps that leave the index and the long-term rows what
\* they are but for access counts.
LEMMA BothQuiet ==
  ASSUME TypeInv, TypeInv', AnswerInv, ForgetInv, \A t \in Threads : Settled(t) /\ Unpublished(t),
         issued' = issued, log'.rejected = log.rejected,
         log'.dropped = log.dropped, log'.forgotten = log.forgotten,
         \A u \in log'.remembered : u \in log.remembered \/
             \E t \in Threads : Late(t) /\ threads[t].uid = u /\ ~Late(t)',
         Persisted' = Persisted, \A u \in Persisted : ltm'[u].dim = ltm[u].dim,
         Indexed(engine') = Indexed(engine), engine'.dim = engine.dim,
         \A u \in Uids : stm'[u] # "absent" =>
             stm[u] # "absent" \/ \E t \in Threads : Late(t) /\ threads[t].uid = u,
         \A e \in events' : e.uid # 0 =>
             \/ \E f \in events : f.uid = e.uid
             \/ \E t \in Threads : Late(t) /\ threads[t].uid = e.uid
  PROVE  AnswerInv' /\ ForgetInv'
<1>1. ASSUME NEW u \in Uids, Touched(u)'
      PROVE  Touched(u) \/ \E t \in Threads : Late(t) /\ threads[t].uid = u
  <2>1. CASE stm'[u] # "absent"
    BY <2>1 DEF Touched
  <2>2. CASE \E e \in events' : e.uid = u
    BY <2>2, EngineConstants DEF Touched
  <2> QED
    BY <1>1, <2>1, <2>2 DEF Touched
<1>2. \A u \in Uids : Sourced(u)
  BY <1>1 DEF Sourced
<1>3. \A u \in Uids : stm[u] = "absent" =>
         stm'[u] = "absent" \/ \E t \in Threads : Remembering(t, u)
  BY Phases
<1>4. AnswerInv'
  <2>1. \A t \in Threads : Answering(t)
    BY DEF Settled
  <2>2. \A t \in Threads, u \in Uids : ~(At(t, "publish") /\ Late(t)' /\ threads'[t].uid = u)
    BY EngineConstants DEF Unpublished
  <2> QED
    BY <1>1, <2>1, <2>2, AnswerQuiet
<1>5. ForgetInv'
  BY <1>2, <1>3, ForgetQuiet
<1> QED
  BY <1>4, <1>5

\* What remember() and record_event() tell their callers when they return.
LEMMA NotedLog ==
  ASSUME TypeInv, NEW t \in Threads, log' = Noted(t), Late(t), Return(t)
  PROVE  /\ log'.rejected = log.rejected /\ log'.dropped = log.dropped
         /\ log'.forgotten = log.forgotten
         /\ \A u \in log'.remembered : u \in log.remembered \/
               \E o \in Threads : Late(o) /\ threads[o].uid = u /\ ~Late(o)'
<1>1. /\ log'.rejected = log.rejected /\ log'.dropped = log.dropped
      /\ log'.forgotten = log.forgotten
      /\ log'.remembered = log.remembered \cup ({threads[t].uid} \ {0})
  BY DEF Noted, TypeInv, Log
<1>2. ~Late(t)'
  BY IdleFields DEF Return, Late, TypeInv
<1> QED
  BY <1>1, <1>2

\* Events and short-term rows.
LEMMA AnswerEvents ==
  ASSUME TypeInv, TypeInv', AnswerInv, ForgetInv, NEW t \in Threads,
         \/ \E user \in Users : RecordEvent(t, user)
         \/ Stash(t) \/ SkipNote(t) \/ Note(t) \/ Count(t) \/ Pick(t) \/ Trim(t)
         \/ Purge(t) \/ PurgeTraces(t) \/ PurgeEvents(t)
  PROVE  AnswerInv' /\ ForgetInv'
<1>0. UNCHANGED <<engine, ltm, issued>>
  BY DEF RecordEvent, Stash, SkipNote, Note, Count, Pick, Trim, Purge, PurgeTraces,
         PurgeEvents, tables
<1>1. /\ Persisted' = Persisted /\ \A u \in Persisted : ltm'[u].dim = ltm[u].dim
      /\ Indexed(engine') = Indexed(engine) /\ engine'.dim = engine.dim
  BY <1>0 DEF Persisted
<1>2. /\ threads[t] \in Thread /\ threads' \in [Threads -> ReadyThread]
      /\ threads \in [Threads -> ReadyThread]
  BY Carried DEF TypeInv
<1>3. ASSUME NEW user \in Users, RecordEvent(t, user)
      PROVE  AnswerInv' /\ ForgetInv'
  <2> DEFINE th == [Idle EXCEPT !.pc = "note", !.user = user]
  <2>1. threads' = [threads EXCEPT ![t] = th] /\ UNCHANGED <<stm, events, log>>
    BY <1>3 DEF RecordEvent, Enter, tables
  <2>2. th.rows = <<>> /\ th.uid = 0 /\ th.pc = "note"
    BY DEF Idle
  <2> HIDE DEF th
  <2>3. \A o \in Threads : Settled(o) /\ Unpublished(o)
    BY <2>1, <2>2, SettledReturn
  <2> QED
    BY <1>0, <1>1, <2>1, <2>3, BothQuiet
<1>4. CASE Purge(t)
  <2> DEFINE th == [Idle EXCEPT !.pc = IF StmEnabled THEN "purge" ELSE "sweep"]
  <2>1. threads' = [threads EXCEPT ![t] = th] /\ UNCHANGED <<stm, events, log>>
    BY <1>4 DEF Purge, Enter, tables
  <2>2. th.rows = <<>> /\ th.uid = 0 /\ th.pc \in {"purge", "sweep"}
    BY DEF Idle
  <2> HIDE DEF th
  <2>3. \A o \in Threads : Settled(o) /\ Unpublished(o)
    BY <2>1, <2>2, SettledReturn
  <2> QED
    BY <1>0, <1>1, <2>1, <2>3, BothQuiet
<1>5. CASE Stash(t)
  <2>1. /\ Goto(t, "note") /\ Late(t) /\ UNCHANGED <<events, log>>
        /\ stm' = [stm EXCEPT ![threads[t].uid] = "fresh"]
    BY <1>5 DEF Stash, At, Late
  <2>2. \A o \in Threads : Settled(o) /\ Unpublished(o)
    BY <2>1, SettledGoto
  <2>3. \A u \in Uids : stm'[u] = stm[u] \/ u = threads[t].uid
    BY <2>1 DEF TypeInv
  <2> QED
    BY <1>0, <1>1, <2>1, <2>2, <2>3, BothQuiet
<1>6. CASE Note(t)
  <2> DEFINE n == 1 + Max({0} \cup {e.id : e \in events})
             event == [id |-> n, user |-> threads[t].user,
                       uid |-> threads[t].uid, stale |-> FALSE]
  <2>1. /\ Goto(t, "count") /\ Late(t) /\ UNCHANGED <<stm, log>>
        /\ events' \subseteq events \cup {event}
    BY <1>6 DEF Note, At, Late
  <2>2. \A o \in Threads : Settled(o) /\ Unpublished(o)
    BY <2>1, SettledGoto
  <2>3. event.uid = threads[t].uid
    OBVIOUS
  <2> HIDE DEF event
  <2>4. \A e \in events' : e.uid # 0 => (\E f \in events : f.uid = e.uid) \/ e.uid = threads[t].uid
    BY <2>1, <2>3
  <2> QED
    BY <1>0, <1>1, <2>1, <2>2, <2>4, BothQuiet
<1>7. CASE SkipNote(t) \/ Trim(t)
  <2>1. /\ Return(t) /\ log' = Noted(t) /\ Late(t) /\ UNCHANGED stm
        /\ events' \subseteq events
    BY <1>7 DEF SkipNote, Trim, At, Late, tables
  <2>2. \A o \in Threads : Settled(o) /\ Unpublished(o)
    BY <2>1, IdleFields, SettledReturn DEF Return
  <2> QED
    BY <1>0, <1>1, <2>1, <2>2, NotedLog, BothQuiet
<1>8. CASE PurgeTraces(t)
  <2>1. /\ Goto(t, "sweep") /\ UNCHANGED <<events, log>>
        /\ stm' = [u \in Uids |-> IF stm[u] = "stale" THEN "absent" ELSE stm[u]]
    BY <1>8 DEF PurgeTraces
  <2>2. \A o \in Threads : Settled(o) /\ Unpublished(o)
    BY <2>1, SettledGoto
  <2>3. \A u \in Uids : stm'[u] # "absent" => stm[u] # "absent"
    BY <2>1
  <2> QED
    BY <1>0, <1>1, <2>1, <2>2, <2>3, BothQuiet
<1>9. CASE PurgeEvents(t)
  <2>1. Return(t) /\ UNCHANGED <<stm, log>> /\ events' \subseteq events
    BY <1>9 DEF PurgeEvents
  <2>2. \A o \in Threads : Settled(o) /\ Unpublished(o)
    BY <2>1, IdleFields, SettledReturn DEF Return
  <2> QED
    BY <1>0, <1>1, <2>1, <2>2, BothQuiet
<1>10. CASE Count(t)
  <2>1. UNCHANGED <<stm, events>> /\ Late(t)
    BY <1>10 DEF Count, At, Late, tables
  <2>2. CASE /\ threads' = [threads EXCEPT ![t].pc = "pick",
                                           ![t].over = Overflow(threads[t].user)]
             /\ log' = [log EXCEPT !.untrimmed = @ \ {threads[t].user}]
    <3> DEFINE over == Overflow(threads[t].user)
               th == [threads[t] EXCEPT !.pc = "pick", !.over = over]
    <3> HIDE DEF over
    <3>1. threads' = [threads EXCEPT ![t] = th]
      BY <1>2, <2>2 DEF over
    <3>2. th.pc = "pick" /\ th.rows = threads[t].rows /\ th.uid = threads[t].uid
      BY <1>2 DEF Thread
    <3>3. {th.rows[i] : i \in DOMAIN th.rows} \subseteq RowsOf(t)
      BY <3>2 DEF RowsOf
    <3> HIDE DEF th
    <3>4. \A o \in Threads : Settled(o) /\ Unpublished(o)
      BY <2>1, <3>1, <3>2, <3>3, SettledMove
    <3>5. /\ log'.rejected = log.rejected /\ log'.dropped = log.dropped
          /\ log'.forgotten = log.forgotten /\ log'.remembered = log.remembered
      BY <2>2 DEF TypeInv, Log
    <3> QED
      BY <1>0, <1>1, <2>1, <3>4, <3>5, BothQuiet
  <2>3. CASE /\ Return(t)
             /\ log' = [Noted(t) EXCEPT !.untrimmed = @ \ {threads[t].user}]
    <3>1. /\ log'.rejected = log.rejected /\ log'.dropped = log.dropped
          /\ log'.forgotten = log.forgotten
          /\ log'.remembered = log.remembered \cup ({threads[t].uid} \ {0})
      BY <2>3 DEF Noted, TypeInv, Log
    <3>2. ~Late(t)'
      BY <2>3, IdleFields DEF Return, Late, TypeInv
    <3>3. \A o \in Threads : Settled(o) /\ Unpublished(o)
      BY <2>3, IdleFields, SettledReturn DEF Return
    <3> QED
      BY <1>0, <1>1, <2>1, <3>1, <3>2, <3>3, BothQuiet
  <2> QED
    BY <1>10, <2>2, <2>3 DEF Count
<1>11. CASE Pick(t)
  <2> DEFINE ids == {e.id : e \in EventsOf(threads[t].user)}
             picked == {i \in ids : Cardinality({j \in ids : j < i})
                                       < threads[t].over}
             th == [threads[t] EXCEPT !.pc = "trim", !.ids = picked]
  <2> HIDE DEF picked
  <2>1. /\ threads' = [threads EXCEPT ![t] = th] /\ Late(t)
        /\ UNCHANGED <<stm, events, log>>
    BY <1>2, <1>11 DEF Pick, At, Late, tables, picked
  <2>2. th.pc = "trim" /\ th.rows = threads[t].rows /\ th.uid = threads[t].uid
    BY <1>2 DEF Thread
  <2>3. {th.rows[i] : i \in DOMAIN th.rows} \subseteq RowsOf(t)
    BY <2>2 DEF RowsOf
  <2> HIDE DEF th
  <2>4. \A o \in Threads : Settled(o) /\ Unpublished(o)
    BY <2>1, <2>2, <2>3, SettledMove
  <2> QED
    BY <1>0, <1>1, <2>1, <2>4, BothQuiet
<1> QED
  BY <1>3, <1>4, <1>5, <1>6, <1>7, <1>8, <1>9, <1>10, <1>11

\* A recall, and faults other than a restart.
LEMMA AnswerRecall ==
  ASSUME TypeInv, TypeInv', AnswerInv, ForgetInv,
         \/ \E t \in Threads, user \in Users, dim \in Dims : Search(t, user, dim)
         \/ \E t \in Threads, u \in Uids : Mark(t, u)
         \/ \E t \in Threads : Increment(t) \/ Fail(t)
         \/ \E u \in Uids : ExpireTrace(u)
         \/ \E e \in events : ExpireEvent(e)
  PROVE  AnswerInv' /\ ForgetInv'
<1>1. ASSUME NEW t \in Threads, NEW user \in Users, NEW dim \in Dims, Search(t, user, dim)
      PROVE  AnswerInv' /\ ForgetInv'
  <2>1. PICK uids \in Found(engine, user, RecallLimit) :
            Enter(t, [Idle EXCEPT !.pc = "mark", !.user = user,
                                  !.uids = uids, !.left = uids])
    BY <1>1 DEF Search
  <2> DEFINE th == [Idle EXCEPT !.pc = "mark", !.user = user,
                                !.uids = uids, !.left = uids]
  <2>2. threads' = [threads EXCEPT ![t] = th]
    BY <2>1 DEF Enter
  <2>3. th.rows = <<>> /\ th.uid = 0 /\ th.pc = "mark"
    BY DEF Idle
  <2> HIDE DEF th
  <2>4. \A o \in Threads : Settled(o) /\ Unpublished(o)
    BY <2>2, <2>3, SettledReturn
  <2>5. UNCHANGED <<engine, ltm, stm, events, issued, log>>
    BY <1>1 DEF Search, tables
  <2> QED
    BY <2>4, <2>5, BothQuiet DEF Persisted
<1>2. ASSUME NEW t \in Threads, NEW u \in Uids, Mark(t, u)
      PROVE  AnswerInv' /\ ForgetInv'
  <2> DEFINE left == threads[t].left \ {u}
             pc == IF left = {} THEN "increment" ELSE "mark"
             th == [threads[t] EXCEPT !.left = left, !.pc = pc]
  <2>1. threads' = [threads EXCEPT ![t] = th]
    BY <1>2 DEF Mark, TypeInv
  <2>2. pc \in {"increment", "mark"}
    OBVIOUS
  <2> HIDE DEF left, pc
  <2>3. th.pc = pc /\ th.rows = threads[t].rows
    BY Carried DEF Thread
  <2>4. {th.rows[i] : i \in DOMAIN th.rows} \subseteq RowsOf(t)
    BY <2>3 DEF RowsOf
  <2> HIDE DEF th
  <2>5. engine' = Marked(engine, u) /\ UNCHANGED <<ltm, stm, events, issued, log>>
    BY <1>2 DEF Mark, tables
  <2>6. \A o \in Threads : Settled(o) /\ Unpublished(o)
    BY <2>1, <2>2, <2>3, <2>4, SettledMove
  <2>7. Indexed(engine') = Indexed(engine) /\ engine'.dim = engine.dim
    BY <2>5, MarkedIndexed DEF TypeInv
  <2> QED
    BY <2>5, <2>6, <2>7, BothQuiet DEF Persisted
<1>3. ASSUME NEW t \in Threads, Increment(t)
      PROVE  AnswerInv' /\ ForgetInv'
  <2>1. \A u \in Uids : ltm'[u].dim = ltm[u].dim /\ (ltm'[u] = Absent <=> ltm[u] = Absent)
    <3>1. ASSUME NEW u \in Uids, u \in Persisted
          PROVE  /\ [ltm[u] EXCEPT !.count = @ + 1].dim = ltm[u].dim
                 /\ [ltm[u] EXCEPT !.count = @ + 1] # Absent
      <4>1. ltm[u] \in [dim : Dims, count : Nat]
        BY <3>1 DEF Persisted, TypeInv
      <4> QED
        BY <4>1, EngineConstants DEF Absent
    <3> QED
      BY <1>3, <3>1 DEF Increment, Counted, Persisted
  <2>2. Persisted' = Persisted /\ \A u \in Persisted : ltm'[u].dim = ltm[u].dim
    BY <2>1 DEF Persisted
  <2>3. /\ log'.rejected = log.rejected /\ log'.dropped = log.dropped
        /\ log'.forgotten = log.forgotten /\ log'.remembered = log.remembered
    BY <1>3 DEF Increment, TypeInv, Log
  <2>4. Return(t) /\ UNCHANGED <<engine, stm, events, issued>>
    BY <1>3 DEF Increment
  <2>5. \A o \in Threads : Settled(o) /\ Unpublished(o)
    BY <2>4, IdleFields, SettledReturn DEF Return
  <2> QED
    BY <2>2, <2>3, <2>4, <2>5, BothQuiet
<1>4. ASSUME NEW t \in Threads, Fail(t)
      PROVE  AnswerInv' /\ ForgetInv'
  <2>1. Return(t) /\ UNCHANGED <<engine, ltm, stm, events, issued>>
    BY <1>4 DEF Fail, tables
  <2>2. /\ log'.rejected = log.rejected /\ log'.dropped = log.dropped
        /\ log'.forgotten = log.forgotten /\ log'.remembered = log.remembered
    BY <1>4 DEF Fail, TypeInv, Log
  <2>3. \A o \in Threads : Settled(o) /\ Unpublished(o)
    BY <2>1, IdleFields, SettledReturn DEF Return
  <2> QED
    BY <2>1, <2>2, <2>3, BothQuiet DEF Persisted
<1>5. CASE UNCHANGED threads => \A o \in Threads : Settled(o) /\ Unpublished(o)
  <2>1. ASSUME NEW u \in Uids, ExpireTrace(u)
        PROVE  AnswerInv' /\ ForgetInv'
    <3>1. /\ stm' = [stm EXCEPT ![u] = "stale"] /\ stm[u] = "fresh"
          /\ UNCHANGED <<engine, ltm, events, threads, issued, log>>
      BY <2>1 DEF ExpireTrace
    <3>2. \A v \in Uids : stm'[v] # "absent" => stm[v] # "absent"
      BY <3>1 DEF TypeInv
    <3> QED
      BY <1>5, <3>1, <3>2, BothQuiet DEF Persisted
  <2>2. ASSUME NEW e \in events, ExpireEvent(e)
        PROVE  AnswerInv' /\ ForgetInv'
    <3> DEFINE old == [e EXCEPT !.stale = TRUE]
    <3>1. /\ events' = (events \ {e}) \cup {old}
          /\ UNCHANGED <<engine, ltm, stm, threads, issued, log>>
      BY <2>2 DEF ExpireEvent
    <3>2. old.uid = e.uid
      BY DEF TypeInv, Event
    <3> HIDE DEF old
    <3>3. \A f \in events' : \E g \in events : g.uid = f.uid
      BY <3>1, <3>2
    <3> QED
      BY <1>5, <3>1, <3>3, BothQuiet DEF Persisted
  <2> QED
    BY <1>1, <1>2, <1>3, <1>4, <2>1, <2>2
<1>6. UNCHANGED threads => \A o \in Threads : Settled(o) /\ Unpublished(o)
  BY DEF Settled, Answering, Unpublished, Early, Late, At, RowsOf
<1> QED
  BY <1>5, <1>6

-----------------------------------------------------------------------------
\* A uuid that is taken has not been told of, seen or forgotten.
LEMMA AnswerBegin ==
  ASSUME TypeInv, DurableInv, AnswerInv, ForgetInv,
         NEW t \in Threads, NEW dim \in Dims, Remember(t, dim)
  PROVE  AnswerInv' /\ ForgetInv'
<1> DEFINE th == [Idle EXCEPT !.pc = "persist", !.uid = issued + 1,
                              !.user = UserOf(issued + 1), !.dim = dim]
<1>1. /\ threads' = [threads EXCEPT ![t] = th] /\ issued + 1 \in Uids
      /\ issued' = issued + 1 /\ UNCHANGED <<engine, tables, log>>
  BY DEF Remember, Enter
<1>2. th.pc = "persist" /\ th.uid = issued + 1 /\ th.rows = <<>>
  BY DEF Idle
<1> HIDE DEF th
<1>3. threads'[t] = th /\ \A o \in Threads \ {t} : threads'[o] = threads[o]
  BY <1>1 DEF TypeInv
<1> DEFINE new == issued + 1
<1>4. new \in Uids /\ issued' = new /\ \A u \in Uids : (u <= issued => u # new /\ u <= new)
  <2>1. issued \in Nat /\ \A u \in Uids : u \in Nat
    BY EngineConstants DEF TypeInv
  <2> QED
    BY <1>1, <2>1
<1>5. \A u \in Uids : u > new => u > issued
  <2>1. issued \in Nat /\ \A u \in Uids : u \in Nat
    BY EngineConstants DEF TypeInv
  <2> QED
    BY <2>1
<1>6. new > issued /\ new <= issued'
  BY <1>1 DEF TypeInv
<1>7. th.uid = new
  BY <1>2
<1> HIDE DEF new
<1>8. UNCHANGED <<engine, ltm, stm, events, log>> /\ Persisted' = Persisted
  BY <1>1 DEF tables, Persisted
<1>9. /\ \A u \in Uids : Remembering(t, u)' => u = new
      /\ Early(t)' /\ ~Late(t)' /\ ~Forgetting(t)' /\ RowsOf(t)' = {}
  BY <1>2, <1>3, <1>7 DEF Remembering, Early, Late, Forgetting, RowsOf
<1>10. \A o \in Threads \ {t} :
          /\ \A u \in Uids : Remembering(o, u)' <=> Remembering(o, u)
          /\ Early(o)' <=> Early(o)
          /\ Late(o)' <=> Late(o)
          /\ Forgetting(o)' <=> Forgetting(o)
          /\ RowsOf(o)' = RowsOf(o)
  BY <1>3 DEF Remembering, Early, Late, Forgetting, RowsOf
<1>11. \A u \in Uids : Touched(u)' <=> Touched(u)
  BY <1>8 DEF Touched
<1>12. \A u \in Uids : Held(u)' <=> Held(u)
  BY <1>8 DEF Held
<1>13. log.remembered \subseteq Uids /\ log.rejected \subseteq Uids
       /\ log.forgotten \subseteq Uids /\ log.dropped \subseteq Uids
  BY DEF TypeInv, Log
<1>14. OnceInv'
  <2>1. /\ \A u \in log.remembered \cup log.rejected : u # new /\ u <= new
        /\ \A o \in Threads : ~Remembering(o, new)
    BY <1>4, <1>13 DEF AnswerInv, OnceInv
  <2>2. ASSUME NEW o \in Threads, NEW u \in Uids, Remembering(o, u)'
        PROVE  /\ u <= issued' /\ u \notin log'.remembered \cup log'.rejected
               /\ \A p \in Threads : Remembering(p, u)' => p = o
    <3>1. CASE o = t
      <4>1. u = new
        BY <1>9, <2>2, <3>1
      <4>2. u <= issued'
        BY <1>6, <4>1
      <4> QED
        BY <1>8, <1>10, <2>1, <3>1, <4>1, <4>2
    <3>2. CASE o # t
      <4>1. Remembering(o, u) /\ u # new
        BY <1>10, <2>1, <2>2, <3>2
      <4>2. /\ u <= issued /\ u \notin log.remembered \cup log.rejected
            /\ \A p \in Threads : Remembering(p, u) => p = o
        BY <4>1 DEF AnswerInv, OnceInv
      <4> QED
        BY <1>4, <1>8, <1>9, <1>10, <4>1, <4>2
    <3> QED
      BY <3>1, <3>2
  <2> QED
    BY <1>4, <1>8, <2>1, <2>2 DEF OnceInv
<1>15. UntouchedInv'
  <2>1. \A u \in Uids : u > issued' => ~Touched(u)'
    BY <1>4, <1>5, <1>11 DEF AnswerInv, UntouchedInv
  <2>2. ~Touched(new)
    BY <1>4, <1>6 DEF AnswerInv, UntouchedInv
  <2>3. ASSUME NEW o \in Threads, Early(o)' PROVE ~Touched(threads[o].uid)'
    <3>1. CASE o = t
      BY <1>3, <1>7, <1>8, <2>2, <3>1 DEF Touched
    <3>2. CASE o # t
      <4>1. Early(o) /\ threads'[o] = threads[o]
        BY <1>3, <1>10, <2>3, <3>2
      <4>2. ~Touched(threads[o].uid)
        BY <4>1 DEF AnswerInv, UntouchedInv
      <4> QED
        BY <1>8, <4>1, <4>2 DEF Touched
    <3> QED
      BY <3>1, <3>2
  <2> QED
    BY <2>1, <2>3 DEF UntouchedInv
<1>16. HeldInv'
  BY <1>3, <1>8, <1>9, <1>10, <1>12 DEF AnswerInv, HeldInv
<1>17. RejectedInv'
  BY <1>8, <1>9, <1>10, <1>11, <1>13 DEF AnswerInv, RejectedInv
<1>18. ASSUME NEW u \in Uids, u \in log.dropped, Out(u) PROVE Out(u)'
  <2>1. u # new
    BY <1>4, <1>18 DEF DurableInv, Known
  <2> QED
    BY <1>9, <1>10, <1>18, <2>1 DEF Out
<1>19. \A o \in Threads : Advancing(o)
  <2>1. ASSUME NEW o \in Threads, Forgetting(o)' PROVE Advancing(o)
    <3>1. o # t /\ Forgetting(o) /\ threads'[o] = threads[o]
      BY <1>3, <1>9, <1>10, <2>1
    <3>2. threads[o].uid \in log.dropped
      BY <3>1 DEF ForgetInv
    <3> QED
      BY <1>18, <3>1, <3>2 DEF Advancing
  <2> QED
    BY <2>1 DEF Advancing
<1>20. \A u \in Uids : Sourced(u)
  BY <1>8, <1>11 DEF Sourced
<1>21. \A u \in log.forgotten : Out(u)'
  BY <1>13, <1>18 DEF ForgetInv
<1>22. ForgetInv'
  BY <1>8, <1>19, <1>20, <1>21, ForgetKept
<1> QED
  BY <1>14, <1>15, <1>16, <1>17, <1>22 DEF AnswerInv

\* A row is committed for a trace that nobody has been told of.
LEMMA AnswerPersist ==
  ASSUME TypeInv, TypeInv', DurableInv, AnswerInv, ForgetInv,
         NEW t \in Threads, Persist(t)
  PROVE  AnswerInv' /\ ForgetInv'
<1> DEFINE u == threads[t].uid
<1>1. /\ Goto(t, "publish") /\ At(t, "persist") /\ Early(t) /\ Remembering(t, u)
      /\ ltm' = [ltm EXCEPT ![u] = [dim |-> threads[t].dim, count |-> 0]]
      /\ UNCHANGED <<engine, stm, events, issued, log>>
  BY DEF Persist, At, Early, Remembering
<1>2. u \notin Persisted
  BY <1>1 DEF DurableInv, EarlyInv, Known
<1>3. \A o \in Threads : Settled(o) /\ Unpublished(o)
  BY <1>1, SettledGoto
<1>4. \A v \in Uids : v # u => ltm'[v] = ltm[v]
  BY <1>1 DEF TypeInv
<1>5. \A v \in Persisted : v \in Persisted' /\ ltm'[v] = ltm[v]
  BY <1>2, <1>4 DEF Persisted
<1>6. \A v \in Persisted' : v \in Persisted \/ v = u
  BY <1>4 DEF Persisted
<1> HIDE DEF u
<1>7. \A v \in Uids : Touched(v)' <=> Touched(v)
  BY <1>1 DEF Touched
<1>8. AnswerInv'
  <2>1. \A o \in Threads : Answering(o)
    BY <1>3 DEF Settled
  <2>2. \A o \in Threads, v \in Uids : ~(At(o, "publish") /\ Late(o)' /\ threads'[o].uid = v)
    BY <1>3, EngineConstants DEF Unpublished
  <2> QED
    BY <1>1, <1>5, <1>6, <1>7, <2>1, <2>2, AnswerQuiet
<1>9. \A v \in Uids : Sourced(v)
  BY <1>1, <1>6, <1>7 DEF Sourced
<1> QED
  BY <1>1, <1>3, <1>8, <1>9, ForgetQuiet

\* An ingest of a trace that has not been refused, which is held from then on
\* if its remember() publishes it.
LEMMA AnswerIngest ==
  ASSUME TypeInv, TypeInv', AnswerInv, ForgetInv, NEW trace \in Trace,
         \A o \in Threads : Settled(o),
         Accepts(engine, trace.dim), engine' = Ingested(engine, trace),
         UNCHANGED <<tables, issued, log>>, trace.uid \notin log.rejected,
         \/ \E o \in Threads : Remembering(o, trace.uid)
         \/ \E o \in Threads : \E row \in RowsOf(o) : row.uid = trace.uid,
         \A o \in Threads, u \in Uids : At(o, "publish") /\ Late(o)' /\ threads'[o].uid = u =>
             u \in log.dropped \/
             (u = trace.uid /\ u \in Persisted /\ ltm[u].dim = trace.dim)
  PROVE  AnswerInv' /\ ForgetInv'
<1>1. /\ Indexed(engine') = Indexed(engine) \cup {trace.uid}
      /\ engine'.dim = trace.dim
  BY IngestedIndexed DEF TypeInv
<1>2. engine.dim \in {0, engine'.dim}
  BY <1>1 DEF Accepts
<1>3. UNCHANGED <<ltm, stm, events, issued, log>> /\ Persisted' = Persisted
  BY DEF tables, Persisted
<1>4. \A v \in Uids : Touched(v)' <=> Touched(v)
  BY <1>3 DEF Touched
<1>5. \A o \in Threads, u \in Uids : At(o, "publish") /\ Late(o)' /\ threads'[o].uid = u =>
             u \in log'.dropped \/ Held(u)'
  BY <1>1, <1>3 DEF Held
<1>6. \A o \in Threads : Answering(o)
  BY DEF Settled
<1>7. AnswerInv'
  BY <1>1, <1>2, <1>3, <1>4, <1>5, <1>6, AnswerQuiet
<1>8. \A v \in Uids : Sourced(v)
  BY <1>1, <1>3, <1>4 DEF Sourced
<1> QED
  BY <1>3, <1>7, <1>8, ForgetQuiet

\* What is published is held, unless somebody has asked to forget it already.
LEMMA AnswerPublish ==
  ASSUME TypeInv, TypeInv', DurableInv, AnswerInv, ForgetInv,
         NEW t \in Threads, Publish(t)
  PROVE  AnswerInv' /\ ForgetInv'
<1> DEFINE trace == [uid |-> threads[t].uid, dim |-> threads[t].dim, count |-> 0]
<1>1. /\ At(t, "publish") /\ Early(t) /\ UNCHANGED <<tables, issued, log>>
  BY DEF Publish, At, Early
<1>2. CASE Accepts(engine, trace.dim) /\ engine' = Ingested(engine, trace)
           /\ Goto(t, IF StmEnabled THEN "stash" ELSE "note")
  <2>1. trace \in Trace /\ trace.uid = threads[t].uid /\ trace.dim = threads[t].dim
    BY <1>1, Carried DEF Trace, Ready, Thread, At
  <2>2. Accepts(engine, trace.dim) /\ engine' = Ingested(engine, trace)
    BY <1>2
  <2> HIDE DEF trace
  <2>3. \A o \in Threads : Settled(o)
    <3>1. Goto(t, "stash") \/ Goto(t, "note")
      BY <1>2
    <3> QED
      BY <1>1, <3>1, SettledGoto
  <2>4. trace.uid \in Uids /\ Remembering(t, trace.uid)
    BY <1>1, <2>1, Carried, Phases
  <2>5. trace.uid \notin log.rejected
    BY <2>4 DEF AnswerInv, OnceInv
  <2>6. \/ trace.uid \in log.dropped
        \/ trace.uid \in Persisted /\ ltm[trace.uid].dim = trace.dim
    BY <1>1, <2>1 DEF DurableInv, EarlyInv, LengthInv, Known
  <2>7. \A o \in Threads, u \in Uids : At(o, "publish") /\ Late(o)' /\ threads'[o].uid = u =>
             u \in log.dropped \/
             (u = trace.uid /\ u \in Persisted /\ ltm[u].dim = trace.dim)
    <3>1. ASSUME NEW o \in Threads, NEW u \in Uids,
                 At(o, "publish"), Late(o)', threads'[o].uid = u
          PROVE  u = trace.uid
      <4>1. CASE o = t
        <5>1. u = threads[t].uid
          BY <3>1, <4>1, <2>3, EngineConstants DEF Settled, Answering
        <5> QED
          BY <2>1, <5>1
      <4>2. CASE o # t
        <5>1. threads'[o] = threads[o]
          BY <1>2, <4>2 DEF Goto, TypeInv
        <5> QED
          BY <3>1, <5>1 DEF At, Late
      <4> QED
        BY <4>1, <4>2
    <3> QED
      BY <2>6, <3>1
  <2> QED
    BY <1>1, <2>1, <2>2, <2>3, <2>4, <2>5, <2>7, AnswerIngest
<1>3. CASE Goto(t, "reject") /\ UNCHANGED engine
  <2>1. \A o \in Threads : Settled(o) /\ Unpublished(o)
    BY <1>1, <1>3, SettledGoto
  <2>2. UNCHANGED <<engine, ltm, stm, events, issued, log>>
    BY <1>1, <1>3 DEF tables
  <2> QED
    BY <2>1, <2>2, BothQuiet DEF Persisted
<1> QED
  BY <1>2, <1>3 DEF Publish

\* A trace is taken back before anything but its row knows of it.
LEMMA AnswerReject ==
  ASSUME TypeInv, TypeInv', DurableInv, AnswerInv, ForgetInv,
         NEW t \in Threads, Reject(t)
  PROVE  AnswerInv' /\ ForgetInv'
<1>1. /\ Return(t) /\ At(t, "reject") /\ Early(t)
      /\ ltm' = [ltm EXCEPT ![threads[t].uid] = Absent]
      /\ UNCHANGED <<engine, stm, events, issued>>
  BY DEF Reject, At, Early
<1>2. /\ log'.remembered = log.remembered /\ log'.dropped = log.dropped
      /\ log'.forgotten = log.forgotten
      /\ log'.rejected = log.rejected \cup {threads[t].uid}
  BY DEF Reject, TypeInv, Log
<1>3. \A o \in Threads : Settled(o) /\ Unpublished(o)
  BY <1>1, IdleFields, SettledReturn DEF Return
<1>4. PICK u \in Uids : u = threads[t].uid
  BY <1>1, Carried
<1>5. \A v \in Uids : ltm'[v] = IF v = u THEN Absent ELSE ltm[v]
  BY <1>1, <1>4 DEF TypeInv
<1>6. u \notin Persisted' /\ \A v \in Uids : v # u => (v \in Persisted' <=> v \in Persisted)
  BY <1>5 DEF Persisted
<1>7. engine.dim \notin {0, threads[t].dim} /\ u \notin Indexed(engine)
  BY <1>1, <1>4 DEF DurableInv, LengthInv, At
<1>8. \A o \in Threads : \A row \in RowsOf(o) : row.uid = u => row.dim = threads[t].dim
  BY <1>1, <1>4 DEF DurableInv, RowInv
<1>9. Refused(u)
  <2>1. ~Early(t)' /\ ~Late(t)'
    BY <1>1, IdleFields DEF Return, Early, Late, TypeInv
  <2>2. \A o \in Threads : RowsOf(o)' \subseteq RowsOf(o)
    BY <1>3 DEF Settled
  <2> QED
    BY <1>1, <1>4, <1>6, <1>7, <1>8, <2>1, <2>2 DEF Refused
<1>10. \A v \in Uids : Touched(v)' <=> Touched(v)
  BY <1>1 DEF Touched
<1>11. AnswerInv'
  <2>1. \A o \in Threads : Answering(o)
    BY <1>3 DEF Settled
  <2>2. \A o \in Threads, v \in Uids : ~(At(o, "publish") /\ Late(o)' /\ threads'[o].uid = v)
    BY <1>3, EngineConstants DEF Unpublished
  <2>3. \A v \in log'.rejected : v \in log.rejected \/ Refused(v)
    BY <1>2, <1>4, <1>9
  <2>4. Persisted \subseteq Persisted' \cup log.dropped \cup log'.rejected
    BY <1>2, <1>4, <1>6 DEF Persisted
  <2>5. \A v \in Persisted' : v \in Persisted
    BY <1>6 DEF Persisted
  <2>6. \A v \in Persisted \cap Persisted' : ltm'[v].dim = ltm[v].dim
    BY <1>5, <1>6 DEF Persisted
  <2> QED
    BY <1>1, <1>2, <1>10, <2>1, <2>2, <2>3, <2>4, <2>5, <2>6, AnswerQuiet
<1>12. \A v \in Uids : Sourced(v)
  BY <1>1, <1>6, <1>10 DEF Sourced
<1> QED
  BY <1>1, <1>2, <1>3, <1>11, <1>12, ForgetQuiet

\* A hydration ingests what is in the table, or what the index refuses.
LEMMA AnswerLoad ==
  ASSUME TypeInv, TypeInv', AnswerInv, ForgetInv, NEW t \in Threads, Load(t)
  PROVE  AnswerInv' /\ ForgetInv'
<1> DEFINE rows == threads[t].rows
<1>1. /\ rows \in Seq(Trace) /\ rows # <<>> /\ At(t, "load")
      /\ UNCHANGED <<tables, issued, log>>
  BY Carried DEF Load, At, Ready, Thread
<1>2. Head(rows) \in Trace /\ Head(rows) \in RowsOf(t)
  <2>1. Head(rows) \in Trace
    BY <1>1, HeadTailProperties
  <2>2. Len(rows) \in Nat \ {0} /\ DOMAIN rows = 1 .. Len(rows)
    BY <1>1, EmptySeq, LenProperties
  <2>3. 1 \in DOMAIN rows
    BY <2>2
  <2>4. Head(rows) = rows[1]
    BY <1>1
  <2> QED
    BY <2>1, <2>3, <2>4 DEF RowsOf
<1>3. \A o \in Threads : Settled(o) /\ Unpublished(o)
  <2>1. CASE Return(t)
    BY <2>1, IdleFields, SettledReturn DEF Return
  <2>2. CASE threads' = [threads EXCEPT ![t].rows = Tail(rows)]
    <3> DEFINE rest == Tail(rows)
               th == [threads[t] EXCEPT !.rows = rest]
    <3>1. \A i \in DOMAIN rest : rest[i] \in RowsOf(t)
      <4>1. /\ rest \in Seq(Trace) /\ Len(rest) = Len(rows) - 1
            /\ \A i \in 1 .. Len(rest) : rest[i] = rows[i + 1]
        BY <1>1, HeadTailProperties
      <4>2. DOMAIN rest = 1 .. Len(rest) /\ DOMAIN rows = 1 .. Len(rows)
        BY <1>1, <4>1, LenProperties
      <4>3. Len(rest) \in Nat /\ Len(rows) \in Nat
        BY <1>1, <4>1, LenProperties
      <4> HIDE DEF rest
      <4> DEFINE all == rows
      <4>4. \A i \in DOMAIN rest : i + 1 \in DOMAIN all /\ rest[i] = all[i + 1]
        BY <4>1, <4>2, <4>3
      <4> QED
        BY <4>4 DEF RowsOf
    <3>2. threads' = [threads EXCEPT ![t] = th]
      BY <2>2 DEF TypeInv
    <3> HIDE DEF rest
    <3>3. th.pc = "load" /\ th.rows = rest
      BY <1>1, Carried DEF Thread, At
    <3>4. {th.rows[i] : i \in DOMAIN th.rows} \subseteq RowsOf(t)
      BY <3>1, <3>3
    <3> HIDE DEF th
    <3> QED
      BY <3>2, <3>3, <3>4, SettledMove
  <2> QED
    BY <2>1, <2>2 DEF Load
<1> DEFINE trace == Head(rows)
<1>4. trace \in Trace /\ \E o \in Threads : \E row \in RowsOf(o) : row.uid = trace.uid
  BY <1>2
<1>5. CASE Accepts(engine, trace.dim)
  <2>1. engine' = Ingested(engine, trace)
    BY <1>5 DEF Load
  <2>2. trace.uid \notin log.rejected
    BY <1>2, <1>5 DEF Accepts, AnswerInv, RejectedInv
  <2> HIDE DEF trace
  <2>3. \A o \in Threads, u \in Uids : ~(At(o, "publish") /\ Late(o)' /\ threads'[o].uid = u)
    BY <1>3, EngineConstants DEF Unpublished
  <2> QED
    BY <1>1, <1>3, <1>4, <1>5, <2>1, <2>2, <2>3, AnswerIngest
<1>6. CASE ~Accepts(engine, trace.dim)
  <2>1. UNCHANGED <<engine, ltm, stm, events, issued, log>>
    BY <1>1, <1>6 DEF Load, tables
  <2> QED
    BY <1>3, <2>1, BothQuiet DEF Persisted
<1> QED
  BY <1>5, <1>6

\* Of a trace whose row a hydration has read, no call of forget() is alone.
LEMMA AnswerHydrate ==
  ASSUME TypeInv, TypeInv', AnswerInv, ForgetInv,
         NEW t \in Threads, NEW user \in Users, Hydrate(t, user)
  PROVE  AnswerInv' /\ ForgetInv'
<1>1. PICK uids \in InOrder(user) :
        threads' = [o \in Threads |->
           IF o = t
           THEN [Idle EXCEPT !.pc = "load", !.user = user,
                   !.rows = [i \in DOMAIN uids |->
                       [uid |-> uids[i], dim |-> ltm[uids[i]].dim,
                        count |-> ltm[uids[i]].count]]]
           ELSE [threads[o] EXCEPT !.alone = @ /\ threads[o].uid \notin ToSet(uids)]]
  BY DEF Hydrate
<1>2. UNCHANGED <<engine, ltm, stm, events, issued, log>> /\ Persisted' = Persisted
  BY DEF Hydrate, tables, Persisted
<1> DEFINE rows == [i \in DOMAIN uids |->
                       [uid |-> uids[i], dim |-> ltm[uids[i]].dim,
                        count |-> ltm[uids[i]].count]]
           th == [Idle EXCEPT !.pc = "load", !.user = user, !.rows = rows]
<1>3. threads'[t] = th
  BY <1>1
<1>4. th.pc = "load" /\ th.rows = rows
  BY DEF Idle
<1>5. \A i \in DOMAIN uids : uids[i] \in Persisted /\ uids[i] \in ToSet(uids)
  BY DEF InOrder, ToSet
<1>6. ASSUME NEW i \in DOMAIN rows
      PROVE  rows[i].uid \in Persisted /\ rows[i].uid \in ToSet(uids)
  BY <1>5
<1> HIDE DEF rows
<1> HIDE DEF th
<1>7. ASSUME NEW o \in Threads \ {t}
      PROVE  /\ threads'[o].pc = threads[o].pc /\ threads'[o].uid = threads[o].uid
             /\ threads'[o].rows = threads[o].rows
             /\ threads'[o].alone => threads[o].alone /\ threads[o].uid \notin ToSet(uids)
  <2> DEFINE alone == threads[o].alone /\ threads[o].uid \notin ToSet(uids)
  <2>1. threads'[o] = [threads[o] EXCEPT !.alone = alone]
    BY <1>1
  <2>2. threads'[o].alone = alone
    BY <2>1, Carried DEF Thread
  <2> HIDE DEF alone
  <2>3. /\ threads'[o].pc = threads[o].pc /\ threads'[o].uid = threads[o].uid
        /\ threads'[o].rows = threads[o].rows
    BY <2>1, Carried DEF Thread
  <2> QED
    BY <2>2, <2>3 DEF alone
<1>8. /\ ~Early(t)' /\ ~Late(t)' /\ ~Forgetting(t)' /\ \A u \in Uids : ~Remembering(t, u)'
      /\ \A row \in RowsOf(t)' : row.uid \in Persisted /\ row.uid \in ToSet(uids)
  BY <1>3, <1>4, <1>6 DEF Early, Late, Forgetting, Remembering, RowsOf
<1>9. \A o \in Threads \ {t} :
         /\ RowsOf(o)' = RowsOf(o) /\ (Early(o)' <=> Early(o)) /\ (Late(o)' <=> Late(o))
         /\ (Forgetting(o)' <=> Forgetting(o))
         /\ \A u \in Uids : Remembering(o, u)' <=> Remembering(o, u)
  BY <1>7 DEF RowsOf, Early, Late, Forgetting, Remembering
<1>10. \A o \in Threads : Answering(o)
  BY <1>7, <1>8, <1>9 DEF Answering
<1>11. \A u \in Uids : Touched(u)' <=> Touched(u)
  BY <1>2 DEF Touched
<1>12. AnswerInv'
  <2>1. \A o \in Threads, v \in Uids : ~(At(o, "publish") /\ Late(o)' /\ threads'[o].uid = v)
    <3>1. \A o \in Threads \ {t} : ~(At(o, "publish") /\ Late(o)')
      BY <1>9 DEF At, Late
    <3> QED
      BY <1>8, <3>1
  <2> QED
    BY <1>2, <1>10, <1>11, <2>1, AnswerQuiet
<1>13. ASSUME NEW u \in Uids, u \notin ToSet(uids), Out(u)
       PROVE  Out(u)'
  BY <1>8, <1>9, <1>13 DEF Out
<1>14. \A o \in Threads : Advancing(o)
  <2>1. ASSUME NEW o \in Threads, Forgetting(o)' PROVE Advancing(o)
    <3>1. o # t
      BY <1>8, <2>1
    <3>2. \A u \in Uids : u = threads[o].uid /\ threads'[o].alone /\ Out(u) => Out(u)'
      BY <1>7, <1>13, <3>1
    <3> QED
      BY <1>7, <1>9, <2>1, <3>1, <3>2 DEF Advancing
  <2> QED
    BY <2>1 DEF Advancing
<1>15. \A u \in log.forgotten : Out(u)'
  <2>1. \A u \in ToSet(uids) : u \in Persisted
    BY DEF InOrder, ToSet
  <2> QED
    BY <1>13, <2>1 DEF ForgetInv, TypeInv, Log
<1>16. \A u \in Uids : Sourced(u)
  BY <1>2, <1>11 DEF Sourced
<1> QED
  BY <1>2, <1>12, <1>14, <1>15, <1>16, ForgetKept

\* A restart empties the index and ends what was under way.
LEMMA AnswerRestart ==
  ASSUME TypeInv, AnswerInv, ForgetInv, Restart
  PROVE  AnswerInv' /\ ForgetInv'
<1>1. /\ threads' = [t \in Threads |-> Idle] /\ engine' = EmptyEngine
      /\ UNCHANGED <<ltm, stm, events, issued>>
      /\ log'.remembered = {} /\ log'.rejected = log.rejected
      /\ log'.dropped = log.dropped /\ log'.forgotten = log.forgotten
  BY DEF Restart, TypeInv, Log, tables
<1>2. /\ Persisted' = Persisted /\ Indexed(engine') = {} /\ \A u : Touched(u)' <=> Touched(u)
  BY <1>1 DEF Persisted, Indexed, EmptyEngine, Touched
<1>3. \A t \in Threads : /\ ~Early(t)' /\ ~Late(t)' /\ ~Forgetting(t)' /\ RowsOf(t)' = {}
                         /\ \A u : ~Remembering(t, u)'
  BY <1>1, IdleFields DEF Early, Late, Forgetting, RowsOf, Remembering
<1>4. OnceInv' /\ UntouchedInv' /\ HeldInv' /\ RejectedInv'
  BY <1>1, <1>2, <1>3 DEF AnswerInv, OnceInv, UntouchedInv, HeldInv, RejectedInv
<1>5. \A u : Out(u)'
  BY <1>3 DEF Out
<1>6. ForgetInv'
  BY <1>1, <1>2, <1>3, <1>5 DEF ForgetInv
<1> QED
  BY <1>4, <1>6 DEF AnswerInv

\* forget() goes from store to store, and nothing brings back what it has
\* removed.
LEMMA AnswerForget ==
  ASSUME TypeInv, TypeInv', DurableInv, AnswerInv, ForgetInv, NEW t \in Threads,
         \/ \E u \in Uids : Forget(t, u)
         \/ Unindex(t) \/ Unstore(t) \/ Unstash(t) \/ Unlog(t)
  PROVE  AnswerInv' /\ ForgetInv'
<1>1. \A o \in Threads : threads[o] \in Thread
  BY Carried
\* A step of t, which forgets u, that takes things away and moves on.
<1>2. ASSUME NEW u \in Uids, NEW th, threads' = [threads EXCEPT ![t] = th],
             issued' = issued,
             th.pc \in {"idle", "remove", "unstore", "unstash", "unlog"},
             th.rows = <<>> \/ th.rows = threads[t].rows,
             th.pc # "idle" => th.uid = u,
             u \in log'.dropped, log.dropped \subseteq log'.dropped,
             log'.remembered = log.remembered, log'.rejected = log.rejected,
             \A v \in log'.forgotten \ log.forgotten :
                v = u /\ Out(u)' /\ u \notin Persisted' \cup Indexed(engine') /\ ~Touched(u)',
             Persisted' \subseteq Persisted, Persisted \subseteq Persisted' \cup log.dropped,
             \A v \in Persisted' : ltm'[v] = ltm[v],
             Indexed(engine') \subseteq Indexed(engine),
             Indexed(engine) \subseteq Indexed(engine') \cup log.dropped,
             engine'.dim = engine.dim,
             \A v \in Uids : stm[v] = "absent" => stm'[v] = "absent",
             events' \subseteq events,
             th.pc # "idle" /\ th.alone /\ Out(u)' => Emptied(t)',
             th.pc # "idle" /\ th.alone => Out(u)
      PROVE  AnswerInv' /\ ForgetInv'
  <2>1. threads'[t] = th /\ \A o \in Threads \ {t} : threads'[o] = threads[o]
    BY <1>2 DEF TypeInv
  <2>2. /\ ~Early(t)' /\ ~Late(t)' /\ RowsOf(t)' \subseteq RowsOf(t)
        /\ \A v : ~Remembering(t, v)'
    BY <1>2, <2>1 DEF Early, Late, RowsOf, Remembering
  <2>3. \A o \in Threads \ {t} : Settled(o) /\ Unpublished(o)
    BY <2>1 DEF Settled, Answering, Unpublished, Early, Late, At, RowsOf
  <2>4. Answering(t) /\ Unpublished(t)
    BY <2>2 DEF Answering, Unpublished
  <2>5. \A o \in Threads : Answering(o) /\ RowsOf(o)' \subseteq RowsOf(o)
    BY <2>2, <2>3, <2>4 DEF Settled
  <2>6. \A v \in Uids : Touched(v)' => Touched(v)
    BY <1>2 DEF Touched
  <2>7. AnswerInv'
    <3>1. \A o \in Threads, v \in Uids : ~(At(o, "publish") /\ Late(o)' /\ threads'[o].uid = v)
      BY <2>3, <2>4, EngineConstants DEF Unpublished
    <3> QED
      BY <1>2, <2>5, <2>6, <3>1, AnswerQuiet
  <2>8. ASSUME NEW v \in Uids, Out(v) PROVE Out(v)'
    <3>1. \A o \in Threads : ~Remembering(o, v) /\ \A row \in RowsOf(o) : row.uid # v
      BY <2>8 DEF Out
    <3>2. \A o \in Threads : ~Remembering(o, v)'
      BY <2>5, <3>1, AnsweringRemembers
    <3> QED
      BY <2>5, <3>1, <3>2 DEF Out
  <2>9. \A o \in Threads : Advancing(o)
    <3>1. \A o \in Threads \ {t} : Advancing(o)
      BY <2>1, <2>8 DEF Advancing, Forgetting
    <3>2. Forgetting(t)' => th.pc # "idle"
      BY <2>1 DEF Forgetting
    <3>3. Advancing(t)
      BY <1>2, <2>1, <2>8, <3>2 DEF Advancing
    <3> QED
      BY <3>1, <3>3
  <2>10. \A v \in Uids : Sourced(v)
    BY <1>2, <2>6 DEF Sourced
  <2>11. \A v \in log.forgotten : Out(v)'
    BY <2>8 DEF ForgetInv, TypeInv, Log
  <2>12. ForgetInv'
    BY <1>2, <2>9, <2>10, <2>11, ForgetKept
  <2> QED
    BY <2>7, <2>12
<1>3. ASSUME NEW u \in Uids, Forget(t, u)
      PROVE  AnswerInv' /\ ForgetInv'
  <2> DEFINE only == \A o \in Threads :
                /\ ~Remembering(o, u)
                /\ \A i \in DOMAIN threads[o].rows : threads[o].rows[i].uid # u
             th == [Idle EXCEPT !.pc = "remove", !.uid = u, !.user = UserOf(u),
                                !.alone = only]
  <2>1. threads' = [threads EXCEPT ![t] = th] /\ UNCHANGED <<engine, tables, issued>>
    BY <1>3 DEF Forget, Enter
  <2>2. th.alone = only
    BY DEF Idle
  <2>3. only => Out(u)
    BY DEF Out, RowsOf
  <2> HIDE DEF only
  <2>4. th.rows = <<>> /\ th.pc = "remove" /\ th.uid = u
    BY DEF Idle
  <2> HIDE DEF th
  <2>5. /\ log'.dropped = log.dropped \cup {u} /\ log'.remembered = log.remembered
        /\ log'.rejected = log.rejected /\ log'.forgotten = log.forgotten
    BY <1>3 DEF Forget, TypeInv, Log
  <2>6. UNCHANGED <<engine, ltm, stm, events, issued>> /\ Persisted' = Persisted
    BY <2>1 DEF tables, Persisted
  <2>7. threads'[t].uid = u /\ At(t, "remove")'
    BY <2>1, <2>4 DEF TypeInv, At
  <2>8. Out(u)' => Emptied(t)'
    BY <2>7, EmptiedNext DEF At
  <2> QED
    BY <1>2, <2>1, <2>2, <2>3, <2>4, <2>5, <2>6, <2>8
<1>4. SUFFICES ASSUME Unindex(t) \/ Unstore(t) \/ Unstash(t) \/ Unlog(t)
               PROVE  AnswerInv' /\ ForgetInv'
  BY <1>3
<1>5. Forgetting(t) /\ UNCHANGED issued
  BY <1>4 DEF Unindex, Unstore, Unstash, Unlog, At, Forgetting
<1>6. PICK u \in Uids : u = threads[t].uid
  BY <1>5, Carried
<1>7. u \in log.dropped
  BY <1>5, <1>6 DEF ForgetInv
<1>8. threads[t].alone =>
        /\ Out(u)
        /\ ~At(t, "remove") => u \notin Indexed(engine)
        /\ threads[t].pc \in {"unstash", "unlog"} => u \notin Persisted
        /\ At(t, "unlog") => stm[u] = "absent"
  BY <1>5, <1>6 DEF ForgetInv, Emptied, Out, Remembering
<1>9. ASSUME NEW pc \in {"unstore", "unstash", "unlog"}, Goto(t, pc)
      PROVE  \E th : /\ threads' = [threads EXCEPT ![t] = th] /\ th.pc = pc
                     /\ th.rows = threads[t].rows /\ th.uid = u
                     /\ th.alone = threads[t].alone
                     /\ threads'[t].pc = pc /\ threads'[t].uid = u
  <2> DEFINE th == [threads[t] EXCEPT !.pc = pc]
  <2>1. th.pc = pc /\ th.rows = threads[t].rows /\ th.uid = u /\ th.alone = threads[t].alone
    BY <1>1, <1>6 DEF Thread
  <2>2. threads' = [threads EXCEPT ![t] = th]
    BY <1>9 DEF Goto
  <2> HIDE DEF th
  <2>3. threads'[t] = th
    BY <2>2 DEF TypeInv
  <2> QED
    BY <2>1, <2>2, <2>3
<1>10. CASE Unindex(t)
  <2>1. /\ Goto(t, "unstore") /\ engine' = Removed(engine, u)
        /\ UNCHANGED <<ltm, stm, events, issued, log>> /\ Persisted' = Persisted
    BY <1>6, <1>10 DEF Unindex, tables, Persisted
  <2>2. PICK th : /\ threads' = [threads EXCEPT ![t] = th] /\ th.pc = "unstore"
                  /\ th.rows = threads[t].rows /\ th.uid = u
                  /\ th.alone = threads[t].alone
                  /\ threads'[t].pc = "unstore" /\ threads'[t].uid = u
    BY <1>9, <2>1
  <2>3. Indexed(engine') = Indexed(engine) \ {u} /\ engine'.dim = engine.dim
    BY <2>1, RemovedOnly, RemovedIndexed DEF TypeInv
  <2>4. Out(u)' => Emptied(t)'
    BY <2>2, <2>3, EmptiedNext DEF At
  <2> QED
    BY <1>2, <1>7, <1>8, <2>1, <2>2, <2>3, <2>4
<1>11. CASE Unstore(t)
  <2>1. /\ Goto(t, "unstash") /\ At(t, "unstore") /\ ltm' = [ltm EXCEPT ![u] = Absent]
        /\ UNCHANGED <<engine, stm, events, issued, log>>
    BY <1>6, <1>11 DEF Unstore
  <2>2. PICK th : /\ threads' = [threads EXCEPT ![t] = th] /\ th.pc = "unstash"
                  /\ th.rows = threads[t].rows /\ th.uid = u
                  /\ th.alone = threads[t].alone
                  /\ threads'[t].pc = "unstash" /\ threads'[t].uid = u
    BY <1>9, <2>1
  <2>3. /\ Persisted' = Persisted \ {u} /\ \A v \in Persisted' : ltm'[v] = ltm[v]
    BY <2>1 DEF Persisted, TypeInv
  <2>4. th.alone /\ Out(u)' => Emptied(t)'
    BY <1>8, <2>1, <2>2, <2>3, EmptiedNext DEF At
  <2> QED
    BY <1>2, <1>7, <1>8, <2>1, <2>2, <2>3, <2>4
<1>12. CASE Unstash(t)
  <2>1. /\ Goto(t, "unlog") /\ At(t, "unstash") /\ stm' = [stm EXCEPT ![u] = "absent"]
        /\ UNCHANGED <<engine, ltm, events, issued, log>> /\ Persisted' = Persisted
    BY <1>6, <1>12 DEF Unstash, Persisted
  <2>2. PICK th : /\ threads' = [threads EXCEPT ![t] = th] /\ th.pc = "unlog"
                  /\ th.rows = threads[t].rows /\ th.uid = u
                  /\ th.alone = threads[t].alone
                  /\ threads'[t].pc = "unlog" /\ threads'[t].uid = u
    BY <1>9, <2>1
  <2>3. stm'[u] = "absent" /\ \A v \in Uids : stm[v] = "absent" => stm'[v] = "absent"
    BY <2>1 DEF TypeInv
  <2>4. th.alone /\ Out(u)' => Emptied(t)'
    BY <1>8, <2>1, <2>2, <2>3, EmptiedNext DEF At
  <2> QED
    BY <1>2, <1>7, <1>8, <2>1, <2>2, <2>3, <2>4
<1>13. CASE Unlog(t)
  <2>1. /\ threads' = [threads EXCEPT ![t] = Idle] /\ At(t, "unlog")
        /\ events' = {e \in events : e.uid # u}
        /\ UNCHANGED <<engine, ltm, stm, issued>> /\ Persisted' = Persisted
    BY <1>6, <1>13 DEF Unlog, Return, Persisted
  <2>2. /\ log'.dropped = log.dropped /\ log'.remembered = log.remembered
        /\ log'.rejected = log.rejected
        /\ log'.forgotten = IF threads[t].alone THEN log.forgotten \cup {u} ELSE log.forgotten
    BY <1>6, <1>13 DEF Unlog, TypeInv, Log
  <2>3. threads[t].alone => u \notin Persisted' \cup Indexed(engine') /\ ~Touched(u)'
    BY <1>8, <2>1 DEF Touched, At
  <2>4. threads[t].alone => Out(u)'
    <3>1. threads'[t] = Idle /\ \A o \in Threads \ {t} : threads'[o] = threads[o]
      BY <2>1 DEF TypeInv
    <3> QED
      BY <1>8, <3>1, IdleFields DEF Out, Remembering, RowsOf
  <2>5. \A v \in log'.forgotten \ log.forgotten :
           v = u /\ Out(u)' /\ u \notin Persisted' \cup Indexed(engine') /\ ~Touched(u)'
    BY <2>2, <2>3, <2>4
  <2>6. Idle.pc = "idle" /\ Idle.rows = <<>>
    BY IdleFields
  <2> QED
    BY <1>2, <1>7, <2>1, <2>2, <2>5, <2>6
<1> QED
  BY <1>4, <1>10, <1>11, <1>12, <1>13

\* Nothing has been told to anybody at first.
LEMMA AnswerInit == Init => AnswerInv /\ ForgetInv
<1> SUFFICES ASSUME Init PROVE AnswerInv /\ ForgetInv
  OBVIOUS
<1>1. /\ \A t \in Threads : threads[t] = Idle
      /\ log.remembered = {} /\ log.rejected = {} /\ log.forgotten = {}
      /\ events = {} /\ \A u \in Uids : stm[u] = "absent"
  BY DEF Init
<1>2. \A t \in Threads : /\ ~Early(t) /\ ~Late(t) /\ ~Forgetting(t)
                         /\ \A u : ~Remembering(t, u)
  BY <1>1, IdleFields DEF Early, Late, Forgetting, Remembering
<1>3. OnceInv /\ UntouchedInv /\ HeldInv /\ RejectedInv
  BY <1>1, <1>2 DEF OnceInv, UntouchedInv, HeldInv, RejectedInv, Touched
<1> QED
  BY <1>1, <1>2, <1>3 DEF AnswerInv, ForgetInv

\* Every step of the system keeps both.
LEMMA AnswerStep ==
  TypeInv /\ TypeInv' /\ DurableInv /\ AnswerInv /\ ForgetInv /\ [Next]_vars
    => AnswerInv' /\ ForgetInv'
<1> SUFFICES ASSUME TypeInv, TypeInv', DurableInv, AnswerInv, ForgetInv, [Next]_vars
             PROVE  AnswerInv' /\ ForgetInv'
  OBVIOUS
<1>1. ASSUME NEW t \in Threads, Calls(t) PROVE AnswerInv' /\ ForgetInv'
  BY <1>1, AnswerBegin, AnswerEvents, AnswerHydrate, AnswerRecall, AnswerForget DEF Calls
<1>2. ASSUME NEW t \in Threads, Continues(t) PROVE AnswerInv' /\ ForgetInv'
  BY <1>2, AnswerPersist, AnswerPublish, AnswerReject, AnswerEvents, AnswerRecall,
     AnswerForget, AnswerLoad DEF Continues
<1>3. CASE UNCHANGED vars
  <2>1. UNCHANGED <<engine, ltm, stm, events, threads, issued, log>> /\ Persisted' = Persisted
    BY <1>3 DEF vars, tables, Persisted
  <2>2. \A o \in Threads : Settled(o) /\ Unpublished(o)
    BY <2>1 DEF Settled, Answering, Unpublished, Early, Late, At, RowsOf
  <2> QED
    BY <2>1, <2>2, BothQuiet
<1> QED
  BY <1>1, <1>2, <1>3, AnswerRecall, AnswerRestart DEF Next

\* remember() has either stored and indexed the trace, under the dimension of
\* the index, or it has raised and left nothing of it, whatever first writes
\* and hydrations come between its check and its ingest.
THEOREM RemembersOrTakesBack == Spec => []RememberedOrTakenBack
<1>1. TypeInv /\ AnswerInv => RememberedOrTakenBack
  BY DEF TypeInv, Log, AnswerInv, HeldInv, RejectedInv, Held, Touched, RememberedOrTakenBack
<1> QED
  BY <1>1, TypeInit, TypeStep, DurableInit, DurableStep, AnswerInit, AnswerStep,
     PTL DEF Spec

\* What forget() removed stays away, whatever traces are remembered, hydrated
\* and recalled at the same time.
THEOREM ForgetsEverywhere == Spec => []ForgottenEverywhere
<1>1. ForgetInv => ForgottenEverywhere
  BY DEF ForgetInv, Touched, ForgottenEverywhere
<1> QED
  BY <1>1, TypeInit, TypeStep, DurableInit, DurableStep, AnswerInit, AnswerStep,
     PTL DEF Spec

-----------------------------------------------------------------------------
(***************************************************************************)
(* The cap on the events of a user                                         *)
(***************************************************************************)
Ids(user) == {e.id : e \in EventsOf(user)}

\* A thread that will leave its user no more than max_events: it has yet to
\* count, or it has counted enough, or picked enough.
Covers(t) ==
    \/ At(t, "count")
    \/ At(t, "pick") /\ Cardinality(Ids(threads[t].user)) <= MaxEvents + threads[t].over
    \/ At(t, "trim") /\ Cardinality(Ids(threads[t].user) \ threads[t].ids) <= MaxEvents

\* Ids are unique, and whoever is over the cap is covered by some thread: the
\* one that committed last has yet to count.
CapInv ==
    /\ \A e, f \in events : e.id = f.id => e = f
    /\ \A user \in Users \ log.untrimmed :
          \/ Cardinality(Ids(user)) <= MaxEvents
          \/ \E t \in Threads : threads[t].user = user /\ Covers(t)

\* The ids of a user are finitely many naturals.
LEMMA IdsFinite ==
  ASSUME TypeInv, NEW user
  PROVE  /\ IsFiniteSet(Ids(user)) /\ Ids(user) \subseteq Nat
         /\ IsFiniteSet(EventsOf(user))
         /\ Cardinality(EventsOf(user)) \in Nat
         /\ Cardinality(Ids(user)) \in Nat
         /\ Cardinality(Ids(user)) <= Cardinality(EventsOf(user))
<1>1. EventsOf(user) \subseteq events /\ IsFiniteSet(EventsOf(user))
  BY FS_Subset DEF EventsOf, TypeInv
<1> DEFINE f == [e \in EventsOf(user) |-> e.id]
<1>2. f \in Surjection(EventsOf(user), Ids(user))
  BY DEF Surjection, Ids
<1>3. IsFiniteSet(Ids(user)) /\ Cardinality(Ids(user)) <= Cardinality(EventsOf(user))
  BY <1>1, <1>2, FS_Surjection
<1>4. Ids(user) \subseteq Nat
  BY <1>1 DEF Ids, TypeInv, Event
<1> QED
  BY <1>1, <1>3, <1>4, FS_CardinalityType

\* Fewer ids, once more without those that were picked.
LEMMA Fewer ==
  ASSUME NEW S, NEW T, IsFiniteSet(T), S \subseteq T
  PROVE  /\ IsFiniteSet(S) /\ Cardinality(S) \in Nat /\ Cardinality(T) \in Nat
         /\ Cardinality(S) <= Cardinality(T)
BY FS_Subset, FS_CardinalityType

\* Without its k smallest members a set has k members fewer, or none.
LEMMA WithoutLowest ==
  ASSUME NEW S, IsFiniteSet(S), S \subseteq Nat, NEW k \in Nat, NEW m \in Nat,
         Cardinality(S) <= m + k
  PROVE  Cardinality(S \ {i \in S : Cardinality({j \in S : j < i}) < k}) <= m
<1> DEFINE below(i) == {j \in S : j < i}
           low == {i \in S : Cardinality(below(i)) < k}
           n == Cardinality(S)
           rank == [i \in S \ low |-> Cardinality(below(i)) - k]
<1> SUFFICES Cardinality(S \ low) <= m
  OBVIOUS
<1>1. n \in Nat
  BY FS_CardinalityType
<1>2. ASSUME NEW i \in S
      PROVE  /\ IsFiniteSet(below(i)) /\ Cardinality(below(i)) \in Nat
             /\ Cardinality(below(i)) < n
  <2>1. IsFiniteSet(below(i)) /\ Cardinality(below(i)) \in Nat
    BY FS_Subset, FS_CardinalityType
  <2>2. i \notin below(i) /\ below(i) \cup {i} \subseteq S
    OBVIOUS
  <2>3. Cardinality(below(i) \cup {i}) = Cardinality(below(i)) + 1
    BY <2>1, <2>2, FS_AddElement
  <2>4. Cardinality(below(i) \cup {i}) <= n
    BY <2>2, FS_Subset
  <2> HIDE DEF below
  <2> QED
    BY <1>1, <2>1, <2>3, <2>4
<1>3. ASSUME NEW i \in S, NEW j \in S, i < j
      PROVE  Cardinality(below(i)) < Cardinality(below(j))
  <2>0. i \in Nat /\ j \in Nat /\ \A x \in S : x \in Nat /\ (x < i => x < j)
    BY <1>3
  <2>1. i \notin below(i) /\ below(i) \cup {i} \subseteq below(j)
    <3>1. ~(i < i)
      BY <2>0
    <3>2. i \in below(j) /\ \A x \in below(i) : x \in below(j)
      BY <1>3, <2>0
    <3> QED
      BY <3>1, <3>2
  <2>2. Cardinality(below(i) \cup {i}) = Cardinality(below(i)) + 1
    BY <1>2, <2>1, FS_AddElement
  <2>3. Cardinality(below(i) \cup {i}) <= Cardinality(below(j))
    BY <1>2, <2>1, FS_Subset
  <2> HIDE DEF below
  <2> QED
    BY <1>2, <2>2, <2>3
<1>4. CASE S \ low = {}
  <2> HIDE DEF low
  <2> QED
    BY <1>4, FS_EmptySet
<1>5. CASE S \ low # {}
  <2> HIDE DEF below
  <2>1. PICK i \in S : i \notin low
    BY <1>5
  <2>2. k < n
    BY <1>1, <1>2, <2>1
  <2> DEFINE top == n - k
  <2>3. top \in Nat /\ top >= 1 /\ top <= m
    BY <1>1, <2>2
  <2>4. ASSUME NEW j \in S \ low PROVE rank[j] \in 0 .. top - 1
    <3>1. /\ j \in S /\ Cardinality(below(j)) \in Nat
          /\ Cardinality(below(j)) >= k /\ Cardinality(below(j)) < n
      BY <1>2
    <3> QED
      BY <1>1, <3>1
  <2>5. ASSUME NEW a \in S \ low, NEW b \in S \ low, rank[a] = rank[b]
        PROVE  a = b
    <3>1. /\ Cardinality(below(a)) \in Nat /\ Cardinality(below(b)) \in Nat
          /\ a \in Nat /\ b \in Nat
      BY <1>2
    <3>2. Cardinality(below(a)) = Cardinality(below(b))
      BY <2>5, <3>1
    <3> QED
      BY <1>3, <3>1, <3>2
  <2> HIDE DEF rank
  <2>6. DOMAIN rank = S \ low /\ rank \in [S \ low -> 0 .. top - 1]
    BY <2>4 DEF rank
  <2>7. rank \in Injection(S \ low, 0 .. top - 1)
    <3> HIDE DEF low, top
    <3> QED
      BY <2>5, <2>6 DEF Injection, IsInjective
  <2>8. IsFiniteSet(0 .. top - 1) /\ Cardinality(0 .. top - 1) = top
    <3>1. top - 1 \in Int /\ 0 <= top - 1
      BY <2>3
    <3>2. IsFiniteSet(0 .. top - 1) /\ Cardinality(0 .. top - 1) = (top - 1) - 0 + 1
      <4> DEFINE hi == top - 1
      <4>1. hi \in Int /\ ~(0 > hi)
        BY <3>1
      <4> HIDE DEF hi
      <4>2. IsFiniteSet(0 .. hi) /\ Cardinality(0 .. hi) = hi - 0 + 1
        BY <4>1, FS_Interval
      <4> QED
        BY <4>2 DEF hi
    <3> QED
      BY <2>3, <3>2
  <2>9. Cardinality(S \ low) <= Cardinality(0 .. top - 1)
    BY <2>7, <2>8, FS_Injection
  <2>10. Cardinality(S \ low) \in Nat
    BY Fewer
  <2> DEFINE left == Cardinality(S \ low)
  <2>11. left \in Nat /\ left <= top
    BY <2>8, <2>9, <2>10
  <2> HIDE DEF left, top
  <2>12. left <= m
    BY <2>3, <2>11
  <2> QED
    BY <2>12 DEF left
<1> QED
  BY <1>4, <1>5

\* What covers a user covers it still, with no more ids to trim.
LEMMA CoversKept ==
  ASSUME TypeInv, NEW t \in Threads, Covers(t),
         threads'[t].pc = threads[t].pc, threads'[t].user = threads[t].user,
         threads'[t].over = threads[t].over, threads'[t].ids = threads[t].ids,
         \A user \in Users : user = threads[t].user => Ids(user)' \subseteq Ids(user)
  PROVE  Covers(t)'
<1>1. threads[t].user \in Users /\ threads[t].over \in Nat
  BY Carried DEF Thread
<1>2. PICK user \in Users : user = threads[t].user
  BY <1>1
<1>3. Ids(user)' \subseteq Ids(user) /\ IsFiniteSet(Ids(user))
  BY <1>2, IdsFinite
<1>4. /\ Cardinality(Ids(user)') \in Nat /\ Cardinality(Ids(user)) \in Nat
      /\ Cardinality(Ids(user)') <= Cardinality(Ids(user))
  BY <1>3, Fewer
<1>5. MaxEvents + threads[t].over \in Nat /\ MaxEvents \in Nat
  BY <1>1, LegacyConstants
<1>6. CASE At(t, "count")
  BY <1>6 DEF Covers, At
<1>7. CASE At(t, "pick")
  <2>1. Cardinality(Ids(user)) <= MaxEvents + threads[t].over
    BY <1>2, <1>7 DEF Covers, At, Ids, EventsOf
  <2>2. Cardinality(Ids(user)') <= MaxEvents + threads[t].over
    BY <1>4, <1>5, <2>1
  <2>3. Ids(user)' = Ids(threads[t].user)'
    BY <1>2 DEF Ids, EventsOf
  <2> QED
    BY <1>7, <2>2, <2>3 DEF Covers, At
<1>8. CASE At(t, "trim")
  <2> DEFINE left == Ids(user) \ threads[t].ids
             next == Ids(user)' \ threads[t].ids
  <2>1. Cardinality(left) <= MaxEvents
    BY <1>2, <1>8 DEF Covers, At, Ids, EventsOf
  <2>2. IsFiniteSet(left) /\ next \subseteq left
    BY <1>3, Fewer
  <2>3. /\ Cardinality(next) \in Nat /\ Cardinality(left) \in Nat
        /\ Cardinality(next) <= Cardinality(left)
    BY <2>2, Fewer
  <2>4. Cardinality(next) <= MaxEvents
    <3> HIDE DEF next, left
    <3> QED
      BY <1>5, <2>1, <2>3
  <2>5. next = (Ids(threads[t].user) \ threads[t].ids)'
    BY <1>2 DEF Ids, EventsOf
  <2> HIDE DEF next
  <2> QED
    BY <1>8, <2>4, <2>5 DEF Covers, At
<1> QED
  BY <1>6, <1>7, <1>8 DEF Covers

\* A user who gets no event stays covered, or in no need of it.
LEMMA CapUser ==
  ASSUME TypeInv, CapInv, NEW user \in Users \ log.untrimmed,
         Ids(user)' \subseteq Ids(user),
         \A t \in Threads : Covers(t) /\ threads[t].user = user =>
            \/ Covers(t)' /\ threads'[t].user = user
            \/ /\ threads'[t].pc = threads[t].pc /\ threads'[t].user = threads[t].user
               /\ threads'[t].over = threads[t].over /\ threads'[t].ids = threads[t].ids
  PROVE  \/ Cardinality(Ids(user)') <= MaxEvents
         \/ \E t \in Threads : threads'[t].user = user /\ Covers(t)'
<1>1. CASE Cardinality(Ids(user)) <= MaxEvents
  <2>1. Ids(user)' \subseteq Ids(user) /\ IsFiniteSet(Ids(user))
    BY IdsFinite
  <2>2. /\ Cardinality(Ids(user)') \in Nat /\ Cardinality(Ids(user)) \in Nat
        /\ Cardinality(Ids(user)') <= Cardinality(Ids(user)) /\ MaxEvents \in Nat
    BY <2>1, Fewer, LegacyConstants
  <2> QED
    BY <1>1, <2>2
<1>2. ASSUME NEW t \in Threads, threads[t].user = user, Covers(t)
      PROVE  threads'[t].user = user /\ Covers(t)'
  BY <1>2, CoversKept
<1> QED
  BY <1>1, <1>2 DEF CapInv

\* Steps that add no event, of threads that are not adding one.
LEMMA CapQuiet ==
  ASSUME TypeInv, CapInv, log.untrimmed \subseteq log'.untrimmed,
         \A e, f \in events' : e.id = f.id => e = f,
         \A user \in Users : Ids(user)' \subseteq Ids(user),
         \A t \in Threads : Covers(t) =>
            \/ threads[t].user \in log'.untrimmed
            \/ Covers(t)' /\ threads'[t].user = threads[t].user
            \/ /\ threads'[t].pc = threads[t].pc /\ threads'[t].user = threads[t].user
               /\ threads'[t].over = threads[t].over /\ threads'[t].ids = threads[t].ids
  PROVE  CapInv'
<1>1. ASSUME NEW user \in Users \ log'.untrimmed
      PROVE  \/ Cardinality(Ids(user)') <= MaxEvents
             \/ \E t \in Threads : threads'[t].user = user /\ Covers(t)'
  BY CapUser
<1> QED
  BY <1>1 DEF CapInv

\* Fewer events, of any user.
LEMMA CapShrinks ==
  ASSUME TypeInv, CapInv, events' \subseteq events,
         log.untrimmed \subseteq log'.untrimmed,
         \A t \in Threads : Covers(t) =>
            \/ threads[t].user \in log'.untrimmed
            \/ Covers(t)' /\ threads'[t].user = threads[t].user
            \/ /\ threads'[t].pc = threads[t].pc /\ threads'[t].user = threads[t].user
               /\ threads'[t].over = threads[t].over /\ threads'[t].ids = threads[t].ids
  PROVE  CapInv'
<1>1. \A user \in Users : Ids(user)' \subseteq Ids(user)
  BY DEF Ids, EventsOf
<1>2. \A e, f \in events' : e.id = f.id => e = f
  BY DEF CapInv
<1> QED
  BY <1>1, <1>2, CapQuiet

\* A thread that is not adding an event does something else.
LEMMA CapElsewhere ==
  ASSUME TypeInv, CapInv, NEW t \in Threads, NEW th,
         threads' = [threads EXCEPT ![t] = th],
         threads[t].pc \notin {"count", "pick", "trim"},
         events' \subseteq events, log'.untrimmed = log.untrimmed
  PROVE  CapInv'
<1>1. \A o \in Threads : Covers(o) => threads'[o] = threads[o]
  BY DEF Covers, At, TypeInv
<1> QED
  BY <1>1, CapShrinks

\* Every step but those of an add.
LEMMA CapOthers ==
  ASSUME TypeInv, CapInv, NEW t \in Threads,
         \/ \E dim \in Dims : Remember(t, dim)
         \/ \E user \in Users : RecordEvent(t, user)
         \/ \E user \in Users, dim \in Dims : Search(t, user, dim)
         \/ \E u \in Uids : Forget(t, u) \/ Mark(t, u)
         \/ Purge(t) \/ Persist(t) \/ Publish(t) \/ Reject(t) \/ Stash(t)
         \/ SkipNote(t) \/ Increment(t) \/ Unindex(t) \/ Unstore(t) \/ Unstash(t)
         \/ Unlog(t) \/ Load(t) \/ PurgeTraces(t) \/ PurgeEvents(t)
  PROVE  CapInv'
<1>1. ASSUME threads[t].pc \notin {"count", "pick", "trim"},
             events' \subseteq events, log'.untrimmed = log.untrimmed,
             \/ \E th : threads' = [threads EXCEPT ![t] = th]
             \/ \E pc : Goto(t, pc)
             \/ Return(t)
             \/ \E th : Enter(t, th)
      PROVE  CapInv'
  <2>1. \E th : threads' = [threads EXCEPT ![t] = th]
    BY <1>1 DEF Goto, Return, Enter
  <2> QED
    BY <1>1, <2>1, CapElsewhere
<1>2. ASSUME NEW dim \in Dims, Remember(t, dim) PROVE CapInv'
  <2>1. \E th : Enter(t, th)
    BY <1>2 DEF Remember
  <2>2. At(t, "idle") /\ UNCHANGED <<events, log>>
    BY <1>2 DEF Remember, Enter, tables
  <2> QED
    BY <1>1, <2>1, <2>2 DEF At
<1>3. ASSUME NEW user \in Users, RecordEvent(t, user) PROVE CapInv'
  <2>1. \E th : Enter(t, th)
    BY <1>3 DEF RecordEvent
  <2>2. At(t, "idle") /\ UNCHANGED <<events, log>>
    BY <1>3 DEF RecordEvent, Enter, tables
  <2> QED
    BY <1>1, <2>1, <2>2 DEF At
<1>4. ASSUME NEW user \in Users, NEW dim \in Dims, Search(t, user, dim) PROVE CapInv'
  <2>1. \E th : Enter(t, th)
    BY <1>4 DEF Search
  <2>2. At(t, "idle") /\ UNCHANGED <<events, log>>
    BY <1>4 DEF Search, Enter, tables
  <2> QED
    BY <1>1, <2>1, <2>2 DEF At
<1>5. ASSUME NEW u \in Uids, Forget(t, u) PROVE CapInv'
  <2>1. \E th : Enter(t, th)
    BY <1>5 DEF Forget
  <2>2. At(t, "idle") /\ UNCHANGED events
    BY <1>5 DEF Forget, Enter, tables
  <2>3. log'.untrimmed = log.untrimmed
    BY <1>5 DEF Forget, TypeInv, Log
  <2> QED
    BY <1>1, <2>1, <2>2, <2>3 DEF At
<1>6. CASE Purge(t)
  <2>1. \E th : Enter(t, th)
    BY <1>6 DEF Purge
  <2>2. At(t, "idle") /\ UNCHANGED <<events, log>>
    BY <1>6 DEF Purge, Enter, tables
  <2> QED
    BY <1>1, <2>1, <2>2 DEF At
<1>7. ASSUME NEW u \in Uids, Mark(t, u) PROVE CapInv'
  <2> DEFINE left == threads[t].left \ {u}
             th == [threads[t] EXCEPT !.left = left,
                       !.pc = IF left = {} THEN "increment" ELSE "mark"]
  <2>1. threads' = [threads EXCEPT ![t] = th]
    BY <1>7 DEF Mark, TypeInv
  <2> HIDE DEF th
  <2>2. At(t, "mark") /\ UNCHANGED <<events, log>>
    BY <1>7 DEF Mark, tables
  <2> QED
    BY <1>1, <2>1, <2>2 DEF At
<1>8. CASE Persist(t) \/ Publish(t) \/ Stash(t)
  <2>1. /\ \E pc : Goto(t, pc)
        /\ threads[t].pc \in {"persist", "publish", "stash"}
        /\ UNCHANGED <<events, log>>
    BY <1>8 DEF Persist, Publish, Stash, At, tables
  <2> QED
    BY <1>1, <2>1
<1>9. CASE Unindex(t) \/ Unstore(t) \/ Unstash(t) \/ PurgeTraces(t)
  <2>1. /\ \E pc : Goto(t, pc)
        /\ threads[t].pc \in {"remove", "unstore", "unstash", "purge"}
        /\ UNCHANGED <<events, log>>
    BY <1>9 DEF Unindex, Unstore, Unstash, PurgeTraces, At, tables
  <2> QED
    BY <1>1, <2>1
<1>10. CASE Reject(t) \/ Increment(t) \/ Unlog(t)
  <2>1. /\ Return(t) /\ threads[t].pc \in {"reject", "increment", "unlog"}
        /\ events' \subseteq events
    BY <1>10 DEF Reject, Increment, Unlog, At
  <2>2. log'.untrimmed = log.untrimmed
    BY <1>10 DEF Reject, Increment, Unlog, TypeInv, Log
  <2> QED
    BY <1>1, <2>1, <2>2
<1>11. CASE SkipNote(t) \/ PurgeEvents(t)
  <2>1. /\ Return(t) /\ threads[t].pc \in {"note", "sweep"}
        /\ events' \subseteq events
    BY <1>11 DEF SkipNote, PurgeEvents, At, tables
  <2>2. log'.untrimmed = log.untrimmed
    BY <1>11 DEF SkipNote, PurgeEvents, Noted, TypeInv, Log
  <2> QED
    BY <1>1, <2>1, <2>2
<1>12. CASE Load(t)
  <2>1. At(t, "load") /\ UNCHANGED <<events, log>>
    BY <1>12 DEF Load, tables
  <2>2. \E th : threads' = [threads EXCEPT ![t] = th]
    <3>1. CASE Return(t)
      BY <3>1 DEF Return
    <3>2. CASE threads' = [threads EXCEPT ![t].rows = Tail(threads[t].rows)]
      <4> DEFINE th == [threads[t] EXCEPT !.rows = Tail(threads[t].rows)]
      <4>1. threads' = [threads EXCEPT ![t] = th]
        BY <3>2 DEF TypeInv
      <4> HIDE DEF th
      <4> QED
        BY <4>1
    <3> QED
      BY <1>12, <3>1, <3>2 DEF Load
  <2> QED
    BY <1>1, <2>1, <2>2 DEF At
<1> QED
  BY <1>2, <1>3, <1>4, <1>5, <1>6, <1>7, <1>8, <1>9, <1>10, <1>11, <1>12

\* Neither a hydration nor the passing of time adds an event; an add that is
\* cut short is told of.
LEMMA CapFaults ==
  ASSUME TypeInv, CapInv,
         \/ \E t \in Threads, user \in Users : Hydrate(t, user)
         \/ \E t \in Threads : Fail(t)
         \/ \E u \in Uids : ExpireTrace(u)
         \/ \E e \in events : ExpireEvent(e)
         \/ Restart
         \/ UNCHANGED vars
  PROVE  CapInv'
<1>1. ASSUME NEW t \in Threads, NEW user \in Users, Hydrate(t, user) PROVE CapInv'
  <2>1. PICK uids : threads' = [o \in Threads |->
           IF o = t
           THEN [Idle EXCEPT !.pc = "load", !.user = user,
                   !.rows = [i \in DOMAIN uids |->
                       [uid |-> uids[i], dim |-> ltm[uids[i]].dim,
                        count |-> ltm[uids[i]].count]]]
           ELSE [threads[o] EXCEPT !.alone = @ /\ threads[o].uid \notin ToSet(uids)]]
    BY <1>1 DEF Hydrate
  <2>2. At(t, "idle") /\ UNCHANGED <<events, log>>
    BY <1>1 DEF Hydrate, tables
  <2>3. ASSUME NEW o \in Threads, Covers(o)
        PROVE  /\ threads'[o].pc = threads[o].pc /\ threads'[o].user = threads[o].user
               /\ threads'[o].over = threads[o].over /\ threads'[o].ids = threads[o].ids
    <3> DEFINE alone == threads[o].alone /\ threads[o].uid \notin ToSet(uids)
    <3>1. o # t
      BY <2>2, <2>3 DEF Covers, At
    <3>2. threads'[o] = [threads[o] EXCEPT !.alone = alone]
      BY <2>1, <3>1
    <3> HIDE DEF alone
    <3> QED
      BY <3>2, Carried DEF Thread
  <2> QED
    BY <2>2, <2>3, CapShrinks
<1>2. ASSUME NEW t \in Threads, Fail(t) PROVE CapInv'
  <2>1. threads' = [threads EXCEPT ![t] = Idle] /\ UNCHANGED events
    BY <1>2 DEF Fail, Return, tables
  <2>2. log'.untrimmed = log.untrimmed \cup {threads[o].user : o \in {t} \cap Adding}
    BY <1>2 DEF Fail, TypeInv, Log
  <2>3. \A o \in Threads : Covers(o) =>
            threads[o].user \in log'.untrimmed \/ threads'[o] = threads[o]
    BY <2>1, <2>2 DEF Covers, At, Adding, TypeInv
  <2> QED
    BY <2>1, <2>2, <2>3, CapShrinks
<1>3. ASSUME NEW e \in events, ExpireEvent(e) PROVE CapInv'
  <2> DEFINE old == [e EXCEPT !.stale = TRUE]
  <2>1. /\ events' = (events \ {e}) \cup {old}
        /\ UNCHANGED <<threads, log>>
    BY <1>3 DEF ExpireEvent
  <2>2. old.id = e.id /\ old.user = e.user
    BY DEF TypeInv, Event
  <2> HIDE DEF old
  <2>3. \A user \in Users : Ids(user)' \subseteq Ids(user)
    BY <2>1, <2>2 DEF Ids, EventsOf
  <2>4. \A f, g \in events' : f.id = g.id => f = g
    BY <2>1, <2>2 DEF CapInv
  <2> QED
    BY <2>1, <2>3, <2>4, CapQuiet
<1>4. CASE Restart
  <2>1. UNCHANGED events
    BY <1>4 DEF Restart, tables
  <2>2. log'.untrimmed = log.untrimmed \cup {threads[o].user : o \in Adding}
    BY <1>4 DEF Restart, TypeInv, Log
  <2>3. \A o \in Threads : Covers(o) => threads[o].user \in log'.untrimmed
    BY <2>2 DEF Covers, At, Adding
  <2> QED
    BY <2>1, <2>2, <2>3, CapShrinks
<1>5. CASE UNCHANGED <<events, threads, log>>
  BY <1>5, CapShrinks
<1> QED
  BY <1>1, <1>2, <1>3, <1>4, <1>5 DEF ExpireTrace, vars, tables


\* An event that is committed gets an id of its own, and its thread has yet to
\* count.
LEMMA CapNote ==
  ASSUME TypeInv, CapInv, NEW t \in Threads, Note(t)
  PROVE  CapInv'
<1> DEFINE ids == {0} \cup {e.id : e \in events}
           event == [id |-> 1 + Max(ids), user |-> threads[t].user,
                     uid |-> threads[t].uid, stale |-> FALSE]
<1>1. IsFiniteSet(ids) /\ ids \subseteq Nat /\ ids # {}
  <2> DEFINE named == {e.id : e \in events}
             f == [e \in events |-> e.id]
  <2>1. f \in Surjection(events, named)
    BY DEF Surjection
  <2>2. IsFiniteSet(named)
    BY <2>1, FS_Surjection DEF TypeInv
  <2>3. named \subseteq Nat
    BY DEF TypeInv, Event
  <2>4. ids = named \cup {0}
    OBVIOUS
  <2> HIDE DEF named, ids
  <2> QED
    BY <2>2, <2>3, <2>4, FS_AddElement
<1>2. Max(ids) \in Nat /\ \A i \in ids : Max(ids) >= i
  <2> HIDE DEF ids
  <2> QED
    BY <1>1, FiniteMax
<1>3. \A e \in events : e.id \in ids
  OBVIOUS
<1>4. event.user = threads[t].user /\ event.id = 1 + Max(ids)
  OBVIOUS
<1>5. /\ events' = {e \in events : e.user # threads[t].user \/ ~e.stale} \cup {event}
      /\ threads' = [threads EXCEPT ![t].pc = "count"] /\ UNCHANGED log
  BY DEF Note, Goto
<1> HIDE DEF ids, event
<1>6. \A e \in events : e.id # event.id
  <2>1. \A e \in events : e.id \in Nat /\ Max(ids) >= e.id
    BY <1>1, <1>2, <1>3
  <2> QED
    BY <1>2, <1>4, <2>1
<1>7. events' \subseteq events \cup {event}
  BY <1>5
<1>8. \A e, f \in events' : e.id = f.id => e = f
  BY <1>6, <1>7 DEF CapInv
<1>9. /\ threads'[t].pc = "count" /\ threads'[t].user = threads[t].user
      /\ \A o \in Threads \ {t} : threads'[o] = threads[o]
  BY <1>5, Carried DEF TypeInv, Thread
<1>10. ASSUME NEW user \in Users \ log.untrimmed
       PROVE  \/ Cardinality(Ids(user)') <= MaxEvents
              \/ \E o \in Threads : threads'[o].user = user /\ Covers(o)'
  <2>1. CASE user = threads[t].user
    BY <1>9, <2>1 DEF Covers, At
  <2>2. CASE user # threads[t].user
    <3>1. Ids(user)' \subseteq Ids(user)
      BY <1>4, <1>7, <2>2 DEF Ids, EventsOf
    <3> QED
      BY <1>9, <2>2, <3>1, CapUser
  <2> QED
    BY <2>1, <2>2
<1> QED
  BY <1>5, <1>8, <1>10 DEF CapInv

\* A thread that counts sees the rows of all that committed before it: there
\* are few enough, or it will delete what is over.
LEMMA CapCount ==
  ASSUME TypeInv, CapInv, NEW t \in Threads, Count(t)
  PROVE  CapInv'
<1>1. PICK user \in Users : user = threads[t].user
  BY Carried DEF Thread
<1>2. UNCHANGED events
  BY DEF Count, tables
<1>3. log'.untrimmed = log.untrimmed \ {user}
  BY <1>1 DEF Count, Noted, TypeInv, Log
<1>4. /\ Cardinality(EventsOf(user)) \in Nat /\ Cardinality(Ids(user)) \in Nat
      /\ Cardinality(Ids(user)) <= Cardinality(EventsOf(user)) /\ MaxEvents \in Nat
  BY IdsFinite, LegacyConstants
<1> DEFINE n == Cardinality(EventsOf(user))
           two == {MaxEvents, n}
<1>5. Overflow(user) \in Nat /\ n <= MaxEvents + Overflow(user)
  <2>1. IsFiniteSet({MaxEvents})
    BY FS_Singleton
  <2>2. IsFiniteSet({MaxEvents} \cup {n})
    BY <2>1, FS_AddElement
  <2>3. two = {MaxEvents} \cup {n} /\ two \subseteq Nat /\ n \in two /\ MaxEvents \in two
    BY <1>4
  <2>4. Overflow(user) = Max(two) - MaxEvents
    BY DEF Overflow
  <2> HIDE DEF two, n
  <2>5. Max(two) \in Nat /\ Max(two) >= n /\ Max(two) >= MaxEvents
    BY <2>2, <2>3, FiniteMax
  <2> QED
    BY <1>4, <2>3, <2>4, <2>5
<1>6. \A o \in Threads \ {t} : threads'[o] = threads[o]
  BY DEF Count, Return, TypeInv
<1>7. Ids(user)' = Ids(user)
  BY <1>2 DEF Ids, EventsOf
<1>8. \/ Cardinality(Ids(user)') <= MaxEvents
      \/ threads'[t].user = user /\ Covers(t)'
  <2>1. CASE Overflow(user) = 0
    BY <1>4, <1>5, <1>7, <2>1
  <2>2. CASE Overflow(user) # 0
    <3>1. threads' = [threads EXCEPT ![t].pc = "pick", ![t].over = Overflow(user)]
      BY <1>1, <2>2 DEF Count
    <3>2. /\ threads'[t].pc = "pick" /\ threads'[t].over = Overflow(user)
          /\ threads'[t].user = user
      BY <1>1, <3>1, Carried DEF TypeInv, Thread
    <3>3. Cardinality(Ids(user)') <= MaxEvents + threads'[t].over
      <4> HIDE DEF n
      <4> QED
        BY <1>4, <1>5, <1>7, <3>2 DEF n
    <3>4. Ids(user)' = Ids(threads[t].user)'
      BY <3>2 DEF Ids, EventsOf
    <3> QED
      BY <3>2, <3>3, <3>4 DEF Covers, At
  <2> QED
    BY <2>1, <2>2
<1>9. ASSUME NEW other \in Users \ log'.untrimmed
      PROVE  \/ Cardinality(Ids(other)') <= MaxEvents
             \/ \E o \in Threads : threads'[o].user = other /\ Covers(o)'
  <2>1. CASE other = user
    BY <1>8, <2>1
  <2>2. CASE other # user
    <3>1. Ids(other)' = Ids(other)
      BY <1>2 DEF Ids, EventsOf
    <3> QED
      BY <1>1, <1>3, <1>6, <2>2, <3>1, CapUser
  <2> QED
    BY <2>1, <2>2
<1> QED
  BY <1>2, <1>9 DEF CapInv

\* The lowest ids are picked, as many as were over: what is left is no more
\* than the cap, as long as no event has come since.
LEMMA CapPick ==
  ASSUME TypeInv, CapInv, NEW t \in Threads, Pick(t)
  PROVE  CapInv'
<1>1. PICK user \in Users : user = threads[t].user
  BY Carried DEF Thread
<1>2. UNCHANGED <<events, log>>
  BY DEF Pick, tables
<1>3. threads[t].over \in Nat /\ MaxEvents \in Nat
  BY Carried, LegacyConstants DEF Thread
<1> DEFINE picked == {i \in Ids(user) : Cardinality({j \in Ids(user) : j < i})
                                            < threads[t].over}
<1>4. At(t, "pick") /\ threads' = [threads EXCEPT ![t].pc = "trim", ![t].ids = picked]
  BY <1>1 DEF Pick, Ids
<1>5. Cardinality(Ids(user)) <= MaxEvents + threads[t].over
         => Cardinality(Ids(user) \ picked) <= MaxEvents
  BY <1>3, IdsFinite, WithoutLowest
<1> HIDE DEF picked
<1>6. /\ threads'[t].pc = "trim" /\ threads'[t].ids = picked /\ threads'[t].user = user
      /\ \A o \in Threads \ {t} : threads'[o] = threads[o]
  BY <1>1, <1>4, Carried DEF TypeInv, Thread
<1>7. Covers(t) => Covers(t)'
  <2>1. SUFFICES ASSUME Covers(t) PROVE Covers(t)'
    OBVIOUS
  <2>2. Cardinality(Ids(user)) <= MaxEvents + threads[t].over
    BY <1>1, <1>4, <2>1 DEF Covers, At
  <2>3. Ids(threads[t].user)' = Ids(user)
    BY <1>2, <1>6 DEF Ids, EventsOf
  <2> QED
    BY <1>5, <1>6, <2>2, <2>3 DEF Covers, At
<1>8. \A o \in Threads : Covers(o) =>
         \/ Covers(o)' /\ threads'[o].user = threads[o].user
         \/ threads'[o] = threads[o]
  BY <1>1, <1>6, <1>7
<1>9. \A other \in Users : Ids(other)' \subseteq Ids(other)
  BY <1>2 DEF Ids, EventsOf
<1>10. \A e, f \in events' : e.id = f.id => e = f
  BY <1>2 DEF CapInv
<1> QED
  BY <1>2, <1>8, <1>9, <1>10, CapQuiet

\* What was picked is deleted, and with it what covered the user is gone.
LEMMA CapTrim ==
  ASSUME TypeInv, CapInv, NEW t \in Threads, Trim(t)
  PROVE  CapInv'
<1>1. PICK user \in Users : user = threads[t].user
  BY Carried DEF Thread
<1>2. /\ events' = {e \in events : e.id \notin threads[t].ids} /\ At(t, "trim")
      /\ threads' = [threads EXCEPT ![t] = Idle]
  BY DEF Trim, Return
<1>3. log'.untrimmed = log.untrimmed
  BY DEF Trim, Noted, TypeInv, Log
<1>4. \A o \in Threads \ {t} : threads'[o] = threads[o]
  BY <1>2 DEF TypeInv
<1>5. Covers(t) => Cardinality(Ids(user)') <= MaxEvents
  <2>1. SUFFICES ASSUME Covers(t) PROVE Cardinality(Ids(user)') <= MaxEvents
    OBVIOUS
  <2> DEFINE left == Ids(user) \ threads[t].ids
             next == Ids(user)'
  <2>2. Cardinality(left) <= MaxEvents
    BY <1>1, <1>2, <2>1 DEF Covers, At
  <2>3. IsFiniteSet(left) /\ next \subseteq left
    <3>1. next \subseteq left
      BY <1>2 DEF Ids, EventsOf
    <3>2. IsFiniteSet(left)
      BY IdsFinite, Fewer
    <3> QED
      BY <3>1, <3>2
  <2>4. /\ Cardinality(next) \in Nat /\ Cardinality(left) \in Nat /\ MaxEvents \in Nat
        /\ Cardinality(next) <= Cardinality(left)
    BY <2>3, Fewer, LegacyConstants
  <2> HIDE DEF left, next
  <2>5. Cardinality(next) <= MaxEvents
    BY <2>2, <2>4
  <2> QED
    BY <2>5 DEF next
<1>6. ASSUME NEW other \in Users \ log.untrimmed
      PROVE  \/ Cardinality(Ids(other)') <= MaxEvents
             \/ \E o \in Threads : threads'[o].user = other /\ Covers(o)'
  <2>1. CASE other = user /\ Covers(t)
    BY <1>5, <2>1
  <2>2. CASE ~(other = user /\ Covers(t))
    <3>1. Ids(other)' \subseteq Ids(other)
      BY <1>2 DEF Ids, EventsOf
    <3> QED
      BY <1>1, <1>4, <2>2, <3>1, CapUser
  <2> QED
    BY <2>1, <2>2
<1> QED
  BY <1>2, <1>3, <1>6 DEF CapInv

\* There are no events at first.
LEMMA CapInit == Init => CapInv
<1> SUFFICES ASSUME Init PROVE CapInv
  OBVIOUS
<1>1. \A user \in Users : Ids(user) = {}
  BY DEF Init, Ids, EventsOf
<1>2. Cardinality({}) = 0 /\ MaxEvents \in Nat
  BY FS_EmptySet, LegacyConstants
<1>3. \A user \in Users : Cardinality(Ids(user)) <= MaxEvents
  BY <1>1, <1>2
<1> QED
  BY <1>3 DEF Init, CapInv

\* Every step of the system keeps the cap, or somebody who will restore it.
LEMMA CapStep == TypeInv /\ CapInv /\ [Next]_vars => CapInv'
<1> SUFFICES ASSUME TypeInv, CapInv, [Next]_vars PROVE CapInv'
  OBVIOUS
<1>1. ASSUME NEW t \in Threads, Calls(t) PROVE CapInv'
  BY <1>1, CapOthers, CapFaults DEF Calls
<1>2. ASSUME NEW t \in Threads, Continues(t) PROVE CapInv'
  BY <1>2, CapOthers, CapNote, CapCount, CapPick, CapTrim DEF Continues
<1> QED
  BY <1>1, <1>2, CapFaults DEF Next

\* When nobody is adding an event for a user, and no add was cut short after
\* its commit, the user has at most max_events of them, whatever adds run at
\* the same time: the one that counts last has seen the rows of all.
THEOREM EventsStayCapped == Spec => []EventsCapped
<1>1. ASSUME TypeInv, CapInv, NEW user \in Users \ log.untrimmed,
             Cardinality(Ids(user)) <= MaxEvents
      PROVE  Cardinality(EventsOf(user)) <= MaxEvents
  <2> DEFINE f == [e \in EventsOf(user) |-> e.id]
  <2>1. f \in [EventsOf(user) -> Ids(user)] /\ DOMAIN f = EventsOf(user)
    BY DEF Ids
  <2>2. \A a, b \in EventsOf(user) : f[a] = f[b] => a = b
    BY <1>1 DEF CapInv, EventsOf
  <2> HIDE DEF f
  <2>3. f \in Injection(EventsOf(user), Ids(user))
    BY <2>1, <2>2 DEF Injection, IsInjective
  <2>4. Cardinality(EventsOf(user)) <= Cardinality(Ids(user))
    BY <1>1, <2>3, IdsFinite, FS_Injection
  <2>5. /\ Cardinality(EventsOf(user)) \in Nat /\ Cardinality(Ids(user)) \in Nat
        /\ MaxEvents \in Nat
    BY <1>1, IdsFinite, LegacyConstants
  <2> QED
    BY <1>1, <2>4, <2>5
<1>2. TypeInv /\ CapInv => EventsCapped
  <2>1. ASSUME TypeInv, CapInv, NEW user \in Users \ log.untrimmed
        PROVE  \/ \E t \in Adding : threads[t].user = user
               \/ Cardinality(EventsOf(user)) <= MaxEvents
    <3>1. \A t \in Threads : Covers(t) => t \in Adding
      BY DEF Covers, At, Adding
    <3> QED
      BY <1>1, <2>1, <3>1 DEF CapInv
  <2> QED
    BY <2>1 DEF EventsCapped
<1> QED
  BY <1>2, TypeInit, TypeStep, CapInit, CapStep, PTL DEF Spec

-----------------------------------------------------------------------------
(***************************************************************************)
(* The access counts                                                       *)
(***************************************************************************)
Recalling(t) == threads[t].pc \in {"mark", "increment"}

Entry(u) == engine.traces[engine.slot[u]]

\* remember(u) has yet to write its row.
Unwritten(u) == u > issued \/ \E t \in Threads : At(t, "persist") /\ threads[t].uid = u

\* A recall has marked all its candidates when it comes to count them.
MarksInv ==
    /\ IsFiniteSet({t \in Threads : Recalling(t)})
    /\ \A t \in Threads : Recalling(t) => threads[t].left \subseteq threads[t].uids
    /\ \A t \in Threads : At(t, "increment") => threads[t].left = {}

\* A row counts no less than what has been returned of it, what hydrations
\* have read of it, and what the index has of it less what is to be written.
RowsInv ==
    /\ \A u \in Persisted : log.returned[u] <= ltm[u].count
    /\ \A u \in (Persisted \cap Indexed(engine)) \ log.uncounted :
          Entry(u).count <= ltm[u].count + Cardinality(MarkedBy(u))
    /\ \A t \in Threads : \A row \in RowsOf(t) :
          row.uid \in Persisted => row.count <= ltm[row.uid].count

\* No recall has found a trace without a row.
UnseenInv ==
    \A u \in Uids : Unwritten(u) =>
        /\ log.returned[u] = 0
        /\ \A o \in Threads : Recalling(o) => u \notin threads[o].uids

CountInv == MarksInv /\ RowsInv /\ UnseenInv

\* What is compared is natural.
LEMMA CountTypes ==
  ASSUME TypeInv, NEW u \in Uids
  PROVE  /\ log.returned[u] \in Nat
         /\ u \in Persisted => ltm[u].count \in Nat /\ ltm[u].dim \in Dims
         /\ u \in Indexed(engine) => Entry(u) \in Trace /\ Entry(u).count \in Nat
         /\ MarksInv => Cardinality(MarkedBy(u)) \in Nat /\ IsFiniteSet(MarkedBy(u))
<1>1. log.returned[u] \in Nat
  BY DEF TypeInv, Log
<1>2. u \in Persisted => ltm[u].count \in Nat /\ ltm[u].dim \in Dims
  <2>1. u \in Persisted => ltm[u] \in [dim : Dims, count : Nat]
    BY DEF Persisted, TypeInv
  <2> QED
    BY <2>1
<1>3. u \in Indexed(engine) => Entry(u) \in Trace
  BY Parts DEF Indexed, Entry, TypeInv
<1>4. \A trace \in Trace : trace.count \in Nat
  BY DEF Trace
<1>5. MarksInv => Cardinality(MarkedBy(u)) \in Nat /\ IsFiniteSet(MarkedBy(u))
  <2>1. MarkedBy(u) \subseteq {t \in Threads : Recalling(t)}
    BY DEF MarkedBy, Recalling, At
  <2> QED
    BY <2>1, FS_Subset, FS_CardinalityType DEF MarksInv
<1> QED
  BY <1>1, <1>2, <1>3, <1>4, <1>5

\* An ingestion puts its trace into the index, and leaves the others.
LEMMA EntryIngested ==
  ASSUME NEW e, Sound(e), NEW trace \in Trace
  PROVE  LET next == Ingested(e, trace)
         IN  /\ next.traces[next.slot[trace.uid]] = trace
             /\ \A v \in Indexed(e) \ {trace.uid} :
                   next.traces[next.slot[v]] = e.traces[e.slot[v]]
<1> DEFINE u == trace.uid
           next == Ingested(e, trace)
           last == Len(e.traces)
<1>1. /\ e.traces \in Seq(Trace) /\ last \in Nat /\ DOMAIN e.traces = 1 .. last
      /\ e.slot \in [Uids -> Nat] /\ u \in Uids
      /\ \A v \in Uids : e.slot[v] # 0 =>
            e.slot[v] \in DOMAIN e.traces /\ e.traces[e.slot[v]].uid = v
  BY Parts DEF Trace
<1>2. CASE u \in Indexed(e)
  <2> DEFINE i == e.slot[u]
  <2>1. /\ next.traces = [e.traces EXCEPT ![i] = trace]
        /\ next.slot = [e.slot EXCEPT ![u] = i]
    BY <1>2 DEF Ingested
  <2>2. i \in DOMAIN e.traces /\ e.traces[i].uid = u
    BY <1>1, <1>2 DEF Indexed
  <2>3. next.slot = e.slot
    BY <1>1, <2>1
  <2>4. \A v \in Indexed(e) \ {u} : e.slot[v] # i
    BY <1>1, <2>2 DEF Indexed
  <2> HIDE DEF next
  <2> QED
    BY <1>1, <2>1, <2>2, <2>3, <2>4 DEF Indexed, next
<1>3. CASE u \notin Indexed(e)
  <2>1. /\ next.traces = Append(e.traces, trace)
        /\ next.slot = [e.slot EXCEPT ![u] = last + 1]
    BY <1>3 DEF Ingested
  <2>2. next.slot[u] = last + 1 /\ \A v \in Uids \ {u} : next.slot[v] = e.slot[v]
    BY <1>1, <2>1
  <2>3. /\ next.traces[last + 1] = trace
        /\ \A i \in 1 .. last : next.traces[i] = e.traces[i]
    BY <1>1, <2>1, AppendProperties
  <2>4. \A v \in Indexed(e) \ {u} : v \in Uids \ {u} /\ e.slot[v] \in 1 .. last
    BY <1>1 DEF Indexed
  <2> HIDE DEF next
  <2> QED
    BY <2>2, <2>3, <2>4 DEF next
<1> QED
  BY <1>2, <1>3

\* A mark counts one access of one trace.
LEMMA EntryMarked ==
  ASSUME NEW e, Sound(e), NEW u \in Uids
  PROVE  LET next == Marked(e, u)
         IN  \A v \in Indexed(e) :
                IF v = u THEN next.traces[next.slot[v]].count = e.traces[e.slot[v]].count + 1
                ELSE next.traces[next.slot[v]] = e.traces[e.slot[v]]
<1>1. CASE u \notin Indexed(e)
  BY <1>1 DEF Marked
<1>2. CASE u \in Indexed(e)
  <2> DEFINE i == e.slot[u]
             next == Marked(e, u)
  <2>1. /\ e.traces \in Seq(Trace) /\ i \in DOMAIN e.traces
        /\ e.traces[i] \in Trace /\ e.traces[i].uid = u
        /\ \A v \in Uids : e.slot[v] # 0 => e.traces[e.slot[v]].uid = v
    BY <1>2, Parts DEF Indexed
  <2>2. /\ next.slot = e.slot
        /\ next.traces = [e.traces EXCEPT ![i] = [e.traces[i] EXCEPT !.count = @ + 1]]
    BY <1>2 DEF Marked, Sound, Engine
  <2>3. next.traces[i].count = e.traces[i].count + 1
    BY <2>1, <2>2 DEF Trace
  <2>4. \A v \in Indexed(e) \ {u} : e.slot[v] # i
    BY <2>1 DEF Indexed
  <2>5. \A j : j # i => next.traces[j] = e.traces[j]
    BY <2>2
  <2> HIDE DEF next
  <2> QED
    BY <2>2, <2>3, <2>4, <2>5 DEF next
<1> QED
  BY <1>1, <1>2

-----------------------------------------------------------------------------
\* A thread that begins, ends or furthers no recall, reads no row, and does not
\* come to write one.
Aside(t) ==
    /\ \/ ~Recalling(t) /\ ~Recalling(t)'
       \/ /\ threads'[t].pc = threads[t].pc
          /\ threads'[t].uids = threads[t].uids /\ threads'[t].left = threads[t].left
    /\ RowsOf(t)' \subseteq RowsOf(t)
    /\ At(t, "persist")' => At(t, "persist") /\ threads'[t].uid = threads[t].uid

\* Then the marks are what they were.
LEMMA MarksKept ==
  ASSUME MarksInv, \A t \in Threads : Aside(t)
  PROVE  /\ MarksInv'
         /\ \A u : MarkedBy(u)' = MarkedBy(u)
         /\ \A t \in Threads : Recalling(t)' => Recalling(t) /\ threads'[t].uids = threads[t].uids
<1>1. \A t \in Threads : /\ At(t, "mark")' <=> At(t, "mark")
                         /\ At(t, "increment")' <=> At(t, "increment")
                         /\ Recalling(t)' <=> Recalling(t)
                         /\ Recalling(t) => /\ threads'[t].uids = threads[t].uids
                                            /\ threads'[t].left = threads[t].left
  BY DEF Aside, Recalling, At
<1>2. {t \in Threads : Recalling(t)}' = {t \in Threads : Recalling(t)}
  BY <1>1
<1>3. MarksInv'
  <2>1. \A t \in Threads : At(t, "increment") => Recalling(t)
    BY DEF At, Recalling
  <2> QED
    BY <1>1, <1>2, <2>1 DEF MarksInv
<1>4. ASSUME NEW u PROVE MarkedBy(u)' = MarkedBy(u)
  <2>1. \A t \in Threads : At(t, "mark") \/ At(t, "increment") => Recalling(t)
    BY DEF At, Recalling
  <2> QED
    BY <1>1, <2>1 DEF MarkedBy
<1> QED
  BY <1>1, <1>3, <1>4

\* A step that counts nothing: what rows and entries are left say what they
\* said.
LEMMA CountQuiet ==
  ASSUME TypeInv, CountInv, \A t \in Threads : Aside(t),
         issued' = issued, log'.returned = log.returned,
         log.uncounted \subseteq log'.uncounted,
         \A u \in Persisted' : u \in Persisted /\ ltm'[u].count = ltm[u].count,
         \A u \in Indexed(engine') : u \in Indexed(engine) /\ Entry(u)' = Entry(u)
  PROVE  CountInv'
<1>1. /\ MarksInv' /\ \A u : MarkedBy(u)' = MarkedBy(u)
      /\ \A t \in Threads : Recalling(t)' => Recalling(t) /\ threads'[t].uids = threads[t].uids
  BY MarksKept DEF CountInv
<1>2. \A u \in Persisted' : log'.returned[u] <= ltm'[u].count
  BY DEF CountInv, RowsInv
<1>3. \A u \in (Persisted' \cap Indexed(engine')) \ log'.uncounted :
         Entry(u)'.count <= ltm'[u].count + Cardinality(MarkedBy(u)')
  BY <1>1 DEF CountInv, RowsInv
<1>4. \A t \in Threads : \A row \in RowsOf(t)' :
         row.uid \in Persisted' => row.count <= ltm'[row.uid].count
  BY DEF CountInv, RowsInv, Aside
<1>5. RowsInv'
  BY <1>2, <1>3, <1>4 DEF RowsInv
<1>6. \A u \in Uids : Unwritten(u)' => Unwritten(u)
  BY DEF Unwritten, Aside
<1>7. UnseenInv'
  BY <1>1, <1>6 DEF CountInv, UnseenInv
<1> QED
  BY <1>1, <1>5, <1>7 DEF CountInv

\* A thread that is not recalling does something else, and the others nothing.
LEMMA AsideMove ==
  ASSUME TypeInv, NEW t \in Threads, NEW th, threads' = [threads EXCEPT ![t] = th],
         ~Recalling(t), th.pc \notin {"persist", "mark", "increment"},
         {th.rows[i] : i \in DOMAIN th.rows} \subseteq RowsOf(t)
  PROVE  \A o \in Threads : Aside(o)
<1>1. threads'[t] = th /\ \A o \in Threads \ {t} : threads'[o] = threads[o]
  BY DEF TypeInv
<1>2. Aside(t)
  BY <1>1 DEF Aside, Recalling, At, RowsOf
<1>3. \A o \in Threads \ {t} : Aside(o)
  BY <1>1 DEF Aside, Recalling, At, RowsOf
<1> QED
  BY <1>2, <1>3

\* Going on, ending, and beginning an operation without rows.
LEMMA AsideGoto ==
  ASSUME TypeInv, NEW t \in Threads, ~Recalling(t),
         \/ \E pc : Goto(t, pc) /\ pc \notin {"persist", "mark", "increment"}
         \/ Return(t)
         \/ \E th : /\ threads' = [threads EXCEPT ![t] = th] /\ th.rows = <<>>
                    /\ th.pc \notin {"persist", "mark", "increment"}
  PROVE  \A o \in Threads : Aside(o)
<1>1. ASSUME NEW pc, Goto(t, pc), pc \notin {"persist", "mark", "increment"}
      PROVE  \A o \in Threads : Aside(o)
  <2> DEFINE th == [threads[t] EXCEPT !.pc = pc]
  <2>1. threads' = [threads EXCEPT ![t] = th]
    BY <1>1 DEF Goto
  <2>2. th.pc = pc /\ th.rows = threads[t].rows
    BY Carried DEF Thread
  <2>3. {th.rows[i] : i \in DOMAIN th.rows} \subseteq RowsOf(t)
    BY <2>2 DEF RowsOf
  <2> HIDE DEF th
  <2> QED
    BY <1>1, <2>1, <2>2, <2>3, AsideMove
<1>2. ASSUME NEW th, threads' = [threads EXCEPT ![t] = th], th.rows = <<>>,
             th.pc \notin {"persist", "mark", "increment"}
      PROVE  \A o \in Threads : Aside(o)
  <2>1. {th.rows[i] : i \in DOMAIN th.rows} \subseteq RowsOf(t)
    BY <1>2
  <2> QED
    BY <1>2, <2>1, AsideMove
<1>3. CASE Return(t)
  BY <1>2, <1>3, IdleFields DEF Return
<1> QED
  BY <1>1, <1>2, <1>3

\* Every step that neither writes a row, nor adds to the index or to a count.
LEMMA CountOthers ==
  ASSUME TypeInv, CountInv, NEW t \in Threads,
         \/ \E user \in Users : RecordEvent(t, user)
         \/ \E u \in Uids : Forget(t, u)
         \/ Purge(t) \/ Reject(t) \/ Stash(t)
         \/ SkipNote(t) \/ Note(t) \/ Count(t) \/ Pick(t) \/ Trim(t)
         \/ Unindex(t) \/ Unstore(t) \/ Unstash(t) \/ Unlog(t)
         \/ PurgeTraces(t) \/ PurgeEvents(t)
  PROVE  CountInv'
<1>1. ASSUME threads[t].pc \notin {"mark", "increment"},
             \/ \E pc : Goto(t, pc) /\ pc \notin {"persist", "mark", "increment"}
             \/ Return(t)
             \/ \E th : /\ threads' = [threads EXCEPT ![t] = th] /\ th.rows = <<>>
                        /\ th.pc \notin {"persist", "mark", "increment"},
             issued' = issued, log'.returned = log.returned,
             log'.uncounted = log.uncounted,
             UNCHANGED ltm \/ \E u \in Uids : ltm' = [ltm EXCEPT ![u] = Absent],
             UNCHANGED engine \/ \E u \in Uids : engine' = Removed(engine, u)
      PROVE  CountInv'
  <2>1. \A o \in Threads : Aside(o)
    BY <1>1, AsideGoto DEF Recalling
  <2>2. \A u \in Persisted' : u \in Persisted /\ ltm'[u].count = ltm[u].count
    BY <1>1 DEF Persisted, TypeInv
  <2>3. \A u \in Indexed(engine') : u \in Indexed(engine) /\ Entry(u)' = Entry(u)
    <3>1. CASE UNCHANGED engine
      BY <3>1 DEF Entry
    <3>2. ASSUME NEW u \in Uids, engine' = Removed(engine, u)
          PROVE  \A v \in Indexed(engine') : v \in Indexed(engine) /\ Entry(v)' = Entry(v)
      BY <3>2, RemovedOnly DEF TypeInv, Entry
    <3> QED
      BY <1>1, <3>1, <3>2
  <2> QED
    BY <1>1, <2>1, <2>2, <2>3, CountQuiet
<1>2. threads[t] \in Thread /\ (Early(t) \/ Forgetting(t) \/ At(t, "stash") => threads[t].uid \in Uids)
  BY Carried
<1>3. log \in Log
  BY DEF TypeInv
<1>4. ASSUME NEW user \in Users, RecordEvent(t, user) PROVE CountInv'
  <2> DEFINE th == [Idle EXCEPT !.pc = "note", !.user = user]
  <2>1. th.pc = "note" /\ th.rows = <<>>
    BY DEF Idle
  <2>2. threads' = [threads EXCEPT ![t] = th] /\ At(t, "idle")
    BY <1>4 DEF RecordEvent, Enter
  <2> HIDE DEF th
  <2> QED
    BY <1>1, <1>4, <2>1, <2>2 DEF RecordEvent, At, tables
<1>5. ASSUME NEW u \in Uids, Forget(t, u) PROVE CountInv'
  <2>1. PICK alone : Enter(t, [Idle EXCEPT !.pc = "remove", !.uid = u, !.user = UserOf(u),
                                           !.alone = alone])
    BY <1>5 DEF Forget
  <2> DEFINE th == [Idle EXCEPT !.pc = "remove", !.uid = u, !.user = UserOf(u),
                                !.alone = alone]
  <2>2. th.pc = "remove" /\ th.rows = <<>>
    BY DEF Idle
  <2>3. threads' = [threads EXCEPT ![t] = th] /\ At(t, "idle")
    BY <2>1 DEF Enter
  <2>4. UNCHANGED <<engine, ltm, issued>>
        /\ log'.returned = log.returned /\ log'.uncounted = log.uncounted
    BY <1>3, <1>5 DEF Forget, Log, tables
  <2> HIDE DEF th
  <2> QED
    BY <1>1, <2>2, <2>3, <2>4 DEF At
<1>6. CASE Purge(t)
  <2> DEFINE th == [Idle EXCEPT !.pc = IF StmEnabled THEN "purge" ELSE "sweep"]
  <2>1. th.pc \in {"purge", "sweep"} /\ th.rows = <<>>
    BY DEF Idle
  <2>2. threads' = [threads EXCEPT ![t] = th] /\ At(t, "idle")
    BY <1>6 DEF Purge, Enter
  <2> HIDE DEF th
  <2> QED
    BY <1>1, <1>6, <2>1, <2>2 DEF Purge, At, tables
<1>7. CASE Reject(t)
  <2>1. threads[t].uid \in Uids /\ At(t, "reject")
    BY <1>2, <1>7 DEF Reject, Early, At
  <2>2. log'.returned = log.returned /\ log'.uncounted = log.uncounted
    BY <1>3, <1>7 DEF Reject, Log
  <2> QED
    BY <1>1, <1>7, <2>1, <2>2 DEF Reject, At
<1>8. CASE Stash(t) \/ Unstash(t) \/ PurgeTraces(t)
  BY <1>1, <1>8 DEF Stash, Unstash, PurgeTraces, At
<1>9. CASE SkipNote(t) \/ Trim(t) \/ Unlog(t)
  <2>1. log'.returned = log.returned /\ log'.uncounted = log.uncounted
    BY <1>3, <1>9 DEF SkipNote, Trim, Unlog, Noted, Log
  <2>2. UNCHANGED <<engine, ltm, issued>> /\ Return(t)
        /\ threads[t].pc \in {"note", "trim", "unlog"}
    BY <1>9 DEF SkipNote, Trim, Unlog, At, tables
  <2> QED
    BY <1>1, <2>1, <2>2
<1>10. CASE Note(t) \/ PurgeEvents(t)
  BY <1>1, <1>10 DEF Note, PurgeEvents, At
<1>11. CASE Count(t)
  <2> DEFINE th == [threads[t] EXCEPT !.pc = "pick", !.over = Overflow(threads[t].user)]
  <2>1. log'.returned = log.returned /\ log'.uncounted = log.uncounted
    BY <1>3, <1>11 DEF Count, Noted, Log
  <2>2. UNCHANGED <<engine, ltm, issued>> /\ threads[t].pc = "count"
    BY <1>11 DEF Count, At, tables
  <2>3. CASE Return(t)
    BY <1>1, <2>1, <2>2, <2>3
  <2>4. CASE threads' = [threads EXCEPT ![t].pc = "pick",
                                        ![t].over = Overflow(threads[t].user)]
    <3>1. threads' = [threads EXCEPT ![t] = th]
      BY <2>4 DEF TypeInv
    <3>2. th.pc = "pick" /\ th.rows = threads[t].rows
      BY <1>2 DEF Thread
    <3> HIDE DEF th
    <3>3. \A o \in Threads : Aside(o)
      BY <2>2, <3>1, <3>2, AsideMove DEF Recalling, RowsOf
    <3> QED
      BY <2>1, <2>2, <3>3, CountQuiet DEF Persisted, Entry
  <2> QED
    BY <1>11, <2>3, <2>4 DEF Count
<1>12. CASE Pick(t)
  <2>1. PICK ids : threads' = [threads EXCEPT ![t].pc = "trim", ![t].ids = ids]
    BY <1>12 DEF Pick
  <2> DEFINE th == [threads[t] EXCEPT !.pc = "trim", !.ids = ids]
  <2>2. threads' = [threads EXCEPT ![t] = th]
    BY <2>1 DEF TypeInv
  <2>3. th.pc = "trim" /\ th.rows = threads[t].rows
    BY <1>2 DEF Thread
  <2>4. UNCHANGED <<engine, ltm, issued, log>> /\ threads[t].pc = "pick"
    BY <1>12 DEF Pick, At, tables
  <2> HIDE DEF th
  <2>5. \A o \in Threads : Aside(o)
    BY <2>2, <2>3, <2>4, AsideMove DEF Recalling, RowsOf
  <2> QED
    BY <2>4, <2>5, CountQuiet DEF Persisted, Entry
<1>13. CASE Unindex(t) \/ Unstore(t)
  <2>1. threads[t].uid \in Uids /\ threads[t].pc \in {"remove", "unstore"}
    BY <1>2, <1>13 DEF Unindex, Unstore, Forgetting, At
  <2>2. UNCHANGED <<issued, log>>
        /\ (UNCHANGED ltm \/ ltm' = [ltm EXCEPT ![threads[t].uid] = Absent])
        /\ (UNCHANGED engine \/ engine' = Removed(engine, threads[t].uid))
        /\ \E pc : Goto(t, pc) /\ pc \notin {"persist", "mark", "increment"}
    BY <1>13 DEF Unindex, Unstore, tables
  <2> QED
    BY <1>1, <2>1, <2>2
<1> QED
  BY <1>4, <1>5, <1>6, <1>7, <1>8, <1>9, <1>10, <1>11, <1>12, <1>13

\* remember() takes a uuid nothing knows.
LEMMA CountBegin ==
  ASSUME TypeInv, CountInv, NEW t \in Threads, NEW dim \in Dims, Remember(t, dim)
  PROVE  CountInv'
<1> DEFINE th == [Idle EXCEPT !.pc = "persist", !.uid = issued + 1,
                              !.user = UserOf(issued + 1), !.dim = dim]
<1>1. /\ threads' = [threads EXCEPT ![t] = th] /\ At(t, "idle") /\ issued' = issued + 1
      /\ UNCHANGED <<engine, ltm, log>>
  BY DEF Remember, Enter, tables
<1>2. th.pc = "persist" /\ th.rows = <<>> /\ th.uid = issued + 1
  BY DEF Idle
<1> HIDE DEF th
<1>3. threads'[t] = th /\ \A o \in Threads \ {t} : threads'[o] = threads[o]
  BY <1>1 DEF TypeInv
<1>4. \A o \in Threads : Recalling(o)' => o # t /\ Recalling(o)
  BY <1>2, <1>3 DEF Recalling
<1>5. {o \in Threads : Recalling(o)}' = {o \in Threads : Recalling(o)}
  BY <1>1, <1>2, <1>3 DEF Recalling, At
<1>6. MarksInv'
  BY <1>2, <1>3, <1>4, <1>5 DEF CountInv, MarksInv, Recalling, At
<1>7. \A u : MarkedBy(u)' = MarkedBy(u)
  BY <1>1, <1>2, <1>3 DEF MarkedBy, At
<1>8. \A o \in Threads : RowsOf(o)' \subseteq RowsOf(o)
  BY <1>2, <1>3 DEF RowsOf
<1>9. RowsInv'
  BY <1>1, <1>7, <1>8 DEF CountInv, RowsInv, Persisted, Entry
<1>10. \A u \in Uids : Unwritten(u)' => Unwritten(u)
  <2>1. \A u \in Uids : u \in Nat /\ issued \in Nat
    BY EngineConstants DEF TypeInv
  <2>2. ASSUME NEW u \in Uids, Unwritten(u)' PROVE Unwritten(u)
    <3>1. CASE u > issued'
      BY <1>1, <2>1, <3>1 DEF Unwritten
    <3>2. CASE \E o \in Threads : At(o, "persist")' /\ threads'[o].uid = u
      <4>1. PICK o \in Threads : At(o, "persist")' /\ threads'[o].uid = u
        BY <3>2
      <4>2. CASE o = t
        BY <1>2, <1>3, <2>1, <4>1, <4>2 DEF Unwritten
      <4>3. CASE o # t
        BY <1>3, <4>1, <4>3 DEF Unwritten, At
      <4> QED
        BY <4>2, <4>3
    <3> QED
      BY <2>2, <3>1, <3>2 DEF Unwritten
  <2> QED
    BY <2>2
<1>11. UnseenInv'
  BY <1>1, <1>3, <1>4, <1>10 DEF CountInv, UnseenInv
<1> QED
  BY <1>6, <1>9, <1>11 DEF CountInv

\* Its row counts nothing, and nothing has counted it.
LEMMA CountPersist ==
  ASSUME TypeInv, DurableInv, CountInv, NEW t \in Threads, Persist(t)
  PROVE  CountInv'
<1>1. PICK u \in Uids : u = threads[t].uid
  BY Carried DEF Persist, Early, At
<1>2. /\ At(t, "persist") /\ Goto(t, "publish") /\ UNCHANGED <<engine, issued, log>>
      /\ ltm' = [ltm EXCEPT ![u] = [dim |-> threads[t].dim, count |-> 0]]
  BY <1>1 DEF Persist
<1>3. /\ u \notin Indexed(engine) /\ log.returned[u] = 0
      /\ \A o \in Threads : \A row \in RowsOf(o) : row.uid # u
  <2>1. u \notin Known /\ Unwritten(u) /\ Early(t)
    BY <1>1, <1>2 DEF DurableInv, EarlyInv, Unwritten, At, Early
  <2>2. ASSUME NEW o \in Threads, NEW row \in RowsOf(o) PROVE row.uid # u
    BY <1>1, <1>2, <2>1 DEF DurableInv, RowInv, At
  <2> QED
    BY <2>1, <2>2 DEF DurableInv, CountInv, UnseenInv
<1>4. /\ \A v \in Persisted' \ {u} : v \in Persisted /\ ltm'[v] = ltm[v]
      /\ ltm'[u].count = 0
  BY <1>2 DEF Persisted, TypeInv
<1>5. \A o \in Threads : Aside(o)
  BY <1>2, AsideGoto DEF Recalling, At
<1>6. /\ MarksInv' /\ \A v : MarkedBy(v)' = MarkedBy(v)
      /\ \A o \in Threads : Recalling(o)' => Recalling(o) /\ threads'[o].uids = threads[o].uids
  BY <1>5, MarksKept DEF CountInv
<1>7. \A v \in Persisted' : log'.returned[v] <= ltm'[v].count
  BY <1>2, <1>3, <1>4 DEF CountInv, RowsInv
<1>8. \A v \in (Persisted' \cap Indexed(engine')) \ log'.uncounted :
         Entry(v)'.count <= ltm'[v].count + Cardinality(MarkedBy(v)')
  BY <1>2, <1>3, <1>4, <1>6 DEF CountInv, RowsInv, Entry
<1>9. \A o \in Threads : \A row \in RowsOf(o)' :
         row.uid \in Persisted' => row.count <= ltm'[row.uid].count
  BY <1>3, <1>4, <1>5 DEF CountInv, RowsInv, Aside
<1>10. RowsInv'
  BY <1>7, <1>8, <1>9 DEF RowsInv
<1>11. \A v \in Uids : Unwritten(v)' => Unwritten(v)
  BY <1>2, <1>5 DEF Unwritten, Aside
<1>12. UnseenInv'
  BY <1>2, <1>6, <1>11 DEF CountInv, UnseenInv
<1> QED
  BY <1>6, <1>10, <1>12 DEF CountInv

\* What is put into the index counts no more than its row.
LEMMA CountIngest ==
  ASSUME TypeInv, CountInv, \A o \in Threads : Aside(o), NEW trace \in Trace,
         engine' = Ingested(engine, trace), UNCHANGED <<ltm, issued, log>>,
         trace.uid \in Persisted => trace.count <= ltm[trace.uid].count
  PROVE  CountInv'
<1>1. /\ MarksInv' /\ \A v : MarkedBy(v)' = MarkedBy(v)
      /\ \A o \in Threads : Recalling(o)' => Recalling(o) /\ threads'[o].uids = threads[o].uids
  BY MarksKept DEF CountInv
<1>2. /\ Indexed(engine') = Indexed(engine) \cup {trace.uid} /\ trace.uid \in Uids
      /\ Entry(trace.uid)' = trace
      /\ \A v \in Indexed(engine) \ {trace.uid} : Entry(v)' = Entry(v)
  BY IngestedIndexed, EntryIngested DEF TypeInv, Entry, Trace
<1>3. Persisted' = Persisted
  BY DEF Persisted
<1>4. ASSUME NEW v \in (Persisted \cap Indexed(engine')) \ log.uncounted
      PROVE  Entry(v)'.count <= ltm[v].count + Cardinality(MarkedBy(v))
  <2>1. CASE v = trace.uid
    <3>1. /\ ltm[v].count \in Nat /\ Cardinality(MarkedBy(v)) \in Nat
          /\ trace.count \in Nat
      BY <1>2, <2>1, CountTypes DEF CountInv, Trace
    <3>2. Entry(v)'.count = trace.count
      BY <1>2, <2>1
    <3> QED
      BY <2>1, <3>1, <3>2
  <2>2. CASE v # trace.uid
    BY <1>2, <2>2 DEF CountInv, RowsInv
  <2> QED
    BY <2>1, <2>2
<1>5. \A o \in Threads : \A row \in RowsOf(o)' :
         row.uid \in Persisted => row.count <= ltm[row.uid].count
  BY DEF CountInv, RowsInv, Aside
<1>6. RowsInv'
  BY <1>1, <1>3, <1>4, <1>5 DEF CountInv, RowsInv
<1>7. \A v \in Uids : Unwritten(v)' => Unwritten(v)
  BY DEF Unwritten, Aside
<1>8. UnseenInv'
  BY <1>1, <1>7 DEF CountInv, UnseenInv
<1> QED
  BY <1>1, <1>6, <1>8 DEF CountInv

\* remember() publishes a trace that counts nothing.
LEMMA CountPublish ==
  ASSUME TypeInv, CountInv, NEW t \in Threads, Publish(t)
  PROVE  CountInv'
<1> DEFINE trace == [uid |-> threads[t].uid, dim |-> threads[t].dim, count |-> 0]
<1>1. threads[t].uid \in Uids /\ threads[t].dim \in Dims
  <2>1. threads[t] \in Thread /\ Ready(threads[t]) /\ At(t, "publish")
    BY Carried DEF Publish
  <2> QED
    BY <2>1 DEF Thread, Ready, At
<1>2. trace \in Trace /\ trace.count = 0 /\ trace.uid = threads[t].uid
  BY <1>1 DEF Trace
<1>3. \A o \in Threads : Aside(o)
  BY AsideGoto DEF Publish, Recalling, At
<1>4. UNCHANGED <<ltm, issued, log>>
  BY DEF Publish, tables
<1>5. CASE engine' = Ingested(engine, trace)
  <2>1. trace.uid \in Persisted => trace.count <= ltm[trace.uid].count
    BY <1>1, <1>2, CountTypes
  <2> HIDE DEF trace
  <2> QED
    BY <1>2, <1>3, <1>4, <1>5, <2>1, CountIngest
<1>6. CASE UNCHANGED engine
  BY <1>3, <1>4, <1>6, CountQuiet DEF Persisted, Entry
<1> QED
  BY <1>5, <1>6 DEF Publish

\* A hydration ingests what it has read of the row.
LEMMA CountLoad ==
  ASSUME TypeInv, CountInv, NEW t \in Threads, Load(t)
  PROVE  CountInv'
<1> DEFINE rows == threads[t].rows
           trace == Head(rows)
<1>1. /\ rows \in Seq(Trace) /\ rows # <<>> /\ At(t, "load")
      /\ UNCHANGED <<tables, issued, log>>
  BY Carried DEF Load, At, Ready, Thread
<1>2. trace \in Trace /\ trace \in RowsOf(t)
  <2>1. trace \in Trace
    BY <1>1, HeadTailProperties
  <2>2. Len(rows) \in Nat \ {0} /\ DOMAIN rows = 1 .. Len(rows)
    BY <1>1, EmptySeq, LenProperties
  <2>3. 1 \in DOMAIN rows
    BY <2>2
  <2>4. trace = rows[1]
    BY <1>1
  <2> QED
    BY <2>1, <2>3, <2>4 DEF RowsOf
<1>3. \A o \in Threads : Aside(o)
  <2>1. CASE Return(t)
    BY <1>1, <2>1, AsideGoto DEF Recalling, At
  <2>2. CASE threads' = [threads EXCEPT ![t].rows = Tail(rows)]
    <3> DEFINE rest == Tail(rows)
               th == [threads[t] EXCEPT !.rows = rest]
    <3>1. \A i \in DOMAIN rest : rest[i] \in RowsOf(t)
      <4>1. /\ rest \in Seq(Trace) /\ Len(rest) = Len(rows) - 1
            /\ \A i \in 1 .. Len(rest) : rest[i] = rows[i + 1]
        BY <1>1, HeadTailProperties
      <4>2. DOMAIN rest = 1 .. Len(rest) /\ DOMAIN rows = 1 .. Len(rows)
        BY <1>1, <4>1, LenProperties
      <4>3. Len(rest) \in Nat /\ Len(rows) \in Nat
        BY <1>1, <4>1, LenProperties
      <4> HIDE DEF rest
      <4> DEFINE all == rows
      <4>4. \A i \in DOMAIN rest : i + 1 \in DOMAIN all /\ rest[i] = all[i + 1]
        BY <4>1, <4>2, <4>3
      <4> QED
        BY <4>4 DEF RowsOf
    <3>2. threads' = [threads EXCEPT ![t] = th]
      BY <2>2 DEF TypeInv
    <3> HIDE DEF rest
    <3>3. th.pc = "load" /\ th.rows = rest
      BY <1>1, Carried DEF Thread, At
    <3>4. {th.rows[i] : i \in DOMAIN th.rows} \subseteq RowsOf(t)
      BY <3>1, <3>3
    <3> HIDE DEF th
    <3> QED
      BY <1>1, <3>2, <3>3, <3>4, AsideMove DEF Recalling, At
  <2> QED
    BY <2>1, <2>2 DEF Load
<1>4. UNCHANGED <<ltm, issued, log>>
  BY <1>1 DEF tables
<1>5. CASE Accepts(engine, trace.dim)
  <2>1. engine' = Ingested(engine, trace)
    BY <1>5 DEF Load
  <2>2. trace.uid \in Persisted => trace.count <= ltm[trace.uid].count
    BY <1>2 DEF CountInv, RowsInv
  <2> HIDE DEF trace
  <2> QED
    BY <1>2, <1>3, <1>4, <2>1, <2>2, CountIngest
<1>6. CASE ~Accepts(engine, trace.dim)
  <2>1. UNCHANGED engine
    BY <1>6 DEF Load
  <2> QED
    BY <1>3, <1>4, <2>1, CountQuiet DEF Persisted, Entry
<1> QED
  BY <1>5, <1>6

\* A hydration reads what the rows count.
LEMMA CountHydrate ==
  ASSUME TypeInv, CountInv, NEW t \in Threads, NEW user \in Users, Hydrate(t, user)
  PROVE  CountInv'
<1>1. PICK uids \in InOrder(user) :
        threads' = [o \in Threads |->
           IF o = t
           THEN [Idle EXCEPT !.pc = "load", !.user = user,
                   !.rows = [i \in DOMAIN uids |->
                       [uid |-> uids[i], dim |-> ltm[uids[i]].dim,
                        count |-> ltm[uids[i]].count]]]
           ELSE [threads[o] EXCEPT !.alone = @ /\ threads[o].uid \notin ToSet(uids)]]
  BY DEF Hydrate
<1>2. /\ UNCHANGED <<engine, ltm, issued, log>> /\ Persisted' = Persisted
      /\ At(t, "idle")
  BY DEF Hydrate, tables, Persisted
<1> DEFINE rows == [i \in DOMAIN uids |->
                       [uid |-> uids[i], dim |-> ltm[uids[i]].dim,
                        count |-> ltm[uids[i]].count]]
           th == [Idle EXCEPT !.pc = "load", !.user = user, !.rows = rows]
<1>3. threads'[t] = th
  BY <1>1
<1>4. th.pc = "load" /\ th.rows = rows
  BY DEF Idle
<1>5. \A i \in DOMAIN uids : uids[i] \in Persisted
  BY DEF InOrder
<1>6. \A i \in DOMAIN rows :
         rows[i].uid \in Persisted /\ rows[i].count = ltm[rows[i].uid].count
  BY <1>5
<1> HIDE DEF rows
<1> HIDE DEF th
<1>7. ASSUME NEW o \in Threads \ {t}
      PROVE  /\ threads'[o].pc = threads[o].pc /\ threads'[o].uid = threads[o].uid
             /\ threads'[o].uids = threads[o].uids /\ threads'[o].left = threads[o].left
             /\ threads'[o].rows = threads[o].rows
  <2> DEFINE alone == threads[o].alone /\ threads[o].uid \notin ToSet(uids)
  <2>1. threads'[o] = [threads[o] EXCEPT !.alone = alone]
    BY <1>1
  <2> HIDE DEF alone
  <2> QED
    BY <2>1, Carried DEF Thread
<1>8. /\ ~Recalling(t) /\ ~Recalling(t)' /\ ~At(t, "mark")' /\ ~At(t, "increment")'
      /\ ~At(t, "persist")' /\ ~At(t, "mark") /\ ~At(t, "increment")
      /\ \A row \in RowsOf(t)' : row.uid \in Persisted /\ row.count = ltm[row.uid].count
  BY <1>2, <1>3, <1>4, <1>6 DEF Recalling, At, RowsOf
<1>9. ASSUME NEW o \in Threads \ {t}
      PROVE  /\ RowsOf(o)' = RowsOf(o)
             /\ At(o, "mark")' <=> At(o, "mark")
             /\ At(o, "increment")' <=> At(o, "increment")
             /\ At(o, "persist")' <=> At(o, "persist")
             /\ Recalling(o)' <=> Recalling(o)
  BY <1>7 DEF RowsOf, At, Recalling
<1>10. {o \in Threads : Recalling(o)}' = {o \in Threads : Recalling(o)}
  BY <1>8, <1>9
<1>11. MarksInv'
  BY <1>7, <1>8, <1>9, <1>10 DEF CountInv, MarksInv
<1>12. \A u : MarkedBy(u)' = MarkedBy(u)
  BY <1>7, <1>8, <1>9 DEF MarkedBy
<1>13. \A o \in Threads : \A row \in RowsOf(o)' :
          row.uid \in Persisted => row.count <= ltm[row.uid].count
  <2>1. ASSUME NEW row \in RowsOf(t)' PROVE row.count <= ltm[row.uid].count
    <3>1. row.uid \in Persisted /\ row.count = ltm[row.uid].count
      BY <1>8
    <3>2. ltm[row.uid].count \in Nat
      BY <3>1, CountTypes DEF Persisted
    <3> QED
      BY <3>1, <3>2
  <2> QED
    BY <1>9, <2>1 DEF CountInv, RowsInv
<1>14. RowsInv'
  BY <1>2, <1>12, <1>13 DEF CountInv, RowsInv, Entry
<1>15. \A u \in Uids : Unwritten(u)' => Unwritten(u)
  BY <1>2, <1>7, <1>8, <1>9 DEF Unwritten
<1>16. UnseenInv'
  BY <1>2, <1>7, <1>8, <1>9, <1>15 DEF CountInv, UnseenInv
<1> QED
  BY <1>11, <1>14, <1>16 DEF CountInv

-----------------------------------------------------------------------------
\* A recall finds what has a row, or had.
LEMMA CountSearch ==
  ASSUME TypeInv, DurableInv, CountInv, NEW t \in Threads, NEW user \in Users,
         NEW dim \in Dims, Search(t, user, dim)
  PROVE  CountInv'
<1>1. PICK uids \in Found(engine, user, RecallLimit) :
          Enter(t, [Idle EXCEPT !.pc = "mark", !.user = user,
                                !.uids = uids, !.left = uids])
  BY DEF Search
<1> DEFINE th == [Idle EXCEPT !.pc = "mark", !.user = user,
                              !.uids = uids, !.left = uids]
<1>2. /\ threads' = [threads EXCEPT ![t] = th] /\ At(t, "idle")
      /\ UNCHANGED <<engine, ltm, issued, log>>
  BY <1>1 DEF Enter, Search, tables
<1>3. th.rows = <<>> /\ th.pc = "mark" /\ th.uids = uids /\ th.left = uids
  BY DEF Idle
<1> HIDE DEF th
<1>4. uids \subseteq Indexed(engine)
  <2> DEFINE found == {engine.traces[i].uid : i \in engine.posts[user]}
  <2>1. engine.posts[user] \subseteq DOMAIN engine.traces
    BY LegacyConstants DEF TypeInv, Sound, Exact
  <2>2. \A i \in DOMAIN engine.traces :
           engine.traces[i].uid \in Uids /\ engine.slot[engine.traces[i].uid] = i /\ i # 0
    BY Parts DEF TypeInv
  <2>3. found \subseteq Indexed(engine)
    BY <2>1, <2>2 DEF Indexed
  <2>4. uids \subseteq found
    BY <1>1 DEF Found, kSubset
  <2> QED
    BY <2>3, <2>4
<1>5. \A u \in uids : ~Unwritten(u)
  <2>1. \A u \in uids : u \in Known /\ u <= issued /\ u \in Nat /\ issued \in Nat
    BY <1>4, EngineConstants DEF DurableInv, TypeInv, Indexed
  <2>2. \A o \in Threads : At(o, "persist") => threads[o].uid \notin uids
    BY <2>1 DEF DurableInv, EarlyInv
  <2> QED
    BY <2>1, <2>2 DEF Unwritten
<1>6. threads'[t] = th /\ \A o \in Threads \ {t} : threads'[o] = threads[o]
  BY <1>2 DEF TypeInv
<1>7. MarksInv'
  <2> DEFINE before == {o \in Threads : Recalling(o)}
  <2>1. {o \in Threads : Recalling(o)}' = before \cup {t}
    BY <1>3, <1>6 DEF Recalling
  <2>2. IsFiniteSet(before)
    BY DEF CountInv, MarksInv
  <2> HIDE DEF before
  <2>3. IsFiniteSet({o \in Threads : Recalling(o)}')
    BY <2>1, <2>2, FS_AddElement
  <2> QED
    BY <1>3, <1>6, <2>3 DEF CountInv, MarksInv, Recalling, At
<1>8. \A u : MarkedBy(u)' = MarkedBy(u)
  BY <1>2, <1>3, <1>6 DEF MarkedBy, At
<1>9. \A o \in Threads : RowsOf(o)' \subseteq RowsOf(o)
  BY <1>3, <1>6 DEF RowsOf
<1>10. RowsInv'
  BY <1>2, <1>8, <1>9 DEF CountInv, RowsInv, Persisted, Entry
<1>11. \A u \in Uids : Unwritten(u)' => Unwritten(u)
  BY <1>2, <1>3, <1>6 DEF Unwritten, At
<1>12. \A u \in Uids : Unwritten(u)' =>
          /\ log'.returned[u] = 0
          /\ \A o \in Threads : Recalling(o)' => u \notin threads'[o].uids
  BY <1>2, <1>3, <1>5, <1>6, <1>11 DEF CountInv, UnseenInv, Recalling
<1>13. UnseenInv'
  BY <1>12 DEF UnseenInv
<1> QED
  BY <1>7, <1>10, <1>13 DEF CountInv

\* The index is ahead of the row by one more recall, which has yet to write.
LEMMA CountMark ==
  ASSUME TypeInv, CountInv, NEW t \in Threads, NEW u \in Uids, Mark(t, u)
  PROVE  CountInv'
<1> DEFINE left == threads[t].left \ {u}
           pc == IF left = {} THEN "increment" ELSE "mark"
           th == [threads[t] EXCEPT !.left = left, !.pc = pc]
<1>1. threads' = [threads EXCEPT ![t] = th]
  BY DEF Mark, TypeInv
<1>2. /\ pc \in {"increment", "mark"} /\ (pc = "increment" => left = {})
      /\ At(t, "mark") /\ u \in threads[t].left
      /\ engine' = Marked(engine, u) /\ UNCHANGED <<ltm, issued, log>>
  BY DEF Mark, tables
<1>3. left = threads[t].left \ {u}
  OBVIOUS
<1> HIDE DEF left, pc
<1>4. /\ th.pc = pc /\ th.left = left /\ th.uids = threads[t].uids
      /\ th.rows = threads[t].rows
  BY Carried DEF Thread
<1> HIDE DEF th
<1>5. threads'[t] = th /\ \A o \in Threads \ {t} : threads'[o] = threads[o]
  BY <1>1 DEF TypeInv
<1>6. Recalling(t) /\ threads[t].left \subseteq threads[t].uids
  BY <1>2 DEF CountInv, MarksInv, Recalling, At
<1>7. \A o \in Threads : /\ Recalling(o)' <=> Recalling(o)
                         /\ threads'[o].uids = threads[o].uids
                         /\ RowsOf(o)' = RowsOf(o)
                         /\ At(o, "persist")' => At(o, "persist") /\ threads'[o] = threads[o]
  BY <1>2, <1>4, <1>5, <1>6 DEF Recalling, At, RowsOf
<1>8. {o \in Threads : Recalling(o)}' = {o \in Threads : Recalling(o)}
  BY <1>7
<1>9. MarksInv'
  <2>1. \A o \in Threads : Recalling(o)' => threads'[o].left \subseteq threads'[o].uids
    BY <1>3, <1>4, <1>5, <1>6, <1>7 DEF CountInv, MarksInv
  <2>2. \A o \in Threads : At(o, "increment")' => threads'[o].left = {}
    BY <1>2, <1>4, <1>5 DEF CountInv, MarksInv, At
  <2> QED
    BY <1>8, <2>1, <2>2 DEF CountInv, MarksInv
<1>10. \A v \in Uids \ {u} : MarkedBy(v)' = MarkedBy(v)
  BY <1>2, <1>3, <1>4, <1>5 DEF MarkedBy, At
<1>11. t \notin MarkedBy(u) /\ MarkedBy(u)' = MarkedBy(u) \cup {t}
  BY <1>2, <1>3, <1>4, <1>5, <1>6 DEF MarkedBy, At
<1>12. Cardinality(MarkedBy(u)') = Cardinality(MarkedBy(u)) + 1
  BY <1>11, CountTypes, FS_AddElement DEF CountInv
<1>13. /\ Indexed(engine') = Indexed(engine) /\ Persisted' = Persisted
       /\ u \in Indexed(engine) => Entry(u)'.count = Entry(u).count + 1
       /\ \A v \in Indexed(engine) \ {u} : Entry(v)' = Entry(v)
  BY <1>2, MarkedIndexed, EntryMarked DEF TypeInv, Entry, Persisted
<1>14. ASSUME u \in (Persisted \cap Indexed(engine)) \ log.uncounted
       PROVE  Entry(u)'.count <= ltm[u].count + Cardinality(MarkedBy(u)')
  <2>1. Entry(u).count <= ltm[u].count + Cardinality(MarkedBy(u))
    BY <1>14 DEF CountInv, RowsInv
  <2>2. /\ Entry(u).count \in Nat /\ ltm[u].count \in Nat
        /\ Cardinality(MarkedBy(u)) \in Nat
    BY <1>14, CountTypes DEF CountInv
  <2> QED
    BY <1>12, <1>13, <1>14, <2>1, <2>2
<1>15. \A v \in (Persisted \cap Indexed(engine)) \ log.uncounted :
          Entry(v)'.count <= ltm[v].count + Cardinality(MarkedBy(v)')
  BY <1>10, <1>13, <1>14 DEF CountInv, RowsInv, Indexed
<1>16. RowsInv'
  BY <1>2, <1>7, <1>13, <1>15 DEF CountInv, RowsInv
<1>17. \A v \in Uids : Unwritten(v)' => Unwritten(v)
  BY <1>2, <1>7 DEF Unwritten
<1>18. UnseenInv'
  BY <1>2, <1>7, <1>17 DEF CountInv, UnseenInv
<1> QED
  BY <1>9, <1>16, <1>18 DEF CountInv

\* A recall that ends takes its marks with it.
LEMMA RecallEnds ==
  ASSUME TypeInv, CountInv, NEW t \in Threads, Return(t), issued' = issued
  PROVE  /\ MarksInv' /\ \A u : MarkedBy(u)' = MarkedBy(u) \ {t}
         /\ \A o \in Threads : RowsOf(o)' \subseteq RowsOf(o)
         /\ \A u : Unwritten(u)' => Unwritten(u)
         /\ \A o \in Threads : Recalling(o)' => Recalling(o) /\ threads'[o].uids = threads[o].uids
<1>1. threads'[t] = Idle /\ \A o \in Threads \ {t} : threads'[o] = threads[o]
  BY DEF Return, TypeInv
<1>2. {o \in Threads : Recalling(o)}' \subseteq {o \in Threads : Recalling(o)}
  BY <1>1, IdleFields DEF Recalling
<1>3. MarksInv'
  <2>1. IsFiniteSet({o \in Threads : Recalling(o)}')
    BY <1>2, FS_Subset DEF CountInv, MarksInv
  <2> QED
    BY <1>1, <2>1, IdleFields DEF CountInv, MarksInv, Recalling, At
<1>4. \A u : MarkedBy(u)' = MarkedBy(u) \ {t}
  BY <1>1, IdleFields DEF MarkedBy, At
<1>5. \A o \in Threads : RowsOf(o)' \subseteq RowsOf(o)
  BY <1>1, IdleFields DEF RowsOf
<1>6. \A u : Unwritten(u)' => Unwritten(u)
  BY <1>1, IdleFields DEF Unwritten, At
<1>7. \A o \in Threads : Recalling(o)' => Recalling(o) /\ threads'[o].uids = threads[o].uids
  BY <1>1, IdleFields DEF Recalling
<1> QED
  BY <1>3, <1>4, <1>5, <1>6, <1>7

\* It writes one access more of each trace it returns, if the row is there.
LEMMA CountIncrement ==
  ASSUME TypeInv, CountInv, NEW t \in Threads, Increment(t)
  PROVE  CountInv'
<1> DEFINE uids == threads[t].uids
           counts == [u \in Uids |-> IF u \in uids THEN log.returned[u] + 1
                                     ELSE log.returned[u]]
<1>1. At(t, "increment") /\ Return(t) /\ UNCHANGED <<engine, issued>>
  BY DEF Increment
<1>2. /\ log'.uncounted = log.uncounted
      /\ \A u \in Uids : log'.returned[u] = IF u \in uids THEN log.returned[u] + 1
                                            ELSE log.returned[u]
  <2>1. log' = [log EXCEPT !.returned = counts]
    BY DEF Increment
  <2>2. \A u \in Uids : counts[u] = IF u \in uids THEN log.returned[u] + 1
                                    ELSE log.returned[u]
    OBVIOUS
  <2> HIDE DEF counts
  <2>3. log'.uncounted = log.uncounted /\ log'.returned = counts
    BY <2>1 DEF TypeInv, Log
  <2> QED
    BY <2>2, <2>3
<1>3. \A u \in Uids : u \in Persisted /\ u \in uids => t \in MarkedBy(u)
  <2>1. threads[t].left = {}
    BY <1>1 DEF CountInv, MarksInv
  <2> QED
    BY <1>1, <2>1 DEF MarkedBy
<1>4. ASSUME NEW u \in Persisted, u \in uids
      PROVE  ltm'[u].count = ltm[u].count + 1 /\ ltm'[u] # Absent
  <2>1. u \in Uids /\ ltm[u] \in [dim : Dims, count : Nat]
    BY DEF Persisted, TypeInv
  <2>2. ltm'[u] = [ltm[u] EXCEPT !.count = @ + 1]
    BY <1>4, <2>1 DEF Increment, Counted
  <2> QED
    BY <2>1, <2>2, EngineConstants DEF Absent
<1>5. \A u \in Uids : u \notin uids \cap Persisted => ltm'[u] = ltm[u]
  BY DEF Increment, Counted
<1>6. Persisted' = Persisted
  BY <1>4, <1>5 DEF Persisted
<1>7. /\ MarksInv' /\ \A u : MarkedBy(u)' = MarkedBy(u) \ {t}
      /\ \A o \in Threads : RowsOf(o)' \subseteq RowsOf(o)
      /\ \A u : Unwritten(u)' => Unwritten(u)
      /\ \A o \in Threads : Recalling(o)' => Recalling(o) /\ threads'[o].uids = threads[o].uids
  BY <1>1, RecallEnds
<1>8. ASSUME NEW u \in Persisted
      PROVE  /\ ltm[u].count \in Nat /\ ltm'[u].count \in Nat
             /\ ltm'[u].count = IF u \in uids THEN ltm[u].count + 1 ELSE ltm[u].count
  BY <1>4, <1>5, CountTypes DEF Persisted
<1>9. ASSUME NEW u \in Persisted PROVE log'.returned[u] <= ltm'[u].count
  <2>1. log.returned[u] <= ltm[u].count /\ log.returned[u] \in Nat /\ u \in Uids
    BY CountTypes DEF CountInv, RowsInv, Persisted
  <2> QED
    BY <1>2, <1>8, <2>1
<1>10. ASSUME NEW u \in (Persisted \cap Indexed(engine)) \ log.uncounted
       PROVE  Entry(u)'.count <= ltm'[u].count + Cardinality(MarkedBy(u)')
  <2>1. /\ Entry(u).count <= ltm[u].count + Cardinality(MarkedBy(u))
        /\ Entry(u).count \in Nat /\ Cardinality(MarkedBy(u)) \in Nat
        /\ IsFiniteSet(MarkedBy(u)) /\ u \in Uids
    BY CountTypes DEF CountInv, RowsInv, Indexed
  <2>2. Entry(u)' = Entry(u)
    BY <1>1 DEF Entry
  <2>3. MarkedBy(u)' = MarkedBy(u) \ {t}
    BY <1>7
  <2> DEFINE marked == MarkedBy(u)
             after == Cardinality(marked \ {t})
  <2>4. after \in Nat /\ after = IF t \in marked THEN Cardinality(marked) - 1
                                 ELSE Cardinality(marked)
    BY <2>1, FS_RemoveElement, FS_CardinalityType
  <2>5. u \notin uids => t \notin marked
    BY DEF MarkedBy
  <2>6. Entry(u).count <= ltm'[u].count + after
    <3> HIDE DEF after, marked
    <3>1. Cardinality(marked) = Cardinality(MarkedBy(u))
      BY DEF marked
    <3> QED
      BY <1>3, <1>8, <2>1, <2>4, <2>5, <3>1
  <2> QED
    BY <2>2, <2>3, <2>6
<1>11. ASSUME NEW o \in Threads, NEW row \in RowsOf(o)', row.uid \in Persisted
       PROVE  row.count <= ltm'[row.uid].count
  <2>1. row \in RowsOf(o) /\ row \in Trace /\ row.count <= ltm[row.uid].count
    BY <1>7, <1>11, Carried DEF CountInv, RowsInv
  <2>2. row.count \in Nat
    BY <2>1 DEF Trace
  <2> QED
    BY <1>8, <1>11, <2>1, <2>2
<1>12. RowsInv'
  BY <1>1, <1>2, <1>6, <1>9, <1>10, <1>11 DEF RowsInv
<1>13. UnseenInv'
  <2>1. \A u \in Uids : Unwritten(u)' => log'.returned[u] = 0
    <3>1. Recalling(t)
      BY <1>1 DEF At, Recalling
    <3>2. \A u \in Uids : Unwritten(u)' => log.returned[u] = 0 /\ u \notin uids
      BY <1>7, <3>1 DEF CountInv, UnseenInv
    <3> QED
      BY <1>2, <3>2
  <2> QED
    BY <1>7, <2>1 DEF CountInv, UnseenInv
<1> QED
  BY <1>7, <1>12, <1>13 DEF CountInv

\* A recall that fails leaves the index ahead, and is told of.
LEMMA CountFail ==
  ASSUME TypeInv, CountInv, NEW t \in Threads, Fail(t)
  PROVE  CountInv'
<1>1. /\ Return(t) /\ UNCHANGED <<engine, ltm, issued>> /\ Persisted' = Persisted
      /\ ~At(t, "mark")
  BY DEF Fail, tables, Persisted, At
<1>2. /\ log'.returned = log.returned
      /\ log'.uncounted = IF At(t, "increment") THEN log.uncounted \cup threads[t].uids
                          ELSE log.uncounted
  BY DEF Fail, TypeInv, Log
<1>3. /\ MarksInv' /\ \A u : MarkedBy(u)' = MarkedBy(u) \ {t}
      /\ \A o \in Threads : RowsOf(o)' \subseteq RowsOf(o)
      /\ \A u : Unwritten(u)' => Unwritten(u)
      /\ \A o \in Threads : Recalling(o)' => Recalling(o) /\ threads'[o].uids = threads[o].uids
  BY <1>1, RecallEnds
<1>4. \A u \in Uids \ log'.uncounted : t \notin MarkedBy(u) /\ u \notin log.uncounted
  BY <1>1, <1>2 DEF MarkedBy
<1>5. \A u \in Uids \ log'.uncounted : MarkedBy(u)' = MarkedBy(u)
  BY <1>3, <1>4
<1>6. \A u \in (Persisted \cap Indexed(engine)) \ log'.uncounted :
         Entry(u)'.count <= ltm[u].count + Cardinality(MarkedBy(u)')
  <2>1. \A u \in Indexed(engine) : Entry(u)' = Entry(u) /\ u \in Uids
    BY <1>1 DEF Entry, Indexed
  <2> QED
    BY <1>4, <1>5, <2>1 DEF CountInv, RowsInv
<1>7. RowsInv'
  BY <1>1, <1>2, <1>3, <1>6 DEF CountInv, RowsInv
<1>8. UnseenInv'
  BY <1>2, <1>3 DEF CountInv, UnseenInv
<1> QED
  BY <1>3, <1>7, <1>8 DEF CountInv

\* A restart empties the index and ends all recalls; time changes no count.
LEMMA CountFaults ==
  ASSUME TypeInv, CountInv,
         \/ Restart \/ UNCHANGED vars
         \/ \E u \in Uids : ExpireTrace(u)
         \/ \E e \in events : ExpireEvent(e)
  PROVE  CountInv'
<1>1. CASE Restart
  <2>1. /\ threads' = [t \in Threads |-> Idle] /\ engine' = EmptyEngine
        /\ UNCHANGED <<ltm, issued>> /\ log'.returned = log.returned
        /\ Persisted' = Persisted
    BY <1>1 DEF Restart, TypeInv, Log, tables, Persisted
  <2>2. Indexed(engine') = {}
    BY <2>1 DEF Indexed, EmptyEngine
  <2>3. \A t \in Threads : /\ ~Recalling(t)' /\ ~At(t, "increment")' /\ ~At(t, "persist")'
                           /\ RowsOf(t)' = {}
    BY <2>1, IdleFields DEF Recalling, At, RowsOf
  <2>4. {t \in Threads : Recalling(t)}' = {}
    BY <2>3
  <2>5. MarksInv'
    BY <2>3, <2>4, FS_EmptySet DEF MarksInv
  <2>6. RowsInv'
    BY <2>1, <2>2, <2>3 DEF CountInv, RowsInv
  <2>7. UnseenInv'
    BY <2>1, <2>3 DEF CountInv, UnseenInv, Unwritten
  <2> QED
    BY <2>5, <2>6, <2>7 DEF CountInv
<1>2. CASE UNCHANGED <<engine, ltm, threads, issued, log>>
  <2>1. \A t \in Threads : Aside(t)
    BY <1>2 DEF Aside, Recalling, At, RowsOf
  <2> QED
    BY <1>2, <2>1, CountQuiet DEF Persisted, Entry
<1> QED
  BY <1>1, <1>2 DEF ExpireTrace, ExpireEvent, vars, tables

\* Nothing has been counted at first.
LEMMA CountInit == Init => CountInv
<1> SUFFICES ASSUME Init PROVE CountInv
  OBVIOUS
<1>1. /\ \A t \in Threads : ~Recalling(t) /\ ~At(t, "increment") /\ RowsOf(t) = {}
      /\ Persisted = {} /\ \A u \in Uids : log.returned[u] = 0
  BY IdleFields DEF Init, Recalling, At, RowsOf, Persisted
<1>2. {t \in Threads : Recalling(t)} = {}
  BY <1>1
<1>3. MarksInv
  BY <1>1, <1>2, FS_EmptySet DEF MarksInv
<1> QED
  BY <1>1, <1>3 DEF CountInv, RowsInv, UnseenInv

\* Every step of the system keeps the counts.
LEMMA CountStep == TypeInv /\ DurableInv /\ CountInv /\ [Next]_vars => CountInv'
<1> SUFFICES ASSUME TypeInv, DurableInv, CountInv, [Next]_vars PROVE CountInv'
  OBVIOUS
<1>1. ASSUME NEW t \in Threads, Calls(t) PROVE CountInv'
  BY <1>1, CountBegin, CountOthers, CountHydrate, CountSearch DEF Calls
<1>2. ASSUME NEW t \in Threads, Continues(t) PROVE CountInv'
  BY <1>2, CountPersist, CountPublish, CountOthers, CountMark, CountIncrement,
     CountLoad DEF Continues
<1> QED
  BY <1>1, <1>2, CountFail, CountFaults DEF Next

\* No row counts fewer accesses than recalls returned it, and the index, which
\* hydrations overwrite with what they read earlier, is ahead of the row only
\* by recalls that have still to write theirs.
THEOREM AccessesAreCounted == Spec => []AccessesCounted
<1>1. CountInv => AccessesCounted
  BY DEF CountInv, RowsInv, AccessesCounted, Entry
<1> QED
  BY <1>1, TypeInit, TypeStep, DurableInit, DurableStep, CountInit, CountStep,
     PTL DEF Spec

=============================================================================
