---------------------------- MODULE LegacyProofs -----------------------------
(***************************************************************************)
(* What LegacySystem guarantees for any number of threads, users, traces,  *)
(* calls and faults.                                                       *)
(***************************************************************************)
EXTENDS LegacySystem, SequenceTheorems, FiniteSetTheorems, WellFoundedInduction, TLAPS

-----------------------------------------------------------------------------
(***************************************************************************)
(* The index: each of its operations keeps it exact, for any number of     *)
(* traces, keys and embedding lengths.                                     *)
(***************************************************************************)
\* A typed index whose postings and slots agree with its traces.
Sound(index) == index \in Engine /\ Exact(index)

\* An index begins sound.
LEMMA EmptySound == Sound(EmptyEngine)
BY DEF Sound, EmptyEngine, Engine, Exact, Indexed

\* post and unpost keep the type of the postings.
LEMMA LinkType ==
  ASSUME NEW posts \in [Keys -> SUBSET Nat], NEW traces \in Seq(Trace),
         NEW i \in DOMAIN traces
  PROVE  /\ Link(posts, traces, i) \in [Keys -> SUBSET Nat]
         /\ Unlink(posts, traces, i) \in [Keys -> SUBSET Nat]
BY DEF Link, Unlink

\* What a sound index is made of.
LEMMA Parts ==
  ASSUME NEW index, Sound(index)
  PROVE  /\ index.traces \in Seq(Trace)
         /\ Len(index.traces) \in Nat
         /\ DOMAIN index.traces = 1 .. Len(index.traces)
         /\ \A i \in DOMAIN index.traces :
               /\ index.traces[i] \in Trace /\ index.traces[i].uid \in Uids
               /\ index.slot[index.traces[i].uid] = i
               /\ index.traces[i].dim = index.dim
         /\ index.slot \in [Uids -> Nat]
         /\ \A u \in Uids : index.slot[u] # 0 =>
               /\ index.slot[u] \in DOMAIN index.traces
               /\ index.traces[index.slot[u]].uid = u
         /\ index.posts \in [Keys -> SUBSET Nat]
         /\ \A k \in Keys : index.posts[k] =
               {i \in DOMAIN index.traces : k \in KeysOf(index.traces[i].uid)}
         /\ index.dim \in {0} \cup Dims
<1>1. /\ index.traces \in Seq(Trace) /\ index.slot \in [Uids -> Nat]
      /\ index.posts \in [Keys -> SUBSET Nat] /\ index.dim \in {0} \cup Dims
  BY DEF Sound, Engine
<1>2. Len(index.traces) \in Nat /\ DOMAIN index.traces = 1 .. Len(index.traces)
  BY <1>1, LenProperties
<1>3. \A i \in DOMAIN index.traces : index.traces[i] \in Trace
  BY <1>1, <1>2, ElementOfSeq
<1>4. \A i \in DOMAIN index.traces : index.traces[i].uid \in Uids
  BY <1>3 DEF Trace
<1> QED
  BY <1>1, <1>2, <1>3, <1>4 DEF Sound, Exact, Indexed

\* And back.
LEMMA Assembled ==
  ASSUME NEW traces \in Seq(Trace), NEW slot \in [Uids -> Nat],
         NEW posts \in [Keys -> SUBSET Nat], NEW dim \in {0} \cup Dims,
         \A u \in Uids : slot[u] # 0 => slot[u] \in DOMAIN traces /\ traces[slot[u]].uid = u,
         \A i \in DOMAIN traces : slot[traces[i].uid] = i,
         \A k \in Keys : posts[k] = {i \in DOMAIN traces : k \in KeysOf(traces[i].uid)},
         \A i \in DOMAIN traces : traces[i].dim = dim
  PROVE  Sound([traces |-> traces, slot |-> slot, posts |-> posts, dim |-> dim])
<1> DEFINE index == [traces |-> traces, slot |-> slot, posts |-> posts, dim |-> dim]
<1>1. index \in Engine
  BY DEF Engine
<1>2. index.traces = traces /\ index.slot = slot /\ index.posts = posts /\ index.dim = dim
  OBVIOUS
<1> HIDE DEF index
<1>3. Exact(index)
  BY <1>2 DEF Exact, Indexed
<1>4. Sound(index)
  BY <1>1, <1>3 DEF Sound
<1> QED
  BY <1>4 DEF index

\* mark_accessed changes a count and nothing the index is searched by.
LEMMA MarkedSound ==
  ASSUME NEW index, Sound(index), NEW u \in Uids
  PROVE  Sound(Marked(index, u))
<1>1. CASE u \notin Indexed(index)
  BY <1>1 DEF Marked
<1>2. CASE u \in Indexed(index)
  <2> DEFINE i == index.slot[u]
             next == Marked(index, u)
  <2>1. /\ index.traces \in Seq(Trace) /\ i \in DOMAIN index.traces
        /\ index.traces[i] \in Trace
    BY <1>2, ElementOfSeq DEF Sound, Engine, Exact
  <2>2. /\ next.slot = index.slot /\ next.posts = index.posts
        /\ next.dim = index.dim
        /\ next.traces = [index.traces EXCEPT ![i] =
               [index.traces[i] EXCEPT !.count = @ + 1]]
    BY <1>2 DEF Marked, Sound, Engine
  <2>3. [index.traces[i] EXCEPT !.count = @ + 1] \in Trace
    BY <2>1 DEF Trace
  <2>4. /\ next.traces \in Seq(Trace)
        /\ DOMAIN next.traces = DOMAIN index.traces
    BY <2>1, <2>2, <2>3, ExceptSeq
  <2>5. \A j \in DOMAIN index.traces :
           /\ next.traces[j].uid = index.traces[j].uid
           /\ next.traces[j].dim = index.traces[j].dim
    BY <2>1, <2>2 DEF Trace
  <2>6. next \in Engine
    BY <1>2, <2>1, <2>2, <2>4 DEF Marked, Sound, Engine
  <2>7. Exact(next)
    BY <2>2, <2>4, <2>5 DEF Exact, Sound, Indexed
  <2> QED
    BY <2>6, <2>7 DEF Sound
<1> QED
  BY <1>1, <1>2

\* ingest_trace, for a new trace and for one that is replaced.
LEMMA IngestedSound ==
  ASSUME NEW index, Sound(index), NEW trace \in Trace,
         Accepts(index, trace.dim)
  PROVE  Sound(Ingested(index, trace))
<1> DEFINE u == trace.uid
           old == index.traces
           next == Ingested(index, trace)
<1>1. /\ u \in Uids /\ trace.dim \in Dims /\ trace.dim \in {0} \cup Dims
  BY DEF Trace
<1>2. /\ old \in Seq(Trace) /\ Len(old) \in Nat /\ DOMAIN old = 1 .. Len(old)
      /\ \A i \in DOMAIN old : /\ old[i] \in Trace /\ old[i].uid \in Uids
                                /\ index.slot[old[i].uid] = i
      /\ index.slot \in [Uids -> Nat]
      /\ \A v \in Uids : index.slot[v] # 0 =>
            index.slot[v] \in DOMAIN old /\ old[index.slot[v]].uid = v
      /\ index.posts \in [Keys -> SUBSET Nat]
      /\ \A k \in Keys : index.posts[k] = {i \in DOMAIN old : k \in KeysOf(old[i].uid)}
  BY Parts
<1>3. \A i \in DOMAIN old : old[i].dim = trace.dim
  <2>1. \A i \in DOMAIN old : old[i].dim = index.dim
    BY Parts
  <2>2. \A i \in DOMAIN old : old[i].dim # 0
    BY <1>2, EngineConstants DEF Trace
  <2> QED
    BY <2>1, <2>2 DEF Accepts
<1>4. CASE u \in Indexed(index)
  <2> DEFINE i == index.slot[u]
             traces == [old EXCEPT ![i] = trace]
             posts == Unlink(index.posts, old, i)
             linked == Link(posts, traces, i)
  <2>1. next = [traces |-> traces, slot |-> [index.slot EXCEPT ![u] = i],
                posts |-> linked, dim |-> trace.dim]
    BY <1>4 DEF Ingested
  <2>2. i \in DOMAIN old /\ old[i].uid = u
    BY <1>4, <1>2 DEF Indexed
  <2>3. /\ traces \in Seq(Trace) /\ DOMAIN traces = DOMAIN old
        /\ traces[i] = trace
        /\ \A j \in DOMAIN old : j # i => traces[j] = old[j]
    BY <1>2, <2>2, ExceptSeq
  <2>4. [index.slot EXCEPT ![u] = i] = index.slot
    BY <1>2
  <2>5. linked \in [Keys -> SUBSET Nat]
    <3>1. posts \in [Keys -> SUBSET Nat]
      BY <1>2, <2>2, LinkType
    <3> HIDE DEF posts, traces, i
    <3> QED
      BY <2>2, <2>3, <3>1, LinkType
  <2>6. \A j \in DOMAIN traces : traces[j].uid = old[j].uid /\ traces[j].dim = trace.dim
    BY <1>3, <2>2, <2>3
  <2>7. ASSUME NEW k \in Keys
        PROVE  linked[k] = {j \in DOMAIN traces : k \in KeysOf(traces[j].uid)}
    <3>1. index.posts[k] = {j \in DOMAIN old : k \in KeysOf(old[j].uid)}
      BY <1>2
    <3>2. posts[k] = IF k \in KeysOf(u) THEN index.posts[k] \ {i} ELSE index.posts[k]
      BY <2>2 DEF Unlink
    <3>3. linked[k] = IF k \in KeysOf(u) THEN posts[k] \cup {i} ELSE posts[k]
      BY <2>3 DEF Link
    <3>4. linked[k] = index.posts[k]
      BY <3>1, <3>2, <3>3, <2>2
    <3> HIDE DEF traces, linked, posts, i
    <3> QED
      BY <3>1, <3>4, <2>3, <2>6
  <2>8. \A j \in DOMAIN traces : index.slot[traces[j].uid] = j
    BY <1>2, <2>3, <2>6
  <2>9. \A v \in Uids : index.slot[v] # 0 =>
           index.slot[v] \in DOMAIN traces /\ traces[index.slot[v]].uid = v
    BY <1>2, <2>3, <2>6
  <2>10. \A j \in DOMAIN traces : traces[j].dim = trace.dim
    BY <2>6
  <2> HIDE DEF traces, linked, posts, next
  <2>11. Sound([traces |-> traces, slot |-> index.slot, posts |-> linked,
                dim |-> trace.dim])
    BY <1>1, <1>2, <2>3, <2>5, <2>7, <2>8, <2>9, <2>10, Assembled
  <2> QED
    BY <2>1, <2>4, <2>11 DEF next
<1>5. CASE u \notin Indexed(index)
  <2> DEFINE i == Len(old) + 1
             traces == Append(old, trace)
             slot == [index.slot EXCEPT ![u] = i]
             linked == Link(index.posts, traces, i)
  <2>1. next = [traces |-> traces, slot |-> slot, posts |-> linked, dim |-> trace.dim]
    BY <1>5 DEF Ingested
  <2>2. /\ traces \in Seq(Trace) /\ DOMAIN traces = 1 .. i
        /\ traces[i] = trace
        /\ \A j \in DOMAIN old : traces[j] = old[j]
    BY <1>2, AppendProperties, LenProperties
  <2>3. index.slot[u] = 0 /\ \A j \in DOMAIN old : old[j].uid # u
    <3>1. index.slot[u] = 0
      BY <1>1, <1>5 DEF Indexed
    <3> QED
      BY <1>2, <3>1
  <2>4. DOMAIN traces = DOMAIN old \cup {i} /\ i \notin DOMAIN old /\ i \in Nat
    BY <1>2, <2>2
  <2>5. linked \in [Keys -> SUBSET Nat] /\ slot \in [Uids -> Nat]
    BY <1>1, <1>2, <2>2, <2>4, LinkType
  <2>6. \A v \in Uids : slot[v] = IF v = u THEN i ELSE index.slot[v]
    BY <1>2
  <2>7. ASSUME NEW k \in Keys
        PROVE  linked[k] = {j \in DOMAIN traces : k \in KeysOf(traces[j].uid)}
    <3>1. index.posts[k] = {j \in DOMAIN old : k \in KeysOf(old[j].uid)}
      BY <1>2
    <3>2. linked[k] = IF k \in KeysOf(u) THEN index.posts[k] \cup {i} ELSE index.posts[k]
      BY <2>2 DEF Link
    <3> HIDE DEF traces, linked, i
    <3> QED
      BY <3>1, <3>2, <2>2, <2>4
  <2>8. ASSUME NEW j \in DOMAIN traces
        PROVE  slot[traces[j].uid] = j /\ traces[j].dim = trace.dim
    <3> HIDE DEF traces, slot, i, u
    <3>1. CASE j = i
      BY <1>1, <2>2, <2>6, <3>1 DEF u
    <3>2. CASE j # i
      <4>1. j \in DOMAIN old /\ traces[j] = old[j]
        BY <2>2, <2>4, <2>8, <3>2
      <4>2. old[j].uid \in Uids /\ old[j].uid # u /\ index.slot[old[j].uid] = j
        BY <1>2, <2>3, <4>1
      <4> QED
        BY <1>3, <2>6, <4>1, <4>2
    <3> QED
      BY <3>1, <3>2
  <2>9. \A v \in Uids : slot[v] # 0 => slot[v] \in DOMAIN traces /\ traces[slot[v]].uid = v
    <3> HIDE DEF traces, slot, i
    <3> QED
      BY <1>2, <2>2, <2>4, <2>6
  <2>10. /\ \A j \in DOMAIN traces : slot[traces[j].uid] = j
         /\ \A j \in DOMAIN traces : traces[j].dim = trace.dim
    BY <2>8
  <2> HIDE DEF traces, linked, slot, next
  <2>11. Sound([traces |-> traces, slot |-> slot, posts |-> linked, dim |-> trace.dim])
    BY <1>1, <2>2, <2>5, <2>7, <2>9, <2>10, Assembled
  <2> QED
    BY <2>1, <2>11 DEF next
<1> QED
  BY <1>4, <1>5

\* remove_trace: what swap_remove moves is found at its new slot, and nothing
\* is left of the trace that goes.
LEMMA RemovedSound ==
  ASSUME NEW index, Sound(index), NEW u \in Uids
  PROVE  Sound(Removed(index, u)) /\ u \notin Indexed(Removed(index, u))
<1> DEFINE old == index.traces
           i == index.slot[u]
           last == Len(old)
           moved == old[last].uid
           next == Removed(index, u)
<1>1. CASE i = 0
  BY <1>1 DEF Removed, Indexed
<1>2. CASE i # 0
  <2>1. /\ old \in Seq(Trace) /\ last \in Nat /\ DOMAIN old = 1 .. last
        /\ \A j \in DOMAIN old : /\ old[j] \in Trace /\ old[j].uid \in Uids
                                  /\ index.slot[old[j].uid] = j
                                  /\ old[j].dim = index.dim
        /\ index.slot \in [Uids -> Nat]
        /\ \A v \in Uids : index.slot[v] # 0 =>
              index.slot[v] \in DOMAIN old /\ old[index.slot[v]].uid = v
        /\ index.posts \in [Keys -> SUBSET Nat]
        /\ \A k \in Keys : index.posts[k] = {j \in DOMAIN old : k \in KeysOf(old[j].uid)}
        /\ index.dim \in {0} \cup Dims
    BY Parts
  <2>2. i \in DOMAIN old /\ last \in DOMAIN old /\ i \in Nat /\ old[i].uid = u
        /\ moved \in Uids /\ (moved = u <=> i = last)
    BY <1>2, <2>1
  <2> DEFINE full == [old EXCEPT ![i] = old[last]]
             traces == Front(full)
             bare == UnlinkedBoth(index, i, last)
             linked == IF i = last THEN bare ELSE Link(bare, traces, i)
             slot == [index.slot EXCEPT ![moved] = i, ![u] = 0]
  <2>3. /\ full \in Seq(Trace) /\ Len(full) = last
        /\ \A j \in 1 .. last : full[j] = IF j = i THEN old[last] ELSE old[j]
    BY <2>1, <2>2, ExceptSeq, LenProperties
  <2>4. /\ traces \in Seq(Trace) /\ DOMAIN traces = 1 .. last - 1
        /\ \A j \in 1 .. last - 1 : traces[j] = full[j]
    <3> HIDE DEF full
    <3>1. last - 1 \in Nat /\ last - 1 \in 0 .. last
      BY <2>1, <2>2
    <3>2. /\ traces \in Seq(Trace) /\ Len(traces) = last - 1
          /\ \A j \in 1 .. last - 1 : traces[j] = full[j]
      BY <2>1, <2>3, <3>1 DEF Front
    <3> QED
      BY <3>1, <3>2, LenProperties
  <2>5. \A j \in 1 .. last - 1 :
           /\ j \in DOMAIN old /\ j # last
           /\ traces[j] = IF j = i THEN old[last] ELSE old[j]
    <3> HIDE DEF full, traces
    <3> QED
      BY <2>1, <2>3, <2>4
  <2>6. bare \in [Keys -> SUBSET Nat]
    <3>1. Unlink(index.posts, old, i) \in [Keys -> SUBSET Nat]
      BY <2>1, <2>2, LinkType
    <3> QED
      BY <2>1, <2>2, <3>1, LinkType DEF UnlinkedBoth
  <2>7. i # last => i \in DOMAIN traces
    BY <2>1, <2>2, <2>4
  <2>8. linked \in [Keys -> SUBSET Nat] /\ slot \in [Uids -> Nat]
    <3> HIDE DEF bare, traces
    <3> QED
      BY <2>1, <2>2, <2>4, <2>6, <2>7, LinkType
  <2>9. next = [traces |-> traces, slot |-> slot, posts |-> linked, dim |-> index.dim]
    <3>1. next = [index EXCEPT !.traces = traces, !.slot = slot, !.posts = linked]
      BY <1>2 DEF Removed
    <3>2. index = [traces |-> old, slot |-> index.slot, posts |-> index.posts,
                    dim |-> index.dim]
      BY DEF Sound, Engine
    <3> HIDE DEF next, traces, slot, linked
    <3> QED
      BY <3>1, <3>2
  <2>10. \A v \in Uids : slot[v] = IF v = u THEN 0 ELSE IF v = moved THEN i
                                    ELSE index.slot[v]
    BY <2>1, <2>2
  <2> HIDE DEF full, traces, bare, slot
  <2>11. ASSUME NEW v \in Uids, slot[v] # 0
         PROVE  slot[v] \in DOMAIN traces /\ traces[slot[v]].uid = v
    <3>1. v # u
      BY <2>10, <2>11
    <3>2. CASE v = moved
      BY <3>1, <3>2, <2>1, <2>2, <2>4, <2>5, <2>7, <2>10
    <3>3. CASE v # moved
      <4> DEFINE j == index.slot[v]
      <4>1. slot[v] = j /\ j \in DOMAIN old /\ old[j].uid = v
        BY <3>1, <3>3, <2>1, <2>10, <2>11
      <4>2. j # last /\ j # i
        BY <3>1, <3>3, <4>1, <2>2
      <4>3. j \in 1 .. last - 1
        BY <4>1, <4>2, <2>1
      <4> QED
        BY <4>1, <4>2, <4>3, <2>4, <2>5
    <3> QED
      BY <3>2, <3>3
  <2>12. ASSUME NEW j \in DOMAIN traces
         PROVE  slot[traces[j].uid] = j /\ traces[j].dim = index.dim
    <3>1. j \in DOMAIN old /\ j # last /\ traces[j] = IF j = i THEN old[last] ELSE old[j]
      BY <2>4, <2>5, <2>12
    <3>2. CASE j = i
      BY <3>1, <3>2, <2>1, <2>2, <2>10
    <3>3. CASE j # i
      <4>1. old[j].uid # u /\ old[j].uid # moved /\ old[j].uid \in Uids
        BY <3>1, <3>3, <2>1, <2>2
      <4> QED
        BY <3>1, <3>3, <4>1, <2>1, <2>10
    <3> QED
      BY <3>2, <3>3
  <2>13. ASSUME NEW k \in Keys
         PROVE  linked[k] = {j \in DOMAIN traces : k \in KeysOf(traces[j].uid)}
    <3>1. index.posts[k] = {j \in DOMAIN old : k \in KeysOf(old[j].uid)}
      BY <2>1
    <3>2. bare[k] = index.posts[k] \ {i, last}
      BY <2>2, <3>1 DEF bare, UnlinkedBoth, Unlink
    <3>3. DOMAIN traces = DOMAIN old \ {last}
      BY <2>1, <2>2, <2>4
    <3>4. CASE i = last
      <4>1. \A j \in DOMAIN traces : traces[j] = old[j]
        BY <3>4, <2>4, <2>5
      <4> QED
        BY <3>1, <3>2, <3>3, <3>4, <4>1
    <3>5. CASE i # last
      <4>1. i \in DOMAIN traces /\ traces[i].uid = moved
        BY <3>5, <2>4, <2>5, <2>7
      <4>2. linked[k] = IF k \in KeysOf(moved) THEN bare[k] \cup {i} ELSE bare[k]
        BY <3>5, <4>1 DEF Link
      <4>3. \A j \in DOMAIN traces : j # i => traces[j] = old[j]
        BY <2>4, <2>5
      <4> QED
        BY <3>1, <3>2, <3>3, <4>1, <4>2, <4>3
    <3> QED
      BY <3>4, <3>5
  <2>14. u \notin Indexed(next)
    BY <2>9, <2>10 DEF Indexed
  <2> HIDE DEF linked, next
  <2>15. /\ \A v \in Uids : slot[v] # 0 =>
               slot[v] \in DOMAIN traces /\ traces[slot[v]].uid = v
         /\ \A j \in DOMAIN traces : slot[traces[j].uid] = j
         /\ \A j \in DOMAIN traces : traces[j].dim = index.dim
    BY <2>11, <2>12
  <2>16. Sound([traces |-> traces, slot |-> slot, posts |-> linked,
                dim |-> index.dim])
    BY <2>1, <2>4, <2>8, <2>13, <2>15, Assembled
  <2> QED
    BY <2>9, <2>14, <2>16 DEF next
<1> QED
  BY <1>1, <1>2

-----------------------------------------------------------------------------
(***************************************************************************)
(* The system: types, and the index under any interleaving.                *)
(***************************************************************************)
\* What a thread carries to its next step.
Ready(th) ==
    /\ th.pc \in {"persist", "publish", "reject", "stash",
                  "remove", "unstore", "unstash", "unlog"} => th.uid # 0
    /\ th.pc \in {"persist", "publish"} => th.dim # 0
    /\ th.pc = "load" => th.rows # <<>>

ReadyThread == {th \in Thread : Ready(th)}

\* Types, an exact index, and threads that carry what they need.
TypeInv ==
    /\ Sound(engine)
    /\ ltm \in [Uids -> [dim : Dims, count : Nat] \cup {Absent}]
    /\ stm \in [Uids -> Freshness]
    /\ IsFiniteSet(events) /\ \A e \in events : e \in Event
    /\ threads \in [Threads -> ReadyThread]
    /\ {issued, calls, faults} \subseteq Nat
    /\ log \in Log

-----------------------------------------------------------------------------
\* A finite, non-empty set of naturals has a maximum.
LEMMA FiniteMax ==
  ASSUME NEW S, IsFiniteSet(S), S \subseteq Nat, S # {}
  PROVE  Max(S) \in S /\ \A y \in S : Max(S) >= y
<1>1. \E x \in S : \A y \in S : x >= y
  <2> DEFINE Topless == {A \in FiniteSubsetsOf(S) :
                            A # {} /\ ~ \E x \in A : \A y \in A : x >= y}
  <2>1. FiniteSubsetsOf(S) = SUBSET S
    BY FS_FiniteSubsetsOfFinite
  <2>2. CASE Topless = {}
    BY <2>1, <2>2
  <2>3. CASE Topless # {}
    <3>1. IsWellFoundedOn(StrictSubsetOrdering(S), FiniteSubsetsOf(S))
      BY FS_StrictSubsetOrderingWellFounded
    <3>2. PICK A \in Topless : \A B \in Topless : <<B, A>> \notin StrictSubsetOrdering(S)
      BY <2>3, <3>1, WFMin
    <3>3. PICK x \in A : TRUE
      BY <3>2
    <3>4. A \ {x} \notin Topless
      <4>1. A \in SUBSET S /\ A \ {x} \in SUBSET S /\ A \ {x} # A
        BY <2>1, <3>2, <3>3
      <4>2. <<A \ {x}, A>> \in StrictSubsetOrdering(S)
        <5> DEFINE B == A \ {x}
        <5>1. <<B, A>> \in (SUBSET S) \X (SUBSET S) /\ B \subseteq A /\ B # A
          BY <4>1
        <5> HIDE DEF B
        <5>2. <<B, A>> \in StrictSubsetOrdering(S)
          BY <5>1 DEF StrictSubsetOrdering
        <5> QED
          BY <5>2 DEF B
      <4> QED
        BY <3>2, <4>2
    <3>5. CASE A \ {x} = {}
      <4>1. \A y \in A : y = x
        BY <3>5
      <4>2. x \in Nat
        BY <2>1, <3>2, <3>3
      <4>3. \A y \in A : x >= y
        BY <4>1, <4>2
      <4> QED
        BY <3>2, <3>3, <4>3
    <3>6. CASE A \ {x} # {}
      <4>1. PICK y \in A \ {x} : \A z \in A \ {x} : y >= z
        BY <2>1, <3>2, <3>4, <3>6
      <4>2. x \in Nat /\ y \in Nat /\ A \subseteq Nat
        BY <2>1, <3>2, <3>3, <4>1
      <4>3. \E w \in A : \A z \in A : w >= z
        <5>1. CASE x >= y
          BY <3>3, <4>1, <4>2, <5>1
        <5>2. CASE ~(x >= y)
          BY <3>3, <4>1, <4>2, <5>2
        <5> QED
          BY <5>1, <5>2
      <4> QED
        BY <3>2, <4>3
    <3> QED
      BY <3>5, <3>6
  <2> QED
    BY <2>2, <2>3
<1> QED
  BY <1>1 DEF Max

\* An index has no more traces than there are ids.
LEMMA Few ==
  ASSUME NEW e, Sound(e)
  PROVE  Len(e.traces) <= Cardinality(Uids)
<1> DEFINE f == [i \in 1 .. Len(e.traces) |-> e.traces[i].uid]
<1>1. f \in Injection(1 .. Len(e.traces), Uids)
  <2>1. /\ f \in [1 .. Len(e.traces) -> Uids]
        /\ \A i \in 1 .. Len(e.traces) : e.slot[f[i]] = i
    BY Parts
  <2> HIDE DEF f
  <2> QED
    BY <2>1 DEF Injection, IsInjective
<1>2. Cardinality(1 .. Len(e.traces)) <= Cardinality(Uids)
  BY <1>1, EngineConstants, FS_Injection
<1>3. Len(e.traces) \in Nat
  BY Parts
<1>4. Cardinality(1 .. Len(e.traces)) = Len(e.traces)
  BY <1>3, FS_Interval
<1> QED
  BY <1>2, <1>4

\* What the runs check follows from the inductive invariant.
LEMMA TypeInvImplies == TypeInv => TypeOK /\ PostingsExact
<1> SUFFICES ASSUME TypeInv PROVE TypeOK /\ PostingsExact
  OBVIOUS
<1>1. engine \in Engine /\ PostingsExact
  BY DEF TypeInv, Sound, PostingsExact
<1>2. Len(engine.traces) <= Cardinality(Uids)
  BY Few DEF TypeInv
<1>3. \A t \in Threads : threads[t] \in Thread
  BY DEF TypeInv, ReadyThread
<1> QED
  BY <1>1, <1>2, <1>3 DEF TypeInv, TypeOK

-----------------------------------------------------------------------------
\* The thread of a call that has ended, and of one that begins.
LEMMA IdleReady == Idle \in ReadyThread
<1>1. (CHOOSE x \in Users : TRUE) \in Users
  BY LegacyConstants
<1> QED
  BY <1>1, EmptySeq DEF Idle, ReadyThread, Ready, Thread, Steps

\* A step of one thread leaves all threads ready, if that one is.
LEMMA Moves ==
  ASSUME TypeInv, NEW t \in Threads, NEW th \in ReadyThread,
         threads' = [threads EXCEPT ![t] = th]
  PROVE  threads' \in [Threads -> ReadyThread]
BY DEF TypeInv

\* Going on keeps the rest of what a thread carries.
LEMMA Goes ==
  ASSUME TypeInv, NEW t \in Threads, NEW pc \in Steps, Goto(t, pc),
         Ready([threads[t] EXCEPT !.pc = pc])
  PROVE  threads' \in [Threads -> ReadyThread]
<1>1. threads[t] \in Thread
  BY DEF TypeInv, ReadyThread
<1>2. [threads[t] EXCEPT !.pc = pc] \in ReadyThread
  BY <1>1 DEF Thread, ReadyThread
<1>3. threads' = [threads EXCEPT ![t] = [threads[t] EXCEPT !.pc = pc]]
  BY DEF Goto
<1> HIDE DEF Goto
<1> QED
  BY <1>2, <1>3, Moves

\* An operation that ends leaves an idle thread.
LEMMA Returns ==
  ASSUME TypeInv, NEW t \in Threads, Return(t)
  PROVE  threads' \in [Threads -> ReadyThread]
BY IdleReady, Moves DEF Return

\* An operation that begins is counted, and carries what it was given.
LEMMA Enters ==
  ASSUME TypeInv, NEW t \in Threads, NEW th \in ReadyThread, Enter(t, th)
  PROVE  threads' \in [Threads -> ReadyThread] /\ calls' \in Nat
BY Moves DEF Enter, TypeInv

-----------------------------------------------------------------------------
\* remember() up to its event: rows are typed, and what is published is a
\* trace the index accepts.
LEMMA TypeRemember ==
  ASSUME TypeInv, NEW t \in Threads,
         \/ \E dim \in Dims : Remember(t, dim)
         \/ \E user \in Users : RecordEvent(t, user)
         \/ Persist(t) \/ Publish(t) \/ Reject(t) \/ Stash(t) \/ SkipNote(t)
  PROVE  TypeInv'
<1>1. threads[t] \in Thread /\ Ready(threads[t])
  BY DEF TypeInv, ReadyThread
<1>2. ASSUME NEW dim \in Dims, Remember(t, dim)
      PROVE  TypeInv'
  <2>1. [Idle EXCEPT !.pc = "persist", !.uid = issued + 1,
                     !.user = UserOf(issued + 1), !.dim = dim] \in ReadyThread
    <3>1. issued + 1 \in Uids /\ UserOf(issued + 1) \in Users /\ dim # 0 /\ issued + 1 # 0
      BY <1>2, LegacyConstants, EngineConstants DEF Remember
    <3> QED
      BY <3>1, IdleReady DEF ReadyThread, Ready, Thread, Steps
  <2>2. threads' \in [Threads -> ReadyThread] /\ calls' \in Nat
    BY <1>2, <2>1, Enters DEF Remember
  <2>3. issued' \in Nat /\ faults' \in Nat
    <3>1. issued' = issued + 1 /\ faults' = faults
      BY <1>2 DEF Remember
    <3>2. issued \in Nat /\ faults \in Nat
      BY DEF TypeInv
    <3> QED
      BY <3>1, <3>2
  <2> QED
    BY <1>2, <2>2, <2>3 DEF Remember, TypeInv, tables
<1>3. ASSUME NEW user \in Users, RecordEvent(t, user)
      PROVE  TypeInv'
  <2>1. [Idle EXCEPT !.pc = "note", !.user = user] \in ReadyThread
    BY IdleReady DEF ReadyThread, Ready, Thread, Steps
  <2>2. threads' \in [Threads -> ReadyThread] /\ calls' \in Nat
    BY <1>3, <2>1, Enters DEF RecordEvent
  <2> QED
    BY <1>3, <2>2 DEF RecordEvent, TypeInv, tables
<1>4. CASE Persist(t)
  <2>1. threads[t].uid \in Uids /\ threads[t].dim \in Dims /\ threads[t].pc = "persist"
    BY <1>1, <1>4 DEF Persist, At, Ready, Thread
  <2>2. ltm' \in [Uids -> [dim : Dims, count : Nat] \cup {Absent}]
    BY <1>4, <2>1 DEF Persist, TypeInv
  <2>3. Ready([threads[t] EXCEPT !.pc = "publish"])
    BY <1>1, <2>1 DEF Ready, Thread
  <2>4. threads' \in [Threads -> ReadyThread]
    BY <1>4, <2>3, Goes DEF Persist, Steps
  <2> QED
    BY <1>4, <2>2, <2>4 DEF Persist, TypeInv
<1>5. CASE Publish(t)
  <2> DEFINE trace == [uid |-> threads[t].uid, dim |-> threads[t].dim, count |-> 0]
  <2>1. threads[t].pc = "publish" /\ threads[t].uid # 0
    BY <1>1, <1>5 DEF Publish, At, Ready
  <2>2. trace \in Trace
    BY <1>1, <2>1 DEF Trace, Ready, Thread
  <2>3. CASE Accepts(engine, trace.dim) /\ engine' = Ingested(engine, trace)
             /\ Goto(t, IF StmEnabled THEN "stash" ELSE "note")
    <3>1. Sound(engine')
      BY <2>2, <2>3, IngestedSound DEF TypeInv
    <3>2. /\ (IF StmEnabled THEN "stash" ELSE "note") \in Steps
          /\ Ready([threads[t] EXCEPT !.pc = IF StmEnabled THEN "stash" ELSE "note"])
      BY <1>1, <2>1 DEF Ready, Thread, Steps
    <3>3. threads' \in [Threads -> ReadyThread]
      BY <2>3, <3>2, Goes
    <3> QED
      BY <1>5, <3>1, <3>3 DEF Publish, TypeInv, tables
  <2>4. CASE Goto(t, "reject") /\ UNCHANGED engine
    <3>1. Ready([threads[t] EXCEPT !.pc = "reject"])
      BY <1>1, <2>1 DEF Ready, Thread
    <3>2. threads' \in [Threads -> ReadyThread]
      BY <2>4, <3>1, Goes DEF Steps
    <3> QED
      BY <1>5, <2>4, <3>2 DEF Publish, TypeInv, tables
  <2> QED
    BY <1>5, <2>3, <2>4 DEF Publish
<1>6. CASE Reject(t)
  <2>1. threads[t].uid \in Uids
    BY <1>1, <1>6 DEF Reject, At, Ready, Thread
  <2>2. ltm' \in [Uids -> [dim : Dims, count : Nat] \cup {Absent}]
    BY <1>6, <2>1 DEF Reject, TypeInv
  <2>3. log' \in Log
    BY <1>6, <2>1 DEF Reject, TypeInv, Log
  <2>4. threads' \in [Threads -> ReadyThread]
    BY <1>6, Returns DEF Reject
  <2> QED
    BY <1>6, <2>2, <2>3, <2>4 DEF Reject, TypeInv
<1>7. CASE Stash(t)
  <2>1. threads[t].pc = "stash" /\ threads[t].uid \in Uids
    BY <1>1, <1>7 DEF Stash, At, Ready, Thread
  <2>2. stm' \in [Uids -> Freshness]
    BY <1>7, <2>1 DEF Stash, TypeInv, Freshness
  <2>3. Ready([threads[t] EXCEPT !.pc = "note"])
    BY <1>1, <2>1 DEF Ready, Thread
  <2>4. threads' \in [Threads -> ReadyThread]
    BY <1>7, <2>3, Goes DEF Stash, Steps
  <2> QED
    BY <1>7, <2>2, <2>4 DEF Stash, TypeInv
<1>8. CASE SkipNote(t)
  <2>1. log' \in Log
    BY <1>1, <1>8 DEF SkipNote, Noted, TypeInv, Log, Thread
  <2>2. threads' \in [Threads -> ReadyThread]
    BY <1>8, Returns DEF SkipNote
  <2> QED
    BY <1>8, <2>1, <2>2 DEF SkipNote, TypeInv, tables
<1> QED
  BY <1>2, <1>3, <1>4, <1>5, <1>6, <1>7, <1>8

\* Events stay finitely many, numbered by naturals, and are trimmed by their
\* numbers.
LEMMA TypeEvents ==
  ASSUME TypeInv, NEW t \in Threads,
         Note(t) \/ Count(t) \/ Pick(t) \/ Trim(t)
  PROVE  TypeInv'
<1>1. threads[t] \in Thread /\ Ready(threads[t])
  BY DEF TypeInv, ReadyThread
<1>2. /\ IsFiniteSet(EventsOf(threads[t].user))
      /\ \A e \in EventsOf(threads[t].user) : e.id \in Nat
  BY FS_Subset DEF EventsOf, TypeInv, Event
<1>3. log \in Log => Noted(t) \in Log
  BY <1>1 DEF Noted, Log, Thread
<1>4. CASE Note(t)
  <2> DEFINE ids == {0} \cup {e.id : e \in events}
             event == [id |-> 1 + Max(ids), user |-> threads[t].user,
                       uid |-> threads[t].uid, stale |-> FALSE]
             kept == {e \in events : e.user # threads[t].user \/ ~e.stale}
  <2>1. IsFiniteSet(ids) /\ ids \subseteq Nat /\ ids # {}
    <3> DEFINE named == {e.id : e \in events}
               f == [e \in events |-> e.id]
    <3>1. f \in Surjection(events, named)
      BY DEF Surjection
    <3>2. IsFiniteSet(named)
      BY <3>1, FS_Surjection DEF TypeInv
    <3>3. named \subseteq Nat
      BY DEF TypeInv, Event
    <3>4. ids = named \cup {0}
      OBVIOUS
    <3> HIDE DEF named, ids
    <3> QED
      BY <3>2, <3>3, <3>4, FS_AddElement
  <2>2. Max(ids) \in Nat
    BY <2>1, FiniteMax
  <2>3. event \in Event
    BY <1>1, <2>2 DEF Event, Thread
  <2>4. events' = kept \cup {event} /\ IsFiniteSet(kept)
    BY <1>4, FS_Subset DEF Note, TypeInv
  <2>5. IsFiniteSet(events') /\ \A e \in events' : e \in Event
    BY <2>3, <2>4, FS_AddElement DEF TypeInv
  <2>6. Ready([threads[t] EXCEPT !.pc = "count"])
    BY <1>1 DEF Ready, Thread
  <2>7. threads' \in [Threads -> ReadyThread]
    BY <1>4, <2>6, Goes DEF Note, Steps
  <2> QED
    BY <1>4, <2>5, <2>7 DEF Note, TypeInv
<1>5. CASE Count(t)
  <2>1. Overflow(threads[t].user) \in Nat
    <3>1. Cardinality(EventsOf(threads[t].user)) \in Nat /\ MaxEvents \in Nat
      BY <1>2, FS_CardinalityType, LegacyConstants
    <3> DEFINE two == {MaxEvents, Cardinality(EventsOf(threads[t].user))}
    <3>2. IsFiniteSet(two)
      <4> DEFINE n == Cardinality(EventsOf(threads[t].user))
      <4>1. IsFiniteSet({MaxEvents})
        BY FS_Singleton
      <4>2. IsFiniteSet({MaxEvents} \cup {n})
        BY <4>1, FS_AddElement
      <4>3. two = {MaxEvents} \cup {n}
        OBVIOUS
      <4> QED
        BY <4>2, <4>3
    <3>3. MaxEvents \in two /\ two \subseteq Nat
      BY <3>1
    <3> HIDE DEF two
    <3>4. Max(two) \in Nat /\ Max(two) >= MaxEvents
      BY <3>2, <3>3, FiniteMax
    <3> QED
      BY <3>1, <3>4 DEF Overflow, two
  <2>2. log' \in Log
    BY <1>3, <1>5 DEF Count, Log, TypeInv, Noted
  <2>3. threads' \in [Threads -> ReadyThread]
    <3>1. CASE threads' = [threads EXCEPT ![t].pc = "pick",
                                          ![t].over = Overflow(threads[t].user)]
      <4>1. [threads[t] EXCEPT !.pc = "pick", !.over = Overflow(threads[t].user)]
               \in ReadyThread
        BY <1>1, <2>1 DEF ReadyThread, Ready, Thread, Steps
      <4> QED
        BY <3>1, <4>1 DEF TypeInv
    <3>2. CASE Return(t)
      BY <3>2, Returns
    <3> QED
      BY <1>5, <3>1, <3>2 DEF Count
  <2> QED
    BY <1>5, <2>2, <2>3 DEF Count, TypeInv, tables
<1>6. CASE Pick(t)
  <2> DEFINE ids == {e.id : e \in EventsOf(threads[t].user)}
             picked == {i \in ids : Cardinality({j \in ids : j < i})
                                       < threads[t].over}
  <2>1. picked \in SUBSET Nat
    BY <1>2
  <2> HIDE DEF picked
  <2>2. [threads[t] EXCEPT !.pc = "trim", !.ids = picked] \in ReadyThread
    BY <1>1, <2>1 DEF ReadyThread, Ready, Thread, Steps
  <2>3. threads' = [threads EXCEPT ![t] =
                       [threads[t] EXCEPT !.pc = "trim", !.ids = picked]]
    BY <1>6 DEF Pick, TypeInv, picked
  <2>4. threads' \in [Threads -> ReadyThread]
    BY <2>2, <2>3, Moves
  <2> QED
    BY <1>6, <2>4 DEF Pick, TypeInv, tables
<1>7. CASE Trim(t)
  <2>1. IsFiniteSet(events') /\ \A e \in events' : e \in Event
    BY <1>7, FS_Subset DEF Trim, TypeInv
  <2>2. threads' \in [Threads -> ReadyThread]
    BY <1>7, Returns DEF Trim
  <2> QED
    BY <1>3, <1>7, <2>1, <2>2 DEF Trim, TypeInv
<1> QED
  BY <1>4, <1>5, <1>6, <1>7

\* recall(): the index finds traces it has, and marks them one by one.
LEMMA TypeRecall ==
  ASSUME TypeInv, NEW t \in Threads,
         \/ \E user \in Users, dim \in Dims : Search(t, user, dim)
         \/ \E u \in Uids : Mark(t, u)
         \/ Increment(t)
  PROVE  TypeInv'
<1>1. threads[t] \in Thread /\ Ready(threads[t])
  BY DEF TypeInv, ReadyThread
<1>2. ASSUME NEW user \in Users, NEW dim \in Dims, Search(t, user, dim)
      PROVE  TypeInv'
  <2>1. PICK uids \in Found(engine, user, RecallLimit) :
            Enter(t, [Idle EXCEPT !.pc = "mark", !.user = user,
                                  !.uids = uids, !.left = uids])
    BY <1>2 DEF Search
  <2>2. uids \subseteq Uids
    <3> DEFINE found == {engine.traces[i].uid : i \in engine.posts[user]}
    <3>1. engine.posts[user] \subseteq DOMAIN engine.traces
      BY LegacyConstants DEF TypeInv, Sound, Exact
    <3>2. \A i \in DOMAIN engine.traces : engine.traces[i].uid \in Uids
      BY Parts DEF TypeInv
    <3>3. found \subseteq Uids
      BY <3>1, <3>2
    <3>4. uids \subseteq found
      BY <2>1 DEF Found, kSubset
    <3> QED
      BY <3>3, <3>4
  <2>3. [Idle EXCEPT !.pc = "mark", !.user = user,
                     !.uids = uids, !.left = uids] \in ReadyThread
    BY <2>2, IdleReady DEF ReadyThread, Ready, Thread, Steps
  <2>4. threads' \in [Threads -> ReadyThread] /\ calls' \in Nat
    BY <2>1, <2>3, Enters
  <2> QED
    BY <1>2, <2>4 DEF Search, TypeInv, tables
<1>3. ASSUME NEW u \in Uids, Mark(t, u)
      PROVE  TypeInv'
  <2> DEFINE left == threads[t].left \ {u}
             pc == IF left = {} THEN "increment" ELSE "mark"
             th == [threads[t] EXCEPT !.left = left, !.pc = pc]
  <2>1. left \in SUBSET Uids /\ pc \in {"increment", "mark"}
    BY <1>1 DEF Thread
  <2>2. threads' = [threads EXCEPT ![t] = th]
    BY <1>3 DEF Mark, TypeInv
  <2> HIDE DEF left, pc
  <2>3. th \in ReadyThread
    BY <1>1, <2>1 DEF ReadyThread, Ready, Thread, Steps
  <2>4. threads' \in [Threads -> ReadyThread]
    BY <2>2, <2>3, Moves
  <2>5. Sound(engine')
    BY <1>3, MarkedSound DEF Mark, TypeInv
  <2> QED
    BY <1>3, <2>4, <2>5 DEF Mark, TypeInv, tables
<1>4. CASE Increment(t)
  <2> DEFINE uids == threads[t].uids
             counts == [u \in Uids |-> IF u \in uids THEN log.returned[u] + 1
                                       ELSE log.returned[u]]
  <2>1. ltm' \in [Uids -> [dim : Dims, count : Nat] \cup {Absent}]
    <3>1. ASSUME NEW u \in Uids, u \in Persisted
          PROVE  [ltm[u] EXCEPT !.count = @ + 1] \in [dim : Dims, count : Nat]
      <4>1. ltm[u] \in [dim : Dims, count : Nat]
        BY <3>1 DEF Persisted, TypeInv
      <4> QED
        BY <4>1
    <3> QED
      BY <1>4, <3>1 DEF Increment, Counted, TypeInv
  <2>2. log' \in Log
    <3>1. log.returned \in [Uids -> Nat]
      BY DEF TypeInv, Log
    <3>2. counts \in [Uids -> Nat]
      BY <3>1
    <3>3. log' = [log EXCEPT !.returned = counts]
      BY <1>4 DEF Increment
    <3> HIDE DEF counts
    <3> QED
      BY <3>2, <3>3 DEF TypeInv, Log
  <2>3. threads' \in [Threads -> ReadyThread]
    BY <1>4, Returns DEF Increment
  <2> QED
    BY <1>4, <2>1, <2>2, <2>3 DEF Increment, TypeInv
<1> QED
  BY <1>2, <1>3, <1>4

\* forget(): a trace is removed from the index by the move of another one.
LEMMA TypeForget ==
  ASSUME TypeInv, NEW t \in Threads,
         \/ \E u \in Uids : Forget(t, u)
         \/ Unindex(t) \/ Unstore(t) \/ Unstash(t) \/ Unlog(t)
  PROVE  TypeInv'
<1>1. threads[t] \in Thread /\ Ready(threads[t])
  BY DEF TypeInv, ReadyThread
<1>2. threads[t].pc \in {"remove", "unstore", "unstash", "unlog"}
         => threads[t].uid \in Uids
  BY <1>1 DEF Thread, Ready
<1>3. ASSUME NEW u \in Uids, Forget(t, u)
      PROVE  TypeInv'
  <2> DEFINE only == \A o \in Threads :
                /\ ~Remembering(o, u)
                /\ \A i \in DOMAIN threads[o].rows : threads[o].rows[i].uid # u
             th == [Idle EXCEPT !.pc = "remove", !.uid = u, !.user = UserOf(u),
                                !.alone = only]
  <2>1. only \in BOOLEAN
    OBVIOUS
  <2>2. Enter(t, th)
    BY <1>3 DEF Forget
  <2> HIDE DEF only
  <2>3. u # 0 /\ UserOf(u) \in Users
    BY LegacyConstants, EngineConstants
  <2>4. th \in ReadyThread
    BY <2>1, <2>3, IdleReady DEF ReadyThread, Ready, Thread, Steps
  <2> HIDE DEF th
  <2>5. threads' \in [Threads -> ReadyThread] /\ calls' \in Nat
    BY <2>2, <2>4, Enters
  <2>6. log' \in Log
    BY <1>3 DEF Forget, TypeInv, Log
  <2> QED
    BY <1>3, <2>5, <2>6 DEF Forget, TypeInv, tables
<1>4. CASE Unindex(t)
  <2>1. Sound(engine')
    BY <1>2, <1>4, RemovedSound DEF Unindex, At, TypeInv
  <2>2. Ready([threads[t] EXCEPT !.pc = "unstore"])
    BY <1>1, <1>4 DEF Unindex, At, Ready, Thread
  <2>3. threads' \in [Threads -> ReadyThread]
    BY <1>4, <2>2, Goes DEF Unindex, Steps
  <2> QED
    BY <1>4, <2>1, <2>3 DEF Unindex, TypeInv, tables
<1>5. CASE Unstore(t)
  <2>1. ltm' \in [Uids -> [dim : Dims, count : Nat] \cup {Absent}]
    BY <1>5 DEF Unstore, TypeInv
  <2>2. Ready([threads[t] EXCEPT !.pc = "unstash"])
    BY <1>1, <1>5 DEF Unstore, At, Ready, Thread
  <2>3. threads' \in [Threads -> ReadyThread]
    BY <1>5, <2>2, Goes DEF Unstore, Steps
  <2> QED
    BY <1>5, <2>1, <2>3 DEF Unstore, TypeInv
<1>6. CASE Unstash(t)
  <2>1. stm' \in [Uids -> Freshness]
    BY <1>6 DEF Unstash, TypeInv, Freshness
  <2>2. Ready([threads[t] EXCEPT !.pc = "unlog"])
    BY <1>1, <1>6 DEF Unstash, At, Ready, Thread
  <2>3. threads' \in [Threads -> ReadyThread]
    BY <1>6, <2>2, Goes DEF Unstash, Steps
  <2> QED
    BY <1>6, <2>1, <2>3 DEF Unstash, TypeInv
<1>7. CASE Unlog(t)
  <2>1. IsFiniteSet(events') /\ \A e \in events' : e \in Event
    BY <1>7, FS_Subset DEF Unlog, TypeInv
  <2>2. log' \in Log
    BY <1>2, <1>7 DEF Unlog, At, TypeInv, Log
  <2>3. threads' \in [Threads -> ReadyThread]
    BY <1>7, Returns DEF Unlog
  <2> QED
    BY <1>7, <2>1, <2>2, <2>3 DEF Unlog, TypeInv
<1> QED
  BY <1>3, <1>4, <1>5, <1>6, <1>7

\* hydrate() and purge_expired(): what a hydration has read are rows that the
\* index can take, one after the other.
LEMMA TypeHydrate ==
  ASSUME TypeInv, NEW t \in Threads,
         \/ \E user \in Users : Hydrate(t, user)
         \/ Load(t) \/ Purge(t) \/ PurgeTraces(t) \/ PurgeEvents(t)
  PROVE  TypeInv'
<1>1. threads[t] \in Thread /\ Ready(threads[t])
  BY DEF TypeInv, ReadyThread
<1>2. ASSUME NEW user \in Users, Hydrate(t, user)
      PROVE  TypeInv'
  <2> DEFINE stored == {u \in Persisted : UserOf(u) = user}
             n == Cardinality(stored)
             row(u) == [uid |-> u, dim |-> ltm[u].dim, count |-> ltm[u].count]
  <2>1. PICK uids \in InOrder(user) :
            /\ uids # <<>>
            /\ threads' = [o \in Threads |->
                 IF o = t
                 THEN [Idle EXCEPT !.pc = "load", !.user = user,
                         !.rows = [i \in DOMAIN uids |->
                             [uid |-> uids[i], dim |-> ltm[uids[i]].dim,
                              count |-> ltm[uids[i]].count]]]
                 ELSE [threads[o] EXCEPT !.alone = @ /\ threads[o].uid \notin ToSet(uids)]]
    BY <1>2 DEF Hydrate
  <2>2. n \in Nat /\ uids \in [1 .. n -> stored]
    <3>1. stored \subseteq Uids
      BY DEF Persisted
    <3>2. IsFiniteSet(stored)
      BY <3>1, FS_Subset, EngineConstants
    <3> QED
      BY <2>1, <3>2, FS_CardinalityType DEF InOrder
  <2>3. \A u \in stored : row(u) \in Trace
    <3>1. ASSUME NEW u \in stored
          PROVE  u \in Uids /\ ltm[u] \in [dim : Dims, count : Nat]
      BY DEF Persisted, TypeInv
    <3> QED
      BY <3>1 DEF Trace
  <2> DEFINE rows == [i \in DOMAIN uids |-> row(uids[i])]
             th == [Idle EXCEPT !.pc = "load", !.user = user, !.rows = rows]
  <2>4. rows \in [1 .. n -> Trace] /\ DOMAIN rows = 1 .. n
    BY <2>2, <2>3
  <2>5. n # 0
    <3>1. SUFFICES ASSUME n = 0 PROVE FALSE
      OBVIOUS
    <3>2. uids \in Seq(stored) /\ Len(uids) = 0
      BY <2>2, <3>1
    <3> QED
      BY <2>1, <3>2, EmptySeq
  <2>6. rows \in Seq(Trace) /\ rows # <<>>
    <3> HIDE DEF rows, n
    <3>1. rows \in Seq(Trace) /\ Len(rows) = n
      BY <2>2, <2>4
    <3> QED
      BY <2>5, <3>1, EmptySeq
  <2> HIDE DEF rows
  <2>7. th \in ReadyThread
    BY <2>6, IdleReady DEF ReadyThread, Ready, Thread, Steps
  <2>8. ASSUME NEW o \in Threads
        PROVE  [threads[o] EXCEPT !.alone = @ /\ threads[o].uid \notin ToSet(uids)]
                  \in ReadyThread
    <3> DEFINE alone == threads[o].alone /\ threads[o].uid \notin ToSet(uids)
    <3>1. alone \in BOOLEAN
      OBVIOUS
    <3> HIDE DEF alone
    <3>2. [threads[o] EXCEPT !.alone = alone] \in ReadyThread
      BY <3>1 DEF TypeInv, ReadyThread, Ready, Thread
    <3> QED
      BY <3>2 DEF alone
  <2>9. threads' \in [Threads -> ReadyThread]
    BY <2>1, <2>7, <2>8 DEF rows
  <2>10. calls' \in Nat
    <3>1. calls' = calls + 1
      BY <1>2 DEF Hydrate
    <3> QED
      BY <3>1 DEF TypeInv
  <2> QED
    BY <1>2, <2>9, <2>10 DEF Hydrate, TypeInv, tables
<1>3. CASE Load(t)
  <2> DEFINE rows == threads[t].rows
  <2>1. rows \in Seq(Trace) /\ rows # <<>> /\ threads[t].pc = "load"
    BY <1>1, <1>3 DEF Load, At, Ready, Thread
  <2>2. Head(rows) \in Trace /\ Tail(rows) \in Seq(Trace) /\ Len(Tail(rows)) = Len(rows) - 1
    BY <2>1, HeadTailProperties
  <2>3. Sound(engine')
    <3>1. CASE Accepts(engine, Head(rows).dim)
      BY <1>3, <2>2, <3>1, IngestedSound DEF Load, TypeInv
    <3>2. CASE ~Accepts(engine, Head(rows).dim)
      BY <1>3, <3>2 DEF Load, TypeInv
    <3> QED
      BY <3>1, <3>2
  <2>4. threads' \in [Threads -> ReadyThread]
    <3>1. CASE /\ Len(rows) > 1
               /\ threads' = [threads EXCEPT ![t].rows = Tail(rows)]
      <4> DEFINE rest == Tail(rows)
                 th == [threads[t] EXCEPT !.rows = rest]
      <4>1. rest \in Seq(Trace) /\ rest # <<>>
        <5>1. Len(rows) \in Nat /\ Len(<<>>) = 0
          BY <2>1, LenProperties, EmptySeq
        <5>2. Len(Tail(rows)) # 0
          <6> DEFINE n == Len(rows)
                     m == Len(Tail(rows))
          <6>1. n \in Nat /\ n > 1 /\ m = n - 1
            BY <2>2, <3>1, <5>1
          <6> HIDE DEF n, m
          <6>2. m # 0
            BY <6>1
          <6> QED
            BY <6>2 DEF m
        <5> QED
          BY <2>2, <5>1, <5>2
      <4>2. threads' = [threads EXCEPT ![t] = th]
        BY <3>1 DEF TypeInv
      <4> HIDE DEF rest
      <4>3. th \in ReadyThread
        BY <1>1, <4>1 DEF ReadyThread, Ready, Thread
      <4> QED
        BY <4>2, <4>3, Moves
    <3>2. CASE Return(t)
      BY <3>2, Returns
    <3> QED
      BY <1>3, <3>1, <3>2 DEF Load
  <2> QED
    BY <1>3, <2>3, <2>4 DEF Load, TypeInv, tables
<1>4. CASE Purge(t)
  <2> DEFINE pc == IF StmEnabled THEN "purge" ELSE "sweep"
  <2>1. [Idle EXCEPT !.pc = pc] \in ReadyThread
    BY IdleReady DEF ReadyThread, Ready, Thread, Steps
  <2>2. threads' \in [Threads -> ReadyThread] /\ calls' \in Nat
    BY <1>4, <2>1, Enters DEF Purge
  <2> QED
    BY <1>4, <2>2 DEF Purge, TypeInv, tables
<1>5. CASE PurgeTraces(t)
  <2>1. stm' \in [Uids -> Freshness]
    BY <1>5 DEF PurgeTraces, TypeInv, Freshness
  <2>2. Ready([threads[t] EXCEPT !.pc = "sweep"])
    BY <1>1 DEF Ready, Thread
  <2>3. threads' \in [Threads -> ReadyThread]
    BY <1>5, <2>2, Goes DEF PurgeTraces, Steps
  <2> QED
    BY <1>5, <2>1, <2>3 DEF PurgeTraces, TypeInv
<1>6. CASE PurgeEvents(t)
  <2>1. IsFiniteSet(events') /\ \A e \in events' : e \in Event
    BY <1>6, FS_Subset DEF PurgeEvents, TypeInv
  <2>2. threads' \in [Threads -> ReadyThread]
    BY <1>6, Returns DEF PurgeEvents
  <2> QED
    BY <1>6, <2>1, <2>2 DEF PurgeEvents, TypeInv
<1> QED
  BY <1>2, <1>3, <1>4, <1>5, <1>6

\* Rows that run out, transactions that fail and a restart, which empties the
\* index.
LEMMA TypeFaults ==
  ASSUME TypeInv,
         \/ \E t \in Threads : Fail(t)
         \/ \E u \in Uids : ExpireTrace(u)
         \/ \E e \in events : ExpireEvent(e)
         \/ Restart
  PROVE  TypeInv'
<1>1. \A t \in Threads : threads[t] \in Thread
  BY DEF TypeInv, ReadyThread
<1>2. ASSUME NEW t \in Threads, Fail(t)
      PROVE  TypeInv'
  <2>1. /\ {threads[o].user : o \in {t} \cap Adding} \subseteq Users
        /\ threads[t].uids \subseteq Uids
    BY <1>1 DEF Thread
  <2>2. log' \in Log
    BY <1>2, <2>1 DEF Fail, TypeInv, Log
  <2>3. threads' \in [Threads -> ReadyThread]
    BY <1>2, Returns DEF Fail
  <2>4. faults' \in Nat
    <3>1. faults' = faults + 1
      BY <1>2 DEF Fail
    <3> QED
      BY <3>1 DEF TypeInv
  <2> QED
    BY <1>2, <2>2, <2>3, <2>4 DEF Fail, TypeInv, tables
<1>3. ASSUME NEW u \in Uids, ExpireTrace(u)
      PROVE  TypeInv'
  <2>1. stm' \in [Uids -> Freshness]
    BY <1>3 DEF ExpireTrace, TypeInv, Freshness
  <2> QED
    BY <1>3, <2>1 DEF ExpireTrace, TypeInv
<1>4. ASSUME NEW e \in events, ExpireEvent(e)
      PROVE  TypeInv'
  <2> DEFINE stale == [e EXCEPT !.stale = TRUE]
  <2>1. stale \in Event
    BY DEF TypeInv, Event
  <2>2. events' = (events \ {e}) \cup {stale}
    BY <1>4 DEF ExpireEvent
  <2>3. IsFiniteSet(events \ {e})
    BY FS_Subset DEF TypeInv
  <2> HIDE DEF stale
  <2>4. IsFiniteSet(events') /\ \A o \in events' : o \in Event
    BY <2>1, <2>2, <2>3, FS_AddElement DEF TypeInv
  <2> QED
    BY <1>4, <2>4 DEF ExpireEvent, TypeInv
<1>5. CASE Restart
  <2>1. {threads[o].user : o \in Adding} \subseteq Users
    BY <1>1 DEF Thread, Adding
  <2>2. log' \in Log
    BY <1>5, <2>1 DEF Restart, TypeInv, Log
  <2>3. threads' \in [Threads -> ReadyThread]
    BY <1>5, IdleReady DEF Restart
  <2>4. Sound(engine')
    BY <1>5, EmptySound DEF Restart
  <2>5. faults' \in Nat
    BY <1>5 DEF Restart, TypeInv
  <2> QED
    BY <1>5, <2>2, <2>3, <2>4, <2>5 DEF Restart, TypeInv, tables
<1> QED
  BY <1>2, <1>3, <1>4, <1>5

-----------------------------------------------------------------------------
\* The initial state is well typed, with an empty index.
LEMMA TypeInit == Init => TypeInv
<1> SUFFICES ASSUME Init PROVE TypeInv
  OBVIOUS
<1>1. Sound(engine)
  BY EmptySound DEF Init
<1>2. threads \in [Threads -> ReadyThread]
  BY IdleReady DEF Init
<1>3. IsFiniteSet(events) /\ \A e \in events : e \in Event
  BY FS_EmptySet DEF Init
<1>4. log \in Log
  BY DEF Init, Log
<1> QED
  BY <1>1, <1>2, <1>3, <1>4 DEF Init, TypeInv, Freshness

\* Every step of the system keeps the invariant.
LEMMA TypeStep == TypeInv /\ [Next]_vars => TypeInv'
<1> SUFFICES ASSUME TypeInv, [Next]_vars PROVE TypeInv'
  OBVIOUS
<1>1. ASSUME NEW t \in Threads, Calls(t) PROVE TypeInv'
  BY <1>1, TypeRemember, TypeRecall, TypeForget, TypeHydrate DEF Calls
<1>2. ASSUME NEW t \in Threads, Continues(t) PROVE TypeInv'
  BY <1>2, TypeRemember, TypeEvents, TypeRecall, TypeForget, TypeHydrate
     DEF Continues
<1>3. CASE UNCHANGED vars
  BY <1>3 DEF vars, tables, TypeInv
<1> QED
  BY <1>1, <1>2, <1>3, TypeFaults DEF Next

\* Every operation, in any interleaving with failures and restarts, keeps the
\* state well typed, and the index no larger than there are traces.
THEOREM LegacyTypeCorrect == Spec => []TypeOK
<1>1. TypeInv => TypeOK
  BY TypeInvImplies
<1> QED
  BY <1>1, TypeInit, TypeStep, PTL DEF Spec

\* The index has neither tombstones nor stale postings, whatever threads
\* ingest, overwrite, mark and remove in it.
THEOREM IndexExact == Spec => []PostingsExact
<1>1. TypeInv => PostingsExact
  BY TypeInvImplies
<1> QED
  BY <1>1, TypeInit, TypeStep, PTL DEF Spec

-----------------------------------------------------------------------------
(***************************************************************************)
(* Durability: a recall finds only what is durable, for any number of      *)
(* threads, users, traces, calls and faults.                               *)
(***************************************************************************)

\* Traces that are durable, or were until somebody asked to forget them.
Known == Persisted \cup log.dropped

\* remember() has taken the uuid and has neither published nor rejected it.
Early(t) == threads[t].pc \in {"persist", "publish", "reject"}

RowsOf(t) == {threads[t].rows[i] : i \in DOMAIN threads[t].rows}

\* A uuid that is on its way is on its way in one thread, and known from the
\* moment its row is committed.
EarlyInv ==
    \A t \in Threads :
        /\ Early(t) =>
              /\ threads[t].uid <= issued
              /\ \A o \in Threads : Early(o) /\ threads[o].uid = threads[t].uid => o = t
        /\ At(t, "persist") => threads[t].uid \notin Known
        /\ At(t, "publish") => threads[t].uid \in Known

\* Wherever its embedding is, it has the length that was asked for; it is
\* rejected under another length only.
LengthInv ==
    \A t \in Threads :
        /\ Early(t) =>
              /\ threads[t].uid \in Persisted => ltm[threads[t].uid].dim = threads[t].dim
              /\ threads[t].uid \in Indexed(engine) => engine.dim = threads[t].dim
        /\ At(t, "reject") => engine.dim \notin {0, threads[t].dim}

\* A row that a hydration has read is of a known trace, or of one that has
\* been taken back because the index did not accept it, and does not now.
RowInv ==
    \A t \in Threads : \A row \in RowsOf(t) :
        /\ row.uid \in Known \/ engine.dim \notin {0, row.dim}
        /\ row.uid <= issued
        /\ \A o \in Threads : Early(o) /\ threads[o].uid = row.uid =>
              threads[o].pc # "persist" /\ threads[o].dim = row.dim

\* forget() deletes what it was called for.
DropInv ==
    \A t \in Threads :
        threads[t].pc \in {"remove", "unstore"} => threads[t].uid \in log.dropped

DurableInv ==
    /\ Indexed(engine) \subseteq Known
    /\ \A u \in Known : u <= issued
    /\ EarlyInv
    /\ LengthInv
    /\ RowInv
    /\ DropInv

-----------------------------------------------------------------------------
\* An empty index has no embedding length, and any other has that of its
\* traces.
LEMMA NoLength ==
  ASSUME NEW e, Sound(e), e.dim = 0
  PROVE  Indexed(e) = {}
<1>1. \A i \in DOMAIN e.traces : e.traces[i].dim = e.dim /\ e.traces[i] \in Trace
  BY Parts
<1>2. \A i \in DOMAIN e.traces : e.traces[i].dim # 0
  BY <1>1, EngineConstants DEF Trace
<1>3. DOMAIN e.traces = {}
  BY <1>1, <1>2
<1> QED
  BY <1>3 DEF Sound, Exact

\* What each operation does to the traces of the index and to their length.
LEMMA IngestedIndexed ==
  ASSUME NEW e, Sound(e), NEW trace \in Trace
  PROVE  /\ Indexed(Ingested(e, trace)) = Indexed(e) \cup {trace.uid}
         /\ Ingested(e, trace).dim = trace.dim
<1> DEFINE i == IF trace.uid \in Indexed(e) THEN e.slot[trace.uid]
                ELSE Len(e.traces) + 1
<1>1. e.slot \in [Uids -> Nat] /\ Len(e.traces) \in Nat /\ trace.uid \in Uids
  BY Parts DEF Sound, Engine, Trace
<1>2. Ingested(e, trace).slot = [e.slot EXCEPT ![trace.uid] = i]
  BY DEF Ingested
<1>3. Ingested(e, trace).dim = trace.dim
  BY DEF Ingested
<1>4. i # 0
  BY <1>1 DEF Indexed
<1> HIDE DEF i
<1>5. Indexed(Ingested(e, trace)) = Indexed(e) \cup {trace.uid}
  BY <1>1, <1>2, <1>4 DEF Indexed
<1> QED
  BY <1>3, <1>5

\* Marking a trace accessed neither adds nor removes one.
LEMMA MarkedIndexed ==
  ASSUME NEW e, Sound(e), NEW u \in Uids
  PROVE  Indexed(Marked(e, u)) = Indexed(e) /\ Marked(e, u).dim = e.dim
BY DEF Marked, Indexed, Sound, Engine

\* A removal adds no trace, though one moves, and keeps the length.
LEMMA RemovedIndexed ==
  ASSUME NEW e, Sound(e), NEW u \in Uids
  PROVE  /\ Indexed(Removed(e, u)) \subseteq Indexed(e)
         /\ Removed(e, u).dim = e.dim
<1> DEFINE i == e.slot[u]
           moved == e.traces[Len(e.traces)].uid
<1>1. CASE i = 0
  BY <1>1 DEF Removed
<1>2. CASE i # 0
  <2>1. /\ e.slot \in [Uids -> Nat] /\ e \in Engine
        /\ i \in DOMAIN e.traces /\ DOMAIN e.traces = 1 .. Len(e.traces)
        /\ Len(e.traces) \in Nat
    BY <1>2, Parts DEF Sound, Engine, Exact, Indexed
  <2>2. Len(e.traces) \in DOMAIN e.traces
    BY <2>1
  <2>3. moved \in Indexed(e)
    <3>1. moved \in Uids /\ e.slot[moved] = Len(e.traces)
      BY <2>2, Parts
    <3> QED
      BY <2>1, <2>2, <3>1 DEF Indexed
  <2>4. /\ Removed(e, u).slot = [e.slot EXCEPT ![moved] = i, ![u] = 0]
        /\ Removed(e, u).dim = e.dim
    BY <1>2, <2>1 DEF Removed, Engine
  <2> HIDE DEF moved
  <2>5. \A v \in Uids : Removed(e, u).slot[v] # 0 => v = moved \/ e.slot[v] # 0
    BY <2>1, <2>4
  <2>6. Indexed(Removed(e, u)) \subseteq Indexed(e)
    BY <2>3, <2>5 DEF Indexed
  <2> QED
    BY <2>4, <2>6
<1> QED
  BY <1>1, <1>2

-----------------------------------------------------------------------------
\* A thread that takes no uuid on its way, reads no row, and forgets what it
\* was called for.
Tame(t) ==
    /\ Early(t)' => /\ threads'[t].pc = threads[t].pc
                    /\ threads'[t].uid = threads[t].uid
                    /\ threads'[t].dim = threads[t].dim
    /\ RowsOf(t)' \subseteq RowsOf(t)
    /\ threads'[t].pc \in {"remove", "unstore"} => threads'[t].uid \in log'.dropped

\* A thread that gives up what it carries is tame, and so are the others.
LEMMA TameMove ==
  ASSUME TypeInv, DurableInv, NEW t \in Threads, NEW th,
         threads' = [threads EXCEPT ![t] = th],
         log.dropped \subseteq log'.dropped,
         th.pc \notin {"persist", "publish", "reject"},
         {th.rows[i] : i \in DOMAIN th.rows} \subseteq RowsOf(t),
         th.pc \in {"remove", "unstore"} => th.uid \in log'.dropped
  PROVE  \A o \in Threads : Tame(o)
<1>1. threads'[t] = th /\ \A o \in Threads \ {t} : threads'[o] = threads[o]
  BY DEF TypeInv
<1>2. Tame(t)
  BY <1>1 DEF Tame, Early, RowsOf
<1>3. \A o \in Threads \ {t} : Tame(o)
  BY <1>1 DEF Tame, Early, RowsOf, DurableInv, DropInv
<1> QED
  BY <1>2, <1>3

\* A step that neither brings a uuid or a row on its way, nor adds to the
\* index, nor changes what is known.
LEMMA Quiet ==
  ASSUME TypeInv, DurableInv,
         issued' = issued, Known' = Known, Persisted' \subseteq Persisted,
         \A u \in Persisted' : ltm'[u].dim = ltm[u].dim,
         Indexed(engine') \subseteq Indexed(engine), engine'.dim = engine.dim,
         \A t \in Threads : Tame(t)
  PROVE  DurableInv'
<1>1. EarlyInv'
  BY DEF DurableInv, EarlyInv, Tame, Early, At
<1>2. LengthInv'
  BY DEF DurableInv, LengthInv, Tame, Early, At
<1>3. RowInv'
  BY DEF DurableInv, RowInv, Tame, Early
<1>4. DropInv'
  BY DEF DropInv, Tame
<1> QED
  BY <1>1, <1>2, <1>3, <1>4 DEF DurableInv

\* Going on past the publication is tame.
LEMMA TameGoto ==
  ASSUME TypeInv, DurableInv, NEW t \in Threads, NEW pc, Goto(t, pc),
         log.dropped \subseteq log'.dropped,
         pc \notin {"persist", "publish", "reject", "remove", "unstore"}
  PROVE  \A o \in Threads : Tame(o)
<1> DEFINE th == [threads[t] EXCEPT !.pc = pc]
<1>1. threads' = [threads EXCEPT ![t] = th]
  BY DEF Goto
<1>2. threads[t] \in Thread
  BY DEF TypeInv, ReadyThread
<1>3. th.pc = pc /\ th.rows = threads[t].rows
  BY <1>2 DEF Thread
<1>4. {th.rows[i] : i \in DOMAIN th.rows} \subseteq RowsOf(t)
  BY <1>3 DEF RowsOf
<1> HIDE DEF th
<1> QED
  BY <1>1, <1>3, <1>4, TameMove

\* Ending an operation is tame.
LEMMA TameReturn ==
  ASSUME TypeInv, DurableInv, NEW t \in Threads, Return(t),
         log.dropped \subseteq log'.dropped
  PROVE  \A o \in Threads : Tame(o)
<1>1. Idle.pc = "idle" /\ Idle.rows = <<>>
  BY DEF Idle
<1>2. {Idle.rows[i] : i \in DOMAIN Idle.rows} \subseteq RowsOf(t)
  BY <1>1
<1> QED
  BY <1>1, <1>2, TameMove DEF Return

\* Beginning an operation other than remember() or hydrate() is tame.
LEMMA TameEnter ==
  ASSUME TypeInv, DurableInv, NEW t \in Threads, NEW th, Enter(t, th),
         log.dropped \subseteq log'.dropped, th.rows = <<>>,
         th.pc \notin {"persist", "publish", "reject", "unstore"},
         th.pc = "remove" => th.uid \in log'.dropped
  PROVE  \A o \in Threads : Tame(o)
<1>1. {th.rows[i] : i \in DOMAIN th.rows} \subseteq RowsOf(t)
  OBVIOUS
<1> QED
  BY <1>1, TameMove DEF Enter

\* Steps that leave the index and the long-term rows alone.
LEMMA Calm ==
  ASSUME TypeInv, DurableInv,
         issued' = issued, ltm' = ltm, engine' = engine,
         log'.dropped = log.dropped, \A t \in Threads : Tame(t)
  PROVE  DurableInv'
<1>1. Known' = Known /\ Persisted' = Persisted
  BY DEF Known, Persisted
<1>2. \A u \in Persisted' : ltm'[u].dim = ltm[u].dim
  OBVIOUS
<1>3. Indexed(engine') \subseteq Indexed(engine) /\ engine'.dim = engine.dim
  OBVIOUS
<1> QED
  BY <1>1, <1>2, <1>3, Quiet

-----------------------------------------------------------------------------
\* Events and short-term rows are no concern of the index.
LEMMA DurableEvents ==
  ASSUME TypeInv, DurableInv, NEW t \in Threads,
         \/ \E user \in Users : RecordEvent(t, user)
         \/ Stash(t) \/ SkipNote(t) \/ Note(t) \/ Count(t) \/ Pick(t) \/ Trim(t)
         \/ Purge(t) \/ PurgeTraces(t) \/ PurgeEvents(t)
  PROVE  DurableInv'
<1>1. ASSUME NEW user \in Users, RecordEvent(t, user) PROVE DurableInv'
  <2> DEFINE th == [Idle EXCEPT !.pc = "note", !.user = user]
  <2>1. Enter(t, th) /\ th.rows = <<>> /\ th.pc = "note"
    BY <1>1 DEF RecordEvent, Idle
  <2> HIDE DEF th
  <2> QED
    BY <1>1, <2>1, TameEnter, Calm DEF RecordEvent, tables
<1>2. CASE Purge(t)
  <2> DEFINE th == [Idle EXCEPT !.pc = IF StmEnabled THEN "purge" ELSE "sweep"]
  <2>1. Enter(t, th) /\ th.rows = <<>> /\ th.pc \in {"purge", "sweep"}
    BY <1>2 DEF Purge, Idle
  <2> HIDE DEF th
  <2> QED
    BY <1>2, <2>1, TameEnter, Calm DEF Purge, tables
<1>3. CASE Stash(t) \/ Note(t) \/ PurgeTraces(t)
  <2>1. /\ Goto(t, "note") \/ Goto(t, "count") \/ Goto(t, "sweep")
        /\ UNCHANGED <<engine, ltm, issued, log>>
    BY <1>3 DEF Stash, Note, PurgeTraces
  <2>2. \A o \in Threads : Tame(o)
    BY <2>1, TameGoto
  <2> QED
    BY <2>1, <2>2, Calm
<1>4. log \in Log => Noted(t).dropped = log.dropped
  BY DEF Noted, Log
<1>5. CASE SkipNote(t) \/ Trim(t) \/ PurgeEvents(t)
  <2>1. /\ Return(t) /\ UNCHANGED <<engine, ltm, issued>>
        /\ log' = log \/ log' = Noted(t)
    BY <1>5 DEF SkipNote, Trim, PurgeEvents, tables
  <2>2. log'.dropped = log.dropped
    BY <1>4, <2>1 DEF TypeInv
  <2> QED
    BY <2>1, <2>2, TameReturn, Calm
<1>6. CASE Count(t)
  <2>1. UNCHANGED <<engine, ltm, issued>>
    BY <1>6 DEF Count, tables
  <2>2. log'.dropped = log.dropped
    BY <1>6 DEF Count, Noted, TypeInv, Log
  <2>3. CASE threads' = [threads EXCEPT ![t].pc = "pick",
                                        ![t].over = Overflow(threads[t].user)]
    <3> DEFINE over == Overflow(threads[t].user)
               th == [threads[t] EXCEPT !.pc = "pick", !.over = over]
    <3> HIDE DEF over
    <3>1. threads' = [threads EXCEPT ![t] = th]
      BY <2>3 DEF TypeInv, over
    <3>2. threads[t] \in Thread
      BY DEF TypeInv, ReadyThread
    <3>3. th.pc = "pick" /\ th.rows = threads[t].rows
      BY <3>2 DEF Thread
    <3>4. {th.rows[i] : i \in DOMAIN th.rows} \subseteq RowsOf(t)
      BY <3>3 DEF RowsOf
    <3> HIDE DEF th
    <3> QED
      BY <2>1, <2>2, <3>1, <3>3, <3>4, TameMove, Calm
  <2>4. CASE Return(t)
    BY <2>1, <2>2, <2>4, TameReturn, Calm
  <2> QED
    BY <1>6, <2>3, <2>4 DEF Count
<1>7. CASE Pick(t)
  <2> DEFINE ids == {e.id : e \in EventsOf(threads[t].user)}
             picked == {i \in ids : Cardinality({j \in ids : j < i})
                                       < threads[t].over}
             th == [threads[t] EXCEPT !.pc = "trim", !.ids = picked]
  <2> HIDE DEF picked
  <2>1. threads' = [threads EXCEPT ![t] = th] /\ UNCHANGED <<engine, ltm, issued, log>>
    BY <1>7 DEF Pick, TypeInv, tables, picked
  <2>2. threads[t] \in Thread
    BY DEF TypeInv, ReadyThread
  <2>3. th.pc = "trim" /\ th.rows = threads[t].rows
    BY <2>2 DEF Thread
  <2>4. {th.rows[i] : i \in DOMAIN th.rows} \subseteq RowsOf(t)
    BY <2>3 DEF RowsOf
  <2> HIDE DEF th
  <2> QED
    BY <2>1, <2>3, <2>4, TameMove, Calm
<1> QED
  BY <1>1, <1>2, <1>3, <1>5, <1>6, <1>7

\* A recall marks traces of the index, and counts on rows that are there.
LEMMA DurableRecall ==
  ASSUME TypeInv, DurableInv, NEW t \in Threads,
         \/ \E user \in Users, dim \in Dims : Search(t, user, dim)
         \/ \E u \in Uids : Mark(t, u)
         \/ Increment(t)
  PROVE  DurableInv'
<1>1. threads[t] \in Thread
  BY DEF TypeInv, ReadyThread
<1>2. ASSUME NEW user \in Users, NEW dim \in Dims, Search(t, user, dim)
      PROVE  DurableInv'
  <2>1. PICK uids \in Found(engine, user, RecallLimit) :
            Enter(t, [Idle EXCEPT !.pc = "mark", !.user = user,
                                  !.uids = uids, !.left = uids])
    BY <1>2 DEF Search
  <2> DEFINE th == [Idle EXCEPT !.pc = "mark", !.user = user,
                                !.uids = uids, !.left = uids]
  <2>2. Enter(t, th) /\ th.rows = <<>> /\ th.pc = "mark"
    BY <2>1 DEF Idle
  <2> HIDE DEF th
  <2> QED
    BY <1>2, <2>2, TameEnter, Calm DEF Search, tables
<1>3. ASSUME NEW u \in Uids, Mark(t, u)
      PROVE  DurableInv'
  <2> DEFINE left == threads[t].left \ {u}
             pc == IF left = {} THEN "increment" ELSE "mark"
             th == [threads[t] EXCEPT !.left = left, !.pc = pc]
  <2>1. threads' = [threads EXCEPT ![t] = th]
    BY <1>3 DEF Mark, TypeInv
  <2>2. pc \in {"increment", "mark"}
    OBVIOUS
  <2> HIDE DEF left, pc
  <2>3. th.pc = pc /\ th.rows = threads[t].rows
    BY <1>1 DEF Thread
  <2>4. {th.rows[i] : i \in DOMAIN th.rows} \subseteq RowsOf(t)
    BY <2>3 DEF RowsOf
  <2> HIDE DEF th
  <2>5. engine' = Marked(engine, u) /\ UNCHANGED <<ltm, issued, log>>
    BY <1>3 DEF Mark, tables
  <2>6. \A o \in Threads : Tame(o)
    BY <2>1, <2>2, <2>3, <2>4, <2>5, TameMove
  <2>7. Indexed(engine') \subseteq Indexed(engine) /\ engine'.dim = engine.dim
    BY <2>5, MarkedIndexed DEF TypeInv
  <2>8. Known' = Known /\ Persisted' = Persisted
    BY <2>5 DEF Known, Persisted
  <2> QED
    BY <2>5, <2>6, <2>7, <2>8, Quiet
<1>4. CASE Increment(t)
  <2>1. \A u \in Uids : ltm'[u].dim = ltm[u].dim /\ (ltm'[u] = Absent <=> ltm[u] = Absent)
    <3>1. ASSUME NEW u \in Uids, u \in Persisted
          PROVE  /\ [ltm[u] EXCEPT !.count = @ + 1].dim = ltm[u].dim
                 /\ [ltm[u] EXCEPT !.count = @ + 1] # Absent
      <4>1. ltm[u] \in [dim : Dims, count : Nat]
        BY <3>1 DEF Persisted, TypeInv
      <4> QED
        BY <4>1, EngineConstants DEF Absent
    <3> QED
      BY <1>4, <3>1 DEF Increment, Counted, Persisted
  <2>2. Persisted' = Persisted
    BY <2>1 DEF Persisted
  <2>3. log'.dropped = log.dropped
    BY <1>4 DEF Increment, TypeInv, Log
  <2>4. Known' = Known
    BY <2>2, <2>3 DEF Known
  <2>5. Return(t) /\ UNCHANGED <<engine, issued>>
    BY <1>4 DEF Increment
  <2>6. \A o \in Threads : Tame(o)
    BY <2>3, <2>5, TameReturn
  <2>7. \A u \in Persisted' : ltm'[u].dim = ltm[u].dim
    BY <2>1 DEF Persisted
  <2> QED
    BY <2>2, <2>4, <2>5, <2>6, <2>7, Quiet
<1> QED
  BY <1>2, <1>3, <1>4

\* What forget() takes away stays known.
LEMMA DurableForget ==
  ASSUME TypeInv, DurableInv, NEW t \in Threads,
         \/ \E u \in Uids : Forget(t, u)
         \/ Unindex(t) \/ Unstore(t) \/ Unstash(t) \/ Unlog(t)
  PROVE  DurableInv'
<1>1. threads[t] \in Thread /\ Ready(threads[t])
  BY DEF TypeInv, ReadyThread
<1>2. threads[t].pc \in {"remove", "unstore"}
         => threads[t].uid \in Uids /\ threads[t].uid \in log.dropped
  BY <1>1 DEF Thread, Ready, DurableInv, DropInv
<1>3. ASSUME NEW u \in Uids, Forget(t, u)
      PROVE  DurableInv'
  <2> DEFINE only == \A o \in Threads :
                /\ ~Remembering(o, u)
                /\ \A i \in DOMAIN threads[o].rows : threads[o].rows[i].uid # u
             th == [Idle EXCEPT !.pc = "remove", !.uid = u, !.user = UserOf(u),
                                !.alone = only]
  <2>1. Enter(t, th)
    BY <1>3 DEF Forget
  <2> HIDE DEF only
  <2>2. th.rows = <<>> /\ th.pc = "remove" /\ th.uid = u
    BY DEF Idle
  <2> HIDE DEF th
  <2>3. log'.dropped = log.dropped \cup {u} /\ UNCHANGED <<engine, ltm, issued>>
    BY <1>3 DEF Forget, TypeInv, Log, tables
  <2>4. Persisted' = Persisted
    BY <2>3 DEF Persisted
  <2>5. u \in Known
    BY <1>3 DEF Forget, Known
  <2>6. Known' = Known
    BY <2>3, <2>4, <2>5 DEF Known
  <2>7. \A o \in Threads : Tame(o)
    BY <2>1, <2>2, <2>3, TameEnter
  <2> QED
    BY <2>3, <2>4, <2>6, <2>7, Quiet
<1>4. CASE Unindex(t)
  <2> DEFINE th == [threads[t] EXCEPT !.pc = "unstore"]
  <2>1. /\ threads' = [threads EXCEPT ![t] = th] /\ threads[t].pc = "remove"
        /\ engine' = Removed(engine, threads[t].uid)
        /\ UNCHANGED <<ltm, issued, log>>
    BY <1>4 DEF Unindex, At, Goto, tables
  <2>2. th.pc = "unstore" /\ th.rows = threads[t].rows /\ th.uid = threads[t].uid
    BY <1>1 DEF Thread
  <2>3. {th.rows[i] : i \in DOMAIN th.rows} \subseteq RowsOf(t)
    BY <2>2 DEF RowsOf
  <2> HIDE DEF th
  <2>4. \A o \in Threads : Tame(o)
    BY <1>2, <2>1, <2>2, <2>3, TameMove
  <2>5. Indexed(engine') \subseteq Indexed(engine) /\ engine'.dim = engine.dim
    BY <1>2, <2>1, RemovedIndexed DEF TypeInv
  <2>6. Known' = Known /\ Persisted' = Persisted
    BY <2>1 DEF Known, Persisted
  <2> QED
    BY <2>1, <2>4, <2>5, <2>6, Quiet
<1>5. CASE Unstore(t)
  <2>1. /\ Goto(t, "unstash") /\ threads[t].pc = "unstore"
        /\ ltm' = [ltm EXCEPT ![threads[t].uid] = Absent]
        /\ UNCHANGED <<engine, issued, log>>
    BY <1>5 DEF Unstore, At
  <2>2. /\ Persisted' \subseteq Persisted /\ Persisted \subseteq Persisted' \cup {threads[t].uid}
        /\ \A u \in Persisted' : ltm'[u].dim = ltm[u].dim
    BY <1>2, <2>1 DEF Persisted, TypeInv
  <2>3. Known' = Known
    BY <1>2, <2>1, <2>2 DEF Known
  <2>4. \A o \in Threads : Tame(o)
    BY <2>1, TameGoto
  <2> QED
    BY <2>1, <2>2, <2>3, <2>4, Quiet
<1>6. CASE Unstash(t)
  <2>1. Goto(t, "unlog") /\ UNCHANGED <<engine, ltm, issued, log>>
    BY <1>6 DEF Unstash
  <2> QED
    BY <2>1, TameGoto, Calm
<1>7. CASE Unlog(t)
  <2>1. Return(t) /\ UNCHANGED <<engine, ltm, issued>>
    BY <1>7 DEF Unlog
  <2>2. log'.dropped = log.dropped
    BY <1>7 DEF Unlog, TypeInv, Log
  <2> QED
    BY <2>1, <2>2, TameReturn, Calm
<1> QED
  BY <1>3, <1>4, <1>5, <1>6, <1>7

-----------------------------------------------------------------------------
\* remember(): a uuid is new, its row is committed before it is published, and
\* it is taken back only when nothing has published it.
LEMMA DurableBegin ==
  ASSUME TypeInv, DurableInv, NEW t \in Threads, NEW dim \in Dims,
         Remember(t, dim)
  PROVE  DurableInv'
<1> DEFINE th == [Idle EXCEPT !.pc = "persist", !.uid = issued + 1,
                              !.user = UserOf(issued + 1), !.dim = dim]
<1>1. /\ threads' = [threads EXCEPT ![t] = th]
      /\ issued' = issued + 1 /\ UNCHANGED <<engine, ltm, log>>
  BY DEF Remember, Enter, tables
<1>2. th.pc = "persist" /\ th.uid = issued + 1 /\ th.rows = <<>>
  BY DEF Idle
<1> HIDE DEF th
<1>3. threads'[t] = th /\ \A o \in Threads \ {t} : threads'[o] = threads[o]
  BY <1>1 DEF TypeInv
<1>4. Known' = Known /\ Persisted' = Persisted /\ issued \in Nat
  BY <1>1 DEF Known, Persisted, TypeInv
<1>5. \A u \in Known : u <= issued /\ u \in Nat
  BY EngineConstants DEF DurableInv, Known, Persisted, TypeInv, Log
<1>6. \A o \in Threads : Early(o) => threads[o].uid <= issued /\ threads[o].uid \in Nat
  <2>1. ASSUME NEW o \in Threads PROVE threads[o].uid \in Nat
    <3>1. threads[o] \in Thread
      BY DEF TypeInv, ReadyThread
    <3>2. threads[o].uid \in {0} \cup Uids
      BY <3>1 DEF Thread
    <3>3. \A u \in Uids : u \in Nat
      BY EngineConstants
    <3> QED
      BY <3>2, <3>3
  <2>2. \A o \in Threads : Early(o) => threads[o].uid <= issued
    BY DEF DurableInv, EarlyInv
  <2> QED
    BY <2>1, <2>2
<1>7. issued + 1 \notin Known
  BY <1>4, <1>5
<1>8. EarlyInv'
  <2>1. \A o \in Threads \ {t} : Early(o)' => threads'[o].uid # issued + 1
    BY <1>3, <1>4, <1>6 DEF Early
  <2>2. \A o \in Threads : Early(o)' => threads'[o].uid <= issued'
    BY <1>1, <1>2, <1>3, <1>4, <1>6 DEF Early
  <2>3. \A o, p \in Threads : Early(o)' /\ Early(p)' /\ threads'[p].uid = threads'[o].uid => p = o
    BY <1>2, <1>3, <2>1 DEF Early, DurableInv, EarlyInv
  <2>4. \A o \in Threads : /\ At(o, "persist")' => threads'[o].uid \notin Known'
                           /\ At(o, "publish")' => threads'[o].uid \in Known'
    BY <1>2, <1>3, <1>4, <1>7 DEF At, DurableInv, EarlyInv
  <2> QED
    BY <2>2, <2>3, <2>4 DEF EarlyInv
<1>9. LengthInv'
  <2>1. issued + 1 \notin Indexed(engine) /\ issued + 1 \notin Persisted
    BY <1>7 DEF DurableInv, Known
  <2> QED
    BY <1>1, <1>2, <1>3, <1>4, <2>1 DEF LengthInv, Early, At, DurableInv
<1>10. RowInv'
  <2>1. \A o \in Threads : RowsOf(o)' \subseteq RowsOf(o)
    BY <1>2, <1>3 DEF RowsOf
  <2>2. ASSUME NEW o \in Threads, NEW row \in RowsOf(o)
        PROVE  row.uid \in Nat /\ row.uid <= issued
    <3>1. threads[o].rows \in Seq(Trace)
      BY DEF TypeInv, ReadyThread, Thread
    <3>2. row \in Trace
      BY <3>1, LenProperties, ElementOfSeq DEF RowsOf
    <3> QED
      BY <3>2, EngineConstants DEF Trace, DurableInv, RowInv
  <2>3. \A o \in Threads : \A row \in RowsOf(o) : row.uid <= issued' /\ row.uid # issued + 1
    BY <1>1, <1>4, <2>2
  <2> QED
    BY <1>1, <1>2, <1>3, <1>4, <2>1, <2>3 DEF RowInv, Early, DurableInv
<1>11. DropInv'
  BY <1>1, <1>2, <1>3 DEF DropInv, DurableInv
<1>12. \A u \in Known' : u <= issued'
  BY <1>1, <1>4, <1>5
<1> QED
  BY <1>1, <1>4, <1>8, <1>9, <1>10, <1>11, <1>12 DEF DurableInv

\* A committed row makes its trace known, with the length that was asked for.
LEMMA DurablePersist ==
  ASSUME TypeInv, DurableInv, NEW t \in Threads, Persist(t)
  PROVE  DurableInv'
<1> DEFINE th == [threads[t] EXCEPT !.pc = "publish"]
           u == threads[t].uid
<1>1. threads[t] \in Thread /\ Ready(threads[t])
  BY DEF TypeInv, ReadyThread
<1>2. /\ threads' = [threads EXCEPT ![t] = th] /\ threads[t].pc = "persist"
      /\ ltm' = [ltm EXCEPT ![u] = [dim |-> threads[t].dim, count |-> 0]]
      /\ UNCHANGED <<engine, issued, log>>
  BY DEF Persist, At, Goto
<1>3. /\ th.pc = "publish" /\ th.uid = u /\ th.dim = threads[t].dim
      /\ th.rows = threads[t].rows
      /\ u \in Uids /\ threads[t].dim # 0
  BY <1>1, <1>2 DEF Thread, Ready
<1> HIDE DEF th
<1>4. threads'[t] = th /\ \A o \in Threads \ {t} : threads'[o] = threads[o]
  BY <1>2 DEF TypeInv
<1>5. Persisted' = Persisted \cup {u} /\ Known' = Known \cup {u}
  <2>1. [dim |-> threads[t].dim, count |-> 0] # Absent
    BY <1>3 DEF Absent
  <2>2. Persisted' = Persisted \cup {u}
    BY <1>2, <1>3, <2>1 DEF Persisted, TypeInv
  <2> QED
    BY <1>2, <2>2 DEF Known
<1>6. ltm'[u].dim = threads[t].dim /\ \A v \in Uids \ {u} : ltm'[v] = ltm[v]
  BY <1>2, <1>3 DEF TypeInv
<1>7. /\ u \notin Known /\ u <= issued
      /\ \A o \in Threads : Early(o) /\ threads[o].uid = u => o = t
  BY <1>2 DEF DurableInv, EarlyInv, Early, At
<1>8. EarlyInv'
  BY <1>2, <1>3, <1>4, <1>5, <1>7 DEF EarlyInv, Early, At, DurableInv
<1>9. LengthInv'
  <2>1. u \notin Indexed(engine)
    BY <1>7 DEF DurableInv
  <2>2. \A o \in Threads \ {t} : Early(o) => threads[o].uid # u
    BY <1>7
  <2>3. \A v \in Persisted' \ {u} : v \in Persisted /\ ltm'[v] = ltm[v]
    BY <1>5, <1>6 DEF Persisted
  <2> QED
    BY <1>2, <1>3, <1>4, <1>6, <2>1, <2>2, <2>3 DEF LengthInv, Early, At, DurableInv
<1>10. RowInv'
  <2>1. \A o \in Threads : RowsOf(o)' = RowsOf(o)
    BY <1>3, <1>4 DEF RowsOf
  <2>2. \A o \in Threads : \A row \in RowsOf(o) : row.uid # u
    BY <1>2 DEF RowInv, Early, DurableInv
  <2> QED
    BY <1>2, <1>3, <1>4, <1>5, <2>1, <2>2 DEF RowInv, Early, DurableInv
<1>11. DropInv'
  BY <1>2, <1>3, <1>4 DEF DropInv, DurableInv
<1> QED
  BY <1>2, <1>5, <1>7, <1>8, <1>9, <1>10, <1>11 DEF DurableInv

\* A trace is taken back only while nothing has it in the index or can put it
\* there.
LEMMA DurableReject ==
  ASSUME TypeInv, DurableInv, NEW t \in Threads, Reject(t)
  PROVE  DurableInv'
<1> DEFINE u == threads[t].uid
<1>1. threads[t] \in Thread /\ Ready(threads[t])
  BY DEF TypeInv, ReadyThread
<1>2. /\ threads' = [threads EXCEPT ![t] = Idle] /\ threads[t].pc = "reject"
      /\ ltm' = [ltm EXCEPT ![u] = Absent]
      /\ UNCHANGED <<engine, issued>> /\ log'.dropped = log.dropped
  BY DEF Reject, At, Return, TypeInv, Log
<1>3. Idle.pc = "idle" /\ Idle.rows = <<>>
  BY DEF Idle
<1>4. threads'[t] = Idle /\ \A o \in Threads \ {t} : threads'[o] = threads[o]
  BY <1>2 DEF TypeInv
<1>5. /\ Persisted' = Persisted \ {u} /\ \A v \in Persisted' : ltm'[v] = ltm[v]
      /\ Known \ {u} \subseteq Known' /\ Known' \subseteq Known
  <2>1. u \in Uids
    BY <1>1, <1>2 DEF Thread, Ready
  <2>2. Persisted' = Persisted \ {u} /\ \A v \in Persisted' : ltm'[v] = ltm[v]
    BY <1>2, <2>1 DEF Persisted, TypeInv
  <2> QED
    BY <1>2, <2>2 DEF Known
<1>6. /\ engine.dim \notin {0, threads[t].dim} /\ u \notin Indexed(engine)
      /\ \A o \in Threads : Early(o) /\ threads[o].uid = u => o = t
  BY <1>2 DEF DurableInv, EarlyInv, LengthInv, Early, At
<1>7. EarlyInv'
  BY <1>2, <1>3, <1>4, <1>5, <1>6 DEF EarlyInv, Early, At, DurableInv
<1>8. LengthInv'
  BY <1>2, <1>3, <1>4, <1>5 DEF LengthInv, Early, At, DurableInv
<1>9. RowInv'
  <2>1. \A o \in Threads : RowsOf(o)' \subseteq RowsOf(o)
    BY <1>3, <1>4 DEF RowsOf
  <2>2. \A o \in Threads : \A row \in RowsOf(o) : row.uid = u => row.dim = threads[t].dim
    BY <1>2 DEF RowInv, Early, DurableInv
  <2>3. \A o \in Threads : \A row \in RowsOf(o) :
           row.uid \in Known' \/ engine.dim \notin {0, row.dim}
    BY <1>5, <1>6, <2>2 DEF RowInv, DurableInv
  <2> QED
    BY <1>2, <1>3, <1>4, <2>1, <2>3 DEF RowInv, Early, DurableInv
<1>10. DropInv'
  BY <1>2, <1>3, <1>4 DEF DropInv, DurableInv
<1> QED
  BY <1>2, <1>5, <1>6, <1>7, <1>8, <1>9, <1>10 DEF DurableInv

-----------------------------------------------------------------------------
\* An ingest of a known trace, by a thread that keeps or gives up what it
\* carries.
LEMMA DurableIngest ==
  ASSUME TypeInv, DurableInv, NEW t \in Threads, NEW th, NEW trace \in Trace,
         threads' = [threads EXCEPT ![t] = th],
         Accepts(engine, trace.dim), engine' = Ingested(engine, trace),
         UNCHANGED <<ltm, issued, log>>,
         trace.uid \in Known,
         \A o \in Threads : Early(o) /\ threads[o].uid = trace.uid =>
            o = t \/ threads[o].dim = trace.dim,
         th.pc \notin {"persist", "publish", "reject", "remove", "unstore"},
         {th.rows[i] : i \in DOMAIN th.rows} \subseteq RowsOf(t)
  PROVE  DurableInv'
<1>1. threads'[t] = th /\ \A o \in Threads \ {t} : threads'[o] = threads[o]
  BY DEF TypeInv
<1>2. Known' = Known /\ Persisted' = Persisted
  BY DEF Known, Persisted
<1>3. /\ Indexed(engine') = Indexed(engine) \cup {trace.uid}
      /\ engine'.dim = trace.dim
  BY IngestedIndexed DEF TypeInv
<1>4. engine.dim = 0 \/ engine'.dim = engine.dim
  BY <1>3 DEF Accepts
<1>5. engine.dim = 0 => Indexed(engine) = {}
  BY NoLength DEF TypeInv
<1>6. EarlyInv'
  BY <1>1, <1>2 DEF EarlyInv, Early, At, DurableInv
<1>7. LengthInv'
  <2>1. \A o \in Threads \ {t} : Early(o) /\ threads[o].uid \in Indexed(engine')
           => engine'.dim = threads[o].dim
    BY <1>3, <1>4, <1>5 DEF LengthInv, DurableInv
  <2>2. \A o \in Threads \ {t} : At(o, "reject") => engine'.dim \notin {0, threads[o].dim}
    BY <1>4 DEF LengthInv, DurableInv
  <2> QED
    BY <1>1, <1>2, <2>1, <2>2 DEF LengthInv, Early, At, DurableInv
<1>8. RowInv'
  <2>1. \A o \in Threads : RowsOf(o)' \subseteq RowsOf(o)
    BY <1>1 DEF RowsOf
  <2>2. \A o \in Threads : \A row \in RowsOf(o) :
           row.uid \in Known' \/ engine'.dim \notin {0, row.dim}
    BY <1>2, <1>4 DEF RowInv, DurableInv
  <2> QED
    BY <1>1, <2>1, <2>2 DEF RowInv, Early, DurableInv
<1>9. DropInv'
  BY <1>1 DEF DropInv, DurableInv
<1> QED
  BY <1>2, <1>3, <1>6, <1>7, <1>8, <1>9 DEF DurableInv

\* What is published has been persisted; what the index does not accept is
\* not in it.
LEMMA DurablePublish ==
  ASSUME TypeInv, DurableInv, NEW t \in Threads, Publish(t)
  PROVE  DurableInv'
<1> DEFINE trace == [uid |-> threads[t].uid, dim |-> threads[t].dim, count |-> 0]
<1>1. threads[t] \in Thread /\ Ready(threads[t]) /\ threads[t].pc = "publish"
  BY DEF TypeInv, ReadyThread, Publish, At
<1>2. UNCHANGED <<ltm, issued, log>>
  BY DEF Publish, tables
<1>3. /\ threads[t].uid \in Known
      /\ \A o \in Threads : Early(o) /\ threads[o].uid = threads[t].uid => o = t
  BY <1>1 DEF DurableInv, EarlyInv, Early, At
<1>4. CASE Accepts(engine, trace.dim) /\ engine' = Ingested(engine, trace)
           /\ Goto(t, IF StmEnabled THEN "stash" ELSE "note")
  <2> DEFINE pc == IF StmEnabled THEN "stash" ELSE "note"
             th == [threads[t] EXCEPT !.pc = pc]
  <2>1. trace \in Trace
    BY <1>1 DEF Trace, Ready, Thread
  <2>2. threads' = [threads EXCEPT ![t] = th] /\ pc \in {"stash", "note"}
    BY <1>4 DEF Goto
  <2> HIDE DEF pc
  <2>3. th.pc = pc /\ th.rows = threads[t].rows
    BY <1>1 DEF Thread
  <2>4. {th.rows[i] : i \in DOMAIN th.rows} \subseteq RowsOf(t)
    BY <2>3 DEF RowsOf
  <2>5. trace.uid = threads[t].uid
    OBVIOUS
  <2>6. Accepts(engine, trace.dim) /\ engine' = Ingested(engine, trace)
    BY <1>4
  <2> HIDE DEF th, trace
  <2>7. /\ trace.uid \in Known
        /\ \A o \in Threads : Early(o) /\ threads[o].uid = trace.uid =>
              o = t \/ threads[o].dim = trace.dim
    BY <1>3, <2>5
  <2>8. th.pc \notin {"persist", "publish", "reject", "remove", "unstore"}
    BY <2>2, <2>3
  <2> QED
    BY <1>2, <2>1, <2>2, <2>4, <2>6, <2>7, <2>8, DurableIngest
<1>5. CASE ~Accepts(engine, trace.dim) /\ Goto(t, "reject") /\ UNCHANGED engine
  <2> DEFINE th == [threads[t] EXCEPT !.pc = "reject"]
  <2>1. threads' = [threads EXCEPT ![t] = th]
    BY <1>5 DEF Goto
  <2>2. /\ th.pc = "reject" /\ th.rows = threads[t].rows
        /\ th.uid = threads[t].uid /\ th.dim = threads[t].dim
    BY <1>1 DEF Thread
  <2>3. engine.dim \notin {0, threads[t].dim}
    BY <1>5 DEF Accepts
  <2> HIDE DEF th
  <2>4. threads'[t] = th /\ \A o \in Threads \ {t} : threads'[o] = threads[o]
    BY <2>1 DEF TypeInv
  <2>5. Known' = Known /\ Persisted' = Persisted
    BY <1>2 DEF Known, Persisted
  <2>6. EarlyInv'
    BY <1>1, <1>2, <2>2, <2>4, <2>5 DEF EarlyInv, Early, At, DurableInv
  <2>7. LengthInv'
    BY <1>1, <1>2, <1>5, <2>2, <2>3, <2>4, <2>5 DEF LengthInv, Early, At, DurableInv
  <2>8. RowInv'
    <3>1. \A o \in Threads : RowsOf(o)' = RowsOf(o)
      BY <2>2, <2>4 DEF RowsOf
    <3> QED
      BY <1>1, <1>2, <1>5, <2>2, <2>4, <2>5, <3>1 DEF RowInv, Early, DurableInv
  <2>9. DropInv'
    BY <1>2, <2>2, <2>4 DEF DropInv, DurableInv
  <2> QED
    BY <1>2, <1>5, <2>5, <2>6, <2>7, <2>8, <2>9 DEF DurableInv
<1> QED
  BY <1>4, <1>5 DEF Publish

\* A hydration ingests rows that are known, or that the index refuses.
LEMMA DurableLoad ==
  ASSUME TypeInv, DurableInv, NEW t \in Threads, Load(t)
  PROVE  DurableInv'
<1> DEFINE rows == threads[t].rows
<1>1. threads[t] \in Thread /\ Ready(threads[t]) /\ threads[t].pc = "load"
  BY DEF TypeInv, ReadyThread, Load, At
<1>2. rows \in Seq(Trace) /\ rows # <<>>
  BY <1>1 DEF Ready, Thread
<1>3. UNCHANGED <<ltm, issued, log>>
  BY DEF Load, tables
<1>4. CASE ~Accepts(engine, Head(rows).dim)
  BY <1>3, <1>4, TameReturn, Calm DEF Load
<1>5. CASE Accepts(engine, Head(rows).dim)
  <2>1. engine' = Ingested(engine, Head(rows))
    BY <1>5 DEF Load
  <2>2. Head(rows) \in Trace /\ Head(rows) \in RowsOf(t)
    <3>1. Head(rows) \in Trace
      BY <1>2, HeadTailProperties
    <3>2. Len(rows) \in Nat \ {0} /\ DOMAIN rows = 1 .. Len(rows)
      BY <1>2, EmptySeq, LenProperties
    <3>3. 1 \in DOMAIN rows
      BY <3>2
    <3>4. Head(rows) = rows[1]
      BY <1>2
    <3> QED
      BY <3>1, <3>3, <3>4 DEF RowsOf
  <2>3. /\ Head(rows).uid \in Known
        /\ \A o \in Threads : Early(o) /\ threads[o].uid = Head(rows).uid
              => threads[o].dim = Head(rows).dim
    BY <1>5, <2>2 DEF Accepts, RowInv, DurableInv
  <2>4. \E th : /\ threads' = [threads EXCEPT ![t] = th]
                /\ th.pc \in {"idle", "load"}
                /\ {th.rows[i] : i \in DOMAIN th.rows} \subseteq RowsOf(t)
    <3>1. CASE Return(t)
      <4>1. Idle.pc = "idle" /\ Idle.rows = <<>>
        BY DEF Idle
      <4>2. {Idle.rows[i] : i \in DOMAIN Idle.rows} \subseteq RowsOf(t)
        BY <4>1
      <4> QED
        BY <3>1, <4>1, <4>2 DEF Return
    <3>2. CASE threads' = [threads EXCEPT ![t].rows = Tail(rows)]
      <4> DEFINE rest == Tail(rows)
                 th == [threads[t] EXCEPT !.rows = rest]
      <4>1. \A i \in DOMAIN rest : rest[i] \in RowsOf(t)
        <5>1. /\ rest \in Seq(Trace) /\ Len(rest) = Len(rows) - 1
              /\ \A i \in 1 .. Len(rest) : rest[i] = rows[i + 1]
          BY <1>2, HeadTailProperties
        <5>2. DOMAIN rest = 1 .. Len(rest) /\ DOMAIN rows = 1 .. Len(rows)
          BY <1>2, <5>1, LenProperties
        <5>3. Len(rest) \in Nat /\ Len(rows) \in Nat
          BY <1>2, <5>1, LenProperties
        <5> HIDE DEF rest
        <5> DEFINE all == rows
        <5>4. \A i \in DOMAIN rest : i + 1 \in DOMAIN all /\ rest[i] = all[i + 1]
          BY <5>1, <5>2, <5>3
        <5> QED
          BY <5>4 DEF RowsOf
      <4>2. threads' = [threads EXCEPT ![t] = th]
        BY <3>2 DEF TypeInv
      <4> HIDE DEF rest
      <4>3. th.pc = "load" /\ th.rows = rest
        BY <1>1 DEF Thread
      <4>4. {th.rows[i] : i \in DOMAIN th.rows} \subseteq RowsOf(t)
        BY <4>1, <4>3
      <4> HIDE DEF th
      <4> QED
        BY <4>2, <4>3, <4>4
    <3> QED
      BY <1>5, <3>1, <3>2 DEF Load
  <2> DEFINE trace == Head(rows)
  <2>5. PICK th : /\ threads' = [threads EXCEPT ![t] = th]
                  /\ th.pc \in {"idle", "load"}
                  /\ {th.rows[i] : i \in DOMAIN th.rows} \subseteq RowsOf(t)
    BY <2>4
  <2>6. /\ trace \in Trace /\ trace.uid \in Known
        /\ Accepts(engine, trace.dim) /\ engine' = Ingested(engine, trace)
        /\ \A o \in Threads : Early(o) /\ threads[o].uid = trace.uid =>
              o = t \/ threads[o].dim = trace.dim
    BY <1>5, <2>1, <2>2, <2>3
  <2>7. th.pc \notin {"persist", "publish", "reject", "remove", "unstore"}
    BY <2>5
  <2> HIDE DEF trace
  <2> QED
    BY <1>3, <2>5, <2>6, <2>7, DurableIngest
<1> QED
  BY <1>4, <1>5

\* What a hydration reads is durable at that moment.
LEMMA DurableHydrate ==
  ASSUME TypeInv, DurableInv, NEW t \in Threads, NEW user \in Users,
         Hydrate(t, user)
  PROVE  DurableInv'
<1>1. PICK uids \in InOrder(user) :
        threads' = [o \in Threads |->
           IF o = t
           THEN [Idle EXCEPT !.pc = "load", !.user = user,
                   !.rows = [i \in DOMAIN uids |->
                       [uid |-> uids[i], dim |-> ltm[uids[i]].dim,
                        count |-> ltm[uids[i]].count]]]
           ELSE [threads[o] EXCEPT !.alone = @ /\ threads[o].uid \notin ToSet(uids)]]
  BY DEF Hydrate
<1>2. UNCHANGED <<engine, ltm, issued, log>>
  BY DEF Hydrate, tables
<1> DEFINE rows == [i \in DOMAIN uids |->
                       [uid |-> uids[i], dim |-> ltm[uids[i]].dim,
                        count |-> ltm[uids[i]].count]]
           th == [Idle EXCEPT !.pc = "load", !.user = user, !.rows = rows]
<1>3. threads'[t] = th
  BY <1>1
<1>4. th.pc = "load" /\ th.rows = rows
  BY DEF Idle
<1>5. \A i \in DOMAIN uids : uids[i] \in Persisted
  BY DEF InOrder
<1>6. ASSUME NEW i \in DOMAIN rows
      PROVE  rows[i].uid \in Persisted /\ rows[i].dim = ltm[rows[i].uid].dim
  BY <1>5
<1> HIDE DEF rows
<1> HIDE DEF th
<1>7. ASSUME NEW o \in Threads \ {t}
      PROVE  /\ threads'[o].pc = threads[o].pc /\ threads'[o].uid = threads[o].uid
             /\ threads'[o].dim = threads[o].dim /\ threads'[o].rows = threads[o].rows
  <2> DEFINE alone == threads[o].alone /\ threads[o].uid \notin ToSet(uids)
  <2>1. threads'[o] = [threads[o] EXCEPT !.alone = alone]
    BY <1>1
  <2> HIDE DEF alone
  <2>2. threads[o] \in Thread
    BY DEF TypeInv, ReadyThread
  <2> QED
    BY <2>1, <2>2 DEF Thread
<1>8. Known' = Known /\ Persisted' = Persisted
  BY <1>2 DEF Known, Persisted
<1>9. EarlyInv'
  BY <1>2, <1>3, <1>4, <1>7, <1>8 DEF EarlyInv, Early, At, DurableInv
<1>10. LengthInv'
  BY <1>2, <1>3, <1>4, <1>7, <1>8 DEF LengthInv, Early, At, DurableInv
<1>11. RowInv'
  <2>1. \A o \in Threads \ {t} : RowsOf(o)' = RowsOf(o)
    BY <1>7 DEF RowsOf
  <2>2. \A row \in RowsOf(t)' : row.uid \in Persisted /\ row.dim = ltm[row.uid].dim
    BY <1>3, <1>4, <1>6 DEF RowsOf
  <2>3. \A row \in RowsOf(t)' :
           /\ row.uid \in Known /\ row.uid <= issued
           /\ \A o \in Threads : Early(o) /\ threads[o].uid = row.uid =>
                 threads[o].pc # "persist" /\ threads[o].dim = row.dim
    BY <2>2 DEF DurableInv, EarlyInv, LengthInv, Early, At, Known
  <2>4. \A o \in Threads : Early(o)' => /\ Early(o) /\ threads'[o].uid = threads[o].uid
                                       /\ threads'[o].dim = threads[o].dim
                                       /\ threads'[o].pc = threads[o].pc
    BY <1>3, <1>4, <1>7 DEF Early
  <2> QED
    BY <1>2, <1>8, <2>1, <2>3, <2>4 DEF RowInv, DurableInv
<1>12. DropInv'
  BY <1>2, <1>3, <1>4, <1>7 DEF DropInv, DurableInv
<1> QED
  BY <1>2, <1>8, <1>9, <1>10, <1>11, <1>12 DEF DurableInv

\* A failure gives up what a thread carries, a restart what all of them do.
LEMMA DurableFaults ==
  ASSUME TypeInv, DurableInv,
         \/ \E t \in Threads : Fail(t)
         \/ \E u \in Uids : ExpireTrace(u)
         \/ \E e \in events : ExpireEvent(e)
         \/ Restart
  PROVE  DurableInv'
<1>1. ASSUME NEW t \in Threads, Fail(t) PROVE DurableInv'
  <2>1. Return(t) /\ UNCHANGED <<engine, ltm, issued>> /\ log'.dropped = log.dropped
    BY <1>1 DEF Fail, TypeInv, Log, tables
  <2> QED
    BY <2>1, TameReturn, Calm
<1>2. CASE UNCHANGED <<engine, ltm, threads, issued, log>>
  BY <1>2 DEF DurableInv, EarlyInv, LengthInv, RowInv, DropInv, RowsOf, Early,
              At, Known, Persisted
<1>3. CASE Restart
  <2>1. /\ threads' = [t \in Threads |-> Idle] /\ engine' = EmptyEngine
        /\ UNCHANGED <<ltm, issued>> /\ log'.dropped = log.dropped
    BY <1>3 DEF Restart, TypeInv, Log, tables
  <2>2. Idle.pc = "idle" /\ Idle.rows = <<>>
    BY DEF Idle
  <2>3. Indexed(engine') = {}
    BY <2>1 DEF Indexed, EmptyEngine
  <2>4. Known' = Known
    BY <2>1 DEF Known, Persisted
  <2>5. \A t \in Threads : threads'[t] = Idle
    BY <2>1
  <2>6. EarlyInv' /\ LengthInv' /\ DropInv'
    BY <2>2, <2>5 DEF EarlyInv, LengthInv, DropInv, Early, At
  <2>7. RowInv'
    BY <2>2, <2>5 DEF RowInv, RowsOf
  <2> QED
    BY <2>1, <2>3, <2>4, <2>6, <2>7 DEF DurableInv
<1> QED
  BY <1>1, <1>2, <1>3 DEF ExpireTrace, ExpireEvent

\* Nothing is indexed, known or on its way at first.
LEMMA DurableInit == Init => DurableInv
<1> SUFFICES ASSUME Init PROVE DurableInv
  OBVIOUS
<1>1. Idle.pc = "idle" /\ Idle.rows = <<>>
  BY DEF Idle
<1>2. \A t \in Threads : threads[t] = Idle
  BY DEF Init
<1>3. EarlyInv /\ LengthInv /\ DropInv
  BY <1>1, <1>2 DEF EarlyInv, LengthInv, DropInv, Early, At
<1>4. RowInv
  BY <1>1, <1>2 DEF RowInv, RowsOf
<1>5. Indexed(engine) = {} /\ Known = {}
  BY DEF Init, Indexed, EmptyEngine, Known, Persisted
<1> QED
  BY <1>3, <1>4, <1>5 DEF DurableInv

\* Every step of the system keeps the invariant.
LEMMA DurableStep == TypeInv /\ DurableInv /\ [Next]_vars => DurableInv'
<1> SUFFICES ASSUME TypeInv, DurableInv, [Next]_vars PROVE DurableInv'
  OBVIOUS
<1>1. ASSUME NEW t \in Threads, Calls(t) PROVE DurableInv'
  BY <1>1, DurableBegin, DurableEvents, DurableHydrate, DurableRecall,
     DurableForget DEF Calls
<1>2. ASSUME NEW t \in Threads, Continues(t) PROVE DurableInv'
  BY <1>2, DurablePersist, DurablePublish, DurableReject, DurableEvents,
     DurableRecall, DurableForget, DurableLoad DEF Continues
<1>3. CASE UNCHANGED vars
  BY <1>3 DEF vars, tables, DurableInv, EarlyInv, LengthInv, RowInv, DropInv,
              RowsOf, Early, At, Known, Persisted
<1> QED
  BY <1>1, <1>2, <1>3, DurableFaults DEF Next

\* A recall finds only what is durable, or was until somebody asked to forget
\* it, whatever dimensions, hydrations, failures and restarts come between
\* the check of an embedding, its row and its publication.
THEOREM DurableBeforeFound == Spec => []DurableFirst
<1>1. DurableInv => DurableFirst
  BY DEF DurableInv, DurableFirst, Known
<1> QED
  BY <1>1, TypeInit, TypeStep, DurableInit, DurableStep, PTL DEF Spec

=============================================================================
