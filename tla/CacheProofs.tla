----------------------------- MODULE CacheProofs -----------------------------
(***************************************************************************)
(* What OwnerCache and SessionContext guarantee for any number of          *)
(* processes, memories, contexts, commits and responses.                   *)
(***************************************************************************)
EXTENDS SessionContext, FiniteSetTheorems, SequenceTheorems, TLAPS

(***************************************************************************)
(* The inductive invariant of the owner cache                              *)
(***************************************************************************)
\* Records only change at a generation, and carry the one they changed at.
HistoryInv ==
    /\ history \in Seq([RecordIds -> Record])
    /\ history # <<>>
    /\ \A g \in 0 .. generation, r \in RecordIds :
          /\ At(g)[r].gen <= g
          /\ At(g)[r].status = "absent" <=> At(g)[r].gen = 0
    /\ \A g, h \in 0 .. generation, r \in RecordIds :
          g <= h => At(h)[r] = At(g)[r] \/ At(h)[r].gen > g

\* What a cache of generation g holds: the state of the records recs.
Reflects(cache, recs) ==
    /\ cache.rows = [r \in RecordIds |->
                        IF r \in Visible(recs) THEN recs[r].gen ELSE 0]
    /\ cache.vectors = Visible(recs)
    /\ cache.resident \in [RecordIds -> Nat]
    /\ \A r \in RecordIds : cache.resident[r] \in {0, cache.rows[r]}

\* The payload cache is finite and never beyond its limit.
Small(resident) ==
    /\ IsFiniteSet(Kept(resident))
    /\ Cardinality(Kept(resident)) <= PayloadCache

\* A cache a process may have while the database is at generation g.
CacheAt(cache, g) ==
    \/ cache = NoCache
    \/ /\ cache \in Cache
       /\ cache.gen \in 0 .. g
       /\ Reflects(cache, At(cache.gen))
       /\ Small(cache.resident)

CachesInv == \A p \in Services : CacheAt(caches[p], generation)

\* A graph that may be restored in generation g.
GraphAt(graph, g) ==
    \/ graph = NoSnapshot
    \/ /\ graph.gen \in 0 .. g
       /\ graph.active = Visible(At(graph.gen))

SavedInv == GraphAt(saved, generation)

\* An open call has seen a generation that was, its graph and the cache of its
\* process are not newer.
CallsInv ==
    \A p \in Services :
        LET call == calls[p]
        IN  /\ call.at <= generation
            /\ call.kind # "none" => GraphAt(call.snapshot, call.at)
            /\ call.kind \in {"read", "checkpoint"} => caches[p].gen <= call.at

CacheTyped ==
    /\ saved \in [gen : Int, active : SUBSET RecordIds]
    /\ caches \in [Services -> Cache]
    /\ calls \in [Services -> Call]
    /\ work \in 0 .. MaxWork

CacheInv == CacheTyped /\ HistoryInv /\ CachesInv /\ SavedInv /\ CallsInv

-----------------------------------------------------------------------------
(***************************************************************************)
(* Synchronisation                                                         *)
(***************************************************************************)

\* A generation that was has records; they are typed.
LEMMA AtTyped ==
  ASSUME HistoryInv, NEW g \in 0 .. generation
  PROVE  At(g) \in [RecordIds -> Record]
<1>1. history \in Seq([RecordIds -> Record]) /\ Len(history) \in Nat
  BY LenProperties DEF HistoryInv
<1>2. g + 1 \in 1 .. Len(history)
  BY <1>1 DEF generation
<1> QED
  BY <1>1, <1>2, ElementOfSeq DEF At

\* There is a current generation.
LEMMA GenerationNat ==
  ASSUME HistoryInv
  PROVE  generation \in Nat
<1>1. Len(history) \in Nat /\ Len(history) # 0
  BY LenProperties, EmptySeq DEF HistoryInv
<1> QED
  BY <1>1 DEF generation

\* sync() in generation g of a cache that reflects an earlier one: what
\* changed since is exactly what is newer.
LEMMA SyncedReflects ==
  ASSUME HistoryInv, NEW g \in 0 .. generation,
         NEW cache \in Cache, cache.gen \in 0 .. g,
         Reflects(cache, At(cache.gen)), Small(cache.resident)
  PROVE  /\ Synced(cache, -1, At(g), g) \in Cache
         /\ Synced(cache, -1, At(g), g).gen = g
         /\ Reflects(Synced(cache, -1, At(g), g), At(g))
         /\ Small(Synced(cache, -1, At(g), g).resident)
<1> DEFINE recs == At(g)
           old == At(cache.gen)
           changed == Changed(cache, recs)
           retired == Retired(cache, recs)
           updated == changed \ retired
           rows == [r \in RecordIds |->
                      IF r \in updated THEN recs[r].gen
                      ELSE Without(cache.rows, retired)[r]]
           vectors == (cache.vectors \ retired)
                         \cup {r \in updated : recs[r].gen > -1}
           resident == Without(cache.resident, changed \cup retired)
           new == [gen |-> g, rows |-> rows, vectors |-> vectors,
                   resident |-> resident]
<1>1. CASE cache.gen = g
  BY <1>1 DEF Synced
<1>2. CASE cache.gen # g
  <2>1. Synced(cache, -1, recs, g) = new
    BY <1>2 DEF Synced
  <2>2. generation \in Nat /\ g \in Nat /\ cache.gen \in Nat /\ cache.gen \in 0 .. generation
    BY GenerationNat
  <2>3. recs \in [RecordIds -> Record] /\ old \in [RecordIds -> Record]
    BY <2>2, AtTyped
  <2>4. /\ cache.rows = [r \in RecordIds |->
                           IF r \in Visible(old) THEN old[r].gen ELSE 0]
        /\ cache.vectors = Visible(old)
        /\ cache.resident \in [RecordIds -> Nat]
        /\ \A r \in RecordIds : cache.resident[r] \in {0, cache.rows[r]}
    BY DEF Reflects
  <2>5. ASSUME NEW r \in RecordIds
        PROVE  /\ recs[r] = old[r] \/ recs[r].gen > cache.gen
               /\ old[r].gen <= cache.gen
               /\ recs[r].status = "absent" <=> recs[r].gen = 0
               /\ recs[r].gen \in Nat /\ old[r].gen \in Nat
               /\ recs[r].status \in RecordStatuses
    <3>1. cache.gen <= g
      OBVIOUS
    <3> QED
      BY <2>2, <2>3, <3>1 DEF HistoryInv, Record
  <2>6. ASSUME NEW r \in RecordIds
        PROVE  /\ r \in updated => r \in Visible(recs)
               /\ r \in retired => r \notin Visible(recs)
               /\ r \notin changed \cup retired =>
                    (r \in Visible(recs) <=> r \in Visible(old))
               /\ r \notin changed \cup retired /\ r \in Visible(recs) =>
                    recs[r] = old[r]
    <3> HIDE DEF recs, old
    <3> QED
      BY <2>2, <2>5 DEF Changed, Retired, Visible, Stored, RecordStatuses
  <2>7. changed \subseteq RecordIds /\ retired \subseteq RecordIds
    BY DEF Changed, Retired, Stored
  <2> HIDE DEF changed, retired, recs, old
  <2>8. rows = [r \in RecordIds |-> IF r \in Visible(recs) THEN recs[r].gen ELSE 0]
    BY <2>4, <2>5, <2>6, <2>7 DEF Without
  <2>9. vectors = Visible(recs)
    <3>1. Visible(recs) \subseteq RecordIds /\ Visible(old) \subseteq RecordIds
      BY DEF Visible
    <3>2. \A r \in updated : recs[r].gen > -1
      BY <2>5, <2>7
    <3> QED
      BY <2>4, <2>6, <2>7, <3>1, <3>2
  <2>10. /\ resident \in [RecordIds -> Nat]
         /\ \A r \in RecordIds : resident[r] \in {0, cache.resident[r]}
    BY <2>4 DEF Without
  <2>11. \A r \in RecordIds : resident[r] \in {0, rows[r]}
    <3>1. ASSUME NEW r \in RecordIds
          PROVE  resident[r] \in {0, rows[r]}
      <4>1. CASE r \in changed \cup retired
        BY <4>1 DEF Without
      <4>2. CASE r \notin changed \cup retired
        BY <4>2, <2>4 DEF Without
      <4> QED
        BY <4>1, <4>2
    <3> QED
      BY <3>1
  <2>12. Small(resident)
    <3>1. Kept(resident) \subseteq Kept(cache.resident)
      BY <2>10 DEF Kept
    <3>2. /\ IsFiniteSet(Kept(resident))
          /\ Cardinality(Kept(resident)) <= Cardinality(Kept(cache.resident))
      BY <3>1, FS_Subset DEF Small
    <3>3. Cardinality(Kept(resident)) \in Nat /\ Cardinality(Kept(cache.resident)) \in Nat
      BY <3>2, FS_CardinalityType DEF Small
    <3> QED
      BY <3>2, <3>3, CacheBounds DEF Small
  <2>13. rows \in [RecordIds -> Nat] /\ vectors \in SUBSET RecordIds
    BY <2>5, <2>8, <2>9 DEF Visible
  <2> HIDE DEF rows, vectors, resident
  <2>14. new \in Cache /\ new.gen = g /\ Reflects(new, recs) /\ Small(new.resident)
    BY <2>2, <2>8, <2>9, <2>10, <2>11, <2>12, <2>13 DEF Cache, Reflects
  <2> HIDE DEF new
  <2> QED
    BY <2>1, <2>14 DEF recs
<1> QED
  BY <1>1, <1>2

\* The first synchronisation of a process, from a saved graph of an earlier
\* generation, or from none: what the graph has too much is pruned, what it
\* misses is newer.
LEMMA HydratedReflects ==
  ASSUME HistoryInv, NEW g \in 0 .. generation, NEW graph, GraphAt(graph, g)
  PROVE  /\ Hydrated(graph, At(g), g) \in Cache
         /\ Hydrated(graph, At(g), g).gen = g
         /\ Reflects(Hydrated(graph, At(g), g), At(g))
         /\ Small(Hydrated(graph, At(g), g).resident)
<1> DEFINE recs == At(g)
           fresh == [gen |-> -1, rows |-> Nothing, vectors |-> graph.active,
                     resident |-> Nothing]
           changed == Changed(fresh, recs)
           retired == Retired(fresh, recs)
           updated == changed \ retired
           rows == [r \in RecordIds |->
                      IF r \in updated THEN recs[r].gen
                      ELSE Without(Nothing, retired)[r]]
           vectors == (graph.active \ retired)
                         \cup {r \in updated : recs[r].gen > graph.gen}
           resident == Without(Nothing, changed \cup retired)
           synced == [gen |-> g, rows |-> rows, vectors |-> vectors,
                      resident |-> resident]
           members == {r \in RecordIds : rows[r] # 0}
           new == [gen |-> g, rows |-> rows, vectors |-> vectors \cap members,
                   resident |-> resident]
<1>1. generation \in Nat /\ g \in Nat /\ recs \in [RecordIds -> Record]
  BY GenerationNat, AtTyped
<1>2. [FreshCache EXCEPT !.vectors = graph.active] = fresh
  BY DEF FreshCache
<1>3. Synced(fresh, graph.gen, recs, g) = synced
  BY <1>1 DEF Synced
<1>4. Hydrated(graph, recs, g) = new
  <2>1. Members(synced) = members
    BY DEF Members
  <2>2. [synced EXCEPT !.vectors = @ \cap members] = new
    <3> HIDE DEF rows, vectors, members, resident
    <3> QED
      OBVIOUS
  <2> HIDE DEF synced, new, members, fresh, recs
  <2> QED
    BY <1>2, <1>3, <2>1, <2>2 DEF Hydrated
<1>5. \A r \in RecordIds : /\ recs[r].gen \in Nat /\ recs[r].gen <= g
                           /\ recs[r].status \in RecordStatuses
                           /\ recs[r].status = "absent" <=> recs[r].gen = 0
  BY <1>1 DEF HistoryInv, Record
<1>6. updated = Visible(recs)
  <2>1. fresh.gen = -1
    OBVIOUS
  <2> HIDE DEF fresh, recs
  <2> QED
    BY <1>5, <2>1 DEF Changed, Retired, Visible, Stored, RecordStatuses
<1>7. Visible(recs) \subseteq RecordIds /\ \A r \in Visible(recs) : recs[r].gen > 0
  BY <1>5 DEF Visible
<1>8. \A r \in Visible(recs) : recs[r].gen <= graph.gen => r \in graph.active
  <2>1. CASE graph = NoSnapshot
    BY <1>5, <1>7, <2>1 DEF NoSnapshot
  <2>2. CASE graph.gen \in 0 .. g /\ graph.active = Visible(At(graph.gen))
    <3>1. \A r \in RecordIds : recs[r] = At(graph.gen)[r] \/ recs[r].gen > graph.gen
      BY <1>1, <2>2 DEF HistoryInv
    <3>2. graph.gen \in Nat
      BY <2>2
    <3> HIDE DEF recs
    <3> QED
      BY <1>5, <2>2, <3>1, <3>2 DEF Visible
  <2> QED
    BY <2>1, <2>2 DEF GraphAt
<1>9. graph.gen \in Int
  BY <1>1 DEF GraphAt, NoSnapshot
<1> HIDE DEF recs, changed
<1>10. rows = [r \in RecordIds |-> IF r \in Visible(recs) THEN recs[r].gen ELSE 0]
  BY <1>6 DEF Without, Nothing
<1>11. members = Visible(recs)
  <2>1. \A r \in RecordIds : rows[r] # 0 <=> r \in Visible(recs)
    BY <1>5, <1>7, <1>10
  <2> HIDE DEF rows
  <2> QED
    BY <1>7, <2>1
<1>12. vectors \cap members = Visible(recs)
  <2>1. \A r \in Visible(recs) : r \in vectors
    <3>1. \A r \in Visible(recs) : r \in updated /\ r \notin retired
      BY <1>6
    <3> HIDE DEF updated, retired
    <3> QED
      BY <1>5, <1>7, <1>8, <1>9, <3>1
  <2> HIDE DEF vectors, members
  <2> QED
    BY <1>11, <2>1
<1>13. resident = Nothing
  BY DEF Without, Nothing
<1>14. Small(Nothing)
  <2>1. Kept(Nothing) = {}
    BY DEF Kept, Nothing
  <2> QED
    BY <2>1, FS_EmptySet, CacheBounds DEF Small
<1>15. rows \in [RecordIds -> Nat]
  BY <1>5, <1>10
<1>16. Nothing \in [RecordIds -> Nat] /\ \A r \in RecordIds : Nothing[r] = 0
  BY DEF Nothing
<1> HIDE DEF rows, vectors, members, resident
<1>17. new \in Cache /\ new.gen = g /\ Reflects(new, recs) /\ Small(new.resident)
  BY <1>1, <1>7, <1>10, <1>12, <1>13, <1>14, <1>15, <1>16 DEF Cache, Reflects
<1> HIDE DEF new
<1> QED
  BY <1>4, <1>17 DEF recs

\* MemoryService._snapshot leaves the cache of the generation its transaction
\* sees, whichever cache and graph it starts from.
LEMMA SnapshotReflects ==
  ASSUME HistoryInv, NEW g \in 0 .. generation,
         NEW cache, CacheAt(cache, g), NEW graph, GraphAt(graph, g)
  PROVE  LET new == Snapshot(cache, graph, g)
         IN  /\ new \in Cache
             /\ new.gen = g
             /\ Reflects(new, At(g))
             /\ Small(new.resident)
<1>1. CASE cache = NoCache
  BY <1>1, HydratedReflects DEF Snapshot
<1>2. CASE cache # NoCache
  BY <1>2, SyncedReflects DEF Snapshot, CacheAt
<1> QED
  BY <1>1, <1>2

\* A fetched payload is of the revision the header is of, and finds room.
LEMMA FetchedReflects ==
  ASSUME HistoryInv, NEW g \in 0 .. generation,
         NEW cache \in Cache, cache.gen = g, Reflects(cache, At(g)),
         Small(cache.resident), NEW r \in RecordIds,
         NEW resident \in Fetched(cache, r, At(g))
  PROVE  CacheAt([cache EXCEPT !.resident = resident], g)
<1> DEFINE kept == Kept(cache.resident)
           new == [cache EXCEPT !.resident = resident]
<1>1. /\ generation \in Nat /\ g \in Nat
      /\ At(g) \in [RecordIds -> Record]
      /\ cache.resident \in [RecordIds -> Nat]
      /\ cache.rows = [i \in RecordIds |->
                         IF i \in Visible(At(g)) THEN At(g)[i].gen ELSE 0]
      /\ \A i \in RecordIds : cache.resident[i] \in {0, cache.rows[i]}
      /\ IsFiniteSet(kept) /\ Cardinality(kept) \in Nat
      /\ Cardinality(kept) <= PayloadCache
  BY GenerationNat, AtTyped, FS_CardinalityType DEF Reflects, Small
<1>2. /\ resident \in [RecordIds -> Nat]
      /\ \A i \in RecordIds : resident[i] \in {0, cache.rows[i]}
      /\ Small(resident)
  <2>1. CASE resident = cache.resident
    BY <1>1, <2>1 DEF Small
  <2>2. ASSUME r \in Members(cache) \ kept, PayloadCache # 0,
               NEW v \in IF Cardinality(kept) = PayloadCache
                           THEN {{w} : w \in kept} ELSE {{}},
               resident = [Without(cache.resident, v) EXCEPT ![r] = At(g)[r].gen]
        PROVE  /\ resident \in [RecordIds -> Nat]
               /\ \A i \in RecordIds : resident[i] \in {0, cache.rows[i]}
               /\ Small(resident)
    <3>1. cache.rows[r] = At(g)[r].gen /\ At(g)[r].gen \in Nat
      BY <1>1, <2>2 DEF Members, Record
    <3>2. /\ Without(cache.resident, v) \in [RecordIds -> Nat]
          /\ \A i \in RecordIds :
                Without(cache.resident, v)[i] = IF i \in v THEN 0 ELSE cache.resident[i]
      BY <1>1 DEF Without
    <3>3. /\ resident \in [RecordIds -> Nat]
          /\ \A i \in RecordIds : resident[i] \in {0, cache.rows[i]}
      BY <1>1, <2>2, <3>1, <3>2
    <3>4. /\ Kept(resident) \subseteq (kept \ v) \cup {r}
          /\ kept \subseteq RecordIds
      BY <2>2, <3>2 DEF Kept
    <3>5. IsFiniteSet(kept \ v) /\ Cardinality(kept \ v) \in Nat
          /\ Cardinality(kept \ v) + 1 <= PayloadCache
      <4>1. CASE Cardinality(kept) = PayloadCache
        <5>1. PICK w \in kept : v = {w}
          BY <2>2, <4>1
        <5>2. /\ IsFiniteSet(kept \ {w})
              /\ Cardinality(kept \ {w}) = Cardinality(kept) - 1
          BY <1>1, <5>1, FS_RemoveElement
        <5>3. Cardinality(kept \ {w}) \in Nat
          BY <5>2, FS_CardinalityType
        <5> HIDE DEF kept
        <5> QED
          BY <1>1, <4>1, <5>1, <5>2, <5>3
      <4>2. CASE Cardinality(kept) # PayloadCache
        <5>1. v = {} /\ kept \ v = kept
          BY <2>2, <4>2
        <5> HIDE DEF kept
        <5> QED
          BY <1>1, <4>2, <5>1, CacheBounds
      <4> QED
        BY <4>1, <4>2
    <3>6. /\ IsFiniteSet((kept \ v) \cup {r})
          /\ Cardinality((kept \ v) \cup {r}) = Cardinality(kept \ v) + 1
      <4>1. r \notin kept \ v
        BY <2>2
      <4> HIDE DEF kept
      <4> QED
        BY <3>5, <4>1, FS_AddElement
    <3>7. /\ IsFiniteSet(Kept(resident))
          /\ Cardinality(Kept(resident)) <= Cardinality((kept \ v) \cup {r})
      BY <3>4, <3>6, FS_Subset
    <3>8. Cardinality(Kept(resident)) \in Nat
      BY <3>7, FS_CardinalityType
    <3> DEFINE few == Cardinality(Kept(resident))
               rest == Cardinality(kept \ v)
               sum == Cardinality((kept \ v) \cup {r})
    <3>9. /\ few \in Nat /\ rest \in Nat /\ sum = rest + 1 /\ few <= sum
          /\ rest + 1 <= PayloadCache
      BY <3>5, <3>6, <3>7, <3>8
    <3> HIDE DEF few, rest, sum
    <3>10. few <= PayloadCache
      BY <3>9, CacheBounds
    <3> QED
      BY <3>3, <3>7, <3>10 DEF few, Small
  <2> QED
    BY <2>1, <2>2 DEF Fetched
<1>3. new \in Cache /\ new.gen = g /\ new.rows = cache.rows
      /\ new.vectors = cache.vectors /\ new.resident = resident
  BY <1>2 DEF Cache
<1> HIDE DEF new
<1>4. Reflects(new, At(g))
  BY <1>2, <1>3 DEF Reflects
<1>5. new.gen \in 0 .. g
  BY <1>1, <1>3
<1> QED
  BY <1>2, <1>3, <1>4, <1>5 DEF CacheAt, new

-----------------------------------------------------------------------------
(***************************************************************************)
(* Steps of the cache                                                      *)
(***************************************************************************)
\* No generation that was is written again.
Extends ==
    /\ generation' \in Nat
    /\ generation <= generation'
    /\ \A g \in 0 .. generation : At(g)' = At(g)

\* Every step of a process changes at most its own cache and call, in a
\* database that only grows.
LEMMA Updated ==
  ASSUME CacheInv, HistoryInv', Extends, NEW p \in Services,
         NEW cache \in Cache, NEW g \in 0 .. generation, CacheAt(cache, g),
         caches' = [caches EXCEPT ![p] = cache],
         NEW call \in Call, calls' = [calls EXCEPT ![p] = call],
         call.at <= generation,
         call.kind # "none" => GraphAt(call.snapshot, call.at),
         call.kind \in {"read", "checkpoint"} => cache.gen <= call.at,
         NEW graph \in [gen : Int, active : SUBSET RecordIds],
         GraphAt(graph, generation), saved' = graph,
         work' \in 0 .. MaxWork
  PROVE  CacheInv'
<1>1. /\ caches \in [Services -> Cache] /\ calls \in [Services -> Call]
      /\ CachesInv /\ CallsInv /\ generation \in Nat
  BY GenerationNat DEF CacheInv, CacheTyped
<1>2. CacheTyped'
  BY <1>1 DEF CacheTyped
<1>3. /\ generation' \in Nat /\ generation <= generation'
      /\ \A h \in 0 .. generation : At(h)' = At(h)
  BY DEF Extends
<1>4. ASSUME NEW c, NEW h \in 0 .. generation, CacheAt(c, h)
      PROVE  \/ c = NoCache
             \/ /\ c \in Cache
                /\ c.gen \in 0 .. generation'
                /\ c.gen \in 0 .. generation
                /\ Reflects(c, At(c.gen))
                /\ Small(c.resident)
  BY <1>1, <1>3, <1>4 DEF CacheAt
<1>5. ASSUME NEW q \in Services
      PROVE  CacheAt(caches[q], generation)'
  <2>1. PICK c : (\E h \in 0 .. generation : CacheAt(c, h)) /\ caches'[q] = c
    <3>1. CASE q = p
      BY <1>1, <3>1
    <3>2. CASE q # p
      <4>1. CacheAt(caches[q], generation) /\ generation \in 0 .. generation
        BY <1>1 DEF CachesInv
      <4> QED
        BY <1>1, <3>2, <4>1
    <3> QED
      BY <3>1, <3>2
  <2>2. CASE c = NoCache
    BY <2>1, <2>2 DEF CacheAt
  <2>3. CASE c # NoCache
    <3>1. /\ c \in Cache /\ c.gen \in 0 .. generation' /\ c.gen \in 0 .. generation
          /\ Reflects(c, At(c.gen)) /\ Small(c.resident)
      BY <1>4, <2>1, <2>3
    <3>2. At(c.gen)' = At(c.gen)
      BY <1>3, <3>1
    <3> QED
      BY <2>1, <3>1, <3>2 DEF CacheAt
  <2> QED
    BY <2>2, <2>3
<1>6. ASSUME NEW c, NEW h \in 0 .. generation, GraphAt(c, h)
      PROVE  \/ c = NoSnapshot
             \/ /\ c.gen \in 0 .. h
                /\ c.gen \in 0 .. generation
                /\ c.active = Visible(At(c.gen))
  BY <1>1, <1>6 DEF GraphAt
<1>7. SavedInv'
  <2>1. generation \in 0 .. generation
    BY <1>1
  <2>2. CASE graph = NoSnapshot
    BY <2>2 DEF SavedInv, GraphAt
  <2>3. CASE graph # NoSnapshot
    <3>1. graph.gen \in 0 .. generation /\ graph.active = Visible(At(graph.gen))
      BY <1>6, <2>1, <2>3
    <3>2. At(graph.gen)' = At(graph.gen) /\ graph.gen \in 0 .. generation'
      BY <1>1, <1>3, <3>1
    <3> QED
      BY <3>1, <3>2 DEF SavedInv, GraphAt
  <2> QED
    BY <2>2, <2>3
<1>8. ASSUME NEW q \in Services
      PROVE  (LET other == calls[q]
              IN  /\ other.at <= generation
                  /\ other.kind # "none" => GraphAt(other.snapshot, other.at)
                  /\ other.kind \in {"read", "checkpoint"} =>
                        caches[q].gen <= other.at)'
  <2>1. PICK other \in Call :
           /\ calls'[q] = other
           /\ other.at <= generation
           /\ other.kind # "none" => GraphAt(other.snapshot, other.at)
           /\ other.kind \in {"read", "checkpoint"} => caches'[q].gen <= other.at
    <3>1. CASE q = p
      BY <1>1, <3>1
    <3>2. CASE q # p
      BY <1>1, <3>2 DEF CallsInv
    <3> QED
      BY <3>1, <3>2
  <2>2. other.at \in Nat /\ other.at \in 0 .. generation /\ other.at <= generation'
    BY <1>1, <1>3, <2>1 DEF Call
  <2>3. ASSUME other.kind # "none"
        PROVE  GraphAt(calls[q].snapshot, calls[q].at)'
    <3>1. CASE other.snapshot = NoSnapshot
      BY <2>1, <3>1 DEF GraphAt
    <3>2. CASE other.snapshot # NoSnapshot
      <4>1. /\ other.snapshot.gen \in 0 .. other.at
            /\ other.snapshot.gen \in 0 .. generation
            /\ other.snapshot.active = Visible(At(other.snapshot.gen))
        BY <1>6, <2>1, <2>2, <2>3, <3>2
      <4>2. At(other.snapshot.gen)' = At(other.snapshot.gen)
        BY <1>3, <4>1
      <4> QED
        BY <2>1, <4>1, <4>2 DEF GraphAt
    <3> QED
      BY <3>1, <3>2
  <2> QED
    BY <2>1, <2>2, <2>3
<1>9. CachesInv' /\ CallsInv'
  BY <1>5, <1>8 DEF CachesInv, CallsInv
<1> QED
  BY <1>2, <1>7, <1>9 DEF CacheInv

\* Where nothing is committed, every generation stays.
LEMMA HistoryStays ==
  ASSUME HistoryInv, history' = history
  PROVE  HistoryInv' /\ Extends /\ generation' = generation
<1>1. generation' = generation /\ generation \in Nat
  BY GenerationNat DEF generation
<1>2. \A g : At(g)' = At(g)
  BY DEF At
<1>3. HistoryInv'
  BY <1>1, <1>2 DEF HistoryInv
<1> QED
  BY <1>1, <1>2, <1>3 DEF Extends

\* A commit keeps the generations that were and adds one, whose changed
\* records carry it.
LEMMA HistoryGrows ==
  ASSUME HistoryInv, NEW recs \in [RecordIds -> Record],
         \A r \in RecordIds :
            \/ recs[r] = At(generation)[r]
            \/ recs[r].gen = generation + 1 /\ recs[r].status # "absent",
         history' = Append(history, recs)
  PROVE  HistoryInv' /\ Extends
<1> DEFINE now == generation
<1>1. /\ history \in Seq([RecordIds -> Record]) /\ Len(history) \in Nat
      /\ now \in Nat /\ Len(history) = now + 1
  BY GenerationNat, LenProperties DEF HistoryInv, generation
<1>2. /\ history' \in Seq([RecordIds -> Record])
      /\ Len(history') = Len(history) + 1
      /\ \A i \in 1 .. Len(history) : history'[i] = history[i]
      /\ history'[Len(history) + 1] = recs
  BY <1>1, AppendProperties
<1>3. generation' = now + 1
  BY <1>1, <1>2 DEF generation
<1>4. \A g \in 0 .. now : At(g)' = At(g)
  BY <1>1, <1>2 DEF At
<1>5. \A g \in {now + 1} : At(g)' = recs
  BY <1>1, <1>2 DEF At
<1>6. history' # <<>>
  BY <1>1, <1>2, EmptySeq
<1>7. At(now) \in [RecordIds -> Record] /\ now \in 0 .. now
  BY <1>1, AtTyped
<1>8. \A g \in 0 .. now + 1 : g \in 0 .. now \/ g = now + 1
  BY <1>1
<1>9. ASSUME NEW r \in RecordIds
      PROVE  /\ recs[r].gen \in Nat /\ recs[r].gen <= now + 1
             /\ recs[r].status = "absent" <=> recs[r].gen = 0
  <2>1. recs[r] \in Record /\ At(now)[r] \in Record
    BY <1>7
  <2>2. At(now)[r].gen <= now /\ (At(now)[r].status = "absent" <=> At(now)[r].gen = 0)
    BY <1>7 DEF HistoryInv
  <2> HIDE DEF now
  <2> QED
    BY <1>1, <2>1, <2>2 DEF Record, now
<1>10. ASSUME NEW g \in 0 .. now + 1, NEW r \in RecordIds
       PROVE  (/\ At(g)[r].gen <= g
               /\ At(g)[r].status = "absent" <=> At(g)[r].gen = 0)'
  <2>1. CASE g \in 0 .. now
    <3>1. At(g)' = At(g)
      BY <1>4, <2>1
    <3>2. At(g)[r].gen <= g /\ (At(g)[r].status = "absent" <=> At(g)[r].gen = 0)
      BY <2>1 DEF HistoryInv
    <3> QED
      BY <3>1, <3>2
  <2>2. CASE g = now + 1
    BY <1>5, <1>9, <2>2
  <2> QED
    BY <1>8, <2>1, <2>2
<1>11. ASSUME NEW g \in 0 .. now + 1, NEW h \in 0 .. now + 1,
              NEW r \in RecordIds, g <= h
       PROVE  (At(h)[r] = At(g)[r] \/ At(h)[r].gen > g)'
  <2>1. CASE h \in 0 .. now
    <3>1. g \in 0 .. now
      BY <1>1, <1>11, <2>1
    <3>2. At(g)' = At(g) /\ At(h)' = At(h)
      BY <1>4, <2>1, <3>1
    <3>3. At(h)[r] = At(g)[r] \/ At(h)[r].gen > g
      BY <1>11, <2>1, <3>1 DEF HistoryInv
    <3> QED
      BY <3>2, <3>3
  <2>2. CASE h = now + 1 /\ g = now + 1
    BY <1>5, <2>2
  <2>3. CASE h = now + 1 /\ g \in 0 .. now
    <3>1. At(h)' = recs /\ At(g)' = At(g)
      BY <1>4, <1>5, <2>3
    <3>2. At(now)[r] = At(g)[r] \/ At(now)[r].gen > g
      BY <1>1, <1>7, <2>3 DEF HistoryInv
    <3>3. recs[r] = At(now)[r] \/ recs[r].gen > g
      BY <1>1, <2>3
    <3> QED
      BY <3>1, <3>2, <3>3
  <2> QED
    BY <1>8, <2>1, <2>2, <2>3
<1>12. HistoryInv'
  BY <1>2, <1>3, <1>6, <1>10, <1>11 DEF HistoryInv
<1> QED
  BY <1>1, <1>3, <1>4, <1>12 DEF Extends

\* What apply_reconciliation and dream.apply write carries the new generation.
LEMMA ChangesCarry ==
  ASSUME NEW recs \in [RecordIds -> Record], NEW gen \in Nat,
         NEW c \in Change, (c.id = NoId) = (c.op = "none"),
         (c.target = NoId) = ~HasTarget(c.op)
  PROVE  /\ ApplyChange(recs, c, gen) \in [RecordIds -> Record]
         /\ \A r \in RecordIds :
               \/ ApplyChange(recs, c, gen)[r] = recs[r]
               \/ /\ ApplyChange(recs, c, gen)[r].gen = gen
                  /\ ApplyChange(recs, c, gen)[r].status # "absent"
<1>1. /\ c.op # "none" => c.id \in RecordIds
      /\ c.op \notin {"none", "create"} => c.target \in RecordIds
      /\ c.op \in Ops
  BY DEF Change, HasTarget
<1>2. ASSUME NEW s \in {"active", "disputed", "superseded"}
      PROVE  /\ Put(s, gen) \in Record
             /\ Put(s, gen).gen = gen /\ Put(s, gen).status # "absent"
  BY DEF Put, Record, RecordStatuses
<1> DEFINE Carries(next) ==
             /\ next \in [RecordIds -> Record]
             /\ \A r \in RecordIds :
                   \/ next[r] = recs[r]
                   \/ next[r].gen = gen /\ next[r].status # "absent"
<1>3. ASSUME NEW i \in RecordIds, NEW s \in {"active", "disputed", "superseded"}
      PROVE  Carries([recs EXCEPT ![i] = Put(s, gen)])
  BY <1>2
<1>4. ASSUME NEW i \in RecordIds, NEW j \in RecordIds,
             NEW s \in {"active", "disputed", "superseded"},
             NEW t \in {"active", "disputed", "superseded"}
      PROVE  Carries([recs EXCEPT ![i] = Put(s, gen), ![j] = Put(t, gen)])
  BY <1>2
<1>5. Carries(recs)
  OBVIOUS
<1> HIDE DEF Carries
<1>6. Carries(ApplyChange(recs, c, gen))
  <2>1. CASE c.op = "none"
    BY <1>5, <2>1 DEF ApplyChange
  <2>2. CASE c.op \in {"create", "exception"}
    <3>1. ApplyChange(recs, c, gen) = [recs EXCEPT ![c.id] = Put("active", gen)]
      BY <2>2 DEF ApplyChange
    <3> QED
      BY <1>1, <1>3, <2>2, <3>1
  <2>3. CASE c.op \in {"attach_exact", "attach"}
    <3>1. ApplyChange(recs, c, gen) = [recs EXCEPT ![c.target] = Put("active", gen)]
      BY <2>3 DEF ApplyChange
    <3> QED
      BY <1>1, <1>3, <2>3, <3>1
  <2>4. CASE c.op = "supersede"
    <3>1. ApplyChange(recs, c, gen) =
             [recs EXCEPT ![c.target] = Put("superseded", gen),
                          ![c.id] = Put("active", gen)]
      BY <2>4 DEF ApplyChange
    <3> QED
      BY <1>1, <1>4, <2>4, <3>1
  <2>5. CASE c.op = "conflict"
    <3>1. ApplyChange(recs, c, gen) =
             [recs EXCEPT ![c.target] = Put("disputed", gen),
                          ![c.id] = Put("disputed", gen)]
      BY <2>5 DEF ApplyChange
    <3> QED
      BY <1>1, <1>4, <2>5, <3>1
  <2>6. CASE c.op = "merge"
    <3>1. ApplyChange(recs, c, gen) =
             [recs EXCEPT ![c.target] = Put("active", gen),
                          ![c.id] = Put("superseded", gen)]
      BY <2>6 DEF ApplyChange
    <3> QED
      BY <1>1, <1>4, <2>6, <3>1
  <2> QED
    BY <1>1, <2>1, <2>2, <2>3, <2>4, <2>5, <2>6 DEF Ops
<1> QED
  BY <1>6 DEF Carries

-----------------------------------------------------------------------------
(***************************************************************************)
(* The operations of a process keep the invariant                          *)
(***************************************************************************)
\* The processes start without caches, in generation 1.
LEMMA CacheInvInit == CacheInit => CacheInv
<1> SUFFICES ASSUME CacheInit PROVE CacheInv
  OBVIOUS
<1> DEFINE before == [r \in RecordIds |-> Put("absent", 0)]
           after == [r \in RecordIds |-> IF r \in Existing THEN Put("active", 1)
                                         ELSE Put("absent", 0)]
<1>1. before \in [RecordIds -> Record] /\ after \in [RecordIds -> Record]
  BY DEF Put, Record, RecordStatuses
<1>2. \A r \in RecordIds :
        /\ before[r].gen = 0 /\ before[r].status = "absent"
        /\ \/ after[r].gen = 0 /\ after[r].status = "absent" /\ after[r] = before[r]
           \/ after[r].gen = 1 /\ after[r].status = "active"
  BY DEF Put
<1>3. history = <<before, after>>
  BY DEF CacheInit
<1> HIDE DEF before, after
<1>4. /\ history \in Seq([RecordIds -> Record]) /\ history # <<>>
      /\ generation = 1
  BY <1>1, <1>3 DEF generation
<1>5. At(0) = before /\ At(1) = after
  BY <1>3 DEF At
<1>6. \A g \in 0 .. 1 : g = 0 \/ g = 1
  OBVIOUS
<1>7. HistoryInv
  <2>1. ASSUME NEW g \in 0 .. 1, NEW r \in RecordIds
        PROVE  /\ At(g)[r].gen <= g
               /\ At(g)[r].status = "absent" <=> At(g)[r].gen = 0
    BY <1>2, <1>5, <1>6
  <2>2. ASSUME NEW g \in 0 .. 1, NEW h \in 0 .. 1, NEW r \in RecordIds, g <= h
        PROVE  At(h)[r] = At(g)[r] \/ At(h)[r].gen > g
    BY <1>2, <1>5, <1>6, <2>2
  <2> QED
    BY <1>4, <2>1, <2>2 DEF HistoryInv
<1>8. CacheTyped
  <2>1. FreshCache \in Cache /\ NoCache \in Cache
    BY DEF FreshCache, NoCache, Cache, Nothing
  <2>2. NoSnapshot \in [gen : Int, active : SUBSET RecordIds] /\ NoCall \in Call
    BY DEF NoSnapshot, NoCall, Call
  <2> QED
    BY <2>1, <2>2, CacheBounds DEF CacheInit, CacheTyped
<1>9. CachesInv /\ SavedInv /\ CallsInv
  BY <1>4 DEF CacheInit, CachesInv, SavedInv, CallsInv, CacheAt, GraphAt, NoCall
<1> QED
  BY <1>7, <1>8, <1>9 DEF CacheInv

\* A process's own part of the invariant.
LEMMA OwnPart ==
  ASSUME CacheInv, NEW p \in Services
  PROVE  /\ HistoryInv /\ generation \in Nat /\ generation \in 0 .. generation
         /\ caches \in [Services -> Cache] /\ calls \in [Services -> Call]
         /\ caches[p] \in Cache /\ CacheAt(caches[p], generation)
         /\ calls[p] \in Call /\ calls[p].at \in 0 .. generation
         /\ calls[p].at <= generation
         /\ calls[p].kind # "none" => GraphAt(calls[p].snapshot, calls[p].at)
         /\ calls[p].kind \in {"read", "checkpoint"} => caches[p].gen <= calls[p].at
         /\ saved \in [gen : Int, active : SUBSET RecordIds]
         /\ GraphAt(saved, generation)
         /\ work \in 0 .. MaxWork
<1>1. generation \in Nat
  BY GenerationNat DEF CacheInv
<1>2. calls[p] \in Call /\ calls[p].at <= generation
  BY DEF CacheInv, CacheTyped, CallsInv
<1>3. calls[p].at \in 0 .. generation
  BY <1>1, <1>2 DEF Call
<1> QED
  BY <1>1, <1>2, <1>3 DEF CacheInv, CacheTyped, CachesInv, SavedInv, CallsInv

\* A read transaction begins.
LEMMA BeginInv ==
  ASSUME CacheInv, NEW p \in Services, NEW kind \in {"read", "checkpoint"},
         Begin(p, kind), UNCHANGED <<history, saved, caches>>,
         work' \in 0 .. MaxWork
  PROVE  CacheInv'
<1> DEFINE call == [kind |-> kind, at |-> generation, snapshot |-> saved]
<1>1. HistoryInv' /\ Extends
  BY OwnPart, HistoryStays
<1>2. /\ call \in Call /\ call.at = generation /\ call.snapshot = saved
      /\ calls' = [calls EXCEPT ![p] = call]
  BY OwnPart DEF Call, Begin
<1>3. caches' = [caches EXCEPT ![p] = caches[p]]
  BY OwnPart
<1>4. caches[p].gen <= generation
  BY OwnPart DEF CacheAt, NoCache, FreshCache
<1> HIDE DEF call
<1>5. /\ GraphAt(call.snapshot, call.at) /\ call.at <= generation
      /\ caches[p].gen <= call.at
  BY <1>2, <1>4, OwnPart
<1>6. saved' = saved
  OBVIOUS
<1> QED
  BY <1>1, <1>2, <1>3, <1>5, <1>6, OwnPart, Updated

\* The cache an operation leaves that sees generation calls[p].at.
LEMMA SeenSnapshot ==
  ASSUME CacheInv, NEW p \in Services, calls[p].kind \in {"read", "checkpoint"}
  PROVE  LET g == calls[p].at
             cache == Snapshot(caches[p], calls[p].snapshot, g)
         IN  /\ g \in 0 .. generation
             /\ cache \in Cache /\ cache.gen = g
             /\ Reflects(cache, At(g)) /\ Small(cache.resident)
<1> DEFINE g == calls[p].at
<1>1. g \in 0 .. generation /\ g \in Nat /\ GraphAt(calls[p].snapshot, g)
  BY OwnPart
<1>2. CacheAt(caches[p], g)
  BY <1>1, OwnPart DEF CacheAt
<1> QED
  BY <1>1, <1>2, OwnPart, SnapshotReflects

\* A cache of a generation it reflects may be kept.
LEMMA ReflectsAt ==
  ASSUME NEW g \in Nat, NEW cache \in Cache, cache.gen = g,
         Reflects(cache, At(g)), Small(cache.resident)
  PROVE  CacheAt(cache, g)
  BY DEF CacheAt

\* No call is open.
LEMMA ClosedCall ==
  /\ NoCall \in Call /\ NoCall.kind = "none" /\ NoCall.at = 0
  BY DEF NoCall, Call, NoSnapshot

\* A reading operation leaves the cache with the payload it needed.
LEMMA ReadInv ==
  ASSUME CacheInv, NEW p \in Services, NEW r \in RecordIds, Read(p, r),
         UNCHANGED <<history, saved, work>>
  PROVE  CacheInv'
<1> DEFINE g == calls[p].at
           cache == Snapshot(caches[p], calls[p].snapshot, g)
<1>1. HistoryInv' /\ Extends
  BY OwnPart, HistoryStays
<1>2. PICK resident \in Fetched(cache, r, At(g)) :
         caches' = [caches EXCEPT ![p] = [cache EXCEPT !.resident = resident]]
  BY DEF Read
<1>3. /\ g \in 0 .. generation /\ cache \in Cache /\ cache.gen = g
      /\ Reflects(cache, At(g)) /\ Small(cache.resident)
  BY SeenSnapshot DEF Read
<1> DEFINE new == [cache EXCEPT !.resident = resident]
<1> HIDE DEF cache, g
<1>4. CacheAt(new, g)
  BY <1>3, OwnPart, FetchedReflects
<1>5. new \in Cache
  <2>1. new.gen = g /\ g # -2
    BY <1>3, OwnPart DEF Cache
  <2>2. new # NoCache
    BY <2>1 DEF NoCache, FreshCache
  <2> HIDE DEF new
  <2> QED
    BY <1>4, <2>2 DEF CacheAt
<1>6. calls' = [calls EXCEPT ![p] = NoCall]
  BY DEF Read
<1> HIDE DEF new
<1>7. caches' = [caches EXCEPT ![p] = new]
  BY <1>2 DEF new
<1>8. 0 <= generation
  BY OwnPart
<1> QED
  BY <1>1, <1>3, <1>4, <1>5, <1>6, <1>7, <1>8, ClosedCall, OwnPart, Updated

\* checkpoint_indexes takes the graph of the generation it has read.
LEMMA CheckpointInv ==
  ASSUME CacheInv, NEW p \in Services, Checkpoint(p)
  PROVE  CacheInv'
<1> DEFINE g == calls[p].at
           cache == Snapshot(caches[p], calls[p].snapshot, g)
           graph == [gen |-> g, active |-> cache.vectors]
           call == [kind |-> "saving", at |-> g, snapshot |-> graph]
<1>1. HistoryInv' /\ Extends
  BY OwnPart, HistoryStays DEF Checkpoint
<1>2. /\ g \in 0 .. generation /\ cache \in Cache /\ cache.gen = g
      /\ Reflects(cache, At(g)) /\ Small(cache.resident)
  BY SeenSnapshot DEF Checkpoint
<1>3. /\ caches' = [caches EXCEPT ![p] = cache]
      /\ calls' = [calls EXCEPT ![p] = call]
      /\ saved' = saved /\ work' = work
  BY DEF Checkpoint
<1>4. g \in Nat /\ g <= generation
  BY <1>2, OwnPart
<1> HIDE DEF cache, g
<1>5. /\ cache.vectors = Visible(At(g)) /\ cache.vectors \in SUBSET RecordIds
  BY <1>2 DEF Reflects, Visible
<1>6. GraphAt(graph, g)
  BY <1>4, <1>5 DEF GraphAt
<1>7. call \in Call /\ call.at = g /\ call.snapshot = graph /\ call.kind = "saving"
  BY <1>4, <1>5 DEF Call
<1>8. CacheAt(cache, g)
  BY <1>2, <1>4, ReflectsAt
<1> HIDE DEF call, graph
<1> QED
  BY <1>1, <1>2, <1>3, <1>4, <1>6, <1>7, <1>8, OwnPart, Updated

\* The graph is stored, in whatever generation the database is by then.
LEMMA SaveInv ==
  ASSUME CacheInv, NEW p \in Services, Save(p)
  PROVE  CacheInv'
<1> DEFINE graph == calls[p].snapshot
<1>1. HistoryInv' /\ Extends
  BY OwnPart, HistoryStays DEF Save
<1>2. /\ caches' = [caches EXCEPT ![p] = caches[p]]
      /\ calls' = [calls EXCEPT ![p] = NoCall]
      /\ saved' = graph /\ work' = work
      /\ calls[p].kind = "saving"
  BY OwnPart DEF Save
<1>3. graph \in [gen : Int, active : SUBSET RecordIds]
  BY OwnPart DEF Call
<1>4. GraphAt(graph, generation)
  <2>1. GraphAt(graph, calls[p].at) /\ calls[p].at \in 0 .. generation
    BY <1>2, OwnPart
  <2> QED
    BY <2>1, OwnPart DEF GraphAt
<1> HIDE DEF graph
<1>5. 0 <= generation
  BY OwnPart
<1> QED
  BY <1>1, <1>2, <1>3, <1>4, <1>5, ClosedCall, OwnPart, Updated

\* A dropped cache, with or without its process.
LEMMA DroppedInv ==
  ASSUME CacheInv, NEW p \in Services, caches' = [caches EXCEPT ![p] = NoCache],
         calls' = calls \/ calls' = [calls EXCEPT ![p] = NoCall],
         UNCHANGED <<history, saved, work>>
  PROVE  CacheInv'
<1>1. HistoryInv' /\ Extends
  BY OwnPart, HistoryStays
<1>2. NoCache \in Cache /\ CacheAt(NoCache, generation) /\ NoCache.gen = -2
  BY DEF FreshCache, NoCache, Cache, Nothing, CacheAt
<1>3. 0 <= generation
  BY OwnPart
<1>4. CASE calls' = calls
  <2>1. calls' = [calls EXCEPT ![p] = calls[p]]
    BY <1>4, OwnPart
  <2>2. NoCache.gen <= calls[p].at
    BY <1>2, OwnPart
  <2> QED
    BY <1>1, <1>2, <2>1, <2>2, OwnPart, Updated
<1>5. CASE calls' = [calls EXCEPT ![p] = NoCall]
  BY <1>1, <1>2, <1>3, <1>5, ClosedCall, OwnPart, Updated
<1> QED
  BY <1>4, <1>5

\* A transaction that writes: its process's cache is that of the generation
\* before.
LEMMA PersistInv ==
  ASSUME CacheInv, NEW p \in Services, NEW change \in Changes, Persist(p, change)
  PROVE  CacheInv' /\ Extends
<1> DEFINE cache == Snapshot(caches[p], saved, generation)
           recs == ApplyChange(At(generation), change, generation + 1)
<1>1. generation \in Nat /\ At(generation) \in [RecordIds -> Record]
  BY OwnPart, AtTyped
<1>2. /\ recs \in [RecordIds -> Record]
      /\ \A r \in RecordIds :
            \/ recs[r] = At(generation)[r]
            \/ recs[r].gen = generation + 1 /\ recs[r].status # "absent"
  BY <1>1, ChangesCarry DEF Changes
<1>3. /\ history' = Append(history, recs)
      /\ caches' = [caches EXCEPT ![p] = cache]
      /\ calls' = calls /\ saved' = saved /\ work' = work + 1 /\ work < MaxWork
      /\ calls[p].kind = "none"
  BY DEF Persist
<1>4. /\ cache \in Cache /\ cache.gen = generation
      /\ Reflects(cache, At(generation)) /\ Small(cache.resident)
  BY OwnPart, SnapshotReflects
<1> HIDE DEF cache, recs
<1>5. HistoryInv' /\ Extends
  BY <1>2, <1>3, OwnPart, HistoryGrows
<1>6. CacheAt(cache, generation)
  BY <1>1, <1>4, ReflectsAt
<1>7. calls' = [calls EXCEPT ![p] = calls[p]]
  BY <1>3, OwnPart
<1>8. work' \in 0 .. MaxWork
  BY <1>3, OwnPart, CacheBounds
<1> QED
  BY <1>3, <1>4, <1>5, <1>6, <1>7, <1>8, OwnPart, Updated

\* Retention archives a record behind the back of every cache.
LEMMA ArchiveInv ==
  ASSUME CacheInv, NEW p \in Services, NEW r \in RecordIds, Archive(p, r)
  PROVE  CacheInv' /\ Extends
<1> DEFINE recs == [At(generation) EXCEPT ![r] = Put("archived", generation + 1)]
<1>1. generation \in Nat /\ At(generation) \in [RecordIds -> Record]
  BY OwnPart, AtTyped
<1>2. /\ recs \in [RecordIds -> Record]
      /\ \A i \in RecordIds :
            \/ recs[i] = At(generation)[i]
            \/ recs[i].gen = generation + 1 /\ recs[i].status # "absent"
  BY <1>1 DEF Put, Record, RecordStatuses
<1>3. /\ history' = Append(history, recs)
      /\ caches' = caches
      /\ calls' = calls /\ saved' = saved /\ work' = work + 1 /\ work < MaxWork
  BY DEF Archive
<1> HIDE DEF recs
<1>4. HistoryInv' /\ Extends
  BY <1>2, <1>3, OwnPart, HistoryGrows
<1>5. /\ calls' = [calls EXCEPT ![p] = calls[p]]
      /\ caches' = [caches EXCEPT ![p] = caches[p]]
  BY <1>3, OwnPart
<1>6. work' \in 0 .. MaxWork
  BY <1>3, OwnPart, CacheBounds
<1> QED
  BY <1>3, <1>4, <1>5, <1>6, OwnPart, Updated

\* Every step of a process.
LEMMA ProcessInv ==
  ASSUME CacheInv, NEW p \in Services, Reads(p) \/ Serves(p) \/ Restart(p)
  PROVE  CacheInv' /\ Extends
<1>0. history' = history => Extends
  BY HistoryStays DEF CacheInv
<1>1. CASE Reads(p)
  BY <1>0, <1>1, ReadInv DEF Reads
<1>2. CASE Begin(p, "read") /\ UNCHANGED <<history, saved, caches, work>>
  <2>1. work' \in 0 .. MaxWork
    BY <1>2, OwnPart
  <2> QED
    BY <1>0, <1>2, <2>1, BeginInv
<1>3. CASE /\ work < MaxWork
           /\ Begin(p, "checkpoint")
           /\ work' = work + 1
           /\ UNCHANGED <<history, saved, caches>>
  <2>1. work' \in 0 .. MaxWork
    BY <1>3, OwnPart, CacheBounds
  <2> QED
    BY <1>0, <1>3, <2>1, BeginInv
<1>4. CASE Evict(p)
  BY <1>0, <1>4, DroppedInv DEF Evict
<1>5. CASE Restart(p)
  BY <1>0, <1>5, DroppedInv DEF Restart
<1>6. CASE Checkpoint(p)
  BY <1>0, <1>6, CheckpointInv DEF Checkpoint
<1>7. CASE Save(p)
  BY <1>0, <1>7, SaveInv DEF Save
<1> QED
  BY <1>1, <1>2, <1>3, <1>4, <1>5, <1>6, <1>7, PersistInv, ArchiveInv
  DEF Serves

\* Nothing that leaves the cache's variables alone matters to it.
LEMMA CacheQuiet ==
  ASSUME CacheInv, UNCHANGED cacheVars
  PROVE  CacheInv'
<1>1. HistoryInv' /\ generation' = generation /\ \A g : At(g)' = At(g)
  BY HistoryStays DEF CacheInv, cacheVars, At
<1> QED
  BY <1>1 DEF CacheInv, CacheTyped, CachesInv, SavedInv, CallsInv, CacheAt,
              GraphAt, cacheVars

-----------------------------------------------------------------------------
(***************************************************************************)
(* The inductive invariant of a session                                    *)
(***************************************************************************)
\* Types, and what keeps the number of responses within its bound.
Typed ==
    /\ responses \in Seq(Response)
    /\ Len(responses) <= MaxPrepared
    /\ receipt = NoReceipt \/ receipt \in Receipt
    /\ {injected, shown} \subseteq {0} \cup Responses
    /\ pending \in {0, Len(responses)}
    /\ preparing = NoPrepare \/ Len(responses) < MaxPrepared
    /\ preparing \in {NoPrepare} \cup [phase : {"reading"}, ctx : Contexts]
            \cup [phase : {"answered"}, ctx : Contexts, gen : Nat,
                  content : Contents]
    /\ acting \in [phase : {"none", "asked", "valid", "proceeding"},
                   n : Numbers, at : Nat]
    /\ committed \subseteq delivered /\ delivered \subseteq Responses

\* A response, or an answer on its way, says what the database said.
Faithful(answer) ==
    /\ answer.gen <= generation
    /\ answer.content = Content(At(answer.gen), answer.ctx)

\* The receipt of a response is of its context and generation.
Receipted ==
    receipt # NoReceipt =>
        /\ receipt.n \in Responses =>
              /\ receipt.ctx = responses[receipt.n].ctx
              /\ receipt.gen = responses[receipt.n].gen
        /\ preparing.phase = "answered" /\ receipt.n = Len(responses) + 1 =>
              receipt.ctx = preparing.ctx /\ receipt.gen = preparing.gen

\* What was answered was true, and an action is checked on the generation of
\* its response.
AnswersInv ==
    /\ \A n \in Responses : Faithful(responses[n])
    /\ preparing.phase = "answered" => Faithful(preparing)
    /\ Receipted
    /\ acting.phase \in {"asked", "valid"} => acting.n \in Responses
    /\ acting.phase = "valid" => responses[acting.n].gen = acting.at

\* The conversation believes a response, or has read a text that was never
\* committed.
Taken(n) == Believes(n) \/ shown \notin committed

\* Two responses are taken: the one that is injected, and the latest one when
\* it has no text to deliver or is known to be delivered.
InformedInv ==
    /\ injected # 0 => Taken(injected)
    /\ pending # 0 /\ (responses[pending].text => pending \in delivered) =>
          Taken(pending)

SessionInv == Typed /\ AnswersInv /\ InformedInv

\* What SMT needs of the types.
LEMMA SessionTypes ==
  ASSUME Typed
  PROVE  /\ responses \in Seq(Response) /\ Len(responses) \in Nat
         /\ Len(responses) <= MaxPrepared
         /\ Responses = 1 .. Len(responses) /\ Responses \subseteq Numbers
         /\ \A n \in Responses : responses[n] \in Response
         /\ injected \in {0} \cup Responses /\ shown \in {0} \cup Responses
         /\ pending \in {0} \cup Responses /\ pending \in {0, Len(responses)}
<1>1. responses \in Seq(Response) /\ Len(responses) \in Nat
  BY LenProperties DEF Typed
<1>2. Len(responses) <= MaxPrepared /\ pending \in {0, Len(responses)}
  BY DEF Typed
<1>3. Responses = 1 .. Len(responses)
  BY DEF Responses
<1>4. \A n \in Responses : responses[n] \in Response
  BY <1>1, <1>3, ElementOfSeq
<1>5. Responses \subseteq Numbers
  BY <1>1, <1>2, <1>3, SessionAssumption DEF Numbers
<1>6. injected \in {0} \cup Responses /\ shown \in {0} \cup Responses
  BY DEF Typed
<1>7. pending \in {0} \cup Responses
  BY <1>1, <1>2, <1>3
<1> QED
  BY <1>1, <1>2, <1>3, <1>4, <1>5, <1>6, <1>7

\* What a prepare() in progress carries.
LEMMA Preparing ==
  ASSUME Typed
  PROVE  /\ preparing.phase \in {"none", "reading", "answered"}
         /\ preparing.phase \in {"reading", "answered"} =>
               preparing.ctx \in Contexts /\ Len(responses) < MaxPrepared
         /\ preparing.phase = "answered" =>
               preparing.gen \in Nat /\ preparing.content \in Contents
<1>1. preparing \in {NoPrepare} \cup [phase : {"reading"}, ctx : Contexts]
            \cup [phase : {"answered"}, ctx : Contexts, gen : Nat,
                  content : Contents]
  BY DEF Typed
<1>2. preparing = NoPrepare \/ Len(responses) < MaxPrepared
  BY DEF Typed
<1> QED
  BY <1>1, <1>2 DEF NoPrepare

\* What a context says is typed.
LEMMA ContentTyped ==
  ASSUME NEW recs \in [RecordIds -> Record], NEW ctx
  PROVE  Content(recs, ctx) \in Contents
  BY DEF Content, Contents, Put, Record, RecordStatuses

\* Headers of the cache, payloads it holds and payloads it reads make up what
\* the database says: a resident payload is of a revision that still stands.
LEMMA ResolvedIsContent ==
  ASSUME HistoryInv, NEW g \in 0 .. generation, NEW cache \in Cache,
         cache.gen = g, Reflects(cache, At(g)), NEW ctx
  PROVE  Resolved(cache, At(g), ctx) = Content(At(g), ctx)
<1> DEFINE recs == At(g)
<1>1. /\ generation \in Nat /\ g \in Nat /\ recs \in [RecordIds -> Record]
      /\ cache.rows = [r \in RecordIds |->
                         IF r \in Visible(recs) THEN recs[r].gen ELSE 0]
      /\ \A r \in RecordIds : cache.resident[r] \in {0, cache.rows[r]}
  BY GenerationNat, AtTyped DEF Reflects
<1>2. ASSUME NEW r \in RecordIds
      PROVE  /\ recs[r].gen \in 0 .. g
             /\ recs[r].status = "absent" <=> recs[r].gen = 0
             /\ At(recs[r].gen)[r] = recs[r]
  <2>1. recs[r].gen \in 0 .. g /\ (recs[r].status = "absent" <=> recs[r].gen = 0)
    BY <1>1 DEF HistoryInv, Record
  <2>2. recs[r].gen \in 0 .. generation /\ recs[r].gen <= g
    BY <1>1, <2>1
  <2>3. At(g)[r] = At(recs[r].gen)[r] \/ At(g)[r].gen > recs[r].gen
    BY <2>2 DEF HistoryInv
  <2>4. ~ (recs[r].gen > recs[r].gen)
    BY <2>1
  <2> QED
    BY <2>1, <2>3, <2>4
<1> HIDE DEF recs
<1>3. Members(cache) = Visible(recs)
  <2>1. \A r \in Visible(recs) : r \in RecordIds /\ recs[r].gen # 0
    BY <1>2 DEF Visible
  <2> QED
    BY <1>1, <2>1 DEF Members
<1>4. ASSUME NEW r \in Members(cache), cache.resident[r] # 0
      PROVE  At(cache.resident[r])[r] = recs[r]
  <2>1. r \in RecordIds /\ r \in Visible(recs)
    BY <1>3 DEF Members
  <2>2. cache.resident[r] = recs[r].gen
    BY <1>1, <1>4, <2>1
  <2> QED
    BY <1>2, <2>1, <2>2
<1>5. Resolved(cache, recs, ctx) = Content(recs, ctx)
  BY <1>3, <1>4 DEF Resolved, Content
<1> QED
  BY <1>5 DEF recs

\* An answer stays faithful while the database grows.
LEMMA FaithfulStays ==
  ASSUME generation \in Nat, Extends, NEW gen \in Nat, gen <= generation
  PROVE  At(gen)' = At(gen) /\ gen <= generation'
  BY DEF Extends

-----------------------------------------------------------------------------
(***************************************************************************)
(* The steps of a session keep its invariant                               *)
(***************************************************************************)
\* No conversation has begun.
LEMMA SessionInit == Init => SessionInv
<1> SUFFICES ASSUME Init PROVE SessionInv
  OBVIOUS
<1>1. /\ responses = <<>> /\ receipt = NoReceipt /\ pending = 0 /\ injected = 0
      /\ preparing = NoPrepare /\ acting = NoAction /\ delivered = {}
      /\ shown = 0 /\ committed = {}
  BY DEF Init
<1>2. /\ responses \in Seq(Response) /\ Len(responses) = 0 /\ Responses = {}
  BY <1>1 DEF Responses
<1>3. Typed
  BY <1>1, <1>2, SessionAssumption DEF Typed, NoAction, Numbers
<1>4. AnswersInv
  BY <1>1, <1>2 DEF AnswersInv, Receipted, NoPrepare, NoAction
<1>5. InformedInv
  BY <1>1 DEF InformedInv
<1> QED
  BY <1>3, <1>4, <1>5 DEF SessionInv

\* The rest of the owner's traffic.
LEMMA ServiceSteps ==
  ASSUME SessionInv, generation \in Nat, Extends, UNCHANGED sessionVars
  PROVE  SessionInv'
<1>1. Typed' /\ InformedInv' /\ Responses' = Responses
  BY DEF SessionInv, Typed, InformedInv, Taken, Believes, Responses, sessionVars
<1>2. ASSUME NEW n \in Responses
      PROVE  Faithful(responses[n])'
  <2>1. responses[n] \in Response /\ Faithful(responses[n])
    BY SessionTypes DEF SessionInv, AnswersInv
  <2> QED
    BY <2>1, FaithfulStays DEF Response, Faithful, sessionVars
<1>3. ASSUME preparing.phase = "answered"
      PROVE  Faithful(preparing)'
  <2>1. preparing.gen \in Nat /\ Faithful(preparing)
    BY <1>3, Preparing DEF SessionInv, AnswersInv
  <2> QED
    BY <2>1, FaithfulStays DEF Faithful, sessionVars
<1>4. AnswersInv'
  BY <1>1, <1>2, <1>3 DEF SessionInv, AnswersInv, Receipted, sessionVars
<1> QED
  BY <1>1, <1>4 DEF SessionInv

\* While nothing is committed and no response is made, what was answered
\* stays faithful.
LEMMA AnswersStand ==
  ASSUME SessionInv, CacheInv, UNCHANGED <<history, responses>>
  PROVE  /\ Responses' = Responses /\ generation' = generation
         /\ generation \in Nat /\ (\A g : At(g)' = At(g))
         /\ \A n \in Responses : Faithful(responses[n])'
<1>1. /\ generation' = generation /\ generation \in Nat /\ \A g : At(g)' = At(g)
      /\ Responses' = Responses
  BY GenerationNat DEF CacheInv, generation, At, Responses
<1>2. ASSUME NEW n \in Responses
      PROVE  Faithful(responses[n])'
  BY <1>1 DEF SessionInv, AnswersInv, Faithful
<1> QED
  BY <1>1, <1>2

\* prepare() takes the lock.
LEMMA PrepareSteps ==
  ASSUME SessionInv, CacheInv, NEW ctx \in Contexts, Prepare(ctx)
  PROVE  SessionInv'
<1>1. /\ Responses' = Responses /\ \A n \in Responses : Faithful(responses[n])'
  BY AnswersStand DEF Prepare
<1>2. Typed'
  BY <1>1 DEF Prepare, SessionInv, Typed
<1>3. AnswersInv'
  BY <1>1 DEF Prepare, SessionInv, AnswersInv, Receipted
<1>4. InformedInv'
  BY DEF Prepare, SessionInv, InformedInv, Taken, Believes
<1> QED
  BY <1>2, <1>3, <1>4 DEF SessionInv

\* prepare_task_context in its thread: what it answers is what the database
\* says in the generation it reads.
LEMMA ReadContextSteps ==
  ASSUME SessionInv, CacheInv, ReadContext
  PROVE  SessionInv'
<1> DEFINE g == calls[Home].at
           cache == Snapshot(caches[Home], calls[Home].snapshot, g)
           content == Resolved(cache, At(g), preparing.ctx)
           answer == [phase |-> "answered", ctx |-> preparing.ctx, gen |-> g,
                      content |-> content]
           new == [n |-> Len(responses) + 1, ctx |-> preparing.ctx, gen |-> g]
<1>1. /\ Responses' = Responses /\ generation' = generation
      /\ generation \in Nat /\ (\A h : At(h)' = At(h))
      /\ \A n \in Responses : Faithful(responses[n])'
  BY AnswersStand DEF ReadContext
<1>2. /\ preparing.phase = "reading" /\ preparing' = answer /\ receipt' = new
      /\ UNCHANGED <<history, responses, pending, injected, acting, delivered,
                     shown, committed>>
  BY DEF ReadContext
<1>3. preparing.ctx \in Contexts /\ Len(responses) < MaxPrepared
  BY <1>2, Preparing DEF SessionInv
<1>4. calls[Home].kind = "read"
  BY DEF ReadContext, Read
<1>5. /\ g \in 0 .. generation /\ g \in Nat
      /\ cache \in Cache /\ cache.gen = g /\ Reflects(cache, At(g))
  BY <1>4, SeenSnapshot, SessionAssumption, GenerationNat DEF CacheInv
<1>6. content = Content(At(g), preparing.ctx) /\ content \in Contents
  BY <1>5, ResolvedIsContent, ContentTyped, AtTyped DEF CacheInv
<1>7. g <= generation
  BY <1>1, <1>5
<1> HIDE DEF g, cache, content
<1>8. answer \in [phase : {"answered"}, ctx : Contexts, gen : Nat,
                  content : Contents]
  BY <1>3, <1>5, <1>6
<1>9. Len(responses) + 1 \in Numbers /\ new \in Receipt
  <2>1. Len(responses) + 1 \in Numbers
    BY <1>3, SessionTypes, SessionAssumption DEF Numbers, SessionInv
  <2> QED
    BY <1>3, <1>5, <2>1 DEF Receipt
<1>10. /\ answer.phase = "answered" /\ answer.ctx = preparing.ctx
       /\ answer.gen = g /\ answer.content = content
       /\ new.n = Len(responses) + 1 /\ new.ctx = preparing.ctx /\ new.gen = g
  OBVIOUS
<1>12. Len(responses) + 1 \notin Responses
  BY SessionTypes DEF SessionInv
<1> HIDE DEF answer, new
<1>13. Typed'
  BY <1>1, <1>2, <1>3, <1>8, <1>9 DEF SessionInv, Typed
<1>14. Faithful(preparing)'
  <2>1. At(preparing.gen)' = At(g)
    BY <1>2, <1>10 DEF At
  <2> QED
    BY <1>1, <1>2, <1>6, <1>7, <1>10, <2>1 DEF Faithful, Content
<1>15. Receipted'
  BY <1>1, <1>2, <1>10, <1>12 DEF Receipted
<1>16. AnswersInv'
  BY <1>1, <1>2, <1>14, <1>15 DEF SessionInv, AnswersInv
<1>17. InformedInv'
  BY <1>2 DEF SessionInv, InformedInv, Taken, Believes
<1> QED
  BY <1>13, <1>16, <1>17 DEF SessionInv

\* prepare() returns: it has nothing to say only if it says what is injected.
LEMMA AnswerSteps ==
  ASSUME SessionInv, CacheInv, Answer
  PROVE  SessionInv'
<1> DEFINE next == Len(responses) + 1
           new == [ctx |-> preparing.ctx, content |-> preparing.content,
                   gen |-> preparing.gen, text |-> ~Same(preparing)]
<1>1. /\ preparing.phase = "answered"
      /\ responses' = Append(responses, new)
      /\ pending' = next /\ preparing' = NoPrepare
      /\ UNCHANGED <<receipt, injected, acting, delivered, shown, committed>>
      /\ UNCHANGED history
  BY DEF Answer, cacheVars
<1>2. /\ responses \in Seq(Response) /\ Len(responses) \in Nat
      /\ Len(responses) < MaxPrepared /\ MaxPrepared \in Nat
      /\ Responses = 1 .. Len(responses)
      /\ preparing.ctx \in Contexts /\ preparing.gen \in Nat
      /\ preparing.content \in Contents
      /\ injected \in {0} \cup Responses /\ shown \in {0} \cup Responses
      /\ \A n \in Responses : responses[n] \in Response
  BY <1>1, SessionTypes, Preparing, SessionAssumption DEF SessionInv
<1>3. new \in Response
  <2> HIDE DEF Same
  <2>1. (~Same(preparing)) \in BOOLEAN
    BY DEF Same
  <2> QED
    BY <1>2, <2>1 DEF Response
<1>4. /\ new.ctx = preparing.ctx /\ new.content = preparing.content
      /\ new.gen = preparing.gen /\ (new.text <=> ~Same(preparing))
  OBVIOUS
<1> HIDE DEF new
<1>5. /\ responses' \in Seq(Response) /\ Len(responses') = next
      /\ \A n \in Responses : responses'[n] = responses[n]
      /\ responses'[next] = new
      /\ Responses' = Responses \cup {next}
      /\ next \notin Responses /\ next \in Nat /\ next <= MaxPrepared /\ next # 0
      /\ 0 \notin Responses
  BY <1>1, <1>2, <1>3, AppendProperties DEF Responses
<1>6. /\ generation' = generation /\ generation \in Nat /\ \A g : At(g)' = At(g)
  BY <1>1, GenerationNat DEF CacheInv, generation, At
<1> HIDE DEF next
<1>7. Typed'
  BY <1>1, <1>2, <1>5 DEF SessionInv, Typed
<1>8. \A n \in Responses' : Faithful(responses[n])'
  <2>1. ASSUME NEW n \in Responses
        PROVE  Faithful(responses[n])'
    BY <1>5, <1>6 DEF SessionInv, AnswersInv, Faithful, Content
  <2>2. ASSUME NEW n, n = next
        PROVE  Faithful(responses[n])'
    <3>1. preparing.gen <= generation
          /\ preparing.content = Content(At(preparing.gen), preparing.ctx)
      BY <1>1 DEF SessionInv, AnswersInv, Faithful
    <3>2. responses'[n] = new
      BY <1>5, <2>2
    <3>3. At(responses[n].gen)' = At(preparing.gen)
      BY <1>1, <1>4, <3>2 DEF At
    <3> QED
      BY <1>4, <1>6, <3>1, <3>2, <3>3 DEF Faithful
  <2> QED
    BY <1>5, <2>1, <2>2
<1>9. Receipted'
  <2>1. Receipted
    BY DEF SessionInv, AnswersInv
  <2>2. receipt # NoReceipt /\ receipt.n = next =>
          receipt.ctx = preparing.ctx /\ receipt.gen = preparing.gen
    BY <1>1, <2>1 DEF Receipted, next
  <2>3. preparing'.phase = "none"
    BY <1>1 DEF NoPrepare
  <2> QED
    BY <1>1, <1>4, <1>5, <2>1, <2>2, <2>3 DEF Receipted
<1>10. AnswersInv'
  BY <1>1, <1>5, <1>8, <1>9 DEF SessionInv, AnswersInv, NoPrepare
<1>11. InformedInv'
  <2>1. delivered \subseteq Responses
    BY DEF SessionInv, Typed
  <2>2. injected # 0 => Taken(injected)'
    BY <1>1, <1>2, <1>5 DEF SessionInv, InformedInv, Taken, Believes
  <2>3. ASSUME responses'[next].text => next \in delivered
        PROVE  Taken(pending)'
    <3>1. Same(preparing)
      BY <1>4, <1>5, <2>1, <2>3
    <3>2. /\ injected \in Responses
          /\ responses[injected].ctx = new.ctx
          /\ responses[injected].content = new.content
      BY <1>2, <1>4, <3>1 DEF Same
    <3>3. Taken(injected)
      BY <1>5, <3>2 DEF SessionInv, InformedInv
    <3> QED
      BY <1>1, <1>2, <1>5, <3>2, <3>3 DEF Taken, Believes
  <2> QED
    BY <1>1, <2>2, <2>3 DEF InformedInv
<1> QED
  BY <1>7, <1>10, <1>11 DEF SessionInv

\* A lost answer, a lost receipt.
LEMMA LossSteps ==
  ASSUME SessionInv, CacheInv, PrepareFails \/ LoseReceipt
  PROVE  SessionInv'
<1>1. /\ Responses' = Responses /\ generation' = generation
      /\ generation \in Nat /\ (\A h : At(h)' = At(h))
      /\ \A n \in Responses : Faithful(responses[n])'
  BY AnswersStand DEF PrepareFails, LoseReceipt, cacheVars
<1>2. Typed'
  BY <1>1 DEF PrepareFails, LoseReceipt, SessionInv, Typed
<1>3. InformedInv'
  BY DEF PrepareFails, LoseReceipt, SessionInv, InformedInv, Taken, Believes
<1>4. CASE PrepareFails
  BY <1>1, <1>2, <1>3, <1>4
  DEF PrepareFails, SessionInv, AnswersInv, Receipted, NoPrepare
<1>5. CASE LoseReceipt
  <2>1. preparing.phase = "answered" => Faithful(preparing)'
    BY <1>1, <1>5 DEF LoseReceipt, SessionInv, AnswersInv, Faithful, Content
  <2> QED
    BY <1>1, <1>2, <1>3, <1>5, <2>1
    DEF LoseReceipt, SessionInv, AnswersInv, Receipted
<1> QED
  BY <1>4, <1>5

\* Steps that leave alone what was answered.
LEMMA AnswersKept ==
  ASSUME SessionInv, CacheInv, UNCHANGED <<cacheVars, responses, receipt, preparing>>,
         acting'.phase \in {"asked", "valid"} => acting'.n \in Responses,
         acting'.phase = "valid" => responses[acting'.n].gen = acting'.at
  PROVE  AnswersInv'
<1>1. /\ Responses' = Responses /\ generation' = generation
      /\ generation \in Nat /\ (\A h : At(h)' = At(h))
      /\ \A n \in Responses : Faithful(responses[n])'
  BY AnswersStand DEF cacheVars
<1>2. preparing.phase = "answered" => Faithful(preparing)'
  BY <1>1 DEF SessionInv, AnswersInv, Faithful, Content
<1> QED
  BY <1>1, <1>2 DEF SessionInv, AnswersInv, Receipted

\* The host delivers a text, whether it learns of it or not.
LEMMA DeliverSteps ==
  ASSUME SessionInv, CacheInv, NEW n \in Responses,
         Deliver(n) \/ DeliverUncertain(n)
  PROVE  SessionInv'
<1>1. /\ n \notin delivered /\ delivered \subseteq delivered'
      /\ delivered' \subseteq delivered \cup {n}
      /\ shown' = IF responses[n].text THEN n ELSE shown
      /\ n \in delivered' \ delivered => delivered' = delivered \cup {n}
      /\ UNCHANGED <<cacheVars, responses, receipt, pending, injected,
                     preparing, acting, committed>>
  BY DEF Deliver, DeliverUncertain, Reaches
<1>2. committed \subseteq delivered /\ n \notin committed
  BY <1>1 DEF SessionInv, Typed
<1>3. Responses' = Responses
  BY <1>1 DEF Responses
<1>4. Typed'
  BY <1>1, <1>3 DEF SessionInv, Typed
<1>5. AnswersInv'
  <2>1. AnswersInv
    BY DEF SessionInv
  <2> QED
    BY <1>1, <2>1, AnswersKept DEF AnswersInv
<1>6. InformedInv'
  <2>1. CASE responses[n].text
    BY <1>1, <1>2, <2>1 DEF InformedInv, Taken
  <2>2. CASE ~ responses[n].text
    <3>1. shown' = shown
      BY <1>1, <2>2
    <3>2. responses[pending].text /\ pending \in delivered' => pending \in delivered
      BY <1>1, <2>2
    <3> QED
      BY <1>1, <3>1, <3>2 DEF SessionInv, InformedInv, Taken, Believes
  <2> QED
    BY <2>1, <2>2
<1> QED
  BY <1>4, <1>5, <1>6 DEF SessionInv

\* commit() of the latest response, which is known to be delivered.
LEMMA CommitSteps ==
  ASSUME SessionInv, CacheInv, NEW n \in Responses, Commit(n)
  PROVE  SessionInv'
<1>1. /\ n \in delivered /\ pending = n /\ injected' = n
      /\ committed' = committed \cup {n}
      /\ UNCHANGED <<cacheVars, responses, receipt, pending, preparing, acting,
                     delivered, shown>>
  BY DEF Commit
<1>2. Responses' = Responses /\ n # 0
  BY <1>1, SessionTypes DEF Responses, SessionInv
<1>3. Typed'
  BY <1>1, <1>2 DEF SessionInv, Typed
<1>4. AnswersInv'
  <2>1. AnswersInv
    BY DEF SessionInv
  <2> QED
    BY <1>1, <2>1, AnswersKept DEF AnswersInv
<1>5. Taken(n)
  BY <1>1, <1>2 DEF SessionInv, InformedInv
<1>6. Taken(n)'
  BY <1>1, <1>2, <1>5 DEF Taken, Believes
<1>7. InformedInv'
  BY <1>1, <1>6 DEF InformedInv
<1> QED
  BY <1>3, <1>4, <1>7 DEF SessionInv

\* The conversation is lost, or it is all there is.
LEMMA ResetSteps ==
  ASSUME SessionInv, CacheInv, Reset
  PROVE  SessionInv'
<1>1. /\ shown' = 0 /\ injected' = 0 /\ pending' = 0
      /\ UNCHANGED <<cacheVars, responses, receipt, preparing, acting,
                     delivered, committed>>
  BY DEF Reset
<1>2. Responses' = Responses
  BY <1>1 DEF Responses
<1>3. Typed'
  BY <1>1, <1>2 DEF SessionInv, Typed
<1>4. AnswersInv'
  <2>1. AnswersInv
    BY DEF SessionInv
  <2> QED
    BY <1>1, <2>1, AnswersKept DEF AnswersInv
<1>5. InformedInv'
  BY <1>1 DEF InformedInv
<1> QED
  BY <1>3, <1>4, <1>5 DEF SessionInv

\* A new session resumes the conversation.
LEMMA ResumeSteps ==
  ASSUME SessionInv, CacheInv, Resume
  PROVE  SessionInv'
<1> DEFINE old == [n \in Responses |-> [responses[n] EXCEPT !.text = FALSE]]
<1>1. /\ responses' = old /\ receipt' = NoReceipt /\ injected' = 0
      /\ pending' = 0 /\ preparing' = NoPrepare /\ acting' = NoAction
      /\ delivered' = Responses /\ shown' = shown /\ committed' = committed
      /\ history' = history
  BY DEF Resume, Restart
<1>2. /\ Len(responses) \in Nat /\ Len(responses) <= MaxPrepared
      /\ Responses = 1 .. Len(responses)
      /\ \A n \in Responses : responses[n] \in Response
      /\ shown \in {0} \cup Responses
  BY SessionTypes DEF SessionInv
<1>3. /\ generation' = generation /\ generation \in Nat /\ \A g : At(g)' = At(g)
  BY <1>1, GenerationNat DEF CacheInv, generation, At
<1>4. \A n \in Responses : /\ old[n] \in Response
                           /\ old[n].ctx = responses[n].ctx
                           /\ old[n].content = responses[n].content
                           /\ old[n].gen = responses[n].gen
  BY <1>2 DEF Response
<1>5. old \in Seq(Response) /\ Len(old) = Len(responses)
  <2>1. old = [n \in 1 .. Len(responses) |-> [responses[n] EXCEPT !.text = FALSE]]
    BY <1>2
  <2>2. old \in [1 .. Len(responses) -> Response]
    BY <1>2, <1>4, <2>1
  <2> HIDE DEF old
  <2>3. old \in Seq(Response)
    BY <1>2, <2>2, SeqDef
  <2>4. Len(old) \in Nat /\ DOMAIN old = 1 .. Len(old) /\ DOMAIN old = 1 .. Len(responses)
    BY <2>2, <2>3, LenProperties
  <2> QED
    BY <1>2, <2>3, <2>4
<1> HIDE DEF old
<1>6. Responses' = Responses
  BY <1>1, <1>5 DEF Responses
<1>7. Typed'
  BY <1>1, <1>2, <1>5, <1>6, SessionAssumption
  DEF SessionInv, Typed, NoAction, Numbers
<1>8. \A n \in Responses : Faithful(responses[n])'
  BY <1>1, <1>3, <1>4 DEF SessionInv, AnswersInv, Faithful, Content
<1>9. AnswersInv'
  BY <1>1, <1>6, <1>8 DEF AnswersInv, Receipted, NoAction, NoPrepare
<1>10. InformedInv'
  BY <1>1 DEF InformedInv
<1> QED
  BY <1>7, <1>9, <1>10 DEF SessionInv

\* The three parts of before_action().
LEMMA ActionSteps ==
  ASSUME SessionInv, CacheInv,
         (\E n \in Responses : BeforeAction(n)) \/ Validate \/ Proceed
  PROVE  SessionInv'
<1>1. /\ UNCHANGED <<cacheVars, responses, receipt, pending, injected,
                     preparing, delivered, shown, committed>>
      /\ Responses' = Responses
  BY DEF BeforeAction, Validate, Proceed, Responses
<1>2. /\ acting \in [phase : {"none", "asked", "valid", "proceeding"},
                     n : Numbers, at : Nat]
      /\ acting.phase \in {"asked", "valid"} => acting.n \in Responses
      /\ acting.phase = "valid" => responses[acting.n].gen = acting.at
      /\ Receipted
      /\ generation \in Nat /\ Responses \subseteq Numbers /\ 0 \notin Responses
      /\ 0 \in Numbers
  BY SessionTypes, GenerationNat, SessionAssumption
  DEF SessionInv, Typed, AnswersInv, CacheInv, Numbers
<1>3. /\ acting' \in [phase : {"none", "asked", "valid", "proceeding"},
                      n : Numbers, at : Nat]
      /\ acting'.phase \in {"asked", "valid"} => acting'.n \in Responses
      /\ acting'.phase = "valid" => responses[acting'.n].gen = acting'.at
  <2>1. NoAction \in [phase : {"none", "asked", "valid", "proceeding"},
                      n : Numbers, at : Nat] /\ NoAction.phase = "none"
    BY <1>2 DEF NoAction
  <2>2. ASSUME NEW n \in Responses, BeforeAction(n)
        PROVE  /\ acting' \in [phase : {"none", "asked", "valid", "proceeding"},
                             n : Numbers, at : Nat]
               /\ acting'.phase \in {"asked", "valid"} => acting'.n \in Responses
               /\ acting'.phase = "valid" =>
                    responses[acting'.n].gen = acting'.at
    BY <1>2, <2>2 DEF BeforeAction
  <2>3. CASE Validate
    <3>1. CASE ReceiptMatches(acting.n)
      <4>1. /\ receipt.n = acting.n /\ receipt.gen = generation
            /\ acting.n \in Responses
        BY <1>2, <2>3, <3>1 DEF ReceiptMatches, Validate
      <4>2. receipt # NoReceipt
        BY <1>2, <4>1 DEF NoReceipt
      <4>3. responses[acting.n].gen = generation
        BY <1>2, <4>1, <4>2 DEF Receipted
      <4>4. acting' = [acting EXCEPT !.phase = "valid", !.at = generation]
        BY <2>3, <3>1 DEF Validate
      <4> QED
        BY <1>2, <4>1, <4>3, <4>4
    <3>2. CASE ~ ReceiptMatches(acting.n)
      BY <2>1, <2>3, <3>2 DEF Validate
    <3> QED
      BY <3>1, <3>2
  <2>4. CASE Proceed
    BY <1>2, <2>1, <2>4 DEF Proceed
  <2> QED
    BY <2>2, <2>3, <2>4
<1>4. Typed'
  BY <1>1, <1>3 DEF SessionInv, Typed
<1>5. AnswersInv'
  BY <1>1, <1>3, AnswersKept
<1>6. InformedInv'
  BY <1>1 DEF SessionInv, InformedInv, Taken, Believes
<1> QED
  BY <1>4, <1>5, <1>6 DEF SessionInv

-----------------------------------------------------------------------------
(***************************************************************************)
(* Theorems                                                                *)
(***************************************************************************)
\* A step of a session keeps the cache's invariant.
LEMMA SessionCacheInv ==
  ASSUME CacheInv, Session
  PROVE  CacheInv'
<1>1. Home \in Services
  BY SessionAssumption
<1>2. ASSUME NEW ctx \in Contexts, Prepare(ctx)
      PROVE  CacheInv'
  <2>1. /\ Begin(Home, "read") /\ UNCHANGED <<history, saved, caches>>
        /\ work < MaxWork /\ work' = work + 1
    BY <1>2 DEF Prepare
  <2>2. work' \in 0 .. MaxWork
    BY <1>1, <2>1, OwnPart, CacheBounds
  <2> QED
    BY <1>1, <2>1, <2>2, BeginInv
<1>3. CASE ReadContext
  <2>1. PICK r \in RecordIds : Read(Home, r)
    BY <1>3 DEF ReadContext
  <2>2. UNCHANGED <<history, saved, work>>
    BY <1>3 DEF ReadContext
  <2> QED
    BY <1>1, <2>1, <2>2, ReadInv
<1>4. CASE Resume
  BY <1>1, <1>4, ProcessInv DEF Resume
<1>5. ASSUME NEW n \in Responses,
             \/ Deliver(n) \/ DeliverUncertain(n) \/ Commit(n) \/ BeforeAction(n)
      PROVE  CacheInv'
  BY <1>5, CacheQuiet DEF Deliver, DeliverUncertain, Reaches, Commit, BeforeAction
<1>6. CASE Answer \/ PrepareFails \/ LoseReceipt \/ Reset \/ Validate \/ Proceed
  BY <1>6, CacheQuiet DEF Answer, PrepareFails, LoseReceipt, Reset, Validate,
                          Proceed
<1> QED
  BY <1>2, <1>3, <1>4, <1>5, <1>6 DEF Session

\* Every step keeps both invariants.
LEMMA InvStep ==
  ASSUME CacheInv, SessionInv, [Next]_vars
  PROVE  CacheInv' /\ SessionInv'
<1>1. CASE Service
  <2>1. PICK p \in Services : Reads(p) \/ Serves(p) \/ Restart(p)
    BY <1>1 DEF Service
  <2>2. CacheInv' /\ Extends
    BY <2>1, ProcessInv
  <2>3. SessionInv'
    BY <1>1, <2>2, ServiceSteps, GenerationNat DEF Service, CacheInv
  <2> QED
    BY <2>2, <2>3
<1>2. CASE Session
  <2>1. CacheInv'
    BY <1>2, SessionCacheInv
  <2>2. SessionInv'
    BY <1>2, PrepareSteps, ReadContextSteps, AnswerSteps, LossSteps,
       DeliverSteps, CommitSteps, ResetSteps, ResumeSteps, ActionSteps
    DEF Session
  <2> QED
    BY <2>1, <2>2
<1>3. CASE UNCHANGED vars
  <2>1. CacheInv'
    BY <1>3, CacheQuiet DEF vars
  <2>2. Extends /\ UNCHANGED sessionVars /\ generation \in Nat
    BY <1>3, HistoryStays, GenerationNat DEF vars, cacheVars, CacheInv
  <2> QED
    BY <2>1, <2>2, ServiceSteps
<1> QED
  BY <1>1, <1>2, <1>3 DEF Next

\* The owner cache by itself, for any number of processes and commits.
THEOREM CacheInvariant == CacheSpec => []CacheInv
<1>1. CacheInit => CacheInv
  BY CacheInvInit
<1>2. CacheInv /\ [CacheNext]_cacheVars => CacheInv'
  BY ProcessInv, CacheQuiet DEF CacheNext
<1> QED
  BY <1>1, <1>2, PTL DEF CacheSpec

\* The owner cache and a session over it.
THEOREM SessionInvariant == Spec => [](CacheInv /\ SessionInv)
<1>1. Init => CacheInv /\ SessionInv
  BY CacheInvInit, SessionInit DEF Init
<1>2. (CacheInv /\ SessionInv) /\ [Next]_vars => (CacheInv /\ SessionInv)'
  BY InvStep
<1> QED
  BY <1>1, <1>2, PTL DEF Spec

\* Every cache is the state of the database at its generation, whatever was
\* missed, archived, restored, evicted or read by other processes (cache.py,
\* payloads.py).
THEOREM CachesCoherent == Spec => []CacheCoherent
<1>1. CacheInv => CacheCoherent
  BY DEF CacheInv, CachesInv, CacheAt, Reflects, CacheCoherent
<1> QED
  BY <1>1, SessionInvariant, PTL

\* A row of memory_vector_snapshots finds what was visible in the generation
\* it is labelled with, in whatever order processes store theirs.
THEOREM GraphsCoherent == Spec => []SnapshotCoherent
<1>1. CacheInv => SnapshotCoherent
  BY DEF CacheInv, SavedInv, GraphAt, SnapshotCoherent
<1> QED
  BY <1>1, SessionInvariant, PTL

\* Type correctness of the caches, their payloads within their limit, and of
\* the session.
THEOREM SessionTypeCorrect == Spec => []TypeOK
<1>1. ASSUME CacheInv, SessionInv
      PROVE  TypeOK
  <2>1. ASSUME NEW p \in Services
        PROVE  Cardinality(Kept(caches[p].resident)) <= PayloadCache
    <3>1. CASE caches[p] = NoCache
      <4>1. Kept(NoCache.resident) = {}
        BY DEF Kept, NoCache, FreshCache, Nothing
      <4>2. Cardinality({}) = 0
        BY FS_EmptySet
      <4> QED
        BY <3>1, <4>1, <4>2, CacheBounds
    <3>2. CASE caches[p] # NoCache
      BY <1>1, <3>2 DEF CacheInv, CachesInv, CacheAt, Small
    <3> QED
      BY <3>1, <3>2
  <2>2. CacheTypeOK
    BY <1>1, <2>1 DEF CacheInv, CacheTyped, HistoryInv, CacheTypeOK
  <2>3. {pending, injected, shown} \subseteq {0} \cup Responses
    BY <1>1, SessionTypes DEF SessionInv
  <2>4. preparing.phase \in {"none", "reading", "answered"}
    BY <1>1, Preparing DEF SessionInv
  <2> QED
    BY <1>1, <2>2, <2>3, <2>4 DEF SessionInv, Typed, TypeOK
<1> QED
  BY <1>1, SessionInvariant, PTL

\* What is injected is what the conversation has read last, unless that was
\* never committed, in whatever order responses are delivered and committed
\* (session.py).
THEOREM ConversationsInformed == Spec => []ConversationInformed
<1>1. SessionInv => ConversationInformed
  BY DEF SessionInv, InformedInv, Taken, ConversationInformed
<1> QED
  BY <1>1, SessionInvariant, PTL

\* before_action() lets an action through only on what the database said when
\* the context was validated, whatever happened around its await.
THEOREM ActionsCurrent == Spec => ActionCurrent
<1> DEFINE Current ==
      acting.phase = "valid" /\ acting'.phase = "proceeding" =>
          LET n == acting.n
          IN  /\ injected = n
              /\ responses[n].content =
                    Content(At(acting.at), responses[n].ctx)
              /\ \A r \in RecordIds :
                    responses[n].content[r].status # "disputed"
<1>1. ASSUME CacheInv, SessionInv, [Next]_vars
      PROVE  Current
  <2> SUFFICES ASSUME acting.phase = "valid", acting'.phase = "proceeding"
               PROVE  Current
    OBVIOUS
  <2>1. Proceed
    <3>1. acting' # acting
      OBVIOUS
    <3>2. ~ Service /\ ~ UNCHANGED vars
      BY <3>1 DEF Service, sessionVars, vars
    <3>3. Session
      BY <1>1, <3>2 DEF Next
    <3>4. ~ \E ctx \in Contexts : Prepare(ctx)
      BY <3>1 DEF Prepare
    <3>5. ~ (ReadContext \/ Answer \/ PrepareFails \/ LoseReceipt \/ Reset)
      BY <3>1 DEF ReadContext, Answer, PrepareFails, LoseReceipt, Reset
    <3>6. ~ Resume /\ ~ Validate
      BY DEF Resume, Validate, NoAction
    <3>7. ~ \E n \in Responses :
              \/ Deliver(n) \/ DeliverUncertain(n) \/ Commit(n)
              \/ BeforeAction(n)
      BY <3>1 DEF Deliver, DeliverUncertain, Reaches, Commit, BeforeAction
    <3> QED
      BY <3>3, <3>4, <3>5, <3>6, <3>7 DEF Session
  <2>2. Latest(acting.n) /\ ~ Conflicts(acting.n)
    BY <2>1 DEF Proceed, NoAction
  <2>3. acting.n \in Responses /\ responses[acting.n].gen = acting.at
    BY <1>1 DEF SessionInv, AnswersInv
  <2>4. Faithful(responses[acting.n])
    BY <1>1, <2>3 DEF SessionInv, AnswersInv
  <2> QED
    BY <2>2, <2>3, <2>4 DEF Latest, Conflicts, Faithful
<1>2. CacheInv /\ SessionInv /\ [Next]_vars => [Current]_vars
  BY <1>1
<1> QED
  BY <1>2, SessionInvariant, PTL DEF Spec, ActionCurrent

=============================================================================
