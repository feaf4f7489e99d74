----------------------------- MODULE OwnerCache -----------------------------
(***************************************************************************)
(* The in-memory index of one owner in each process (memory/cache.py,      *)
(* memory/payloads.py, MemoryService._snapshot), the snapshots of vector   *)
(* graphs it is restored from (memory_vector_snapshots), and the database  *)
(* all of them follow.                                                     *)
(*                                                                         *)
(* The generation of a record stands for its revision: every revision has  *)
(* one of its own.  Embeddings never change with a revision, so a graph is *)
(* the set of the ids that can be found in it.                             *)
(*                                                                         *)
(* In one process the operations on an owner exclude each other            *)
(* (_owner_lock).  A read transaction sees the database as it was when it  *)
(* began; what a write transaction does is visible at its commit.  A write *)
(* that rolls back leaves what a read leaves, or what an eviction does.    *)
(***************************************************************************)
EXTENDS Records, Integers, Sequences

CONSTANTS
    Services,     \* processes, each with its MemoryService
    WriteOps,     \* decisions that are committed
    Existing,     \* memories of the owner when the processes start
    PayloadCache, \* IndexPolicy.payload_cache_size
    MaxWork       \* bound on commits, checkpoints and preparations together

ASSUME CacheBounds ==
    /\ Existing \subseteq RecordIds
    /\ PayloadCache \in Nat
    /\ MaxWork \in Nat

VARIABLES
    history,   \* the records at each generation, the current one last
    saved,     \* the row of memory_vector_snapshots
    caches,    \* MemoryService._caches of each process
    calls,     \* the operation that holds the owner lock of each process
    work       \* steps counted against MaxWork

cacheVars == <<history, saved, caches, calls, work>>

-----------------------------------------------------------------------------
\* memory_owners.generation, and the records as they were at a generation.
generation == Len(history) - 1
At(g) == history[g + 1]

Visible(recs) == {r \in RecordIds : recs[r].status \in {"active", "disputed"}}

\* rows: the revision each header and posting was built from, 0 for none;
\* vectors: ids the graph finds; resident: payloads kept by Payloads.
Cache == [gen : Int, rows : [RecordIds -> Nat], vectors : SUBSET RecordIds,
          resident : [RecordIds -> Nat]]

Nothing == [r \in RecordIds |-> 0]

\* OwnerCache.__init__
FreshCache == [gen |-> -1, rows |-> Nothing, vectors |-> {},
               resident |-> Nothing]

NoCache == [FreshCache EXCEPT !.gen = -2]

NoSnapshot == [gen |-> -1, active |-> {}]

\* kind: none, read and checkpoint (a read transaction is open), saving (the
\* graph of a checkpoint is to be stored).
Call == [kind : {"none", "read", "checkpoint", "saving"}, at : Nat,
         snapshot : [gen : Int, active : SUBSET RecordIds]]

NoCall == [kind |-> "none", at |-> 0, snapshot |-> NoSnapshot]

CacheInit ==
    /\ history = <<[r \in RecordIds |-> Put("absent", 0)],
                   [r \in RecordIds |-> IF r \in Existing
                                        THEN Put("active", 1)
                                        ELSE Put("absent", 0)]>>
    /\ saved = NoSnapshot
    /\ caches = [p \in Services |-> NoCache]
    /\ calls = [p \in Services |-> NoCall]
    /\ work = 0

-----------------------------------------------------------------------------
(***************************************************************************)
(* Synchronisation                                                         *)
(***************************************************************************)
\* Rows of memories_v1 newer than the cache; a first hydration leaves retired
\* ones out.
Changed(cache, recs) ==
    {r \in Stored(recs) :
        /\ recs[r].gen > cache.gen
        /\ cache.gen >= 0 \/ recs[r].status # "superseded"}

\* Rows that were retired, and ids archived since.
Retired(cache, recs) ==
    (Changed(cache, recs) \ Visible(recs))
        \cup {r \in RecordIds :
                recs[r].status = "archived" /\ recs[r].gen > cache.gen}

Without(f, S) == [r \in RecordIds |-> IF r \in S THEN 0 ELSE f[r]]

\* OwnerCache.sync and update_rows; a vector is inserted only when its row is
\* newer than the graph that was restored.
Synced(cache, restored, recs, g) ==
    LET changed == Changed(cache, recs)
        retired == Retired(cache, recs)
        updated == changed \ retired
    IN  IF cache.gen = g THEN cache
        ELSE [gen |-> g,
              rows |-> [r \in RecordIds |->
                          IF r \in updated THEN recs[r].gen
                          ELSE Without(cache.rows, retired)[r]],
              vectors |-> (cache.vectors \ retired)
                              \cup {r \in updated : recs[r].gen > restored},
              resident |-> Without(cache.resident, changed \cup retired)]

Members(cache) == {r \in RecordIds : cache.rows[r] # 0}

\* MUTANT: what the restored graph has too much stays in it.
HydratedUnpruned(snapshot, recs, g) ==
    Synced([FreshCache EXCEPT !.vectors = snapshot.active], snapshot.gen,
           recs, g)

\* A cache that is not there is restored from the saved graph, brought up to
\* date, and rid of the ids the graph still had.
Hydrated(snapshot, recs, g) ==
    LET cache == Synced([FreshCache EXCEPT !.vectors = snapshot.active],
                        snapshot.gen, recs, g)
    IN  [cache EXCEPT !.vectors = @ \cap Members(cache)]

\* MemoryService._snapshot in a transaction that sees generation g.
Snapshot(cache, snapshot, g) ==
    IF cache = NoCache THEN Hydrated(snapshot, At(g), g)
    ELSE Synced(cache, -1, At(g), g)

Kept(resident) == {r \in RecordIds : resident[r] # 0}

\* MUTANT: nothing makes room for the payload.
FetchedUnbounded(cache, r, recs) ==
    IF r \in Members(cache) \ Kept(cache.resident)
    THEN {[cache.resident EXCEPT ![r] = recs[r].gen]}
    ELSE {cache.resident}

\* Payloads.__getitem__: a payload that is not resident is read through the
\* transaction; another one (the least recently used; here any) makes room.
Fetched(cache, r, recs) ==
    LET kept == Kept(cache.resident)
        full == Cardinality(kept) = PayloadCache
        victims == IF full THEN {{v} : v \in kept} ELSE {{}}
    IN  IF r \in Members(cache) \ kept /\ PayloadCache # 0
        THEN {[Without(cache.resident, v) EXCEPT ![r] = recs[r].gen] :
                 v \in victims}
        ELSE {cache.resident}

-----------------------------------------------------------------------------
(***************************************************************************)
(* Operations of a process                                                 *)
(***************************************************************************)
\* A read transaction begins.
Begin(p, kind) ==
    /\ calls[p].kind = "none"
    /\ calls' = [calls EXCEPT ![p] = [kind |-> kind, at |-> generation,
                                      snapshot |-> saved]]

\* recall, resolve_prefs and the like, up to the end of their transaction.
Read(p, r) ==
    LET g == calls[p].at
        cache == Snapshot(caches[p], calls[p].snapshot, g)
    IN  /\ calls[p].kind = "read"
        /\ \E resident \in Fetched(cache, r, At(g)) :
              caches' = [caches EXCEPT ![p] =
                            [cache EXCEPT !.resident = resident]]
        /\ calls' = [calls EXCEPT ![p] = NoCall]

\* checkpoint_indexes: the read transaction, after which the graph is taken.
Checkpoint(p) ==
    LET g == calls[p].at
        cache == Snapshot(caches[p], calls[p].snapshot, g)
    IN  /\ calls[p].kind = "checkpoint"
        /\ caches' = [caches EXCEPT ![p] = cache]
        /\ calls' = [calls EXCEPT ![p] =
               [kind |-> "saving", at |-> g,
                snapshot |-> [gen |-> g, active |-> cache.vectors]]]
        /\ UNCHANGED <<history, saved, work>>

\* MUTANT: the graph is stored under the generation the database has by then.
SaveAsCurrent(p) ==
    /\ calls[p].kind = "saving"
    /\ saved' = [calls[p].snapshot EXCEPT !.gen = generation]
    /\ calls' = [calls EXCEPT ![p] = NoCall]
    /\ UNCHANGED <<history, caches, work>>

\* A transaction of its own stores the graph, over a newer one if another
\* process has been faster.
Save(p) ==
    /\ calls[p].kind = "saving"
    /\ saved' = calls[p].snapshot
    /\ calls' = [calls EXCEPT ![p] = NoCall]
    /\ UNCHANGED <<history, caches, work>>

\* An exception in a transaction or in _snapshot: the cache is dropped, and
\* other owners' calls evict it at any time.
Evict(p) ==
    /\ caches[p] # NoCache
    /\ caches' = [caches EXCEPT ![p] = NoCache]
    /\ UNCHANGED <<history, saved, calls, work>>

\* The process is killed and started again.
Restart(p) ==
    /\ calls[p].kind # "none"
    /\ caches' = [caches EXCEPT ![p] = NoCache]
    /\ calls' = [calls EXCEPT ![p] = NoCall]
    /\ UNCHANGED <<history, saved, work>>

\* persist(), apply() and register_field: the transaction synchronises the
\* cache with what it finds and commits one generation more.
Persist(p, change) ==
    /\ calls[p].kind = "none"
    /\ work < MaxWork
    /\ Applicable(At(generation), change)
    /\ caches' = [caches EXCEPT ![p] = Snapshot(@, saved, generation)]
    /\ history' = Append(history,
                         ApplyChange(At(generation), change, generation + 1))
    /\ work' = work + 1
    /\ UNCHANGED <<saved, calls>>

\* Retention moves retired rows into memory_archives, without a look at the
\* cache.
Archive(p, r) ==
    /\ calls[p].kind = "none"
    /\ work < MaxWork
    /\ At(generation)[r].status = "superseded"
    /\ history' = Append(history, [At(generation) EXCEPT ![r] =
                                      Put("archived", generation + 1)])
    /\ work' = work + 1
    /\ UNCHANGED <<saved, caches, calls>>

Changes ==
    {c \in Change : /\ c.op \in WriteOps
                    /\ (c.id = NoId) = (c.op = "none")
                    /\ (c.target = NoId) = ~HasTarget(c.op)}

\* Reads of a process, and everything else it does for the owner.
Reads(p) ==
    \E r \in RecordIds : Read(p, r) /\ UNCHANGED <<history, saved, work>>

Serves(p) ==
    \/ Begin(p, "read") /\ UNCHANGED <<history, saved, caches, work>>
    \/ /\ work < MaxWork
       /\ Begin(p, "checkpoint")
       /\ work' = work + 1
       /\ UNCHANGED <<history, saved, caches>>
    \/ Checkpoint(p) \/ Save(p) \/ Evict(p)
    \/ \E change \in Changes : Persist(p, change)
    \/ \E r \in RecordIds : Archive(p, r)

CacheNext == \E p \in Services : Reads(p) \/ Serves(p) \/ Restart(p)

CacheSpec == CacheInit /\ [][CacheNext]_cacheVars

-----------------------------------------------------------------------------
(***************************************************************************)
(* Properties                                                              *)
(***************************************************************************)
CacheTypeOK ==
    /\ history \in Seq([RecordIds -> Record])
    /\ saved \in [gen : Int, active : SUBSET RecordIds]
    /\ caches \in [Services -> Cache]
    /\ \A p \in Services : Cardinality(Kept(caches[p].resident)) <= PayloadCache
    /\ calls \in [Services -> Call]
    /\ work \in 0 .. MaxWork

\* A cache is the state of the database at its generation: its headers and
\* postings are built from the visible revisions of that generation, the graph
\* finds exactly these, and a resident payload is of that revision, whatever
\* was missed, archived, restored or evicted on the way there.
CacheCoherent ==
    \A p \in Services :
        LET cache == caches[p]
            visible == Visible(At(cache.gen))
        IN  cache # NoCache =>
                /\ \A r \in RecordIds :
                      /\ cache.rows[r] =
                            IF r \in visible THEN At(cache.gen)[r].gen ELSE 0
                      /\ cache.resident[r] \in {0, cache.rows[r]}
                /\ cache.vectors = visible

\* A stored graph finds what was visible at the generation it is labelled
\* with, though it is stored in a transaction later than the one it is from.
SnapshotCoherent ==
    saved # NoSnapshot => saved.active = Visible(At(saved.gen))

=============================================================================
