---------------------------- MODULE MemoryEngine ----------------------------
(***************************************************************************)
(* The in-memory index of the legacy user memory (struct MemoryEngine of   *)
(* lib.rs) behind its binding PyMemoryEngine and the wrapper               *)
(* indexing/rust_index.py.  Each call holds the engine's lock, so it is    *)
(* one step of whoever makes it.                                           *)
(*                                                                         *)
(* Traces are dense: a slot is a position of `traces`, and removal moves   *)
(* the last trace into the slot that is freed.  The three posting indexes  *)
(* (user, tag, keyword) are treated alike by the code; they are one here,  *)
(* from the keys of a trace to slots.  Scores and texts are left out.      *)
(***************************************************************************)
EXTENDS Naturals, Sequences, SequencesExt, FiniteSets, FiniteSetsExt

CONSTANTS
    Uids,      \* trace_uid of each trace, numbered in the order of created_at
    Keys,      \* users, tags and tokens a trace may be posted under
    KeysOf(_), \* the keys of a trace
    Dims       \* lengths of embeddings

ASSUME EngineConstants ==
    /\ IsFiniteSet(Uids) /\ Uids \subseteq Nat \ {0}
    /\ Dims \subseteq Nat \ {0}
    /\ \A u \in Uids : KeysOf(u) \subseteq Keys

\* A trace, as it is stored and as it is ingested.
Trace == [uid : Uids, dim : Dims, count : Nat]

\* slot: trace_index, 0 for a trace that is not there; dim: embedding_dim, 0
\* for None.
Engine == [traces : Seq(Trace),
           slot : [Uids -> Nat],
           posts : [Keys -> SUBSET Nat],
           dim : {0} \cup Dims]

EmptyEngine == [traces |-> <<>>, slot |-> [u \in Uids |-> 0],
                posts |-> [k \in Keys |-> {}], dim |-> 0]

Indexed(engine) == {u \in Uids : engine.slot[u] # 0}

-----------------------------------------------------------------------------
\* post and unpost for all keys of the trace in slot i.
Link(posts, traces, i) ==
    [k \in Keys |-> IF k \in KeysOf(traces[i].uid)
                    THEN posts[k] \cup {i} ELSE posts[k]]

Unlink(posts, traces, i) ==
    [k \in Keys |-> IF k \in KeysOf(traces[i].uid)
                    THEN posts[k] \ {i} ELSE posts[k]]

\* RustMemoryIndex.check_embedding, and what ingest_trace refuses.
Accepts(engine, dim) == engine.dim \in {0, dim}

\* ingest_trace, when it accepts the embedding.
Ingested(engine, trace) ==
    LET known == trace.uid \in Indexed(engine)
        i == IF known THEN engine.slot[trace.uid] ELSE Len(engine.traces) + 1
        traces == IF known THEN [engine.traces EXCEPT ![i] = trace]
                  ELSE Append(engine.traces, trace)
        posts == IF known THEN Unlink(engine.posts, engine.traces, i)
                 ELSE engine.posts
    IN  [traces |-> traces,
         slot |-> [engine.slot EXCEPT ![trace.uid] = i],
         posts |-> Link(posts, traces, i),
         dim |-> trace.dim]

\* mark_accessed.
Marked(engine, u) ==
    IF u \in Indexed(engine)
    THEN [engine EXCEPT !.traces[engine.slot[u]].count = @ + 1]
    ELSE engine

\* MUTANT: the trace that moves is not taken off its old slot.
UnlinkedOne(engine, i, last) == Unlink(engine.posts, engine.traces, i)

\* The postings without the trace that goes and the one that moves.
UnlinkedBoth(engine, i, last) ==
    Unlink(Unlink(engine.posts, engine.traces, i), engine.traces, last)

\* remove_trace: swap_remove, and the trace that moves is posted anew.
Removed(engine, u) ==
    LET i == engine.slot[u]
        last == Len(engine.traces)
        moved == engine.traces[last].uid
        traces == Front([engine.traces EXCEPT ![i] = engine.traces[last]])
        posts == UnlinkedBoth(engine, i, last)
    IN  IF i = 0 THEN engine
        ELSE [engine EXCEPT
                !.traces = traces,
                !.slot = [@ EXCEPT ![moved] = i, ![u] = 0],
                !.posts = IF i = last THEN posts ELSE Link(posts, traces, i)]

\* search_candidates reaches the traces of a user through its postings; which
\* of them score best is left open.
Found(engine, user, limit) ==
    LET found == {engine.traces[i].uid : i \in engine.posts[user]}
    IN  kSubset(Min({limit, Cardinality(found)}), found)

-----------------------------------------------------------------------------
\* Postings and trace_index name exactly the slots the traces are in.
Exact(engine) ==
    /\ \A u \in Indexed(engine) :
          /\ engine.slot[u] \in DOMAIN engine.traces
          /\ engine.traces[engine.slot[u]].uid = u
    /\ \A i \in DOMAIN engine.traces : engine.slot[engine.traces[i].uid] = i
    /\ \A k \in Keys :
          engine.posts[k] = {i \in DOMAIN engine.traces :
                                k \in KeysOf(engine.traces[i].uid)}
    /\ \A i \in DOMAIN engine.traces : engine.traces[i].dim = engine.dim

=============================================================================
