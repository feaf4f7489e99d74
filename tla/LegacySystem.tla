---------------------------- MODULE LegacySystem ----------------------------
(***************************************************************************)
(* The legacy user memory (core/system.py): its operations run in worker   *)
(* threads (asyncio.to_thread) over one index and three tables, the long-  *)
(* term traces, the short-term traces and the working-memory events.       *)
(*                                                                         *)
(* No lock spans an operation: each call of the index and each transaction *)
(* is a step of its own.  A transaction may fail; then the operation ends  *)
(* there with its exception.  The process may be killed and started again, *)
(* which loses the index.                                                  *)
(***************************************************************************)
EXTENDS MemoryEngine

CONSTANTS
    Threads,
    Users,
    UserOf(_),   \* the user of each trace
    StmEnabled,  \* stm_store is not None
    RecallLimit, \* the limit of each recall
    MaxEvents,   \* SqlWorkingMemory.max_events
    MaxCalls,    \* bound on the operations that are called
    MaxFaults    \* bound on failed transactions and restarts

ASSUME LegacyConstants ==
    /\ Users # {} /\ Users \subseteq Keys
    /\ \A u \in Uids : UserOf(u) \in Users \cap KeysOf(u)
    /\ StmEnabled \in BOOLEAN
    /\ {MaxEvents, MaxCalls, MaxFaults, RecallLimit} \subseteq Nat

VARIABLES
    engine,    \* the index
    ltm,       \* long-term rows: [dim, count], or Absent
    stm,       \* short-term rows
    events,    \* working-memory rows
    threads,   \* the operation each thread is in
    issued,    \* uuids taken so far
    calls,     \* counted against MaxCalls
    faults,    \* counted against MaxFaults
    log        \* history: what callers have been told, see Log

tables == <<ltm, stm, events>>
vars == <<engine, tables, threads, issued, calls, faults, log>>

\* remembered: traces remember() has returned in this process; rejected: those
\* it took back and raised for; dropped: those forget() was called for;
\* forgotten: those it returned for, see Forget; returned: how often a recall
\* returned each; uncounted: those marked by a recall that failed; untrimmed:
\* users whose events were added and then not trimmed.
Log == [remembered : SUBSET Uids, rejected : SUBSET Uids,
        dropped : SUBSET Uids, forgotten : SUBSET Uids,
        returned : [Uids -> Nat], uncounted : SUBSET Uids,
        untrimmed : SUBSET Users]

-----------------------------------------------------------------------------
Absent == [dim |-> 0, count |-> 0]
Persisted == {u \in Uids : ltm[u] # Absent}

\* A row is stale when its TTL has run out.
Freshness == {"absent", "fresh", "stale"}
Event == [id : Nat \ {0}, user : Users, uid : {0} \cup Uids, stale : BOOLEAN]

\* The next step of a thread.  remember: persist, publish (or reject), stash,
\* note; events are trimmed in three statements: count, pick, trim.  recall:
\* mark, increment.  forget: remove, unstore, unstash, unlog.  hydrate: load.
\* purge_expired: purge, sweep.
Steps == {"idle", "persist", "publish", "reject", "stash", "note", "count",
          "pick", "trim", "mark", "increment", "remove", "unstore", "unstash",
          "unlog", "load", "purge", "sweep"}

\* uids: candidates of a recall; left: those it has still to mark; rows: what
\* a hydration has still to ingest; over, ids: events to be trimmed; alone:
\* see Forget.
Thread == [pc : Steps, uid : {0} \cup Uids, dim : {0} \cup Dims,
           user : Users, uids : SUBSET Uids, left : SUBSET Uids,
           rows : Seq(Trace), over : Nat,
           ids : SUBSET Nat, alone : BOOLEAN]

Idle == [pc |-> "idle", uid |-> 0, dim |-> 0, user |-> CHOOSE x \in Users : TRUE,
         uids |-> {}, left |-> {}, rows |-> <<>>, over |-> 0, ids |-> {},
         alone |-> FALSE]

Init ==
    /\ engine = EmptyEngine
    /\ ltm = [u \in Uids |-> Absent]
    /\ stm = [u \in Uids |-> "absent"]
    /\ events = {}
    /\ threads = [t \in Threads |-> Idle]
    /\ issued = 0 /\ calls = 0 /\ faults = 0
    /\ log = [remembered |-> {}, rejected |-> {}, dropped |-> {},
              forgotten |-> {}, returned |-> [u \in Uids |-> 0],
              uncounted |-> {}, untrimmed |-> {}]

At(t, pc) == threads[t].pc = pc
Goto(t, pc) == threads' = [threads EXCEPT ![t].pc = pc]
Return(t) == threads' = [threads EXCEPT ![t] = Idle]

\* A call is taken from the pool by an idle thread.
Enter(t, thread) ==
    /\ At(t, "idle")
    /\ calls < MaxCalls
    /\ calls' = calls + 1
    /\ threads' = [threads EXCEPT ![t] = thread]

\* remember(u) has not returned yet.
Remembering(t, u) ==
    threads[t].uid = u /\ threads[t].pc \in {"persist", "publish", "reject",
                          "stash", "note", "count", "pick", "trim"}

-----------------------------------------------------------------------------
(***************************************************************************)
(* remember() and record_event()                                           *)
(***************************************************************************)
\* MUTANT: the trace is published first, since ingest checks it anyway.
RememberPublished(t, dim) ==
    /\ issued + 1 \in Uids
    /\ Accepts(engine, dim)
    /\ issued' = issued + 1
    /\ Enter(t, [Idle EXCEPT !.pc = "persist", !.uid = issued + 1,
                             !.user = UserOf(issued + 1), !.dim = dim])
    /\ engine' = Ingested(engine, [uid |-> issued + 1, dim |-> dim, count |-> 0])
    /\ UNCHANGED <<tables, faults, log>>

\* A uuid is taken, and the embedding checked against the index.
Remember(t, dim) ==
    /\ issued + 1 \in Uids
    /\ Accepts(engine, dim)
    /\ issued' = issued + 1
    /\ Enter(t, [Idle EXCEPT !.pc = "persist", !.uid = issued + 1,
                             !.user = UserOf(issued + 1), !.dim = dim])
    /\ UNCHANGED <<engine, tables, faults, log>>

Persist(t) ==
    /\ At(t, "persist")
    /\ ltm' = [ltm EXCEPT ![threads[t].uid] = [dim |-> threads[t].dim,
                                               count |-> 0]]
    /\ Goto(t, "publish")
    /\ UNCHANGED <<engine, stm, events, issued, calls, faults, log>>

\* The index may have got another dimension since it was asked.
Publish(t) ==
    LET trace == [uid |-> threads[t].uid, dim |-> threads[t].dim, count |-> 0]
    IN  /\ At(t, "publish")
        /\ \/ /\ Accepts(engine, trace.dim)
              /\ engine' = Ingested(engine, trace)
              /\ Goto(t, IF StmEnabled THEN "stash" ELSE "note")
           \/ /\ ~Accepts(engine, trace.dim)
              /\ Goto(t, "reject")
              /\ UNCHANGED engine
        /\ UNCHANGED <<tables, issued, calls, faults, log>>

\* MUTANT: the exception goes up and the row stays.
RejectKept(t) ==
    /\ At(t, "reject")
    /\ log' = [log EXCEPT !.rejected = @ \cup {threads[t].uid}]
    /\ Return(t)
    /\ UNCHANGED <<engine, tables, issued, calls, faults>>

\* The row is taken back and the exception raised.
Reject(t) ==
    /\ At(t, "reject")
    /\ ltm' = [ltm EXCEPT ![threads[t].uid] = Absent]
    /\ log' = [log EXCEPT !.rejected = @ \cup {threads[t].uid}]
    /\ Return(t)
    /\ UNCHANGED <<engine, stm, events, issued, calls, faults>>

Stash(t) ==
    /\ At(t, "stash")
    /\ stm' = [stm EXCEPT ![threads[t].uid] = "fresh"]
    /\ Goto(t, "note")
    /\ UNCHANGED <<engine, ltm, events, issued, calls, faults, log>>

\* remember() or record_event() returns.
Noted(t) == [log EXCEPT !.remembered = @ \cup ({threads[t].uid} \ {0})]

\* also_working_mem is False.
SkipNote(t) ==
    /\ At(t, "note")
    /\ threads[t].uid # 0
    /\ Return(t)
    /\ log' = Noted(t)
    /\ UNCHANGED <<engine, tables, issued, calls, faults>>

RecordEvent(t, user) ==
    /\ Enter(t, [Idle EXCEPT !.pc = "note", !.user = user])
    /\ UNCHANGED <<engine, tables, issued, faults, log>>

\* add_event: the event is committed, and the user's stale ones go.  SQLite
\* numbers a row by the largest id there is.
Note(t) ==
    LET user == threads[t].user
        event == [id |-> 1 + Max({0} \cup {e.id : e \in events}),
                  user |-> user, uid |-> threads[t].uid, stale |-> FALSE]
    IN  /\ At(t, "note")
        /\ events' = {e \in events : e.user # user \/ ~e.stale} \cup {event}
        /\ Goto(t, "count")
        /\ UNCHANGED <<engine, ltm, stm, issued, calls, faults, log>>

EventsOf(user) == {e \in events : e.user = user}

\* MUTANT: the cap is off by one.
OverflowLate(user) == Max({MaxEvents + 1, Cardinality(EventsOf(user))}) - MaxEvents - 1

\* _enforce_cap: count - self.max_events, if it is positive.
Overflow(user) == Max({MaxEvents, Cardinality(EventsOf(user))}) - MaxEvents

Count(t) ==
    LET user == threads[t].user
    IN  /\ At(t, "count")
        /\ \/ /\ Overflow(user) > 0
              /\ threads' = [threads EXCEPT ![t].pc = "pick",
                                            ![t].over = Overflow(user)]
              /\ log' = [log EXCEPT !.untrimmed = @ \ {user}]
           \/ /\ Overflow(user) = 0
              /\ Return(t)
              /\ log' = [Noted(t) EXCEPT !.untrimmed = @ \ {user}]
        /\ UNCHANGED <<engine, tables, issued, calls, faults>>

\* The oldest ids, of the events there are by now.
Pick(t) ==
    LET ids == {e.id : e \in EventsOf(threads[t].user)}
    IN  /\ At(t, "pick")
        /\ threads' = [threads EXCEPT ![t].pc = "trim",
               ![t].ids = {i \in ids : Cardinality({j \in ids : j < i})
                                            < threads[t].over}]
        /\ UNCHANGED <<engine, tables, issued, calls, faults, log>>

Trim(t) ==
    /\ At(t, "trim")
    /\ events' = {e \in events : e.id \notin threads[t].ids}
    /\ Return(t)
    /\ log' = Noted(t)
    /\ UNCHANGED <<engine, ltm, stm, issued, calls, faults>>

-----------------------------------------------------------------------------
(***************************************************************************)
(* recall()                                                                *)
(***************************************************************************)
Search(t, user, dim) ==
    /\ Accepts(engine, dim)
    /\ \E uids \in Found(engine, user, RecallLimit) :
          /\ uids # {}
          /\ Enter(t, [Idle EXCEPT !.pc = "mark", !.user = user,
                                   !.uids = uids, !.left = uids])
    /\ UNCHANGED <<engine, tables, issued, faults, log>>

Mark(t, u) ==
    /\ At(t, "mark")
    /\ u \in threads[t].left
    /\ engine' = Marked(engine, u)
    /\ LET left == threads[t].left \ {u}
       IN  threads' = [threads EXCEPT ![t].left = left,
               ![t].pc = IF left = {} THEN "increment" ELSE "mark"]
    /\ UNCHANGED <<tables, issued, calls, faults, log>>

\* MUTANT: the count of the index is written through.
CountsOfIndex(uids) ==
    [u \in Uids |-> IF u \in uids \cap Persisted \cap Indexed(engine)
                    THEN [ltm[u] EXCEPT !.count = engine.traces[engine.slot[u]].count]
                    ELSE ltm[u]]

\* MUTANT: the rows are merged, and come back if they have been deleted.
CountsMerged(uids) ==
    [u \in Uids |-> IF u \in uids THEN [ltm[u] EXCEPT !.count = @ + 1]
                    ELSE ltm[u]]

\* increment_access: one more for the rows that are still there.
Counted(uids) ==
    [u \in Uids |-> IF u \in uids \cap Persisted
                    THEN [ltm[u] EXCEPT !.count = @ + 1] ELSE ltm[u]]

\* The rest of recall() only reads.
Increment(t) ==
    LET uids == threads[t].uids
    IN  /\ At(t, "increment")
        /\ ltm' = Counted(uids)
        /\ log' = [log EXCEPT !.returned =
               [u \in Uids |-> IF u \in uids THEN @[u] + 1 ELSE @[u]]]
        /\ Return(t)
        /\ UNCHANGED <<engine, stm, events, issued, calls, faults>>

-----------------------------------------------------------------------------
(***************************************************************************)
(* forget(), hydrate() and purge_expired()                                 *)
(***************************************************************************)
\* A trace is known once it is durable, and forgetting it may be tried again.
\* A call that overlaps its remember(), or a hydration that has read its row,
\* is not alone.
Forget(t, u) ==
    /\ u \in Persisted \cup log.dropped
    /\ Enter(t, [Idle EXCEPT !.pc = "remove", !.uid = u, !.user = UserOf(u),
            !.alone = \A o \in Threads :
                /\ ~Remembering(o, u)
                /\ \A i \in DOMAIN threads[o].rows : threads[o].rows[i].uid # u])
    /\ log' = [log EXCEPT !.dropped = @ \cup {u}]
    /\ UNCHANGED <<engine, tables, issued, faults>>

\* MUTANT: a trace the index does not know is taken to be gone.
UnindexKnown(t) ==
    /\ At(t, "remove")
    /\ engine' = Removed(engine, threads[t].uid)
    /\ Goto(t, IF threads[t].uid \in Indexed(engine) THEN "unstore" ELSE "unlog")
    /\ UNCHANGED <<tables, issued, calls, faults, log>>

Unindex(t) ==
    /\ At(t, "remove")
    /\ engine' = Removed(engine, threads[t].uid)
    /\ Goto(t, "unstore")
    /\ UNCHANGED <<tables, issued, calls, faults, log>>

Unstore(t) ==
    /\ At(t, "unstore")
    /\ ltm' = [ltm EXCEPT ![threads[t].uid] = Absent]
    /\ Goto(t, "unstash")
    /\ UNCHANGED <<engine, stm, events, issued, calls, faults, log>>

\* Whether this process has short-term memory or not.
Unstash(t) ==
    /\ At(t, "unstash")
    /\ stm' = [stm EXCEPT ![threads[t].uid] = "absent"]
    /\ Goto(t, "unlog")
    /\ UNCHANGED <<engine, ltm, events, issued, calls, faults, log>>

Unlog(t) ==
    /\ At(t, "unlog")
    /\ events' = {e \in events : e.uid # threads[t].uid}
    /\ log' = [log EXCEPT !.forgotten = IF threads[t].alone
                                        THEN @ \cup {threads[t].uid} ELSE @]
    /\ Return(t)
    /\ UNCHANGED <<engine, ltm, stm, issued, calls, faults>>

\* The traces of a user that are stored, oldest first.
InOrder(user) ==
    LET stored == {u \in Persisted : UserOf(u) = user}
    IN  {uids \in [1 .. Cardinality(stored) -> stored] :
            \A i, j \in DOMAIN uids : i < j => uids[i] < uids[j]}

\* hydrate: the rows of a user.
Hydrate(t, user) ==
    \E uids \in InOrder(user) :
        /\ At(t, "idle") /\ calls < MaxCalls
        /\ uids # <<>>
        /\ calls' = calls + 1
        /\ threads' = [o \in Threads |->
               IF o = t
               THEN [Idle EXCEPT !.pc = "load", !.user = user,
                       !.rows = [i \in DOMAIN uids |->
                           [uid |-> uids[i], dim |-> ltm[uids[i]].dim,
                            count |-> ltm[uids[i]].count]]]
               ELSE [threads[o] EXCEPT !.alone = @ /\ threads[o].uid \notin ToSet(uids)]]
        /\ UNCHANGED <<engine, tables, issued, faults, log>>

\* A row of another dimension ends the hydration with an exception.
Load(t) ==
    LET rows == threads[t].rows
    IN  /\ At(t, "load")
        /\ engine' = IF Accepts(engine, Head(rows).dim)
                     THEN Ingested(engine, Head(rows)) ELSE engine
        /\ IF Accepts(engine, Head(rows).dim) /\ Len(rows) > 1
           THEN threads' = [threads EXCEPT ![t].rows = Tail(rows)]
           ELSE Return(t)
        /\ UNCHANGED <<tables, issued, calls, faults, log>>

Purge(t) ==
    /\ Enter(t, [Idle EXCEPT !.pc = IF StmEnabled THEN "purge" ELSE "sweep"])
    /\ UNCHANGED <<engine, tables, issued, faults, log>>

PurgeTraces(t) ==
    /\ At(t, "purge")
    /\ stm' = [u \in Uids |-> IF stm[u] = "stale" THEN "absent" ELSE stm[u]]
    /\ Goto(t, "sweep")
    /\ UNCHANGED <<engine, ltm, events, issued, calls, faults, log>>

PurgeEvents(t) ==
    /\ At(t, "sweep")
    /\ events' = {e \in events : ~e.stale}
    /\ Return(t)
    /\ UNCHANGED <<engine, ltm, stm, issued, calls, faults, log>>

-----------------------------------------------------------------------------
(***************************************************************************)
(* Time, failures and restarts                                             *)
(***************************************************************************)
\* The oldest row's TTL runs out first.
ExpireTrace(u) ==
    /\ stm[u] = "fresh"
    /\ \A o \in Uids : stm[o] = "fresh" => u <= o
    /\ stm' = [stm EXCEPT ![u] = "stale"]
    /\ UNCHANGED <<engine, ltm, events, threads, issued, calls, faults, log>>

ExpireEvent(e) ==
    /\ \A o \in events : o.stale \/ e.id <= o.id
    /\ ~e.stale
    /\ events' = (events \ {e}) \cup {[e EXCEPT !.stale = TRUE]}
    /\ UNCHANGED <<engine, ltm, stm, threads, issued, calls, faults, log>>

\* Threads whose event is committed and not yet trimmed.
Adding == {t \in Threads : threads[t].pc \in {"count", "pick", "trim"}}

\* A transaction is rolled back and its exception ends the operation.
Fail(t) ==
    /\ threads[t].pc \notin {"idle", "publish", "mark", "remove", "load"}
    /\ faults < MaxFaults
    /\ faults' = faults + 1
    /\ log' = [log EXCEPT
           !.untrimmed = @ \cup {threads[o].user : o \in {t} \cap Adding},
           !.uncounted = IF At(t, "increment") THEN @ \cup threads[t].uids ELSE @]
    /\ Return(t)
    /\ UNCHANGED <<engine, tables, issued, calls>>

Restart ==
    /\ engine # EmptyEngine
    /\ faults < MaxFaults
    /\ faults' = faults + 1
    /\ engine' = EmptyEngine
    /\ threads' = [t \in Threads |-> Idle]
    /\ log' = [log EXCEPT !.remembered = {}, !.uncounted = {},
           !.untrimmed = @ \cup {threads[o].user : o \in Adding}]
    /\ UNCHANGED <<tables, issued, calls>>

-----------------------------------------------------------------------------
Calls(t) ==
    \/ \E dim \in Dims : Remember(t, dim)
    \/ \E user \in Users : \/ RecordEvent(t, user) \/ Hydrate(t, user)
                           \/ \E dim \in Dims : Search(t, user, dim)
    \/ \E u \in Uids : Forget(t, u)
    \/ Purge(t)

Continues(t) ==
    \/ Persist(t) \/ Publish(t) \/ Reject(t) \/ Stash(t) \/ SkipNote(t)
    \/ Note(t) \/ Count(t) \/ Pick(t) \/ Trim(t)
    \/ \E u \in Uids : Mark(t, u)
    \/ Increment(t)
    \/ Unindex(t) \/ Unstore(t) \/ Unstash(t) \/ Unlog(t)
    \/ Load(t) \/ PurgeTraces(t) \/ PurgeEvents(t)

Next ==
    \/ \E t \in Threads : Calls(t) \/ Continues(t) \/ Fail(t)
    \/ \E u \in Uids : ExpireTrace(u)
    \/ \E e \in events : ExpireEvent(e)
    \/ Restart

Spec == Init /\ [][Next]_vars

-----------------------------------------------------------------------------
(***************************************************************************)
(* Properties                                                              *)
(***************************************************************************)
TypeOK ==
    /\ engine \in Engine /\ Len(engine.traces) <= Cardinality(Uids)
    /\ ltm \in [Uids -> [dim : Dims, count : Nat] \cup {Absent}]
    /\ stm \in [Uids -> Freshness]
    /\ \A e \in events : e \in Event
    /\ \A t \in Threads : threads[t] \in Thread
    /\ {issued, calls, faults} \subseteq Nat
    /\ log \in Log

\* Whatever is ingested, replaced, removed and hydrated by several threads,
\* the postings and trace_index of the index name the slots its traces are in
\* ("there are no tombstones and no stale posting-list entries"): a search
\* neither misses a trace nor reads a slot of another one.
PostingsExact == Exact(engine)

\* A recall finds only what is durable, or was until somebody asked to forget
\* it: remember() publishes after it has persisted, and what it takes back was
\* never published, by a hydration either.
DurableFirst == Indexed(engine) \subseteq Persisted \cup log.dropped

\* remember() has either stored and indexed the trace, under the dimension of
\* the index, or it has raised and left nothing of it, though a concurrent
\* first write or a hydration may set the dimension between its check and its
\* ingest.
RememberedOrTakenBack ==
    /\ \A u \in log.remembered \ log.dropped :
          /\ u \in Persisted \cap Indexed(engine)
          /\ ltm[u].dim = engine.dim
    /\ \A u \in log.rejected :
          /\ u \notin Persisted \cup Indexed(engine)
          /\ stm[u] = "absent"
          /\ \A e \in events : e.uid # u

MarkedBy(u) ==
    {t \in Threads : At(t, "mark") \/ At(t, "increment")}
        \cap {t \in Threads : u \in threads[t].uids \ threads[t].left}

\* Access counts survive: no row counts fewer accesses than recalls returned
\* it, and the index, which hydrations overwrite with what they read earlier,
\* is ahead of the row only by recalls that have still to write theirs.
AccessesCounted ==
    \A u \in Persisted :
        /\ log.returned[u] <= ltm[u].count
        /\ u \in Indexed(engine) \ log.uncounted =>
              engine.traces[engine.slot[u]].count
                  <= ltm[u].count + Cardinality(MarkedBy(u))

\* When nobody is adding an event for a user, and no add was cut short after
\* its commit, the user has at most max_events of them: of concurrent adds,
\* the one that counts last has seen the rows of all.
EventsCapped ==
    \A user \in Users \ log.untrimmed :
        \/ \E t \in Adding : threads[t].user = user
        \/ Cardinality(EventsOf(user)) <= MaxEvents

\* forget() removes a trace everywhere, and it stays away, unless the trace
\* was still being remembered or a hydration had read its row before.
ForgottenEverywhere ==
    \A u \in log.forgotten :
        /\ u \notin Persisted \cup Indexed(engine)
        /\ stm[u] = "absent"
        /\ \A e \in events : e.uid # u

=============================================================================
