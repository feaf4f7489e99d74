------------------------------ MODULE Records -------------------------------
(***************************************************************************)
(* The records of one owner (memories_v1 and memory_archives), the changes *)
(* reconciliation and dream consolidation make to them, and the batches a  *)
(* dream scan walks.                                                       *)
(*                                                                         *)
(* A record keeps only its status and the generation of its last change;   *)
(* its content is abstracted: which decision is proposed for it is chosen  *)
(* by the caller's reconciler or planner.  Ids are numbers because the     *)
(* scan orders records by (generation, id).                                *)
(***************************************************************************)
EXTENDS Naturals, FiniteSets

CONSTANTS
    RecordIds,   \* ids a record may ever have
    BatchSize    \* RuntimePolicy.dream_batch_size

ASSUME RecordIdsAssumption == RecordIds \subseteq Nat \ {0}
ASSUME BatchSizeAssumption == BatchSize \in Nat \ {0}

RecordStatuses == {"absent", "active", "disputed", "superseded", "archived"}

Record == [gen : Nat, status : RecordStatuses]

\* Decisions of remember_reconciled (attach_exact: AttachEvidence to an
\* equivalent neighbour) and changes of a dream plan (merge: retirement of an
\* exact duplicate; none: a plan without changes).
Ops == {"none", "create", "attach_exact", "attach", "supersede", "conflict",
        "exception", "merge"}

NoId == 0

\* id: the new record (or the retired duplicate of a merge); target: the
\* existing record the decision names.
Change == [op : Ops, id : RecordIds \cup {NoId},
           target : RecordIds \cup {NoId}]

NoChange == [op |-> "none", id |-> NoId, target |-> NoId]

HasTarget(op) == op \notin {"none", "create"}

\* The checks of apply_reconciliation (and of the merge branch of dream.apply)
\* that depend on stored state: contains(), target present and active.  The
\* expected revision is the one read in the generation the caller has compared.
Applicable(recs, c) ==
    /\ c.op = "merge" => recs[c.id].status = "active" /\ c.id # c.target
    /\ c.op \notin {"none", "merge"} => recs[c.id].status = "absent"
    /\ HasTarget(c.op) => recs[c.target].status = "active"

Put(status, gen) == [gen |-> gen, status |-> status]

\* The rows written by one change at generation gen.
ApplyChange(recs, c, gen) ==
    CASE c.op = "none" -> recs
      [] c.op \in {"create", "exception"} ->
           [recs EXCEPT ![c.id] = Put("active", gen)]
      [] c.op \in {"attach_exact", "attach"} ->
           [recs EXCEPT ![c.target] = Put("active", gen)]
      [] c.op = "supersede" ->
           [recs EXCEPT ![c.target] = Put("superseded", gen),
                        ![c.id] = Put("active", gen)]
      [] c.op = "conflict" ->
           [recs EXCEPT ![c.target] = Put("disputed", gen),
                        ![c.id] = Put("disputed", gen)]
      [] c.op = "merge" ->
           [recs EXCEPT ![c.target] = Put("active", gen),
                        ![c.id] = Put("superseded", gen)]

-----------------------------------------------------------------------------
(***************************************************************************)
(* Scans                                                                   *)
(***************************************************************************)

\* A position in a scan: <<generation, id>>, ordered as the SQL orders rows.
Position == Nat \X (RecordIds \cup {NoId})

Before(p, q) == p[1] < q[1] \/ (p[1] = q[1] /\ p[2] < q[2])

Stored(recs) ==
    {r \in RecordIds : recs[r].status \notin {"absent", "archived"}}

Positions(recs) == {<<recs[r].gen, r>> : r \in Stored(recs)}

\* Rows of a pass that lie after a cursor.
Ahead(recs, cursor, end) ==
    {p \in Positions(recs) : p[1] <= end /\ Before(cursor, p)}

\* ... ORDER BY generation,id LIMIT BatchSize
FirstRows(rows) ==
    {p \in rows : Cardinality({q \in rows : Before(q, p)}) < BatchSize}

IsLast(p, batch) == \A q \in batch : q = p \/ Before(q, p)

\* The last row of the batch, or where the scan stood when there is none.
LastRow(batch, cursor) ==
    IF \E p \in batch : IsLast(p, batch)
      THEN CHOOSE p \in batch : IsLast(p, batch)
      ELSE cursor

=============================================================================
