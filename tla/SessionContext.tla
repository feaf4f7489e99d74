--------------------------- MODULE SessionContext ---------------------------
(***************************************************************************)
(* The memory context of one persistent conversation                       *)
(* (integrations/session.py) over the owner cache of its process: prepare, *)
(* delivery by the host, commit, reset, and the check before an action.    *)
(*                                                                         *)
(* SessionContext runs on an event loop; its calls of MemoryService run in *)
(* threads, while the host goes on, and other processes commit.            *)
(*                                                                         *)
(* The host keeps the protocol of docs/persistent-sessions.md: it commits  *)
(* what it knows to be delivered and resets when the provider has lost the *)
(* conversation.  It may hold several responses, deliver an old one, and   *)
(* not learn of a delivery.                                                *)
(***************************************************************************)
EXTENDS OwnerCache

CONSTANTS
    Home,      \* the process of the session
    Contexts,  \* task contexts the host prepares
    Applies,   \* the memories that matter in a context
    MaxPrepared

ASSUME SessionAssumption ==
    /\ Home \in Services
    /\ Applies \in [Contexts -> SUBSET RecordIds]
    /\ MaxPrepared \in Nat

VARIABLES
    responses,  \* responses of prepare(), in order; their number names them
    receipt,    \* MemoryService._receipts of the task
    pending,    \* _pending, 0 for None
    injected,   \* _injected, 0 for None
    preparing,  \* the prepare() that holds the session's lock
    acting,     \* the before_action() in progress
    delivered,  \* responses the host knows to have arrived
    shown,      \* the response whose text the conversation read last
    committed   \* history: responses ever committed

sessionVars == <<responses, receipt, pending, injected, preparing, acting,
                 delivered, shown, committed>>

vars == <<cacheVars, sessionVars>>

-----------------------------------------------------------------------------
\* What a context says: the revisions of the memories that apply in it.
Content(recs, ctx) ==
    [r \in RecordIds |-> IF r \in Visible(recs) \cap Applies[ctx]
                         THEN recs[r] ELSE Put("absent", 0)]

Contents == [RecordIds -> Record]

Numbers == 0 .. MaxPrepared

Response == [ctx : Contexts, content : Contents, gen : Nat, text : BOOLEAN]

Receipt == [n : Numbers, ctx : Contexts, gen : Nat]

\* No receipt, one that was evicted, or the receipt of another session.
NoReceipt == [n |-> 0]

\* phase: none, reading (the thread of prepare_task_context), answered (its
\* result is on the way back).
NoPrepare == [phase |-> "none"]

\* phase: none, asked (validate_context was called), valid, and proceeding
\* after the action was let through; at is the generation it was validated in.
NoAction == [phase |-> "none", n |-> 0, at |-> 0]

Init ==
    /\ CacheInit
    /\ responses = <<>>
    /\ receipt = NoReceipt
    /\ pending = 0
    /\ injected = 0
    /\ preparing = NoPrepare
    /\ acting = NoAction
    /\ delivered = {}
    /\ shown = 0
    /\ committed = {}

-----------------------------------------------------------------------------
(***************************************************************************)
(* Preparation                                                             *)
(***************************************************************************)
Prepare(ctx) ==
    /\ preparing = NoPrepare
    /\ Len(responses) < MaxPrepared
    /\ work < MaxWork
    /\ Begin(Home, "read")
    /\ preparing' = [phase |-> "reading", ctx |-> ctx]
    /\ work' = work + 1
    /\ UNCHANGED <<history, saved, caches, responses, receipt, pending,
                   injected, acting, delivered, shown, committed>>

\* A memory that applies: its header is in the cache, its payload is resident
\* or read through the transaction.
Resolved(cache, recs, ctx) ==
    [r \in RecordIds |->
        IF r \notin Members(cache) \cap Applies[ctx] THEN Put("absent", 0)
        ELSE IF cache.resident[r] # 0
             THEN At(cache.resident[r])[r] ELSE recs[r]]

\* prepare_task_context in its thread; the receipt replaces the task's last.
ReadContext ==
    LET g == calls[Home].at
        cache == Snapshot(caches[Home], calls[Home].snapshot, g)
    IN  /\ preparing.phase = "reading"
        /\ \E r \in RecordIds : Read(Home, r)
        /\ receipt' = [n |-> Len(responses) + 1, ctx |-> preparing.ctx,
                       gen |-> g]
        /\ preparing' = [phase |-> "answered", ctx |-> preparing.ctx, gen |-> g,
                         content |-> Resolved(cache, At(g), preparing.ctx)]
        /\ UNCHANGED <<history, saved, work, responses, pending, injected,
                       acting, delivered, shown, committed>>

\* _same: the committed context is what was prepared now.
Same(answer) ==
    /\ injected # 0
    /\ responses[injected].ctx = answer.ctx
    /\ responses[injected].content = answer.content

\* prepare() resumes, renders and returns.
Answer ==
    /\ preparing.phase = "answered"
    /\ responses' = Append(responses,
           [ctx |-> preparing.ctx, content |-> preparing.content,
            gen |-> preparing.gen, text |-> ~Same(preparing)])
    /\ pending' = Len(responses) + 1
    /\ preparing' = NoPrepare
    /\ UNCHANGED <<cacheVars, receipt, injected, acting, delivered, shown,
                   committed>>

\* prepare() is cancelled, or its context exceeds the budget: the receipt has
\* been replaced, nothing else has happened.
PrepareFails ==
    /\ preparing.phase = "answered"
    /\ preparing' = NoPrepare
    /\ UNCHANGED <<cacheVars, responses, receipt, pending, injected, acting,
                   delivered, shown, committed>>

\* The receipt of the task is evicted or replaced: by many other tasks, by a
\* session that shares the task, by the thread of a cancelled prepare().
LoseReceipt ==
    /\ receipt # NoReceipt
    /\ receipt' = NoReceipt
    /\ UNCHANGED <<cacheVars, responses, pending, injected, preparing, acting,
                   delivered, shown, committed>>

-----------------------------------------------------------------------------
(***************************************************************************)
(* The host and the conversation                                           *)
(***************************************************************************)
Responses == 1 .. Len(responses)

Reaches(n) ==
    /\ shown' = IF responses[n].text THEN n ELSE shown
    /\ UNCHANGED <<cacheVars, responses, receipt, pending, injected, preparing,
                   acting, committed>>

\* The provider accepts a turn with the text of a response.
Deliver(n) ==
    /\ n \in Responses \ delivered
    /\ delivered' = delivered \cup {n}
    /\ Reaches(n)

\* The turn arrives, and the host does not learn of it.
DeliverUncertain(n) ==
    /\ n \in Responses \ delivered
    /\ Reaches(n)
    /\ UNCHANGED delivered

\* MUTANT: any response of the session may be committed.
CommitAny(n) ==
    /\ n \in delivered
    /\ pending # 0
    /\ injected' = n
    /\ pending' = n
    /\ committed' = committed \cup {n}
    /\ UNCHANGED <<cacheVars, responses, receipt, preparing, acting,
                   delivered, shown>>

\* commit() of the latest response; another one is refused.
Commit(n) ==
    /\ n \in delivered
    /\ pending = n
    /\ injected' = n
    /\ committed' = committed \cup {n}
    /\ UNCHANGED <<cacheVars, responses, receipt, pending, preparing, acting,
                   delivered, shown>>

\* The provider has compacted or replaced the conversation: reset().
Reset ==
    /\ shown # 0 \/ pending # 0
    /\ shown' = 0
    /\ injected' = 0
    /\ pending' = 0
    /\ UNCHANGED <<cacheVars, responses, receipt, preparing, acting,
                   delivered, committed>>

\* The host's process restarts and resumes the conversation with a session
\* that knows nothing of it; no response of the old one is left.
Resume ==
    /\ Restart(Home)
    /\ responses' = [n \in Responses |-> [responses[n] EXCEPT !.text = FALSE]]
    /\ receipt' = NoReceipt
    /\ injected' = 0
    /\ pending' = 0
    /\ preparing' = NoPrepare
    /\ acting' = NoAction
    /\ delivered' = Responses
    /\ UNCHANGED <<shown, committed>>

-----------------------------------------------------------------------------
(***************************************************************************)
(* Actions                                                                 *)
(***************************************************************************)
Latest(n) == pending = n /\ injected = n

\* before_action() up to its await.
BeforeAction(n) ==
    /\ acting.phase \in {"none", "proceeding"}
    /\ n \in Responses
    /\ Latest(n)
    /\ acting' = [phase |-> "asked", n |-> n, at |-> 0]
    /\ UNCHANGED <<cacheVars, responses, receipt, pending, injected, preparing,
                   delivered, shown, committed>>

\* MUTANT: the receipt is found, whatever the generation.
ReceiptMatchesEver(n) ==
    receipt.n = n

\* The tuple in _receipts is the expected one.
ReceiptMatches(n) ==
    receipt = [n |-> n, ctx |-> responses[n].ctx, gen |-> generation]

\* validate_context in its thread.
Validate ==
    /\ acting.phase = "asked"
    /\ calls[Home].kind = "none"
    /\ acting' = IF ReceiptMatches(acting.n)
                 THEN [acting EXCEPT !.phase = "valid", !.at = generation]
                 ELSE NoAction
    /\ UNCHANGED <<cacheVars, responses, receipt, pending, injected, preparing,
                   delivered, shown, committed>>

Conflicts(n) ==
    \E r \in RecordIds : responses[n].content[r].status = "disputed"

\* before_action() resumes: the same context is still the latest.
Proceed ==
    /\ acting.phase = "valid"
    /\ acting' = IF Latest(acting.n) /\ ~Conflicts(acting.n)
                 THEN [acting EXCEPT !.phase = "proceeding"] ELSE NoAction
    /\ UNCHANGED <<cacheVars, responses, receipt, pending, injected, preparing,
                   delivered, shown, committed>>

-----------------------------------------------------------------------------
Service ==
    /\ \E p \in Services :
          \/ Serves(p)
          \/ ~(p = Home /\ preparing.phase = "reading") /\ Reads(p)
          \/ p # Home /\ Restart(p)
    /\ UNCHANGED sessionVars

Session ==
    \/ \E ctx \in Contexts : Prepare(ctx)
    \/ ReadContext \/ Answer \/ PrepareFails \/ LoseReceipt
    \/ \E n \in Responses :
          \/ Deliver(n) \/ DeliverUncertain(n)
          \/ Commit(n)
          \/ BeforeAction(n)
    \/ Reset \/ Resume
    \/ Validate \/ Proceed

Next == Service \/ Session

Spec == Init /\ [][Next]_vars

-----------------------------------------------------------------------------
(***************************************************************************)
(* Properties                                                              *)
(***************************************************************************)
\* What the conversation takes to be current.
Believes(n) ==
    /\ shown # 0
    /\ responses[shown].ctx = responses[n].ctx
    /\ responses[shown].content = responses[n].content

TypeOK ==
    /\ CacheTypeOK
    /\ responses \in Seq(Response)
    /\ receipt = NoReceipt \/ receipt \in Receipt
    /\ {pending, injected, shown} \subseteq {0} \cup Responses
    /\ preparing.phase \in {"none", "reading", "answered"}
    /\ acting \in [phase : {"none", "asked", "valid", "proceeding"},
                   n : Numbers, at : Nat]
    /\ committed \subseteq delivered /\ delivered \subseteq Responses

\* What is injected is what the conversation has been shown last, whichever
\* responses the host holds, delivers and commits in whatever order.  The
\* exception is a conversation that has read a text which was never committed:
\* prepare() then compares with an older commit and may have nothing to say.
ConversationInformed ==
    injected # 0 => Believes(injected) \/ shown \notin committed

\* An action is let through only on the latest context, committed, and exactly
\* what the database said when it was validated, without a dispute; whatever
\* other processes, the cache and the session's other calls did meanwhile.
ActionCurrent ==
    [][acting.phase = "valid" /\ acting'.phase = "proceeding" =>
          LET n == acting.n
          IN  /\ injected = n
              /\ responses[n].content =
                    Content(At(acting.at), responses[n].ctx)
              /\ \A r \in RecordIds :
                    responses[n].content[r].status # "disputed"]_vars

=============================================================================
