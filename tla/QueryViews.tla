----------------------------- MODULE QueryViews ------------------------------
(***************************************************************************)
(* The query service: views and their limiter, the batchers that views     *)
(* with equal parameters share during the aggregation window, the          *)
(* namespace query batches that requests with equal batchers share, the    *)
(* lazily opened database transaction of a batcher, and the connection     *)
(* pool.  mapUpdateOrCreate is the lock-free loop it is in the code: a     *)
(* load, an update that may fail, and a compare-and-swap that may lose.    *)
(*                                                                         *)
(* A request asks for one key of its own in each of its namespaces, so the *)
(* keys of a batch are the requests that joined it.  A row is the version  *)
(* of the state it was read from.                                          *)
(***************************************************************************)
EXTENDS Naturals, FiniteSets, Sequences

CONSTANTS
    View,               \* view ids; an id is drawn once (getUUID)
    IsoLevel,           \* IsoLevel[v]: the isolation level a view asks for, 0..4
    Req,                \* GetRows and GetTransactionStatus calls
    Calls,              \* Calls[r]: what a client may ask for, a set of [view, namespaces]
    Impatient,          \* the requests whose client may give up
    MaxActiveViews,     \* config.MaxActiveViews
    MaxAggregatedViews, \* config.MaxAggregatedViews
    MinBatchKeys,       \* config.MinBatchKeys
    MaxConns,           \* connections of the pool
    MaxVersion          \* bound: versions of the state the committer writes

NoView == "no view"
NoReq == "none"

\* The namespace under which GetTransactionStatus asks for its ids.
txStatusNsID == "$tx_status$"

\* GetRows and GetTransactionStatus refuse a request that names no namespace.
ASSUME QueryAssumption ==
    /\ IsoLevel \in [View -> 0..4]
    /\ \A r \in Req : \A c \in Calls[r] :
          c.view \in View \cup {NoView} /\ c.namespaces \in Seq(STRING) /\ c.namespaces # <<>>
    /\ {MaxAggregatedViews, MinBatchKeys, MaxConns} \subseteq Nat \ {0}
    /\ MaxActiveViews \in Nat /\ MaxVersion \in Nat

\* viewParametersKey without the deferrable bit, which no property depends on.
viewParametersKey(v) == IF IsoLevel[v] > 3 THEN 3 ELSE IsoLevel[v]

VARIABLES
    view,       \* view[v]: a viewHolder, [st, batcher, lock]
    viewIDs,    \* viewIDToViewHolder
    free,       \* permits of viewLimiter
    batcher,    \* the batchers created: [key, ref, dead, tx, snap, user]
    latest,     \* viewParametersToLatestBatcher
    batch,      \* the namespaceQueryBatches created: [of, keys, st, cause, asked, result]
    nsLatest,   \* nsToLatestQueryBatch of every batcher, by <<batcher, namespace>>
    req,        \* req[r]: a handler's locals
    conns,      \* connections of the pool in use
    version     \* version of the state DB

views == <<view, viewIDs, free>>
batching == <<batcher, latest>>
queries == <<batch, nsLatest>>
vars == <<views, batching, queries, req, conns, version>>

\* Batcher 0 is the nonConsistentBatcher: it reads from the pool and never ends.
Dead(b) == b # 0 /\ batcher[b].dead
BatchEnded(q) == batch[q].cause # "none" \/ Dead(batch[q].of)

\* context.Cause: the first cancellation counts.
cancelBatch(q, cause) == IF BatchEnded(q) THEN batch[q].cause ELSE cause

locals(pc) ==
    [pc |-> pc, view |-> NoView, namespaces |-> <<>>, b |-> 0, val |-> 0, joined |-> <<>>, rows |-> <<>>]

Init ==
    /\ view = [v \in View |-> [st |-> "none", batcher |-> 0, lock |-> NoReq]]
    /\ viewIDs = {} /\ free = MaxActiveViews
    /\ batcher = <<>> /\ latest = [k \in 0..3 |-> 0]
    /\ batch = <<>> /\ nsLatest = <<>>
    /\ req = [r \in Req |-> locals("new")]
    /\ conns = 0 /\ version = 1

-----------------------------------------------------------------------------
(* Views *)

\* makeView: a full limiter refuses the view.  Permits are counted only if the
\* limit is configured.
makeView(v) ==
    IF MaxActiveViews > 0 /\ free = 0
    THEN view' = [view EXCEPT ![v].st = "refused"] /\ UNCHANGED <<viewIDs, free>>
    ELSE /\ view' = [view EXCEPT ![v].st = "open"]
         /\ viewIDs' = viewIDs \cup {v}
         /\ free' = IF MaxActiveViews > 0 THEN free - 1 ELSE free

\* An id that collides is drawn again.
BeginView(v) ==
    /\ view[v].st = "none"
    /\ makeView(v)
    /\ UNCHANGED <<batching, queries, req, conns, version>>

\* A view that is gone is reported as stale.
removeViewID(v) ==
    /\ v \in viewIDs
    /\ viewIDs' = viewIDs \ {v}
    /\ view' = [view EXCEPT ![v].st = "ended"]

EndView(v) ==
    /\ removeViewID(v)
    /\ UNCHANGED <<free, batching, queries, req, conns, version>>

\* The timeout of the view's context, at most MaxViewTimeout.
ViewTimeout(v) ==
    /\ view[v].st = "open"
    /\ view' = [view EXCEPT ![v].st = "ended"]
    /\ UNCHANGED <<viewIDs, free, batching, queries, req, conns, version>>

leave_KeepLast(b) == [batcher EXCEPT ![b].ref = IF @ > 0 THEN @ - 1 ELSE 0]

\* The batcher ends with its last view.
leave(b) ==
    LET n == IF batcher[b].ref > 0 THEN batcher[b].ref - 1 ELSE 0
    IN  [batcher EXCEPT ![b].ref = n, ![b].dead = @ \/ n = 0]

\* context.AfterFunc of makeView: the permit and the id are released, and under
\* the lock the holder is retired and leaves its batcher.
Retire(v) ==
    /\ view[v].st = "ended" /\ view[v].lock = NoReq
    /\ view' = [view EXCEPT ![v].st = "retired", ![v].batcher = 0]
    /\ batcher' = IF view[v].batcher # 0 THEN leave(view[v].batcher) ELSE batcher
    /\ free' = IF MaxActiveViews > 0 THEN free + 1 ELSE free
    /\ viewIDs' = viewIDs \ {v}
    /\ UNCHANGED <<latest, queries, req, conns, version>>

-----------------------------------------------------------------------------
(* Batchers *)

\* After the aggregation window, and when the batcher ends, it is unlisted.
Unlist(b) ==
    /\ latest[batcher[b].key] = b
    /\ latest' = [latest EXCEPT ![batcher[b].key] = 0]
    /\ UNCHANGED <<views, batcher, queries, req, conns, version>>

\* context.AfterFunc of sharedLazyTx.Acquire.
Rollback(b) ==
    /\ batcher[b].dead /\ batcher[b].tx = "open"
    /\ batcher' = [batcher EXCEPT ![b].tx = "closed"]
    /\ conns' = conns - 1
    /\ UNCHANGED <<views, latest, queries, req, version>>

Goto(r, pc) == req' = [req EXCEPT ![r].pc = pc]
Return(r, pc) == req' = [req EXCEPT ![r] = locals(pc)]

\* getBatcher: the holder is looked up before its lock is taken.
LoadHolder(r) ==
    /\ req[r].pc = "new"
    /\ \E c \in Calls[r] :
          /\ c.view # NoView => view[c.view].st \notin {"none", "refused"}
          /\ IF c.view \in View \ viewIDs THEN Return(r, "stale")
             ELSE req' = [req EXCEPT ![r].pc = IF c.view = NoView THEN "nupdate" ELSE "lock",
                                     ![r].view = c.view, ![r].namespaces = c.namespaces]
    /\ UNCHANGED <<views, batching, queries, conns, version>>

mayAssign(v) == view[v].st # "retired"

\* The holder is locked; an assigned batcher is used as it is.
LockHolder(r) ==
    LET v == req[r].view IN
    /\ req[r].pc = "lock" /\ view[v].lock = NoReq
    /\ IF ~mayAssign(v) THEN Return(r, "stale") /\ UNCHANGED view
       ELSE IF view[v].batcher # 0
       THEN /\ req' = [req EXCEPT ![r].pc = IF Dead(view[v].batcher) THEN "stale" ELSE "nupdate",
                                  ![r].b = view[v].batcher]
            /\ UNCHANGED view
       ELSE /\ view' = [view EXCEPT ![v].lock = r]
            /\ Goto(r, "bupdate")
    /\ UNCHANGED <<viewIDs, free, batching, queries, conns, version>>

\* batcher.join
canJoin(b) == ~batcher[b].dead /\ batcher[b].ref < MaxAggregatedViews

\* The load and the update of mapUpdateOrCreate, one step: a batcher loaded
\* earlier is listed still, or is joined as it would have been then.  On success
\* getBatcher releases the holder.
JoinBatcher(r) ==
    LET v == req[r].view
        b == IF req[r].val # 0 THEN req[r].val ELSE latest[viewParametersKey(v)]
    IN
    /\ req[r].pc = "bupdate"
    /\ IF b # 0 /\ canJoin(b)
       THEN /\ batcher' = [batcher EXCEPT ![b].ref = @ + 1]
            /\ view' = [view EXCEPT ![v].batcher = b, ![v].lock = NoReq]
            /\ req' = [req EXCEPT ![r].pc = "nupdate", ![r].b = b, ![r].val = 0]
       ELSE /\ req' = [req EXCEPT ![r].pc = "bassign", ![r].val = b]
            /\ UNCHANGED <<batcher, view>>
    /\ UNCHANGED <<viewIDs, free, latest, queries, conns, version>>

newBatcher(k) == [key |-> k, ref |-> 0, dead |-> FALSE, tx |-> "none", snap |-> 0, user |-> 0]

\* LoadOrStore or CompareAndSwap of a new batcher; the loser takes what is listed.
AssignBatcher(r) ==
    LET k == viewParametersKey(req[r].view)
        won == latest[k] = req[r].val
    IN
    /\ req[r].pc = "bassign"
    /\ batcher' = IF won THEN Append(batcher, newBatcher(k)) ELSE batcher
    /\ latest' = [latest EXCEPT ![k] = IF won THEN Len(batcher) + 1 ELSE @]
    /\ req' = [req EXCEPT ![r].pc = "bupdate", ![r].val = IF won THEN latest'[k] ELSE 0]
    /\ UNCHANGED <<views, queries, conns, version>>

-----------------------------------------------------------------------------
(* Namespace query batches *)

ns(r) == req[r].namespaces[Len(req[r].joined) + 1]
Listed(b, n) == IF <<b, n>> \in DOMAIN nsLatest THEN nsLatest[<<b, n>>] ELSE 0

\* addKeys: neither an ended nor a finalized batch takes keys.
canAdd(q) == ~BatchEnded(q) /\ batch[q].st \in {"open", "submitted"}

\* addNamespaceKeys, for the next namespace of the request.  A batch that another
\* one replaced takes no keys any more, so the load and the update are one step.
AddKeys(r) ==
    LET q == IF req[r].val # 0 THEN req[r].val ELSE Listed(req[r].b, ns(r)) IN
    /\ req[r].pc = "nupdate"
    /\ IF q # 0 /\ canAdd(q)
       THEN /\ batch' = [batch EXCEPT
                   ![q].keys = @ \cup {r},
                   ![q].st = IF @ = "open" /\ Cardinality(batch[q].keys) + 1 >= MinBatchKeys
                             THEN "submitted" ELSE @]
            /\ LET joined == Append(req[r].joined, q)
               IN  req' = [req EXCEPT ![r].joined = joined, ![r].val = 0,
                       ![r].pc = IF Len(joined) = Len(req[r].namespaces) THEN "wait" ELSE @]
       ELSE req' = [req EXCEPT ![r].pc = "nassign", ![r].val = q] /\ UNCHANGED batch
    /\ UNCHANGED <<views, batching, nsLatest, conns, version>>

newBatch(b) == [of |-> b, keys |-> {}, st |-> "open", cause |-> "none", asked |-> {}, result |-> 0]

\* A batch created under a batcher that has ended is born cancelled: no call
\* ever adds keys to it, and it is left out (see Spinning).
AssignBatch(r) ==
    LET at == <<req[r].b, ns(r)>>
        won == Listed(req[r].b, ns(r)) = req[r].val
    IN
    /\ req[r].pc = "nassign" /\ ~(won /\ Dead(req[r].b))
    /\ batch' = IF won THEN Append(batch, newBatch(req[r].b)) ELSE batch
    /\ nsLatest' = IF won THEN [x \in DOMAIN nsLatest \cup {at} |->
                                   IF x = at THEN Len(batch) + 1 ELSE nsLatest[x]]
                   ELSE nsLatest
    /\ req' = [req EXCEPT ![r].pc = "nupdate", ![r].val = IF won THEN nsLatest'[at] ELSE 0]
    /\ UNCHANGED <<views, batching, conns, version>>

\* The batcher ended after getBatcher returned it: each turn of the loop
\* creates another cancelled batch, until the client gives up.
Spinning(r) ==
    /\ req[r].pc \in {"nupdate", "nassign"}
    /\ Dead(req[r].b)

BatchTimer_NotStarted(q) == FALSE

\* MaxBatchWait.  Bound: a timer that fires before the creator of the batch adds
\* its keys only makes it create another one, and is left out.
BatchTimer(q) ==
    /\ batch[q].st = "open" /\ ~BatchEnded(q) /\ batch[q].keys # {}
    /\ batch' = [batch EXCEPT ![q].st = "submitted"]
    /\ UNCHANGED <<views, batching, nsLatest, req, conns, version>>

usesTx_Never(b) == FALSE

\* sharedLazyTx is used by one batch at a time and keeps its connection;
\* sharedPool takes a connection for every batch.
usesTx(b) == b # 0

needsConn(q) == usesTx(batch[q].of) => batcher[batch[q].of].tx = "none"

\* execute up to the query: the batch is finalized with the connection in hand.
Acquire(q) ==
    LET b == batch[q].of
        begin == needsConn(q)
    IN
    /\ batch[q].st = "submitted" /\ ~BatchEnded(q)
    /\ usesTx(b) => batcher[b].user = 0
    /\ begin => conns < MaxConns
    /\ conns' = IF begin THEN conns + 1 ELSE conns
    /\ batcher' = IF usesTx(b) THEN [batcher EXCEPT ![b].user = q, ![b].tx = IF begin THEN "open" ELSE @]
                  ELSE batcher
    /\ batch' = [batch EXCEPT ![q].st = "querying", ![q].asked = batch[q].keys]
    /\ UNCHANGED <<views, latest, nsLatest, req, version>>

\* The connection cannot be had, or the batch ended while it waited for one.
AcquireFails(q) ==
    /\ batch[q].st = "submitted"
    /\ ~BatchEnded(q) => needsConn(q)
    /\ batch' = [batch EXCEPT ![q].st = "done", ![q].cause = cancelBatch(q, "failed")]
    /\ UNCHANGED <<views, batching, nsLatest, req, conns, version>>

\* The rows a query sees: a transaction above READ COMMITTED keeps the snapshot
\* of its first query.
Sees(b) == IF ~usesTx(b) \/ batcher[b].key > 2 \/ batcher[b].snap = 0 THEN version ELSE batcher[b].snap

\* The query fails, by the database or because the batch's context ended.
QueryFails(q) ==
    /\ batch[q].st = "querying"
    /\ batch' = [batch EXCEPT ![q].st = "done", ![q].cause = cancelBatch(q, "failed")]
    /\ LET b == batch[q].of
       IN  /\ batcher' = IF usesTx(b) THEN [batcher EXCEPT ![b].user = 0] ELSE batcher
           /\ conns' = IF usesTx(b) THEN conns ELSE conns - 1
    /\ UNCHANGED <<views, latest, nsLatest, req, version>>

\* The rows are stored and the waiting requests released: cancel(nil).  A
\* transaction that was rolled back answers no more.
Execute(q) ==
    LET b == batch[q].of IN
    /\ batch[q].st = "querying"
    /\ usesTx(b) => batcher[b].tx = "open"
    /\ batch' = [batch EXCEPT ![q].st = "done", ![q].cause = cancelBatch(q, "ok"), ![q].result = Sees(b)]
    /\ batcher' = IF usesTx(b) THEN [batcher EXCEPT ![b].user = 0, ![b].snap = IF @ = 0 THEN version ELSE @]
                  ELSE batcher
    /\ conns' = IF usesTx(b) THEN conns ELSE conns - 1
    /\ UNCHANGED <<views, latest, nsLatest, req, version>>

\* waitForRows, for the next namespace: any cancellation without a cause of its
\* own counts as success, and rows that were not stored are no rows.
Row(q, r) == IF batch[q].st = "done" /\ r \in batch[q].asked
             THEN batch[q].result ELSE 0

WaitForRows(r) ==
    LET q == req[r].joined[Len(req[r].rows) + 1]
        rows == Append(req[r].rows, Row(q, r))
    IN
    /\ req[r].pc = "wait" /\ BatchEnded(q)
    /\ IF batch[q].cause = "failed" THEN Return(r, "failed")
       ELSE req' = [req EXCEPT ![r].rows = rows,
                               ![r].pc = IF Len(rows) = Len(req[r].namespaces) THEN "answered" ELSE @]
    /\ UNCHANGED <<views, batching, queries, conns, version>>

\* The client gives up: the loops and the wait end with its context.
ClientCancel(r) ==
    /\ r \in Impatient
    /\ req[r].pc \in {"bupdate", "nupdate", "wait"}
    /\ Return(r, "cancelled")
    /\ view' = IF req[r].pc = "bupdate" THEN [view EXCEPT ![req[r].view].lock = NoReq] ELSE view
    /\ UNCHANGED <<viewIDs, free, batching, queries, conns, version>>

-----------------------------------------------------------------------------
(* The state DB *)

Commit ==
    /\ version < MaxVersion
    /\ version' = version + 1
    /\ UNCHANGED <<views, batching, queries, req, conns>>

-----------------------------------------------------------------------------
assignRequest(r) ==
    \/ LoadHolder(r) \/ LockHolder(r) \/ JoinBatcher(r) \/ AssignBatcher(r)
    \/ AddKeys(r) \/ AssignBatch(r)

GetRows(r) ==
    /\ \A i \in DOMAIN req[r].namespaces : req[r].namespaces[i] # txStatusNsID
    /\ assignRequest(r) \/ WaitForRows(r)

GetTransactionStatus(r) == req[r].namespaces = <<txStatusNsID>> /\ (assignRequest(r) \/ WaitForRows(r))

Execution(q) == QueryFails(q) \/ Execute(q) \/ BatchTimer(q)

\* What goes on by itself: handlers, timers, callbacks and the database.
Internal ==
    \/ \E v \in View : ViewTimeout(v) \/ Retire(v)
    \/ \E b \in DOMAIN batcher : Unlist(b) \/ Rollback(b)
    \/ \E r \in Req : GetRows(r) \/ GetTransactionStatus(r)
    \/ \E q \in DOMAIN batch : Execution(q) \/ Acquire(q) \/ AcquireFails(q)

Next ==
    \/ Internal
    \/ \E v \in View : BeginView(v) \/ EndView(v)
    \/ \E r \in Req : ClientCancel(r)
    \/ Commit

Spec == Init /\ [][Next]_vars

\* Some goroutine that can go on does.  Nothing is assumed of the clients, nor
\* of which goroutine is next.
FairSpec == Spec /\ WF_vars(Internal)

-----------------------------------------------------------------------------
(* Properties *)

Ended == {"stale", "failed", "cancelled", "answered"}
Results(b) == {batch[q].result : q \in {q \in DOMAIN batch : batch[q].of = b}} \ {0}

\* All the queries of views that share a batcher above READ COMMITTED see one
\* version of the state, and a batch that was queried has the keys of every
\* request that waits for it (sharedLazyTx, addKeys).
ViewConsistent ==
    /\ \A b \in DOMAIN batcher : batcher[b].key <= 2 => Cardinality(Results(b)) <= 1
    /\ \A r \in Req : \A i \in DOMAIN req[r].rows :
          batch[req[r].joined[i]].cause = "ok" => req[r].rows[i] # 0

\* Connections are returned to the pool, whatever the requests do: a transaction
\* opened for views is rolled back when the last of them is retired (Acquire,
\* leave, the timeout of makeView).
ConnsReturned == []<>(conns = 0)

\* A request that started comes to an end, unless its batcher ends between
\* getBatcher and addNamespaceKeys (waitForRows, mapUpdateOrCreate).
Answered == \A r \in Req : []<>(req[r].pc \in {"new"} \cup Ended \/ Spinning(r))

=============================================================================
