------------------------------ MODULE Notifier -------------------------------
(***************************************************************************)
(* The sidecar's notification service: one goroutine that takes            *)
(* subscription requests, batches of transaction statuses, expired timers  *)
(* and committed blocks, and writes to the bounded queue of each client    *)
(* stream.  A handler changes the subscriptions in one step; its writes    *)
(* are steps of their own, because each may wait for a client.             *)
(***************************************************************************)
EXTENDS Integers, FiniteSets, Sequences

CONSTANTS
    Stream,             \* OpenNotificationStream calls
    BlockStream,        \* StreamBlocks calls
    TxID,
    Asks,               \* the id lists a client may send in a request
    Batches,            \* the sets of ids whose final status the relay may report at once
    Leaving,            \* the streams whose client may leave
    FilterNamespaces,   \* FilterNamespaces[b]: a set, empty for no filter
    FilterStatus,       \* FilterStatus[b]: a set, empty for no filter
    Blocks,             \* the committed blocks: sequences of [id, status, namespaces]
    BufferSize,         \* capacity of a stream's queue
    MaxActiveTxIDs,     \* config.MaxActiveTxIDs
    MaxTxIDsPerRequest, \* config.MaxTxIDsPerRequest
    MaxInputs           \* bound: requests, status batches and blocks together

ASSUME NotifierAssumption ==
       /\ {BufferSize, MaxActiveTxIDs, MaxTxIDsPerRequest} \subseteq Nat \ {0}
       /\ MaxInputs \in Nat
       /\ Asks \subseteq Seq(TxID) /\ Batches \subseteq SUBSET TxID
       /\ Blocks \in Seq(Seq([id : STRING, status : STRING, namespaces : SUBSET STRING]))
       /\ FilterNamespaces \in [BlockStream -> SUBSET STRING] /\ FilterStatus \in [BlockStream -> SUBSET STRING]

VARIABLES
    stream,         \* stream[s]: [open, queued], a client and the length of its streamEventQueue
    requestQueue,
    req,            \* the requests received: [stream, ids, pending, timer], and what was reported on them
    subs,           \* txIDToRequests
    availableSlots,
    statusQueue,    \* batches of ids that got a final status
    batches,        \* how many batches the relay wrote
    timeoutQueue,   \* requests whose timer fired and was not handled yet
    work,           \* what the goroutine is at: [writes, arm, block, streams, slow]
    next,           \* the next block the relay emits
    blockStreams,   \* the registered block streams
    bs              \* bs[b]: [st, from, queue, got, late], a blockStream and what its client received

clients == <<stream, requestQueue>>
subscriptions == <<subs, availableSlots>>
blockPart == <<next, blockStreams, bs>>
vars == <<clients, req, subscriptions, statusQueue, batches, timeoutQueue, work, blockPart>>

\* A write to a stream's queue: what it says of which ids of which requests.
\* A patient write has no timeout.
Event(s, kind, pairs, patient) == [stream |-> s, kind |-> kind, pairs |-> pairs, patient |-> patient]

Inputs == Len(req) + batches + next - 1

Idle == [writes |-> {}, arm |-> 0, block |-> 0, streams |-> <<>>, slow |-> FALSE]

Init ==
    /\ stream = [s \in Stream |-> [open |-> TRUE, queued |-> 0]]
    /\ requestQueue = <<>> /\ req = <<>>
    /\ subs = [id \in TxID |-> {}] /\ availableSlots = MaxActiveTxIDs
    /\ statusQueue = <<>> /\ batches = 0 /\ timeoutQueue = {}
    /\ work = Idle
    /\ next = 1 /\ blockStreams = <<>>
    /\ bs = [b \in BlockStream |-> [st |-> "new", from |-> 0, queue |-> <<>>, got |-> <<>>, late |-> FALSE]]

-----------------------------------------------------------------------------
(* Clients of notification streams *)

\* The receiving goroutine of OpenNotificationStream; the request queue is bounded, so
\* a request is received once there is room for it.
Request(s, ids) ==
    /\ stream[s].open /\ Inputs < MaxInputs /\ Len(requestQueue) < BufferSize
    /\ req' = Append(req, [stream |-> s, ids |-> ids, pending |-> 0, timer |-> "none",
                           accepted |-> {}, told |-> {}])
    /\ requestQueue' = Append(requestQueue, Len(req) + 1)
    /\ UNCHANGED <<stream, subscriptions, statusQueue, batches, timeoutQueue, work, blockPart>>

\* The sending goroutine of OpenNotificationStream, when the client reads.
Receive(s) ==
    /\ stream[s].open /\ stream[s].queued > 0
    /\ stream' = [stream EXCEPT ![s].queued = @ - 1]
    /\ UNCHANGED <<requestQueue, req, subscriptions, statusQueue, batches, timeoutQueue, work, blockPart>>

\* The stream's context ends: nothing reads or writes its queue any more.
Close(s) ==
    /\ stream[s].open
    /\ stream' = [stream EXCEPT ![s] = [open |-> FALSE, queued |-> 0]]
    /\ UNCHANGED <<requestQueue, req, subscriptions, statusQueue, batches, timeoutQueue, work, blockPart>>

-----------------------------------------------------------------------------
(* Requests *)

Elements(q) == {q[i] : i \in DOMAIN q}

\* addRequest goes through the list of a request.  An id that is already assigned to it is skipped.
isNew_Always(r, i) == TRUE
isNew(r, i) == r \notin subs[req[r].ids[i]] /\ \A j \in 1..(i - 1) : req[r].ids[j] # req[r].ids[i]
newIn(r) == {i \in DOMAIN req[r].ids : isNew(r, i)}

\* The others take a slot each, as long as there are any.
taken(r) == {i \in newIn(r) : Cardinality({j \in newIn(r) : j <= i}) <= availableSlots}

\* From the first one without a slot on, all are rejected.
rejected(r) == {req[r].ids[i] : i \in {i \in DOMAIN req[r].ids : \E j \in newIn(r) \ taken(r) : j <= i}}

addRequest(r) ==
    LET added == {req[r].ids[i] : i \in taken(r)}
    IN [subs |-> [id \in TxID |-> IF id \in added THEN subs[id] \cup {r} ELSE subs[id]],
        slots |-> availableSlots - Cardinality(taken(r)),
        pending |-> Cardinality(taken(r)),
        rejected |-> rejected(r)]

rejection(r, ids) == Event(req[r].stream, "rejected", {<<r, id>> : id \in ids}, TRUE)

\* The timer starts only after the rejection, if any, is written.
armed_UnlessRejected(r, a) == IF a.pending > 0 /\ a.rejected = {} THEN r ELSE 0
armed(r, a) == IF a.pending > 0 THEN r ELSE 0

HandleRequest ==
    /\ work = Idle /\ requestQueue # <<>>
    /\ LET r == Head(requestQueue)
           a == addRequest(r)
       IN /\ requestQueue' = Tail(requestQueue)
          /\ IF Len(req[r].ids) > MaxTxIDsPerRequest
             THEN /\ work' = [Idle EXCEPT !.writes = {rejection(r, Elements(req[r].ids))}]
                  /\ UNCHANGED <<subscriptions, req>>
             ELSE /\ subs' = a.subs /\ availableSlots' = a.slots
                  /\ req' = [req EXCEPT ![r].pending = a.pending,
                                        ![r].accepted = {id \in TxID : r \in a.subs[id]}]
                  /\ work' = [Idle EXCEPT !.arm = armed(r, a),
                                          !.writes = IF a.rejected = {} THEN {} ELSE {rejection(r, a.rejected)}]
    /\ UNCHANGED <<stream, statusQueue, batches, timeoutQueue, blockPart>>

StartTimer ==
    /\ work.arm # 0 /\ work.writes = {}
    /\ req' = [req EXCEPT ![work.arm].timer = "armed"]
    /\ work' = Idle
    /\ UNCHANGED <<clients, subscriptions, statusQueue, batches, timeoutQueue, blockPart>>

-----------------------------------------------------------------------------
(* Statuses and timeouts *)

\* The relay reports the final status of some transactions; an id may come again
\* with the rejection of a duplicate.
Report(ids) ==
    /\ Inputs < MaxInputs /\ Len(statusQueue) < BufferSize
    /\ statusQueue' = Append(statusQueue, ids) /\ batches' = batches + 1
    /\ UNCHANGED <<clients, req, subscriptions, timeoutQueue, work, blockPart>>

\* The subscriptions a batch ends.
ended(ids) == UNION {{<<r, id>> : r \in subs[id]} : id \in ids}

OfStream(s, pairs) == {p \in pairs : req[p[1]].stream = s}
OfRequest(r, pairs) == {p \in pairs : p[1] = r}

removeAndEnqueueStatusEvents ==
    /\ work = Idle /\ statusQueue # <<>>
    /\ LET ids == Head(statusQueue)
           hit == ended(ids)
       IN /\ statusQueue' = Tail(statusQueue)
          /\ subs' = [id \in TxID |-> IF id \in ids THEN {} ELSE subs[id]]
          /\ availableSlots' = availableSlots + Cardinality(hit)
          /\ req' = [r \in DOMAIN req |->
                LET left == req[r].pending - Cardinality(OfRequest(r, hit))
                IN [req[r] EXCEPT !.pending = left,
                                  !.timer = IF OfRequest(r, hit) # {} /\ left = 0 /\ @ = "armed"
                                            THEN "stopped" ELSE @]]
          /\ work' = [Idle EXCEPT !.writes = {Event(s, "status", OfStream(s, hit), FALSE) :
                                              s \in {req[p[1]].stream : p \in hit}}]
    /\ UNCHANGED <<clients, batches, timeoutQueue, blockPart>>

FireTimer(r) ==
    /\ req[r].timer = "armed"
    /\ req' = [req EXCEPT ![r].timer = "fired"]
    /\ timeoutQueue' = timeoutQueue \cup {r}
    /\ UNCHANGED <<clients, subscriptions, statusQueue, batches, work, blockPart>>

\* The ids on which a timed out request still waits.
unanswered_AnySubscriber(r) == {id \in Elements(req[r].ids) : subs[id] # {}}
unanswered(r) == {id \in Elements(req[r].ids) : r \in subs[id]}

removeAndEnqueueTimeoutEvents(r) ==
    /\ work = Idle
    /\ timeoutQueue' = timeoutQueue \ {r}
    /\ LET ids == unanswered(r)
       IN /\ subs' = [id \in TxID |-> IF id \in ids THEN subs[id] \ {r} ELSE subs[id]]
          /\ availableSlots' = availableSlots + Cardinality(ids)
          /\ work' = [Idle EXCEPT !.writes =
                IF ids = {} THEN {} ELSE {Event(req[r].stream, "timeout", {<<r, id>> : id \in ids}, FALSE)}]
    /\ UNCHANGED <<clients, req, statusQueue, batches, blockPart>>

-----------------------------------------------------------------------------
(* Writes to the notification streams *)

Told(e, kind) ==
    [r \in DOMAIN req |-> [req[r] EXCEPT !.told = @ \cup {<<p[2], kind>> : p \in OfRequest(r, e.pairs)}]]

\* Write and WriteWithTimeout: into a queue with room; nowhere if the stream ended.
Write(e) ==
    /\ stream[e.stream].open => stream[e.stream].queued < BufferSize
    /\ stream' = IF stream[e.stream].open THEN [stream EXCEPT ![e.stream].queued = @ + 1] ELSE stream
    /\ req' = Told(e, e.kind)
    /\ work' = [work EXCEPT !.writes = @ \ {e}]
    /\ UNCHANGED <<requestQueue, subscriptions, statusQueue, batches, timeoutQueue, blockPart>>

\* WriteWithTimeout gives up on a full queue, and the event is lost.
WriteTimesOut(e) ==
    /\ ~e.patient
    /\ stream[e.stream].open /\ stream[e.stream].queued >= BufferSize
    /\ req' = Told(e, "lost")
    /\ work' = [work EXCEPT !.writes = @ \ {e}]
    /\ UNCHANGED <<clients, subscriptions, statusQueue, batches, timeoutQueue, blockPart>>

-----------------------------------------------------------------------------
(* Block streams *)

registerBlockStream(b) ==
    /\ bs[b].st = "new"
    /\ blockStreams' = Append(blockStreams, b)
    /\ bs' = [bs EXCEPT ![b].st = "open"]
    /\ UNCHANGED <<clients, req, subscriptions, statusQueue, batches, timeoutQueue, work, next>>

\* The slice is replaced, never changed, so a dispatch goes on with the streams it read.
unregisterBlockStream(b) ==
    LET idx == CHOOSE i \in DOMAIN blockStreams : blockStreams[i] = b
    IN blockStreams' = [i \in 1..(Len(blockStreams) - 1) |-> blockStreams[IF i < idx THEN i ELSE i + 1]]

filterNamespaces(b, tx) ==
    IF FilterNamespaces[b] = {} THEN tx.namespaces ELSE tx.namespaces \cap FilterNamespaces[b]

\* The events of a block, at the places of their transactions.
filterAndBuildEvents(b, txs) ==
    LET keep(tx) == /\ FilterStatus[b] # {} => tx.status \in FilterStatus[b]
                    /\ FilterNamespaces[b] # {} => filterNamespaces(b, tx) # {}
    IN [i \in {i \in DOMAIN txs : keep(txs[i])} |->
            [id |-> txs[i].id, namespaces |-> filterNamespaces(b, txs[i])]]

\* streamWorker: a block is read, filtered and sent.  A worker that checked its
\* context just before the cancellation takes one more block.
streamWorker(b) ==
    /\ bs[b].st \in {"open", "cancelled"} /\ bs[b].queue # <<>>
    /\ LET n == Head(bs[b].queue)
       IN bs' = [bs EXCEPT ![b].queue = Tail(@),
                           ![b].st = IF @ = "cancelled" THEN "stopping" ELSE @,
                           ![b].late = bs[b].st = "cancelled",
                           ![b].got = Append(@, [number |-> n, events |-> filterAndBuildEvents(b, Blocks[n])])]
    /\ UNCHANGED <<clients, req, subscriptions, statusQueue, batches, timeoutQueue, work, next, blockStreams>>

\* The stream's context ends; nothing reaches the client any more.
ClientEnds(b) ==
    /\ bs[b].st = "open"
    /\ bs' = [bs EXCEPT ![b].st = "stopping"]
    /\ UNCHANGED <<clients, req, subscriptions, statusQueue, batches, timeoutQueue, work, next, blockStreams>>

\* The worker sees its context done, and StreamBlocks returns.
StreamBlocksReturns(b) ==
    /\ bs[b].st \in {"cancelled", "stopping"}
    /\ bs' = [bs EXCEPT ![b].st = "ended"]
    /\ unregisterBlockStream(b)
    /\ UNCHANGED <<clients, req, subscriptions, statusQueue, batches, timeoutQueue, work, next>>

dispatchBlockToStreams ==
    /\ work = Idle /\ next <= Len(Blocks) /\ Inputs < MaxInputs
    /\ work' = [Idle EXCEPT !.block = IF blockStreams = <<>> THEN 0 ELSE next, !.streams = blockStreams]
    /\ next' = next + 1
    /\ bs' = [b \in BlockStream |->
                IF b \in Elements(blockStreams) /\ bs[b].from = 0 THEN [bs[b] EXCEPT !.from = next] ELSE bs[b]]
    /\ UNCHANGED <<clients, req, subscriptions, statusQueue, batches, timeoutQueue, blockStreams>>

\* After a stream of the snapshot, the next one; after the last, the select again.
NextStream ==
    work' = IF Len(work.streams) = 1 THEN Idle ELSE [work EXCEPT !.streams = Tail(@), !.slow = FALSE]

\* A stream that ended meanwhile is skipped, or gets a block nobody reads.
SendBlock ==
    /\ work.streams # <<>> /\ ~work.slow
    /\ LET b == Head(work.streams)
       IN \/ bs[b].st # "open" /\ UNCHANGED bs
          \/ /\ Len(bs[b].queue) < BufferSize
             /\ bs' = [bs EXCEPT ![b].queue = Append(@, work.block)]
    /\ NextStream
    /\ UNCHANGED <<clients, req, subscriptions, statusQueue, batches, timeoutQueue, next, blockStreams>>

\* The timer wins the select while the queue is full.
SendBlockTimesOut ==
    /\ work.streams # <<>> /\ ~work.slow
    /\ LET b == Head(work.streams) IN bs[b].st = "open" /\ Len(bs[b].queue) >= BufferSize
    /\ work' = [work EXCEPT !.slow = TRUE]
    /\ UNCHANGED <<clients, req, subscriptions, statusQueue, batches, timeoutQueue, blockPart>>

\* The slow stream is cancelled; its worker may have emptied the queue meanwhile.
onSlow_Skip(b) == UNCHANGED bs
onSlow(b) == bs' = IF bs[b].st = "open" THEN [bs EXCEPT ![b].st = "cancelled"] ELSE bs

CancelSlowStream ==
    /\ work.slow
    /\ onSlow(Head(work.streams))
    /\ NextStream
    /\ UNCHANGED <<clients, req, subscriptions, statusQueue, batches, timeoutQueue, next, blockStreams>>

-----------------------------------------------------------------------------
Run ==
    \/ HandleRequest \/ StartTimer \/ removeAndEnqueueStatusEvents
    \/ \E r \in timeoutQueue : removeAndEnqueueTimeoutEvents(r)
    \/ \E e \in work.writes : Write(e) \/ WriteTimesOut(e)
    \/ dispatchBlockToStreams \/ SendBlock \/ SendBlockTimesOut \/ CancelSlowStream
Timers == \E r \in DOMAIN req : FireTimer(r)
Workers == \E b \in BlockStream : streamWorker(b) \/ StreamBlocksReturns(b)
Readers == \E s \in Stream : Receive(s)
Environment ==
    \/ \E s \in Stream, ids \in Asks : Request(s, ids)
    \/ \E s \in Leaving \cap Stream : Close(s)
    \/ \E ids \in Batches : Report(ids)
    \/ \E b \in BlockStream : registerBlockStream(b)
    \/ \E b \in Leaving \cap BlockStream : ClientEnds(b)

Next == Run \/ Timers \/ Workers \/ Readers \/ Environment

Spec == Init /\ [][Next]_vars

\* Go schedules the goroutines, its timers fire, and every client reads what it is sent.
FairSpec == Spec /\ WF_vars(Run) /\ WF_vars(Timers) /\ WF_vars(Workers) /\ WF_vars(Readers)

-----------------------------------------------------------------------------
(* Properties *)

Subscribed(r) == {id \in TxID : r \in subs[id]}

\* The slots in use are the subscriptions: a repeated id, a status that ends the
\* subscriptions of several requests, or a timer that fires while a status is
\* handled takes and returns each slot once (addRequest, removeAndEnqueue*).
SlotsExact ==
    availableSlots + Cardinality(ended(TxID)) = MaxActiveTxIDs

\* What was or will be reported on a request's id, rejections apart.
Answers(r, id) ==
    {k \in {"status", "timeout", "lost"} : <<id, k>> \in req[r].told}
    \cup {e.kind : e \in {e \in work.writes : <<r, id>> \in e.pairs /\ e.kind # "rejected"}}

\* An accepted id is subscribed until one answer to it is produced: a status or a
\* timeout, never both and never none; an id that was not accepted gets neither.
\* The answer may be lost only on a stream whose queue is full.
AnsweredOnce ==
    \A r \in DOMAIN req : \A id \in TxID :
        Cardinality(Answers(r, id)) = IF id \in req[r].accepted \ Subscribed(r) THEN 1 ELSE 0

\* The client of StreamBlocks receives every block from its first one on, in order
\* and without a gap, and of each block the events its filters select, whatever the
\* time at which it registered, fell behind or ended (dispatchBlockToStreams).  Only
\* a block taken after the stream was cancelled as too slow, the last one, may come
\* after a gap.
BlockRun ==
    \A b \in BlockStream : \A i \in DOMAIN bs[b].got :
        LET last == bs[b].late /\ i = Len(bs[b].got)
            g == bs[b].got[i]
        IN /\ IF last THEN g.number >= bs[b].from + i - 1 ELSE g.number = bs[b].from + i - 1
           /\ {e.id : e \in Elements(g.events)}
              = {tx.id : tx \in {t \in Elements(Blocks[g.number]) :
                    /\ FilterStatus[b] = {} \/ t.status \in FilterStatus[b]
                    /\ FilterNamespaces[b] = {} \/ t.namespaces \cap FilterNamespaces[b] # {}}}

\* Slots come back: every subscription ends with a status or a timeout, also when
\* its stream ended or when a part of its request was rejected.
SlotsReturn == []<>(availableSlots = MaxActiveTxIDs)

==============================================================================
