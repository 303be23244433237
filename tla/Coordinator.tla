----------------------------- MODULE Coordinator -----------------------------
(***************************************************************************)
(* The coordinator between the sidecar and the validator-committers (VCs): *)
(* the block stream and its two goroutines, the count of transactions in   *)
(* progress, the status queue, the idle check the sidecar polls before it  *)
(* opens a new stream, and the VC manager with its bookkeeping of what was *)
(* sent to which VC.                                                       *)
(*                                                                         *)
(* A block is a sequence of chunks for the dependency graph and a set of   *)
(* rejected transactions.  The graph and the signature verifiers are the   *)
(* stage in between; what matters of the graph is that it takes the        *)
(* batches in the order of their ids and that a transaction waits for an   *)
(* earlier node with its keys (here: its own node of an earlier session).  *)
(* Status batches carry one transaction.                                   *)
(***************************************************************************)
EXTENDS Integers, FiniteSets, Sequences, SequencesExt, FiniteSetsExt

CONSTANTS
    Deployments,    \* set of [blocks, held, vcs, sessions, failures]: a sequence of
                    \* [chunks : Seq(SUBSET Node), rejected : SUBSET Node], the checkpoint
                    \* transactions answered with feedback instead of a status, the VCs
                    \* in use, and the bounds on streams opened and VC stream failures
    VC,             \* the VC services
    QueueCap        \* buffer of every queue between the parts

VARIABLE deployment     \* one of Deployments

Blocks == deployment.blocks
Checkpoints == deployment.held
MaxSessions == deployment.sessions
MaxFailures == deployment.failures
NodesOf(b) == (UNION ToSet(Blocks[b].chunks)) \cup Blocks[b].rejected
Node == UNION {UNION ToSet(d.chunks) \cup d.rejected : d \in UNION {ToSet(e.blocks) : e \in Deployments}}
NoNode == "none"

ASSUME QueueCap \in Nat \ {0}

VARIABLES
    \* the sidecar's stream
    session,        \* streams opened so far
    streamActive,   \* who holds the lock: "free", "stream" or "idle"
    ctxDone,        \* the context of the current stream is cancelled
    nextBlock,      \* next block the sidecar sends on the stream
    received,       \* history: received[n]: times n was received
    delivered,      \* history: delivered[n]: statuses of n sent to the sidecar
    \* receiveAndProcessBlock
    rpc, rChunks, rRejected,
    \* sendTxStatus
    spc, sNode,
    \* NoPendingTransactionProcessing
    ipc, iDiscarded, iLoaded, idle,
    \* counters
    numTxsInProgress, txBatchIDToDepGraph, dropped,
    \* dependency graph and verifiers
    depq, lastID, graph, pool, toVC, vcq, validatedq,
    \* validatorCommitterManager: one record per VC
    up, tracked, mpc, mNode, mTracked,
    \* the VC services
    work, out, committed, failures,
    \* txStatusQueue
    statusCh, readyCount

stream == <<session, streamActive, ctxDone, nextBlock, received, delivered>>
receiver == <<rpc, rChunks, rRejected>>
sender == <<spc, sNode>>
checker == <<ipc, iDiscarded, iLoaded, idle>>
stage == <<depq, lastID, graph, pool, toVC, vcq, validatedq>>
manager == <<up, tracked, mpc, mNode, mTracked>>
services == <<work, out, committed, failures>>
queue == <<statusCh, readyCount>>
vars == <<stream, receiver, sender, checker, numTxsInProgress, txBatchIDToDepGraph, dropped,
          stage, manager, services, queue>>

Init ==
    /\ deployment \in Deployments
    /\ session = 0 /\ streamActive = "free" /\ ctxDone = FALSE /\ nextBlock = 1
    /\ received = [n \in Node |-> 0] /\ delivered = [n \in Node |-> 0]
    /\ rpc = "off" /\ rChunks = <<>> /\ rRejected = {}
    /\ spc = "off" /\ sNode = NoNode
    /\ ipc = "off" /\ iDiscarded = 0 /\ iLoaded = 0 /\ idle = FALSE
    /\ numTxsInProgress = 0 /\ txBatchIDToDepGraph = 1 /\ dropped = {}
    /\ depq = <<>> /\ lastID = 0 /\ graph = {} /\ pool = {} /\ toVC = <<>> /\ vcq = <<>>
    /\ validatedq = <<>>
    /\ up = [v \in VC |-> TRUE] /\ tracked = [v \in VC |-> {}]
    /\ mpc = [v \in VC |-> "recv"] /\ mNode = [v \in VC |-> NoNode] /\ mTracked = [v \in VC |-> FALSE]
    /\ work = [v \in VC |-> [n \in Node |-> 0]] /\ out = [v \in VC |-> <<>>]
    /\ committed = {} /\ failures = 0
    /\ statusCh = <<>> /\ readyCount = 0

-----------------------------------------------------------------------------
(* BlockProcessing: the stream *)

\* The sidecar opens a stream only after an idle answer, and continues with
\* the first block that misses a status.
OpenStream ==
    /\ idle /\ streamActive = "free" /\ session < MaxSessions
    /\ session' = session + 1
    /\ streamActive' = "stream" /\ ctxDone' = FALSE /\ idle' = FALSE
    /\ nextBlock' = Min({b \in DOMAIN Blocks : \E n \in NodesOf(b) : delivered[n] = 0} \cup {Len(Blocks) + 1})
    /\ rpc' = "recv" /\ spc' = "read"
    /\ UNCHANGED <<received, delivered, rChunks, rRejected, sNode, ipc, iDiscarded, iLoaded,
                   numTxsInProgress, txBatchIDToDepGraph, dropped, stage, manager, services, queue>>

EndStream ==
    /\ streamActive = "stream" /\ ~ctxDone
    /\ ctxDone' = TRUE
    /\ UNCHANGED <<session, streamActive, nextBlock, received, delivered, receiver, sender, checker,
                   numTxsInProgress, txBatchIDToDepGraph, dropped, stage, manager, services, queue>>

\* BlockProcessing returns when both goroutines have.
CloseStream ==
    /\ streamActive = "stream" /\ rpc = "off" /\ spc = "off"
    /\ streamActive' = "free"
    /\ UNCHANGED <<session, ctxDone, nextBlock, received, delivered, receiver, sender, checker,
                   numTxsInProgress, txBatchIDToDepGraph, dropped, stage, manager, services, queue>>

-----------------------------------------------------------------------------
(* receiveAndProcessBlock *)

Receive ==
    /\ rpc = "recv" /\ ~ctxDone /\ nextBlock <= Len(Blocks)
    /\ rChunks' = Blocks[nextBlock].chunks
    /\ rRejected' = Blocks[nextBlock].rejected
    /\ nextBlock' = nextBlock + 1
    /\ received' = [n \in Node |-> IF n \in NodesOf(nextBlock) THEN received[n] + 1 ELSE received[n]]
    /\ numTxsInProgress' = numTxsInProgress + Cardinality(NodesOf(nextBlock))
    /\ rpc' = "write"
    /\ UNCHANGED <<session, streamActive, ctxDone, delivered, sender, checker, txBatchIDToDepGraph,
                   dropped, stage, manager, services, queue>>

\* The writer is bound to the stream's context: once that is cancelled the
\* write returns at once and its result is ignored.
WriteChunk ==
    /\ rpc = "write" /\ rChunks # <<>>
    /\ \/ /\ ctxDone
          /\ dropped' = dropped \cup Head(rChunks)
          /\ UNCHANGED depq
       \/ /\ ~ctxDone /\ Len(depq) < QueueCap
          /\ depq' = Append(depq, [id |-> txBatchIDToDepGraph, txs |-> Head(rChunks)])
          /\ UNCHANGED dropped
    /\ txBatchIDToDepGraph' = txBatchIDToDepGraph + 1
    /\ rChunks' = Tail(rChunks)
    /\ UNCHANGED <<stream, rpc, rRejected, sender, checker, numTxsInProgress, lastID, graph, pool,
                   toVC, vcq, validatedq, manager, services, queue>>

\* Rejected nodes go to the VC manager directly, through the queue the verifiers
\* write to.  The same writer: it waits for room, or drops once cancelled.
WriteRejected ==
    /\ rpc = "write" /\ rChunks = <<>>
    /\ \/ rRejected = {} /\ UNCHANGED <<dropped, toVC>>
       \/ rRejected # {} /\ ctxDone /\ dropped' = dropped \cup rRejected /\ UNCHANGED toVC
       \/ /\ rRejected # {} /\ ~ctxDone /\ Len(toVC) < QueueCap
          /\ toVC' = Append(toVC, rRejected)
          /\ UNCHANGED dropped
    /\ rRejected' = {}
    /\ rpc' = IF ctxDone THEN "off" ELSE "recv"
    /\ UNCHANGED <<stream, rChunks, sender, checker, numTxsInProgress, txBatchIDToDepGraph, depq,
                   lastID, graph, pool, vcq, validatedq, manager, services, queue>>

ReceiverStops ==
    /\ rpc = "recv" /\ ctxDone
    /\ rpc' = "off"
    /\ UNCHANGED <<stream, rChunks, rRejected, sender, checker, numTxsInProgress,
                   txBatchIDToDepGraph, dropped, stage, manager, services, queue>>

-----------------------------------------------------------------------------
(* sendTxStatus and txStatusQueue.read *)

SenderReads ==
    /\ spc = "read" /\ ~ctxDone /\ statusCh # <<>>
    /\ sNode' = Head(statusCh)
    /\ statusCh' = Tail(statusCh)
    /\ readyCount' = readyCount - 1
    /\ spc' = "count"
    /\ UNCHANGED <<stream, receiver, checker, numTxsInProgress, txBatchIDToDepGraph, dropped,
                   stage, manager, services>>

SenderCounts ==
    /\ spc = "count"
    /\ numTxsInProgress' = numTxsInProgress - 1
    /\ spc' = "send"
    /\ UNCHANGED <<stream, receiver, sNode, checker, txBatchIDToDepGraph, dropped, stage, manager,
                   services, queue>>

\* A cancelled stream fails the send; the status is gone.
SenderSends ==
    /\ spc = "send"
    /\ delivered' = IF ctxDone THEN delivered ELSE [delivered EXCEPT ![sNode] = @ + 1]
    /\ sNode' = NoNode
    /\ spc' = IF ctxDone THEN "off" ELSE "read"
    /\ UNCHANGED <<session, streamActive, ctxDone, nextBlock, received, receiver, checker,
                   numTxsInProgress, txBatchIDToDepGraph, dropped, stage, manager, services, queue>>

SenderStops ==
    /\ spc = "read" /\ ctxDone
    /\ spc' = "off"
    /\ UNCHANGED <<stream, receiver, sNode, checker, numTxsInProgress, txBatchIDToDepGraph, dropped,
                   stage, manager, services, queue>>

-----------------------------------------------------------------------------
(* NoPendingTransactionProcessing and txStatusQueue.drain *)

CheckStart ==
    /\ streamActive = "free" /\ ~idle /\ session < MaxSessions
    /\ streamActive' = "idle"
    /\ ipc' = "drain" /\ iDiscarded' = 0
    /\ UNCHANGED <<session, ctxDone, nextBlock, received, delivered, receiver, sender, iLoaded, idle,
                   numTxsInProgress, txBatchIDToDepGraph, dropped, stage, manager, services, queue>>

Buffered_Never == FALSE

Buffered == statusCh # <<>>

CheckDrain ==
    /\ ipc = "drain"
    /\ IF Buffered
       THEN /\ statusCh' = Tail(statusCh)
            /\ iDiscarded' = iDiscarded + 1
            /\ UNCHANGED <<readyCount, ipc>>
       ELSE /\ readyCount' = readyCount - iDiscarded
            /\ ipc' = "count"
            /\ UNCHANGED <<statusCh, iDiscarded>>
    /\ UNCHANGED <<stream, receiver, sender, iLoaded, idle, numTxsInProgress, txBatchIDToDepGraph,
                   dropped, stage, manager, services>>

AfterDrain == numTxsInProgress - iDiscarded

CheckCounts ==
    /\ ipc = "count"
    /\ numTxsInProgress' = AfterDrain
    /\ ipc' = "load"
    /\ iDiscarded' = 0
    /\ UNCHANGED <<stream, receiver, sender, iLoaded, idle, txBatchIDToDepGraph, dropped, stage,
                   manager, services, queue>>

CheckLoads ==
    /\ ipc = "load"
    /\ iLoaded' = numTxsInProgress
    /\ ipc' = "compare"
    /\ UNCHANGED <<stream, receiver, sender, iDiscarded, idle, numTxsInProgress,
                   txBatchIDToDepGraph, dropped, stage, manager, services, queue>>

NothingPending_EmptyQueue == readyCount = 0

NothingPending == iLoaded = readyCount

CheckAnswers ==
    /\ ipc = "compare"
    /\ idle' = NothingPending
    /\ ipc' = "off"
    /\ streamActive' = "free"
    /\ UNCHANGED <<session, ctxDone, nextBlock, received, delivered, receiver, sender, iDiscarded,
                   iLoaded, numTxsInProgress, txBatchIDToDepGraph, dropped, stage, manager, services,
                   queue>>

-----------------------------------------------------------------------------
(* Dependency graph and signature verifiers *)

\* Batches enter the graph in the order of their ids; a transaction waits for
\* an earlier node of its own.
GraphTakes ==
    /\ depq # <<>>
    /\ Head(depq).id = lastID + 1
    /\ Head(depq).txs \cap graph = {}
    /\ depq' = Tail(depq)
    /\ lastID' = lastID + 1
    /\ graph' = graph \cup Head(depq).txs
    /\ pool' = pool \cup Head(depq).txs
    /\ UNCHANGED <<stream, receiver, sender, checker, numTxsInProgress, txBatchIDToDepGraph,
                   dropped, toVC, vcq, validatedq, manager, services, queue>>

\* processValidatedTransactions: validated nodes leave the graph.
GraphReleases ==
    /\ validatedq # <<>>
    /\ graph' = graph \ {Head(validatedq)}
    /\ validatedq' = Tail(validatedq)
    /\ UNCHANGED <<stream, receiver, sender, checker, numTxsInProgress, txBatchIDToDepGraph,
                   dropped, depq, lastID, pool, toVC, vcq, manager, services, queue>>

\* A verifier's answer, once there is room for it.
Verified(n) ==
    /\ n \in pool /\ Len(toVC) < QueueCap
    /\ pool' = pool \ {n}
    /\ toVC' = Append(toVC, {n})
    /\ UNCHANGED <<stream, receiver, sender, checker, numTxsInProgress, txBatchIDToDepGraph,
                   dropped, depq, lastID, graph, vcq, validatedq, manager, services, queue>>

-----------------------------------------------------------------------------
(* validatorCommitterManager *)

ingestIncomingTxsToInternalQueue ==
    /\ toVC # <<>> /\ Len(vcq) < QueueCap
    /\ vcq' = Append(vcq, Head(toVC))
    /\ toVC' = Tail(toVC)
    /\ UNCHANGED <<stream, receiver, sender, checker, numTxsInProgress, txBatchIDToDepGraph,
                   dropped, depq, lastID, graph, pool, validatedq, manager, services, queue>>

\* addTxsBeingValidated and Send.
SendToVC(v) ==
    /\ v \in deployment.vcs /\ up[v] /\ vcq # <<>>
    /\ vcq' = Tail(vcq)
    /\ tracked' = [tracked EXCEPT ![v] = @ \cup Head(vcq)]
    /\ work' = [work EXCEPT ![v] = [n \in Node |-> IF n \in Head(vcq) THEN @[n] + 1 ELSE @[n]]]
    /\ UNCHANGED <<stream, receiver, sender, checker, numTxsInProgress, txBatchIDToDepGraph,
                   dropped, depq, lastID, graph, pool, toVC, validatedq, up, mpc, mNode, mTracked, out,
                   committed, failures, queue>>

Forwarded_Always(v, n) == TRUE

\* Whether a status or a checkpoint's feedback has its node here.
getTxs(v, n) == n \in tracked[v] \ Checkpoints
checkpointNodeToRelease(v, n) == n \in tracked[v] \cap Checkpoints

\* A status that is no longer tracked is dropped, feedback is forwarded all the same.
Forwarded(v, n) == getTxs(v, n) \/ n \in Checkpoints

ReceiveFromVC(v) ==
    /\ up[v] /\ mpc[v] = "recv" /\ out[v] # <<>>
    /\ LET n == Head(out[v])
       IN  /\ out' = [out EXCEPT ![v] = Tail(@)]
           /\ tracked' = [tracked EXCEPT ![v] = @ \ {n}]
           /\ IF Forwarded(v, n)
              THEN /\ mpc' = [mpc EXCEPT ![v] = "count"]
                   /\ mNode' = [mNode EXCEPT ![v] = n]
                   /\ mTracked' = [mTracked EXCEPT ![v] = getTxs(v, n) \/ checkpointNodeToRelease(v, n)]
              ELSE UNCHANGED <<mpc, mNode, mTracked>>
    /\ UNCHANGED <<stream, receiver, sender, checker, numTxsInProgress, txBatchIDToDepGraph,
                   dropped, stage, up, work, committed, failures, queue>>

\* txStatusQueue.write counts before it enqueues.
CountStatus(v) ==
    /\ mpc[v] = "count"
    /\ readyCount' = readyCount + 1
    /\ mpc' = [mpc EXCEPT ![v] = "enqueue"]
    /\ UNCHANGED <<stream, receiver, sender, checker, numTxsInProgress, txBatchIDToDepGraph,
                   dropped, stage, up, tracked, mNode, mTracked, services, statusCh>>

HasRoom == Len(statusCh) < QueueCap

EnqueueStatus(v) ==
    /\ mpc[v] = "enqueue" /\ HasRoom
    /\ statusCh' = Append(statusCh, mNode[v])
    /\ mpc' = [mpc EXCEPT ![v] = "node"]
    /\ UNCHANGED <<stream, receiver, sender, checker, numTxsInProgress, txBatchIDToDepGraph,
                   dropped, stage, up, tracked, mNode, mTracked, services, readyCount>>

\* The node goes back to the dependency graph after its status is queued, when
\* there is room.
ReleaseNode(v) ==
    /\ mpc[v] = "node"
    /\ IF mTracked[v]
       THEN Len(validatedq) < QueueCap /\ validatedq' = Append(validatedq, mNode[v])
       ELSE UNCHANGED validatedq
    /\ mpc' = [mpc EXCEPT ![v] = "recv"]
    /\ mNode' = [mNode EXCEPT ![v] = NoNode]
    /\ mTracked' = [mTracked EXCEPT ![v] = FALSE]
    /\ UNCHANGED <<stream, receiver, sender, checker, numTxsInProgress, txBatchIDToDepGraph,
                   dropped, depq, lastID, graph, pool, toVC, vcq, up, tracked, services, queue>>

\* The stream to v fails.  Requests on the wire are lost, and statuses on the
\* wire are; a VC that restarted has lost all its work and statuses, one that
\* did not keeps the rest for the next stream.
FailVC(v) ==
    /\ v \in deployment.vcs /\ up[v] /\ failures < MaxFailures
    /\ failures' = failures + 1
    /\ up' = [up EXCEPT ![v] = FALSE]
    /\ \E lost \in SUBSET Node, k \in 0..Len(out[v]) :
          /\ work' = [work EXCEPT ![v] = [n \in Node |-> IF n \in lost THEN 0 ELSE @[n]]]
          /\ out' = [out EXCEPT ![v] = SubSeq(@, k + 1, Len(@))]
    /\ UNCHANGED <<stream, receiver, sender, checker, numTxsInProgress, txBatchIDToDepGraph,
                   dropped, stage, tracked, mpc, mNode, mTracked, committed, queue>>

pendingTxs_None(v) == {}

pendingTxs(v) == tracked[v]

\* recoverPendingTransactions once both goroutines of the stream have returned
\* (what was received is forwarded first): one write to the internal queue,
\* which blocks while that is full.  Then a new stream.
ReconnectVC(v) ==
    /\ ~up[v] /\ mpc[v] = "recv"
    /\ IF pendingTxs(v) = {}
       THEN UNCHANGED vcq
       ELSE Len(vcq) < QueueCap /\ vcq' = Append(vcq, pendingTxs(v))
    /\ tracked' = [tracked EXCEPT ![v] = {}]
    /\ up' = [up EXCEPT ![v] = TRUE]
    /\ UNCHANGED <<stream, receiver, sender, checker, numTxsInProgress, txBatchIDToDepGraph,
                   dropped, depq, lastID, graph, pool, toVC, validatedq, mpc, mNode, mTracked, services, queue>>

-----------------------------------------------------------------------------
(* The VC service: commits a transaction and queues its status.  Two copies *)
(* of one transaction in a merged batch are answered once.                 *)
Commit(v, n) ==
    /\ work[v][n] > 0
    /\ \E left \in {0, work[v][n] - 1} : work' = [work EXCEPT ![v][n] = left]
    /\ committed' = IF n \in Checkpoints THEN committed ELSE committed \cup {n}
    /\ out' = [out EXCEPT ![v] = Append(@, n)]
    /\ UNCHANGED <<stream, receiver, sender, checker, numTxsInProgress, txBatchIDToDepGraph,
                   dropped, stage, manager, failures, queue>>

Receiver == Receive \/ WriteChunk \/ WriteRejected \/ ReceiverStops
Sender == SenderReads \/ SenderCounts \/ SenderSends \/ SenderStops
Checker == CheckStart \/ CheckDrain \/ CheckCounts \/ CheckLoads \/ CheckAnswers
Forwards(v) == ReceiveFromVC(v) \/ CountStatus(v) \/ EnqueueStatus(v) \/ ReleaseNode(v)
Works(v) == \E n \in Node : Commit(v, n)
Verifies == \E n \in pool : Verified(n)

\* What is in the coordinator and the services goes on, whatever part of it
\* runs, and so do the sidecar's polls; failures are not owed.
Pipeline ==
    \/ OpenStream \/ CloseStream \/ Receiver \/ Sender
    \/ GraphTakes \/ GraphReleases \/ Verifies \/ ingestIncomingTxsToInternalQueue
    \/ \E v \in VC : SendToVC(v) \/ Forwards(v) \/ ReconnectVC(v) \/ Works(v)

Next ==
    /\ Pipeline \/ Checker \/ EndStream \/ \E v \in VC : FailVC(v)
    /\ UNCHANGED deployment

Spec == Init /\ [][Next]_<<vars, deployment>>
Fairness == WF_vars(Pipeline) /\ WF_vars(Checker)

FairSpec == Spec /\ Fairness

-----------------------------------------------------------------------------
(* Properties *)

Total(f) == FoldFunction(LAMBDA S, sum : Cardinality(S) + sum, 0, f)

\* Transactions received that no VC has answered yet, counted where they are.
Unanswered ==
    Total(rChunks) + Cardinality(rRejected) + Total([i \in DOMAIN depq |-> depq[i].txs])
    + Cardinality(pool) + Total(toVC) + Total(vcq) + Total(tracked)

\* Transactions whose answer is on its way out and still counted as in progress.
Answered ==
    Cardinality({v \in VC : mpc[v] \in {"count", "enqueue"}}) + Len(statusCh)
    + iDiscarded + (IF spc = "count" THEN 1 ELSE 0)

\* numTxsInProgress counts a received transaction once until its status is sent
\* or discarded, whatever VC streams fail, transactions are resubmitted and
\* statuses arrive twice; what the receiver dropped stays counted.
InProgressExact == numTxsInProgress = Unanswered + Answered + Cardinality(dropped)

\* NoPendingTransactionProcessing answers true only when a VC has answered every
\* transaction received: none is left in the graph, with a verifier, in the VC
\* manager or with a VC, so resubmitting cannot race a first submission.
IdleMeansProcessed == idle => Unanswered = 0 /\ \A n \in Node : received[n] > 0 => n \in committed \cup Checkpoints

\* A closed stream can be followed by a new one: the idle check reaches true
\* with any number of statuses and a status queue of any size, unless the
\* receiver dropped a batch.
IdleEventually == []<>(streamActive = "stream" \/ idle \/ session = MaxSessions \/ dropped # {})

\* Every VC's stream has failed, and none is opened again before its pending
\* transactions are back in a queue that is full and that only the streams read.
RequeueStuck == \A v \in deployment.vcs : ~up[v] /\ tracked[v] # {} /\ Len(vcq) = QueueCap

\* While its stream lives, the sidecar gets the status of every transaction it
\* submits, although all queues may be full and the VC working on it may fail.  The
\* one way to lose it is that all VCs at once wait to re-queue into a full queue
\* (recoverPendingTransactions).
AnswerEventually ==
    \A n \in Node : []<>(received[n] = 0 \/ delivered[n] > 0 \/ ctxDone \/ RequeueStuck)
==============================================================================
