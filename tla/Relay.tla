-------------------------------- MODULE Relay --------------------------------
(***************************************************************************)
(* One session of the sidecar's relay: preProcessBlock with the dedup set  *)
(* and the config and snapshot barriers, sendBlocksToCoordinator,          *)
(* processStatusBatch with the checkpoint gate, the in-order commit both   *)
(* of them run under one lock, and setLastCommittedBlockNumber.            *)
(*                                                                         *)
(* A transaction is a record of its id and what parsing made of it:        *)
(*   tx, config, snapshot, checkpoint  well formed                         *)
(*   stored    rejected with a status the state DB stores                  *)
(*   bad       rejected with a status it does not store (no id)            *)
(*   unusable  a config transaction that fails its block                   *)
(* It is named by its reference, the block number and its position, and    *)
(* travels with what the mapping decided: sent as it is, or as rejected.   *)
(*                                                                         *)
(* Every write to an outgoing queue (config blocks, status reports,        *)
(* committed blocks) is a step of its own, before which the goroutine      *)
(* holds what it holds in the code. The readers of these queues never wait *)
(* for the relay, so a full queue only delays the step.                    *)
(***************************************************************************)
EXTENDS Integers, FiniteSets, Sequences

CONSTANTS
    Blocks,             \* the ordered blocks: a sequence of sequences of [id, kind]
    WaitingTxsLimit,    \* config: transactions that may be in flight
    QueueCap,           \* buffer of the mapped block queue
    Verdicts            \* what the VC may answer to a checkpoint: committed, hold, halt

\* What parseMessage makes of a message.
Malformed == {"stored", "bad"}
Kind == {"tx", "config", "snapshot", "checkpoint", "unusable"} \cup Malformed

Num == DOMAIN Blocks
Ref == UNION {{<<b, i>> : i \in DOMAIN Blocks[b]} : b \in Num}
TxOf(r) == Blocks[r[1]][r[2]]
Id == {TxOf(r).id : r \in Ref}
Tx == [ref : Ref, rejected : BOOLEAN]
Feedback == {"hold", "halt"}
Status == {"committed", "stored", "bad", "duplicate", "second snapshot"}
NotYet == "none"
NoRef == <<0, 0>>

\* The orderers put a config transaction alone in its block (mapping_test.go:701).
ASSUME RelayAssumption ==
    /\ Len(Blocks) \in Nat /\ Num = 1..Len(Blocks)
    /\ \A b \in Num :
          /\ Len(Blocks[b]) \in Nat /\ DOMAIN Blocks[b] = 1..Len(Blocks[b])
          /\ \A i \in DOMAIN Blocks[b] :
                Blocks[b][i].kind \in Kind /\ (Blocks[b][i].kind = "config" => Len(Blocks[b]) = 1)
    /\ WaitingTxsLimit \in Nat \ {0} /\ QueueCap \in Nat \ {0}
    /\ Verdicts \subseteq {"committed", "hold", "halt"}

VARIABLES
    alive,          \* the session has not ended with an error
    \* preProcessBlock
    incoming,       \* number of the next block from the delivery client
    dedup,          \* txIDDedup: a set of [num, ids], the ids each block added
    todo,           \* what is left to submit of the current block
    forwarded,      \* the last block written to outgoingConfigBlocks, or 0
    available,      \* waitingTxsSlots
    \* blockWithStatus of the mapped blocks
    txStatus, pendingCount,
    \* sendBlocksToCoordinator
    mappedq, spc, segment,
    \* inFlightBlocks
    nextBlockNum, count,
    \* processStatusBatch
    statusq,        \* a set of [tx, status]: the services answer in any order
    tpc,
    processed,      \* txStatusProcessedCount: final statuses whose slots are not yet returned
    committedBlockMu,
    \* outgoing
    emitting,       \* block dropped from the window and not yet written, or 0
    emitted,        \* the blocks written to the ledger's queue
    \* setLastCommittedBlockNumber
    lastSet,
    \* the coordinator and the services behind it
    sent, stored

mapping == <<incoming, dedup, todo, forwarded>>
window == <<nextBlockNum, count>>
blocks == <<txStatus, pendingCount>>
sender == <<mappedq, spc, segment>>
receiver == <<statusq, tpc, processed>>
commit == <<committedBlockMu, emitting, emitted>>
committer == <<sent, stored>>
vars == <<alive, mapping, available, blocks, sender, window, receiver, commit, lastSet, committer>>

Drain == [op |-> "drain", num |-> 0, txs |-> {}]
NoSegment == [op |-> "none", num |-> 0, txs |-> {}]

Init ==
    /\ alive = TRUE
    /\ incoming = 1 /\ dedup = {} /\ todo = <<>> /\ forwarded = 0
    /\ available = WaitingTxsLimit
    /\ txStatus = [r \in Ref |-> NotYet]
    /\ pendingCount = [b \in Num |-> Len(Blocks[b])]
    /\ mappedq = <<>> /\ spc = "read" /\ segment = NoSegment
    /\ nextBlockNum = 1 /\ count = 0
    /\ statusq = {} /\ tpc = "read" /\ processed = 0
    /\ committedBlockMu = "free" /\ emitting = 0 /\ emitted = <<>>
    /\ lastSet = 0
    /\ sent = {} /\ stored = [i \in Id |-> NoRef]

-----------------------------------------------------------------------------
(* mapBlock *)

\* IsStatusStoredInDB is false for these: the status is final at once.
Unstored == {"bad", "duplicate"}

\* The messages are applied in order, and every one with an id leaves it in the dedup set.
isDuplicate(b, known, i) ==
    \/ Blocks[b][i].id \in known
    \/ \E j \in 1..i - 1 : Blocks[b][j].kind # "bad" /\ Blocks[b][j].id = Blocks[b][i].id

Accepted(b, known) == {i \in DOMAIN Blocks[b] : Blocks[b][i].kind # "bad" /\ ~isDuplicate(b, known, i)}

Snapshots(b, known) == {i \in Accepted(b, known) : Blocks[b][i].kind = "snapshot"}

\* blockMapper.snapshotTx, the first of them: a set of one, or none.
snapshotTx(b, known) == {i \in Snapshots(b, known) : \A j \in Snapshots(b, known) : i <= j}

Rejected(b, known) ==
    {i \in Accepted(b, known) : Blocks[b][i].kind = "stored"} \cup (Snapshots(b, known) \ snapshotTx(b, known))

\* What is sent for the positions S of a block.
Txs(b, known, S) == {[ref |-> <<b, i>>, rejected |-> i \in Rejected(b, known)] : i \in S}

\* A config transaction cannot be rejected: one that fails, or is a duplicate, fails the block.
Fails(b, known) == \E i \in DOMAIN Blocks[b] :
    Blocks[b][i].kind = "unusable" \/ (Blocks[b][i].kind = "config" /\ isDuplicate(b, known, i))

\* The statuses that mapBlock sets itself.
mappedStatus(b, known, i) ==
    IF Blocks[b][i].kind = "bad" THEN "bad" ELSE IF isDuplicate(b, known, i) THEN "duplicate" ELSE NotYet

evictCommittedBelow_OneMore(num) == {d \in dedup : d.num > num}

\* The blocks evictCommittedBelow keeps.
evictCommittedBelow(num) == {d \in dedup : d.num >= num}

Config(b, known) == \E i \in Accepted(b, known) : Blocks[b][i].kind = "config"
Segment(b, S) == [op |-> "queue", num |-> b, txs |-> S]
Batch(b, known) == Segment(b, Txs(b, known, Accepted(b, known) \ snapshotTx(b, known)))
SnapshotSegment(b, known) == Segment(b, Txs(b, known, snapshotTx(b, known)))

\* submitSnapshotBlock without the drain before the snapshot segment.
submitMappedBlock_NoDrain(b, known) ==
    IF Config(b, known) THEN <<Drain, Batch(b, known), Drain>>
    ELSE IF snapshotTx(b, known) = {} THEN <<Batch(b, known)>>
    ELSE IF Batch(b, known).txs = {} THEN <<SnapshotSegment(b, known), Drain>>
    ELSE <<Batch(b, known), SnapshotSegment(b, known), Drain>>

\* submitConfigBlock, submitSnapshotBlock and the common case.
submitMappedBlock(b, known) ==
    IF Config(b, known) THEN <<Drain, Batch(b, known), Drain>>
    ELSE IF snapshotTx(b, known) = {} THEN <<Batch(b, known)>>
    ELSE IF Batch(b, known).txs = {} THEN <<Drain, SnapshotSegment(b, known), Drain>>
    ELSE <<Batch(b, known), Drain, SnapshotSegment(b, known), Drain>>

\* mapBlock, with the ids that are in flight known.
mapBlock(b, kept, known) ==
    /\ dedup' = kept \cup {[num |-> b, ids |-> {Blocks[b][i].id : i \in Accepted(b, known)}]}
    /\ txStatus' = [r \in Ref |-> IF r[1] = b THEN mappedStatus(b, known, r[2]) ELSE txStatus[r]]
    /\ pendingCount' = [pendingCount EXCEPT ![b] = Cardinality(Accepted(b, known))]
    /\ todo' = submitMappedBlock(b, known)
    /\ incoming' = b + 1 /\ UNCHANGED forwarded

\* A config transaction that cannot be processed ends the session.
MapBlock ==
    /\ alive /\ todo = <<>> /\ incoming \in Num
    /\ LET kept == evictCommittedBelow(nextBlockNum)
           known == UNION {d.ids : d \in kept}
       IN  IF Fails(incoming, known)
           THEN alive' = FALSE /\ UNCHANGED <<mapping, blocks>>
           ELSE mapBlock(incoming, kept, known) /\ UNCHANGED alive
    /\ UNCHANGED <<available, sender, window, receiver, commit, lastSet, committer>>

\* Slots.WaitTillEmpty.
WaitTillEmpty ==
    /\ alive /\ todo # <<>> /\ Head(todo).op = "drain"
    /\ available >= WaitingTxsLimit
    /\ todo' = Tail(todo)
    /\ UNCHANGED <<alive, incoming, dedup, forwarded, available, blocks, sender, window, receiver,
                   commit, lastSet, committer>>

\* The segment to queue is a config block that outgoingConfigBlocks did not get yet.
MustForward ==
    /\ \E t \in Head(todo).txs : TxOf(t.ref).kind = "config"
    /\ forwarded # Head(todo).num

\* submitConfigBlock writes the block to outgoingConfigBlocks before it queues it.
ForwardConfig ==
    /\ alive /\ todo # <<>> /\ Head(todo).op = "queue" /\ MustForward
    /\ forwarded' = Head(todo).num
    /\ UNCHANGED <<alive, incoming, dedup, todo, available, blocks, sender, window, receiver,
                   commit, lastSet, committer>>

inFlightTxCount(g) == Cardinality(g.txs)

\* queueMappedBlock: Slots.Acquire, then the write to the queue.
Acquire ==
    /\ alive /\ todo # <<>> /\ Head(todo).op = "queue" /\ ~MustForward
    /\ available >= 1
    /\ available' = available - inFlightTxCount(Head(todo))
    /\ todo' = [todo EXCEPT ![1].op = "write"]
    /\ UNCHANGED <<alive, incoming, dedup, forwarded, blocks, sender, window, receiver, commit,
                   lastSet, committer>>

HasRoom == Len(mappedq) < QueueCap

QueueMappedBlock ==
    /\ alive /\ todo # <<>> /\ Head(todo).op = "write" /\ HasRoom
    /\ mappedq' = Append(mappedq, Head(todo))
    /\ todo' = Tail(todo)
    /\ UNCHANGED <<alive, incoming, dedup, forwarded, available, blocks, spc, segment, window,
                   receiver, commit, lastSet, committer>>

-----------------------------------------------------------------------------
(* sendBlocksToCoordinator *)

isNew(num) == num = nextBlockNum + count

mayRegister(num) == num \in nextBlockNum..(nextBlockNum + count)

nothingPending_Never(num) == FALSE

nothingPending(num) == pendingCount[num] = 0

\* inFlightBlocks.register: a number past the window is an error.
Register ==
    /\ alive /\ spc = "read" /\ mappedq # <<>>
    /\ LET num == Head(mappedq).num
       IN  /\ alive' = mayRegister(num)
           /\ count' = IF isNew(num) THEN count + 1 ELSE count
           /\ spc' = IF nothingPending(num) THEN "lock" ELSE "send"
    /\ segment' = Head(mappedq)
    /\ mappedq' = Tail(mappedq)
    /\ UNCHANGED <<mapping, available, blocks, nextBlockNum, receiver, commit, lastSet, committer>>

Send ==
    /\ alive /\ spc = "send"
    /\ sent' = sent \cup segment.txs
    /\ spc' = "read" /\ segment' = NoSegment
    /\ UNCHANGED <<alive, mapping, available, blocks, mappedq, window, receiver, commit, lastSet, stored>>

-----------------------------------------------------------------------------
(* processStatusBatch *)

setFinalStatus(r, s) ==
    /\ txStatus' = [txStatus EXCEPT ![r] = s]
    /\ pendingCount' = [pendingCount EXCEPT ![r[1]] = @ - 1]

\* inFlightBlocks.get: the block of r is tracked. blockWithStatus.holds is true for it, as a
\* status answers what this session sent.
Tracked(r) == r[1] \in nextBlockNum..(nextBlockNum + count - 1)

\* One status of a batch. A second result for a transaction ends the session.
ProcessStatus(s) ==
    /\ alive /\ tpc \in {"read", "batch"} /\ s \in statusq /\ s.status \notin Feedback
    /\ IF ~Tracked(s.tx.ref)
       THEN tpc' = "batch" /\ UNCHANGED <<alive, blocks, processed>>
       ELSE IF txStatus[s.tx.ref] # NotYet
       THEN alive' = FALSE /\ UNCHANGED <<tpc, blocks, processed>>
       ELSE /\ setFinalStatus(s.tx.ref, s.status)
            /\ processed' = processed + 1
            /\ tpc' = "batch"
            /\ UNCHANGED alive
    /\ statusq' = statusq \ {s}
    /\ UNCHANGED <<mapping, available, sender, window, commit, lastSet, committer>>

\* The end of a batch: its report is written to outgoingStatusUpdates, then its slots are
\* returned.
ReleaseSlots ==
    /\ alive /\ tpc = "batch"
    /\ available' = available + processed
    /\ processed' = 0
    /\ tpc' = "lock"
    /\ UNCHANGED <<alive, mapping, blocks, sender, window, statusq, commit, lastSet, committer>>

releaseCheckpointSlot(r) == IF Tracked(r) THEN available + 1 ELSE available

\* processCheckpointFeedback: a halt ends the session, a hold waits first.
ProcessFeedback(s) ==
    /\ alive /\ tpc = "read" /\ s \in statusq /\ s.status \in Feedback
    /\ available' = releaseCheckpointSlot(s.tx.ref)
    /\ statusq' = statusq \ {s}
    /\ alive' = (s.status # "halt")
    /\ tpc' = "hold"
    /\ UNCHANGED <<mapping, processed, blocks, sender, window, commit, lastSet, committer>>

\* The wait is over: the session ends so that the block is fetched again.
HoldEnds ==
    /\ alive /\ tpc = "hold"
    /\ alive' = FALSE
    /\ UNCHANGED <<mapping, available, blocks, sender, window, receiver, commit, lastSet, committer>>

-----------------------------------------------------------------------------
(* processCommittedBlocksInOrder, run by both goroutines *)

Lock ==
    /\ alive /\ committedBlockMu = "free"
    /\ \/ /\ spc = "lock" /\ spc' = "commit" /\ committedBlockMu' = "sender"
          /\ UNCHANGED tpc
       \/ /\ tpc = "lock" /\ tpc' = "commit" /\ committedBlockMu' = "status"
          /\ UNCHANGED spc
    /\ UNCHANGED <<alive, mapping, available, blocks, mappedq, segment, window, statusq, processed, emitting,
                   emitted, lastSet, committer>>

NextIsCommitted_Any == count > 0

NextIsCommitted == count > 0 /\ pendingCount[nextBlockNum] = 0

\* inFlightBlocks.dropCommittedBlock.
DropCommittedBlock ==
    /\ alive /\ committedBlockMu # "free" /\ emitting = 0
    /\ NextIsCommitted
    /\ nextBlockNum' = nextBlockNum + 1
    /\ count' = count - 1
    /\ emitting' = nextBlockNum
    /\ UNCHANGED <<alive, mapping, available, blocks, sender, receiver, committedBlockMu, emitted,
                   lastSet, committer>>

EmitBlock ==
    /\ alive /\ emitting # 0
    /\ emitted' = Append(emitted, emitting)
    /\ emitting' = 0
    /\ UNCHANGED <<alive, mapping, available, blocks, sender, window, receiver, committedBlockMu,
                   lastSet, committer>>

Unlock ==
    /\ alive /\ committedBlockMu # "free" /\ emitting = 0 /\ ~NextIsCommitted
    /\ IF committedBlockMu = "sender"
       THEN spc' = "send" /\ UNCHANGED tpc
       ELSE tpc' = "read" /\ UNCHANGED spc
    /\ committedBlockMu' = "free"
    /\ UNCHANGED <<alive, mapping, available, blocks, mappedq, segment, window, statusq, processed, emitting,
                   emitted, lastSet, committer>>

setLastCommittedBlockNumber ==
    /\ alive /\ lastSet # nextBlockNum - 1
    /\ lastSet' = nextBlockNum - 1
    /\ UNCHANGED <<alive, mapping, available, blocks, sender, window, receiver, commit, committer>>

-----------------------------------------------------------------------------
(* The coordinator and the VCs answer in any order; the state DB gives the  *)
(* first transaction of an id its status and rejects the others.            *)
Outcome(t) ==
    CASE stored[TxOf(t.ref).id] # NoRef -> {"duplicate"}
      [] stored[TxOf(t.ref).id] = NoRef /\ t.rejected ->
            IF TxOf(t.ref).kind = "snapshot" THEN {"second snapshot"} ELSE {"stored"}
      [] stored[TxOf(t.ref).id] = NoRef /\ ~t.rejected /\ TxOf(t.ref).kind = "checkpoint" -> Verdicts
      [] OTHER -> {"committed"}

Answer(t, o) ==
    /\ t \in sent /\ o \in Outcome(t)
    /\ sent' = sent \ {t}
    /\ statusq' = statusq \cup {[tx |-> t, status |-> o]}
    /\ stored' = IF o \in Feedback \cup {"duplicate"} THEN stored
                 ELSE [stored EXCEPT ![TxOf(t.ref).id] = t.ref]
    /\ UNCHANGED <<alive, mapping, available, blocks, sender, window, tpc, processed, commit, lastSet>>

PreProcess == MapBlock \/ WaitTillEmpty \/ ForwardConfig \/ Acquire \/ QueueMappedBlock
Committing == Lock \/ DropCommittedBlock \/ EmitBlock \/ Unlock
Answers == \E t \in sent, o \in Status \cup Feedback : Answer(t, o)
Statuses == (\E s \in statusq : ProcessStatus(s) \/ ProcessFeedback(s)) \/ ReleaseSlots \/ HoldEnds

Next ==
    \/ PreProcess \/ Register \/ Send \/ Statuses \/ Committing
    \/ setLastCommittedBlockNumber \/ Answers

Spec == Init /\ [][Next]_vars

Fairness ==
    /\ WF_vars(PreProcess) /\ WF_vars(Register \/ Send) /\ WF_vars(Statuses)
    /\ WF_vars(Committing) /\ WF_vars(Answers)
    /\ WF_vars(setLastCommittedBlockNumber)

FairSpec == Spec /\ Fairness

-----------------------------------------------------------------------------
(* Properties *)

Before(q, r) == q[1] < r[1] \/ (q[1] = r[1] /\ q[2] < r[2])

\* The id of r was used before it.
Repeats(r) == \E q \in Ref : Before(q, r) /\ TxOf(q).kind # "bad" /\ TxOf(q).id = TxOf(r).id
RepeatsInBlock(r) == \E q \in Ref : q[1] = r[1] /\ q[2] < r[2] /\ TxOf(q).kind # "bad" /\ TxOf(q).id = TxOf(r).id

\* The snapshot transactions of the block before r.
SnapshotsBefore(r) == {q \in Ref : q[1] = r[1] /\ q[2] < r[2] /\ TxOf(q).kind = "snapshot"}

\* What the ordered blocks alone say about a transaction. A snapshot whose id comes from
\* an earlier block is the first of its block or not, as the dedup set holds the id or not.
Expected(r) ==
    IF TxOf(r).kind = "bad" THEN {"bad"}
    ELSE IF Repeats(r) THEN {"duplicate"}
    ELSE IF TxOf(r).kind = "stored" THEN {"stored"}
    ELSE IF TxOf(r).kind # "snapshot" \/ \A q \in SnapshotsBefore(r) : RepeatsInBlock(q) THEN {"committed"}
    ELSE IF \E q \in SnapshotsBefore(r) : ~Repeats(q) THEN {"second snapshot"}
    ELSE {"committed", "second snapshot"}

\* mapBlock, the dedup set and processStatusBatch: whenever statuses arrive, ids are
\* evicted and VCs work, of the transactions with one id the first one counts, and every
\* other status follows from the order of the blocks. There is one exception: a snapshot
\* transaction whose predecessors in the block all repeat an id, one of them from an
\* earlier block, is the first or the second of its block (docs/sidecar.md:312-314 "is
\* rejected regardless of the first snapshot's outcome") as that id is evicted or not.
StatusFromOrder == \A r \in Ref : txStatus[r] = NotYet \/ txStatus[r] \in Expected(r)

\* Transactions between Slots.Acquire and their final status.
SegTxs(q) == UNION {q[i].txs : i \in DOMAIN q}
Writing == IF todo # <<>> /\ Head(todo).op = "write" THEN Head(todo).txs ELSE {}
Answered == {s.tx : s \in statusq}
InFlight == Writing \cup SegTxs(mappedq) \cup segment.txs \cup sent \cup Answered

Barrier(t) == TxOf(t.ref).kind = "config" \/ (TxOf(t.ref).kind = "snapshot" /\ ~t.rejected)

\* submitConfigBlock and submitSnapshotBlock: a config transaction, or the snapshot
\* transaction that counts, is in flight alone.
BarrierAlone == alive => \A t \in InFlight : Barrier(t) => InFlight = {t}

\* The block number in the state DB never passes a block whose statuses
\* recovery could not read back from it.
LastSetIsRecoverable ==
    \A r \in Ref : r[1] <= lastSet =>
        txStatus[r] \in Unstored \/ (txStatus[r] # NotYet /\ stored[TxOf(r).id] = r)

\* Every block is committed, unless a checkpoint that does not match ends the
\* session at the gate. Comments in sendBlocksToCoordinator and
\* processStatusBatch: the errors of register and setFinalStatus can never
\* occur, so nothing else ends it.
AllEmitted ==
    <>((~alive /\ tpc = "hold") \/ (Len(emitted) = Len(Blocks) /\ lastSet = Len(Blocks)))

==============================================================================
